\* A task that does not end its frame may be slow as well.
SPECIFICATION GfxFairSpec
CONSTANTS
  GfxTaskNum = 3
  GfxMesgs = 1
  GfxPending = 2
  CfbNum = 2
  Pace = 1
  ShowAge = 3
  DarkAge = 4
  SlowTasks = {TRUE, FALSE}
  GfxResetFrames = 0
PROPERTY DrainEnds
CHECK_DEADLOCK FALSE
