\* Three graphics tasks, one audio task, the reset button.
SPECIFICATION Spec
CONSTANTS
  g1 = g1
  g2 = g2
  g3 = g3
  fbA = fbA
  fbB = fbB
  GfxTasks = {g1, g2, g3}
  AudioTasks = {au}
  NoTask = NoTask
  FirstTask = g1
  NextTask <- RingOf
  NoRdp = {g1}
  SwapTasks = {g2, g3}
  Framebuffers = {fbA, fbB}
  FirstShown = fbB
  Framebuffer <- FramebufferOf
  FrameBufferNum = 2
  MaxMesgs = 2
  FrameRate = 8
  RetraceCount = 1
  SwapAge = 2
  OffAge = 3
  ResetButton = TRUE
  ManagerLag = 1
INVARIANTS CompletionIsOwn YieldIsForGraphics InFlightIsCurrent ReleaseToCome
PROPERTIES StartsIdleRsp ResumesFromSave StartsOffScreen
