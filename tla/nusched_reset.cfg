\* Two graphics tasks, one audio task, the reset button.
SPECIFICATION Spec
CONSTANTS
  g1 = g1
  g2 = g2
  g3 = g3
  fbA = fbA
  fbB = fbB
  GfxTasks = {g1, g2}
  AudioTasks = {au}
  NoTask = NoTask
  FirstTask = g1
  NextTask <- RingOfTwo
  NoRdp = {}
  SwapTasks = {g1, g2}
  Framebuffers = {fbA, fbB}
  FirstShown = fbB
  Framebuffer <- FramebufferOfTwo
  FrameBufferNum = 2
  MaxMesgs = 2
  FrameRate = 8
  RetraceCount = 1
  SwapAge = 2
  OffAge = 3
  ResetButton = TRUE
  ManagerLag = 1
PROPERTIES RspLeftAlone
