\* Two graphics tasks, one audio task, no reset: liveness.
SPECIFICATION Spec
CONSTANTS
  g1 = g1
  g2 = g2
  g3 = g3
  fbA = fbA
  fbB = fbB
  GfxTasks = {g1, g2}
  AudioTasks = {au}
  NoTask = NoTask
  FirstTask = g1
  NextTask <- RingOfTwo
  NoRdp = {}
  SwapTasks = {g1, g2}
  Framebuffers = {fbA, fbB}
  FirstShown = fbB
  Framebuffer <- FramebufferOfTwo
  FrameBufferNum = 2
  MaxMesgs = 1
  FrameRate = 6
  RetraceCount = 1
  SwapAge = 1
  OffAge = 2
  ResetButton = FALSE
  ManagerLag = 0
PROPERTIES AllAcknowledged
