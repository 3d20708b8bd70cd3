\* One part at a time; a bound of each is explained in README.md, section 3.
SPECIFICATION DevSpec
CONSTANTS
  Mesgs = {x, y, z}
  msgCount = 3
  NvPVoices = 2
  NvPriority <- VoicePriority
  NvUpdates = 3
  NvGains = {23170}
  NvRamps = {0, 560}
  NvClients <- Players
  NvFrames = {368}
  b1 = b1
  b2 = b2
  b3 = b3
  rd = rd
  aud = aud
  Blocks <- AllBlocks
  Queues = {aud, rd}
  RetMax <- Slots
  Addrs = {0, 2, 8, 10}
  Rams = {b1, b2, b3, rd}
  Direct = {rd, aud}
  CmdMax = 3
  NoBlock = NoBlock
  NoDma = NoDma
  Threads = {rd}
  RomAddrs = {0}
  SampleAddrs = {0, 3, 8, 10}
  SramAddrs = {0}
  SramFlags = {"EDMAREAD", "EDMAWRITE"}
  MaxChunks = 2
  Buffers = {b1, b2, b3}
  FirstFree <- FreeList
  AudBlock <- Blk
  AudQueue = aud
  BufferSize = 4
  Lengths = {2}
  FrameLag = 0
  MaxFetches = 2
  Null = Null
  Invalid = Invalid
  ViTv = {"NTSC", "MPAL"}
  ViModeSet <- Modes
  ViBuffers = {"cfb0"}
  ViDivisors = {2}
  ViFeatures = {"DITHER_FILTER_ON", "DIVOT_OFF"}
  ViMaxCalls = 1
  GfxTaskNum = 3
  GfxMesgs = 1
  GfxPending = 2
  CfbNum = 2
  Pace = 1
  ShowAge = 3
  DarkAge = 4
  SlowTasks = {TRUE}
  GfxResetFrames = 0
  OscGraphics <- OscTasksOfFrames
  OscAudio = {"a1"}
  OscTypings <- OscTypes
  OscNone = "none"
  NSamples = 184
  ExtraRate = 20
  Calc = 534
  SilenceSize = 1
  QueueSize = 2
  NoBuffer = NoBuffer
  FrameSize = 4
  DecoderOut = 2
  Counts = {1, 2, 3, 4, 5, 6, 7, 8, 9}
  Sounds <- McSounds
  ContApps = {1, 2}
  SiMesgMax = 2
  RmbProfiles <- ContProfiles
  RmbModes = {"enable", "autorun"}
  SearchTime = 1
  ContCalls <- CallsOf
  ContMaxCalls = 5
  Paks <- McPaks
  MaxBanks = 3
  MaxFaulty = 1
  Schedules <- PakSchedules
  Tags = {1}
  GbDevices <- GbPorts
  GbRanges <- McRanges
  GbSchedules <- GbFaults
  GbMaxFaulty = 1
INVARIANTS TypeOK VoicesInv PiInv CacheInv ScanInFrame GfxInv OscInv AudInv PullsContinue ContInv PakInv GbInv
PROPERTIES RingImplementsQueue EvictsLeastRecent RequestsReturn ShowsSettings AudioFinishes MotorRests
CHECK_DEADLOCK FALSE
