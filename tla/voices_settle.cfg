\* One voice, a ramp of three blocks, and two changes at once within it.
SPECIFICATION NvSpec
CONSTANTS
  NvPVoices = 1
  NvPriority <- OneVoice
  NvUpdates = 3
  NvGains = {23170}
  NvRamps = {560}
  NvClients <- Mixer
  NvFrames = {368}
INVARIANTS SettlesWithinRamp
