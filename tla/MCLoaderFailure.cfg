SPECIFICATION PowerOnSpec
CONSTANTS
  Chunk = 4
  Sectors = 16
  Stage2At = 3
  StagingAt = 8
  KernelAt = 32
  Wrap = 64
  KernEnd = {266}
  ZonePages = 16384
  Bitmaps <- MCBitmaps
  GB = 262144
  DeviceGB = 3
  PhysMapGB = 512
INVARIANT FailureHalts
CHECK_DEADLOCK FALSE
