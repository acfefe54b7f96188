SPECIFICATION PowerOnSpec
CONSTANTS
  Chunk = 8
  Sectors = 64
  Stage2At = 7
  StagingAt = 16
  KernelAt = 256
  Wrap = 1073741824
  KernEnd = {266, 277, 320}
  ZonePages = 16384
  Bitmaps <- MCBitmaps
  GB = 262144
  DeviceGB = 3
  PhysMapGB = 512
INVARIANTS KernelInPlace InUseIsMapped BlocksStayApart LocksAreReady InterruptsAreExpected
CHECK_DEADLOCK FALSE
