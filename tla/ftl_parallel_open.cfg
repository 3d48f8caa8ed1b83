SPECIFICATION Spec
CONSTANTS
  TotalPhysicalBlocks = 6
  PagesInBlock = 2
  IoUnitInPage = 2
  PageCountToMaxPerf = 2
  TotalLogicalPages = 2
  RandomTweak = FALSE
  GCThreshold = 2
  GCMode = 0
  ReclaimBlocks = 1
  ReclaimTarget = 2
  EvictPolicy = "GREEDY"
  DChoiceParam = 3
  BadBlockThreshold = 2
  FillingMode = 0
  NPagesToWarmup = 0
  NPagesToInvalidate = 0
  Commands = {"write"}
  Data = {d1}
  NoData = nodata
INVARIANTS
  OpenBlocksInUse
