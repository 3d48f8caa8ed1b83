SPECIFICATION Spec
CONSTANTS
  TotalPhysicalBlocks = 4
  PagesInBlock = 1
  IoUnitInPage = 2
  PageCountToMaxPerf = 1
  TotalLogicalPages = 2
  RandomTweak = TRUE
  GCThreshold = 2
  GCMode = 0
  ReclaimBlocks = 1
  ReclaimTarget = 2
  EvictPolicy = "DCHOICE"
  DChoiceParam = 1
  BadBlockThreshold = 2
  FillingMode = 2
  NPagesToWarmup = 1
  NPagesToInvalidate = 2
  Commands = {"write", "read", "trim", "format"}
  Data = {d1}
  NoData = nodata
INVARIANTS
  MappedIsValid
  ValidIsMapped
  FreeListSound
  FillNeverCollects
