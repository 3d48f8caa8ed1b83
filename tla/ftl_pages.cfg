SPECIFICATION FairSpec
CONSTANTS
  TotalPhysicalBlocks = 4
  PagesInBlock = 2
  IoUnitInPage = 2
  PageCountToMaxPerf = 1
  TotalLogicalPages = 2
  RandomTweak = FALSE
  GCThreshold = 2
  GCMode = 1
  ReclaimBlocks = 1
  ReclaimTarget = 3
  EvictPolicy = "COST_BENEFIT"
  DChoiceParam = 3
  BadBlockThreshold = 2
  FillingMode = 0
  NPagesToWarmup = 1
  NPagesToInvalidate = 1
  Commands = {"write", "read", "trim"}
  Data = {d1, d2}
  NoData = nodata
INVARIANTS
  RetiredNeverReused
  RunsOutOnlyWhenWorn
  OpenBlocksInUse
PROPERTIES
  EraseBeforeProgram
  ImplementsLogicalDisk
  CollectionEnds
