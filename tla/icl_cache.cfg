SPECIFICATION Spec
CONSTANTS
  Configs <- CacheConfigs
INVARIANTS
  NeverCorrupted
  NothingLost
  ReadsLatest
  DiscardedGone
PROPERTIES
  FlushDrains
