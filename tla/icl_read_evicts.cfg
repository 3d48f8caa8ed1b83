SPECIFICATION Spec
CONSTANTS
  Configs <- PartialConfigs
INVARIANTS
  NothingLost
