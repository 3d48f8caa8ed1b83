SPECIFICATION HostSpec
CONSTANTS
  TotalPages = 8
  PageSize = 2
  LBASize <- LBASizes
  AllNamespaces = 9
  MaxEntries = 4
  MaxQueues = 4
  Workloads <- NVMWorkloads
  Chunks = 2
  Pages = 2
  WriteSize = 2
  Latency = 2
  Sessions <- OCSessions
  SATAWorkloads <- SATADrivers
  UFSWorkloads <- UFSDrivers
INVARIANTS
  NamespacesApart
  ReadsAnswered
  ProgramOnce
  StoredIsAccepted
  MovesRange
  CompletedIsDone
PROPERTIES
  CommandsAnswered
  LinksServed
CHECK_DEADLOCK FALSE
