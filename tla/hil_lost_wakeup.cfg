SPECIFICATION FairSpec
CHECK_DEADLOCK FALSE
CONSTANTS
  r1 = r1
  r2 = r2
  r3 = r3
  Requests = {r1, r2, r3}
  Kinds = {"io", "result"}
  NCores = 2
  JobLatency = 1
  Latencies = {1, 2, 4}
  SchedLatency = 1
  InitialType = "CREDIT"
  SubmitBy = 3
PROPERTIES
  AllDelivered
