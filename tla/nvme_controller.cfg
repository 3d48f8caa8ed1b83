SPECIFICATION Spec
CONSTANTS
  Users = {0, 1}
  QueueSize = 3
  Start = 2
  MaxRequest = 2
  Threshold = 1
  Scenarios <- MCScenarios
  MaxCommands = 3
INVARIANTS EachOnce NoPanic Signalled
PROPERTY Served
CHECK_DEADLOCK FALSE
