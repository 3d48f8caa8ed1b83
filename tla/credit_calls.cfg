SPECIFICATION Spec
CHECK_DEADLOCK FALSE
CONSTANTS
  u1 = u1
  u2 = u2
  Admin = Admin
  NoUser = NoUser
  UserOrder <- MCUserOrder
  Period = 2
  Step = 1
  Budget = 2
  Scale = 2
  Cap = 2
  MaxIterations = 24
  MaxGuard = 4
  Commands = {"io", "result", "slet"}
  Lengths = {1, 2}
  IclLatency = 1
  Horizon = 4
  MaxRequests = 3
  MaxResets = 1
INVARIANTS
  TokensConserved
  BoundedUntilReset
  EachOnce
  ServedOnReturn
