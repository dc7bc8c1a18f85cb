SPECIFICATION FairSpec
CONSTANTS
  i1 = i1
  i2 = i2
  i3 = i3
  c1 = c1
  o1 = o1
  o2 = o2
  o3 = o3
  sa = sa
  sb = sb
  Sessions = {sa, sb}
  Messages <- MCMessages
  Lane <- MCLane
  Priority <- MCPriority
  Session <- MCSession
  Capacity <- MCCapacity
  Scenarios <- MCScenarios
  StopLoop = TRUE
INVARIANTS
  BusInv
PROPERTIES
  LedgerOrder
  NobodyWaitsForEver
CHECK_DEADLOCK FALSE
