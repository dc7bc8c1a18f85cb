SPECIFICATION MCSpec
CONSTANTS
  Last = 4
  Critical = {1, 3, 4}
  Steps = 2
  Services = {agent, http}
  s1 = s1
  s2 = s2
  Turns = {1, 2, 3}
  Sessions = {s1, s2}
  SessionOf <- MCSessionOf
  MaxFaults = 3
  MaxExits = 2
INVARIANTS
  ProcessInv
PROPERTIES
  CloseOrder
  StopEnds
  TurnsAreKept
CHECK_DEADLOCK FALSE
