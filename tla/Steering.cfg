SPECIFICATION SteeringSpec
CONSTANTS
  m1 = m1
  m2 = m2
  s1 = s1
  s2 = s2
  Inputs = {m1, m2, s1, s2}
  SteerMessages = {s1, s2}
  Submissions = {{m1, s1, s2}, {m1, m2, s1}}
  NoTurn = NoTurn
  Retention = 4
  MaxCallbacks = 0
  MaxCancels = 1
INVARIANTS
  SteeringInv
PROPERTIES
  GuidanceStaysInItsTurn
  AcceptedIsRecorded
  TurnsEnd
CHECK_DEADLOCK FALSE
