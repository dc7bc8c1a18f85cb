SPECIFICATION MCSpec
CONSTANTS
  t1 = t1
  t2 = t2
  t3 = t3
  s1 = s1
  s2 = s2
  Turns = {t1, t2, t3}
  Steers = {s1, s2}
  Retention = 1
  MaxCallbacks = 1
  NoTurn = NoTurn
  Ids = {i1, i2}
  None = None
  MaxTurns = 2
  MaxFaults = 2
  MaxCrashes = 2
SYMMETRY Symmetry
INVARIANTS
  TurnsInv
  ReportedIsOvertakenByCancel
  StoreInv
PROPERTIES
  CancellationIsNotOvertaken
  Implements
