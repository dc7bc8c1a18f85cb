SPECIFICATION WritersSpec
CONSTANTS
  Ids = {a, b}
  Objects = {o1, o2, o3, o4}
  Turns = {t1, t2, t3}
  None = None
  ThreadSync = TRUE
  MaxSwitches = 2
SYMMETRY Symmetry
INVARIANTS
  WritersInv
  StoredUntilRecovery
  RevisionIdentifiesContent
CHECK_DEADLOCK FALSE
