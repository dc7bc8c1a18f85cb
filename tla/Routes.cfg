SPECIFICATION FairRoutesSpec
CONSTANTS
  a = a
  b = b
  c = c
  k1 = k1
  k2 = k2
  Requests = {a, b, c}
  Keys = {k1, k2}
  None = None
  Dispatcher = Dispatcher
  Plans <- MCPlans
  MaxMutations = 1
  MaxUsers = 2
  OutSize = 1
INVARIANTS
  RoutesInv
  OnceWhileRemembered
PROPERTIES
  DeletedAsSeen
  ServedUnlessWedged
CHECK_DEADLOCK FALSE
