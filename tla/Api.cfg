SPECIFICATION FairApiSpec
CONSTANTS
  HistoryLimit = 2
  SubscriberLimit = 2
  MaxEvents = 5
  MaxLosses = 2
  MaxSuspends = 2
  MaxRestarts = 1
  v = v
  w = w
  u1 = u1
  u2 = u2
  p1 = p1
  l1 = l1
  Stored = {v, w}
  Uploads = {u1, u2}
  Paths = {p1}
  Leases = {l1}
  MaxBytes = 3
  MaxEntries = 2
  NoItem = NoItem
  Traffic <- MCTraffic
INVARIANTS
  EventsInv
  GapIsAnnounced
  ArtifactInv
  UploadsAreHonest
PROPERTIES
  EachOnceInOrder
  CatchesUp
CHECK_DEADLOCK FALSE
