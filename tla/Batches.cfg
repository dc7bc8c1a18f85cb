SPECIFICATION FairSpec
CONSTANTS
  b1 = b1
  b2 = b2
  b3 = b3
  b4 = b4
  k1 = k1
  k2 = k2
  k3 = k3
  k4 = k4
  k5 = k5
  t1 = t1
  t2 = t2
  x = x
  y = y
  c1 = c1
  NoTurn = NoTurn
  NoCall = NoCall
  Calls = {k1, k2, k3, k4, k5}
  Batches = {b1, b2, b3, b4}
  Messages = {1, 2, 3}
  Conversations = {c1}
  Turns = {t1, t2}
  Capabilities = {x, y}
  CallsOf <- MCCallsOf
  BatchTurn <- MCBatchTurn
  ParentOf <- MCParentOf
  Asking = {k1, k2, k3, k4}
  CapabilityOf <- MCCapabilityOf
  ConversationOf <- MCConversationOf
  MessageTurn <- MCMessageTurn
  Capacity = 2
  Slots = 1
  Workloads <- MCWorkloads
INVARIANTS
  BrokerInv
  RevocationStopsBatches
PROPERTIES
  DecidedAndHandledOnce
  NothingIsStuck
CHECK_DEADLOCK FALSE
