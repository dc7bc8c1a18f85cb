--------------------------- MODULE MCToolBatches ---------------------------
(* One conversation.  Turn t1 has the batches b1 and b2, subagent t2 has b3  *)
(* or b4, the latter run by call k1.  Workloads: two batches of one turn, so  *)
(* that the first may earn a grant for the second; a turn and a subagent at   *)
(* a time, or one in the other; a batch with more messages than there is room.*)
EXTENDS ToolBatches, TLC

CONSTANTS b1, b2, b3, b4, k1, k2, k3, k4, k5, t1, t2, x, y, c1

MCCallsOf == b1 :> <<k1>> @@ b2 :> <<k2, k3>> @@ b3 :> <<k4>> @@ b4 :> <<k5>>
MCBatchTurn == b1 :> t1 @@ b2 :> t1 @@ b3 :> t2 @@ b4 :> t2
MCParentOf == [b \in Batches |-> IF b = b4 THEN k1 ELSE NoCall]
MCCapabilityOf == [k \in Calls |-> IF k = k3 THEN y ELSE x]
MCConversationOf == [z \in Batches \cup Messages |-> c1]
MCMessageTurn == [m \in Messages |-> IF m = 2 THEN t1 ELSE NoTurn]
MCWorkloads ==
  {[batches |-> {b1, b2}, messages |-> {}, stricter |-> {k3}, user |-> TRUE],
   [batches |-> {b1, b2}, messages |-> {}, stricter |-> {}, user |-> TRUE],
   [batches |-> {b1, b3}, messages |-> {}, stricter |-> {}, user |-> TRUE],
   [batches |-> {b1, b3}, messages |-> {1}, stricter |-> {}, user |-> FALSE],
   [batches |-> {b1, b4}, messages |-> {}, stricter |-> {}, user |-> TRUE],
   [batches |-> {b3}, messages |-> {1, 2, 3}, stricter |-> {}, user |-> TRUE]}
=============================================================================
