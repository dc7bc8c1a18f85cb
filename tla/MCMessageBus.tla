---------------------------- MODULE MCMessageBus ----------------------------
(* Publish calls on one of the input lanes, on both, or on the two output  *)
(* lanes.                                                                  *)
EXTENDS MessageBus, TLC

CONSTANTS i1, i2, i3, c1, o1, o2, o3, sa, sb

\* An ordinary input and two control inputs, of two sessions, in one lane; a command;
\* two ordinary replies and a control reply, on two lanes.
MCInputs == {i1, i2, i3}
MCReplies == {o1, o2, o3}
MCMessages == MCInputs \cup MCReplies \cup {c1}
MCScenarios == {MCInputs, {i1, c1}, MCReplies}
MCLane == c1 :> "commands" @@ [m \in MCInputs |-> "inbound"] @@ o3 :> "control" @@ [m \in MCReplies |-> "outbound"]
MCPriority == [m \in MCMessages |-> IF m \in {i1, c1, o1, o2} THEN 20 ELSE 10]
MCSession == [m \in MCMessages |-> IF m \in {i2, i3} THEN sb ELSE sa]
MCCapacity == [l \in Lanes |-> IF l = "outbound" THEN 2 ELSE 1]

=============================================================================
