-------------------------- MODULE MCTurnsAndStore --------------------------
(* The two components that everything else is built on and that share no    *)
(* state, checked in one run: a behaviour is one of the turn coordinator    *)
(* over three turns and two steers, or one of the session store over two    *)
(* sessions, as "part" says from its first state.                           *)
EXTENDS TurnCoordinator, SessionStore, TLC

VARIABLE part

\* Sessions, turns and steers are interchangeable.
Symmetry == Permutations(Ids) \cup Permutations(Turns) \cup Permutations(Steers)

allVars == <<part, vars, storeVars>>

MCInit == part \in {"turns", "store"} /\ Init /\ StoreInit

TurnStep == part = "turns" /\ Next /\ UNCHANGED <<part, storeVars>>
StoreStep == part = "store" /\ StoreNext /\ UNCHANGED <<part, vars>>

\* The store may have used up its bounds; a deadlock of the coordinator is
\* one that TLC finds.
StoreRests == part = "store" /\ UNCHANGED allVars

MCNext == TurnStep \/ StoreStep \/ StoreRests

MCSpec == MCInit /\ [][MCNext]_allVars
=============================================================================
