---------------------------- MODULE TurnLifecycle ----------------------------
(***************************************************************************)
(* What the turn coordinator promises to the rest of the runtime, without  *)
(* saying how: a turn is open from its admission to one outcome, guests    *)
(* (steers) keep it open while they are in, an outcome never changes, and  *)
(* outcomes are forgotten oldest first once more than Retention are kept.  *)
(* The promise to the guests of a turn has one exception (Displace): a     *)
(* steer that is none of them may take the place of one while the turn is  *)
(* open, and from then on the turn no longer knows who its guests are.     *)
(***************************************************************************)
EXTENDS Naturals, Sequences

CONSTANTS Turns, Steers, Retention, NoTurn

VARIABLES
  phase,  \* "absent", "open" or the outcome of each turn
  ended,  \* the turns whose outcome is kept, oldest first
  guest   \* the turn each steer is a guest of, or NoTurn

lifecycleVars == <<phase, ended, guest>>

Outcomes == {"completed", "cancelled", "failed"}

LifecycleInit ==
  /\ phase = [t \in Turns |-> "absent"]
  /\ ended = <<>>
  /\ guest = [s \in Steers |-> NoTurn]

\* A turn is admitted.
Open(t) ==
  /\ phase[t] = "absent"
  /\ phase' = [phase EXCEPT ![t] = "open"]
  /\ UNCHANGED <<ended, guest>>

\* A steer joins an open turn.
Join(s, t) ==
  /\ guest[s] = NoTurn
  /\ phase[t] = "open"
  /\ guest' = [guest EXCEPT ![s] = t]
  /\ UNCHANGED <<phase, ended>>

\* A steer leaves and the turn stays open.
Leave(s) ==
  /\ guest[s] # NoTurn
  /\ guest' = [guest EXCEPT ![s] = NoTurn]
  /\ UNCHANGED <<phase, ended>>

\* A steer that is no guest takes a place: the turn can count on none of them.
Displace(t) ==
  /\ phase[t] = "open"
  /\ guest' = [s \in Steers |-> IF guest[s] = t THEN NoTurn ELSE guest[s]]
  /\ UNCHANGED <<phase, ended>>

\* The turn gets its outcome; the oldest outcome goes if too many are kept.
Settle(t, outcome) ==
  LET full == Len(ended) >= Retention
  IN /\ phase[t] = "open"
     /\ ended' = IF full THEN Tail(Append(ended, t)) ELSE Append(ended, t)
     /\ phase' = [u \in Turns |-> IF full /\ u = Head(Append(ended, t))
                                  THEN "absent"
                                  ELSE IF u = t THEN outcome ELSE phase[u]]

\* A turn without guests ends.
End(t, outcome) ==
  /\ \A s \in Steers : guest[s] # t
  /\ Settle(t, outcome)
  /\ UNCHANGED guest

\* The last guest leaves, and the outcome it was holding back takes effect.
LeaveAndEnd(s, outcome) ==
  /\ guest[s] # NoTurn
  /\ \A r \in Steers \ {s} : guest[r] # guest[s]
  /\ Settle(guest[s], outcome)
  /\ guest' = [guest EXCEPT ![s] = NoTurn]

LifecycleNext ==
  \/ \E t \in Turns : Open(t) \/ Displace(t)
  \/ \E s \in Steers, t \in Turns : Join(s, t)
  \/ \E s \in Steers : Leave(s)
  \/ \E t \in Turns, o \in Outcomes : End(t, o)
  \/ \E s \in Steers, o \in Outcomes : LeaveAndEnd(s, o)

LifecycleSpec == LifecycleInit /\ [][LifecycleNext]_lifecycleVars

=============================================================================
