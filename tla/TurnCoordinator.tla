--------------------------- MODULE TurnCoordinator ---------------------------
(***************************************************************************)
(* nanocat/application/turns.py: TurnCoordinator, the in-memory record of  *)
(* every user turn.  One action per method; the agent loop, the Web        *)
(* channel and the HTTP API share one instance and call it in any order,   *)
(* and a method runs to completion on the event loop, so each is one step. *)
(*                                                                         *)
(* A steer is a browser message.  It joins a running turn, or opens a turn *)
(* of its own if none runs.  The token of a join is the metadata           *)
(* "_web_steer_reserved" / "_web_joined_turn", which its owner pops once,  *)
(* so a join is released once.  activate_web_steer() pops the token but    *)
(* does not ask for it: a steer that joined nothing, dispatched in the     *)
(* turn it opened, consumes the join of another steer of that turn.        *)
(*                                                                         *)
(* A definition named Bad... is a mutated form of the one that follows it; *)
(* no behaviour of the specification uses it.                              *)
(***************************************************************************)
EXTENDS Naturals, FiniteSets, Sequences

CONSTANTS
  Turns,        \* turn ids
  Steers,       \* browser steers
  Retention,    \* terminal_retention: how many ended turns stay readable
  MaxCallbacks, \* bound: finalizers that one turn may have pending
  NoTurn        \* held by a steer that has no join

ASSUME TurnAssumption ==
  /\ NoTurn \notin Turns
  /\ IsFiniteSet(Steers)
  /\ Retention \in Nat \ {0}
  /\ MaxCallbacks \in Nat

VARIABLES
  state,       \* _turns: the record's state, "absent" without a record
  joins,       \* _join_counts
  deferred,    \* _deferred_terminal: an outcome held open, or "none"
  finalizers,  \* _terminal_finalizers: how many callbacks are pending
  terminalIds, \* _terminal_ids: ended turns, oldest first
  held,        \* for each steer, the turn whose join it holds
  announced,   \* outcomes release_join returned for the present record
  overdrawn    \* history: turns that gave up a join to a steer that had none

vars == <<state, joins, deferred, finalizers, terminalIds, held, announced, overdrawn>>

Terminal == {"completed", "cancelled", "failed"}
Live     == {"received", "running", "waiting_for_user", "cancelling"}
Joinable == Live \ {"cancelling"}

TypeOK ==
  /\ state \in [Turns -> Live \union Terminal \union {"absent"}]
  /\ joins \in [Turns -> Nat]
  /\ deferred \in [Turns -> Terminal \union {"none"}]
  /\ finalizers \in [Turns -> Nat]
  /\ terminalIds \in Seq(Turns)
  /\ held \in [Steers -> Turns \union {NoTurn}]
  /\ announced \in [Turns -> SUBSET Terminal]
  /\ overdrawn \subseteq Turns

Init ==
  /\ state = [t \in Turns |-> "absent"]
  /\ joins = [t \in Turns |-> 0]
  /\ deferred = [t \in Turns |-> "none"]
  /\ finalizers = [t \in Turns |-> 0]
  /\ terminalIds = <<>>
  /\ held = [s \in Steers |-> NoTurn]
  /\ announced = [t \in Turns |-> {}]
  /\ overdrawn = {}

-----------------------------------------------------------------------------
(* transition(), once its early returns are past.                          *)

\* Whether the retention loop drops the oldest of the ended turns.
OverRetained(ids) == Len(ids) > Retention

\* Which record the retention loop drops: _terminal_ids.popleft().
Expired(ids) == Head(ids)

\* The finalizers of t run, and are popped so that they run only once.
RunFinalizers(t) == finalizers' = [finalizers EXCEPT ![t] = 0]

\* The record reaches its outcome, and the oldest outcome may be dropped.
Close(t, outcome) ==
  LET ids  == Append(terminalIds, t)
      over == OverRetained(ids)
  IN /\ state' = [u \in Turns |-> IF over /\ u = Expired(ids) THEN "absent"
                                  ELSE IF u = t THEN outcome ELSE state[u]]
     /\ terminalIds' = IF over THEN Tail(ids) ELSE ids
     /\ RunFinalizers(t)

\* The guard that holds a terminal state back while a steer is queued.
HeldOpen(t) == joins[t] > 0

\* A terminal transition of a record whose state is now `current`.
Settle(t, current, outcome) ==
  IF HeldOpen(t)
  THEN /\ deferred' = [deferred EXCEPT ![t] = outcome]
       /\ state' = [state EXCEPT ![t] = current]
       /\ UNCHANGED <<finalizers, terminalIds>>
  ELSE /\ Close(t, outcome)
       /\ UNCHANGED deferred

-----------------------------------------------------------------------------
(* The methods.                                                            *)

Register(t) ==
  /\ state[t] = "absent"
  /\ state' = [state EXCEPT ![t] = "received"]
  /\ announced' = [announced EXCEPT ![t] = {}]
  /\ UNCHANGED <<joins, deferred, finalizers, terminalIds, held, overdrawn>>

\* start() registers the turn if needed and takes RECEIVED to RUNNING; it
\* leaves a RUNNING record alone and raises from any other state.
Start(t) ==
  /\ state[t] \in {"absent", "received"}
  /\ state' = [state EXCEPT ![t] = "running"]
  /\ announced' = IF state[t] = "absent" THEN [announced EXCEPT ![t] = {}]
                  ELSE announced
  /\ UNCHANGED <<joins, deferred, finalizers, terminalIds, held, overdrawn>>

\* waiting_for_user(), resumed(), begin_cancel(): a transition to a state that
\* is not terminal.  A terminal or cancelling record ignores it.
BadMovable == Live \union Terminal
Movable == Joinable
Move(t, to) ==
  /\ state[t] \in Movable
  /\ state' = [state EXCEPT ![t] = to]
  /\ UNCHANGED <<joins, deferred, finalizers, terminalIds, held, announced, overdrawn>>

\* complete(), cancel(), fail().
Finish(t, outcome) ==
  /\ state[t] \in Joinable
  /\ Settle(t, state[t], outcome)
  /\ UNCHANGED <<joins, held, announced, overdrawn>>

\* finalize_cancel(), finalize_fail() of a record in CANCELLING: the state is
\* set to RUNNING and then moved, so a queued steer still holds it open.
Finalize(t, outcome) ==
  /\ state[t] = "cancelling"
  /\ Settle(t, "running", outcome)
  /\ UNCHANGED <<joins, held, announced, overdrawn>>

\* reserve_join() refuses a turn that is over or being cancelled.
BadAdmits(t) == state[t] # "cancelling"
Admits(t) == state[t] \in Joinable
ReserveJoin(s, t) ==
  /\ held[s] = NoTurn
  /\ Admits(t)
  /\ joins' = [joins EXCEPT ![t] = @ + 1]
  /\ held' = [held EXCEPT ![s] = t]
  /\ UNCHANGED <<state, deferred, finalizers, terminalIds, announced, overdrawn>>

\* The token a steer gives up.
DropToken(s) == held' = [held EXCEPT ![s] = NoTurn]

\* release_join() that leaves other steers queued.
ReleaseOne(s) ==
  LET t == held[s]
  IN /\ t # NoTurn
     /\ joins[t] > 1
     /\ joins' = [joins EXCEPT ![t] = @ - 1]
     /\ DropToken(s)
     /\ UNCHANGED <<state, deferred, finalizers, terminalIds, announced, overdrawn>>

\* release_join() of the last queued steer: the outcome held open is handed to
\* transition(), which ignores it if the turn is being cancelled, and returned.
ForgetDeferred(t) == deferred' = [deferred EXCEPT ![t] = "none"]
ReleaseLast(s) ==
  LET t == held[s]
  IN /\ t # NoTurn
     /\ joins[t] <= 1
     /\ joins' = [joins EXCEPT ![t] = 0]
     /\ ForgetDeferred(t)
     /\ IF deferred[t] # "none" /\ state[t] \in Joinable
        THEN Close(t, deferred[t])
        ELSE UNCHANGED <<state, finalizers, terminalIds>>
     /\ announced' = [announced EXCEPT ![t] =
                        IF deferred[t] = "none" THEN @ ELSE @ \union {deferred[t]}]
     /\ DropToken(s)
     /\ UNCHANGED overdrawn

\* activate_join(): a steer becomes a new execution of the turn its message
\* names, and an outcome that was held open is discarded.  The count is all it
\* looks at: the join may be that of another steer.
BadCountActivated(t) == joins
CountActivated(t) == [joins EXCEPT ![t] = @ - 1]
ActivateJoin(s, t) ==
  /\ held[s] \in {t, NoTurn}
  /\ state[t] \in Joinable
  /\ joins[t] > 0
  /\ joins' = CountActivated(t)
  /\ ForgetDeferred(t)
  /\ DropToken(s)
  /\ overdrawn' = IF held[s] = t THEN overdrawn ELSE overdrawn \union {t}
  /\ UNCHANGED <<state, finalizers, terminalIds, announced>>

\* add_terminal_finalizer() of a live record; on an ended one the callback
\* runs at once and nothing is kept.
AddFinalizer(t) ==
  /\ state[t] \in Live
  /\ finalizers[t] < MaxCallbacks
  /\ finalizers' = [finalizers EXCEPT ![t] = @ + 1]
  /\ UNCHANGED <<state, joins, deferred, terminalIds, held, announced, overdrawn>>

Next ==
  \/ \E t \in Turns : Register(t) \/ Start(t) \/ AddFinalizer(t)
  \/ \E t \in Turns, to \in {"running", "waiting_for_user", "cancelling"} :
       Move(t, to)
  \/ \E t \in Turns, o \in Terminal : Finish(t, o)
  \/ \E t \in Turns, o \in {"cancelled", "failed"} : Finalize(t, o)
  \/ \E s \in Steers, t \in Turns : ReserveJoin(s, t) \/ ActivateJoin(s, t)
  \/ \E s \in Steers : ReleaseOne(s) \/ ReleaseLast(s)

Spec == Init /\ [][Next]_vars

-----------------------------------------------------------------------------
(* Safety.                                                                 *)

Holders(t) == {s \in Steers : held[s] = t}

\* A turn never counts more joins than steers will give back, or it would stay
\* open for ever; and it counts no fewer, or it could close under a message it
\* has accepted, unless a steer with a turn of its own took one of them
\* (turns.py:190-223, loop.py:1637-1646, 2174-2176).
JoinsAreHeld ==
  \A t \in Turns :
    /\ joins[t] <= Cardinality(Holders(t))
    /\ t \notin overdrawn => joins[t] = Cardinality(Holders(t))

\* A turn a steer has been admitted to is neither ended nor dropped by the
\* retention before the steer is gone, as long as no join of it was taken by
\* another steer (turns.py:167-171, 184-188, 210-223).
HeldTurnIsOpen ==
  \A s \in Steers : held[s] # NoTurn => state[held[s]] \in Live \/ held[s] \in overdrawn

\* An outcome is only held back while some steer is queued; with none queued
\* nothing would ever apply it (turns.py:167-171, 201-206, 216-222).
DeferredIsHeld == \A t \in Turns : deferred[t] # "none" => joins[t] > 0

\* When a turn has ended nothing of it is pending: no callback that would
\* never run, no outcome that could replace its own (turns.py:176-188).
EndedIsSettled ==
  \A t \in Turns : state[t] \notin Live =>
    joins[t] = 0 /\ deferred[t] = "none" /\ finalizers[t] = 0

\* The ended turns in memory are exactly those of the retention queue, once
\* each, and they are never more than the limit (turns.py:183-188).
RetentionIsExact ==
  /\ Len(terminalIds) <= Retention
  /\ \A i, j \in DOMAIN terminalIds : terminalIds[i] = terminalIds[j] => i = j
  /\ \A t \in Turns : state[t] \in Terminal
                        <=> \E i \in DOMAIN terminalIds : terminalIds[i] = t

\* The record is sound, whoever calls in whatever order: each part needs the
\* others when a steer leaves or a turn ends (turns.py:157-223).
TurnsInv ==
  /\ TypeOK
  /\ JoinsAreHeld
  /\ HeldTurnIsOpen
  /\ DeferredIsHeld
  /\ EndedIsSettled
  /\ RetentionIsExact

\* What release_join reported as the turn's outcome (the Web channel sends it
\* to the browser as turn.completed, .cancelled or .failed, channels/web.py
\* 461-469) is the outcome the turn has, unless a cancellation was under way
\* that transition() does not let it overtake (turns.py:163-164, 201-206).
ReportedIsOvertakenByCancel ==
  \A t \in Turns : state[t] # "absent" =>
    announced[t] \subseteq {state[t]} \/ state[t] \in {"cancelling", "cancelled", "failed"}

(* Action properties.                                                      *)

\* An outcome never changes, and it is forgotten only as the oldest of a full
\* retention queue (turns.py:161-162, 184-188).
OutcomeIsFinal ==
  [][\A t \in Turns : state[t] \in Terminal =>
       \/ state'[t] = state[t]
       \/ /\ state'[t] = "absent"
          /\ t = Head(terminalIds)
          /\ Len(terminalIds) = Retention]_vars

\* Only the end of its own cleanup takes a turn out of CANCELLING, and then
\* with a cancelled or failed outcome, reached or held open by a steer: no
\* completion and no resumption in between (turns.py:163-164, 256-278).
CancellationIsNotOvertaken ==
  [][\A t \in Turns : state[t] = "cancelling" =>
       \/ state'[t] \in {"cancelling", "cancelled", "failed"}
       \/ state'[t] = "running" /\ deferred'[t] \in {"cancelled", "failed"}]_vars

\* The coordinator implements the lifecycle that TurnLifecycle promises; the
\* steers of an overdrawn turn are no longer its guests.
Lifecycle == INSTANCE TurnLifecycle WITH
  phase <- [t \in Turns |-> IF state[t] \in Live THEN "open" ELSE state[t]],
  ended <- terminalIds,
  guest <- [s \in Steers |-> IF held[s] \in overdrawn THEN NoTurn ELSE held[s]]

Implements == Lifecycle!LifecycleSpec

=============================================================================
