-------------------------- MODULE DeferredDelivery --------------------------
(***************************************************************************)
(* nanocat/application/intervention.py: ordinary messages that arrive      *)
(* while a tool call of their conversation waits for the user.             *)
(*                                                                         *)
(* They are deferred for a pending request or for an open approval batch,  *)
(* then move to a backlog that one worker delivers in order: to the sink   *)
(* (the bus), or to the failure handler after a failed or cancelled sink   *)
(* and once the broker is closed.  A cancelled turn or a stopped session   *)
(* takes its messages out.  A request is here only the time between its    *)
(* registration and the finally block of suspend(); InterventionRequests   *)
(* has the rest, and ToolBatches composes the two.                         *)
(*                                                                         *)
(* Messages are numbered in the order in which the loop's intake offers    *)
(* them.  Runtime callbacks are external: a sink that is cancelled has not *)
(* delivered (MessageBus, BusInv).                                         *)
(***************************************************************************)
EXTENDS Ordering, SequencesExt

CONSTANTS
  Requests,       \* suspend() calls
  Messages,       \* messages the agent loop offers to defer()
  Conversations,
  Turns,
  NoTurn,
  ConversationOf, \* [Requests \cup Messages -> Conversations]
  TurnOf,         \* [Messages -> Turns \cup {NoTurn}]: the exact turn it steers
  Capacity        \* _MAX_DEFERRED_MESSAGES

DeliveryAssumption ==
  /\ NoTurn \notin Turns /\ Messages \subseteq Nat
  /\ TurnOf \in [Messages -> Turns \cup {NoTurn}]
  /\ Capacity \in Nat \ {0}

VARIABLES
  pending,     \* _pending, in the order of the dict
  scopes,      \* _defer_scopes
  deferred,    \* the deferred list of each request
  hold,        \* _deferred_hold
  backlog,     \* _deferred_delivery_backlog
  phase,       \* phase of each delivery
  operation,   \* its sink or failure call
  force,       \* deliveries with force_failure
  released,    \* how often each delivery released the message's admission
  worker,      \* the delivery task
  claim,       \* messages of the cancellation that settles its deliveries
  closed,      \* _closed
  fate         \* history: what became of each message

listVars == <<scopes, deferred, hold>>
deliveryVars == <<backlog, phase, operation, force, released, worker, claim>>
vars == <<pending, listVars, deliveryVars, closed, fate>>

Fates == {"unseen", "kept", "passed", "sunk", "failed", "extracted"}

TypeOK ==
  /\ pending \in Seq(Requests)
  /\ scopes \in [Conversations -> Nat]
  /\ deferred \in [Requests -> Seq(Messages)]
  /\ hold \in [Conversations -> Seq(Messages)]
  /\ backlog \in Seq(Messages)
  /\ phase \in [Messages -> {"queued", "sink", "failure"}]
  /\ operation \in [Messages -> {"none", "running", "ok", "error", "cancelled"}]
  /\ force \subseteq Messages
  /\ released \in [Messages -> Nat]
  /\ worker \in {"idle", "busy", "sleeping"}
  /\ claim \subseteq Messages
  /\ closed \in BOOLEAN
  /\ fate \in [Messages -> Fates]

\* Messages that are not offered have passed before.
Init(offered) ==
  /\ pending = <<>>
  /\ scopes = [c \in Conversations |-> 0]
  /\ deferred = [r \in Requests |-> <<>>]
  /\ hold = [c \in Conversations |-> <<>>]
  /\ backlog = <<>>
  /\ phase = [m \in Messages |-> "queued"]
  /\ operation = [m \in Messages |-> "none"]
  /\ force = {}
  /\ released = [m \in Messages |-> 0]
  /\ worker = "idle"
  /\ claim = {}
  /\ closed = FALSE
  /\ fate = [m \in Messages |-> IF m \in offered THEN "unseen" ELSE "passed"]

-----------------------------------------------------------------------------
(* Requests and approval batches.                                          *)

\* suspend() registers the request.
Register(r) ==
  /\ ~closed
  /\ pending' = Append(pending, r)
  /\ UNCHANGED <<listVars, deliveryVars, closed, fate>>

\* The finally block of suspend(): the request's messages go to the hold of a
\* batch that is still open, else to the backlog.
Unregister(r) ==
  LET c == ConversationOf[r] IN
  /\ r \in ToSet(pending)
  /\ pending' = RemoveAt(pending, CHOOSE i \in DOMAIN pending : pending[i] = r)
  /\ deferred' = [deferred EXCEPT ![r] = <<>>]
  /\ IF scopes[c] > 0
     THEN hold' = [hold EXCEPT ![c] = @ \o deferred[r]] /\ UNCHANGED backlog
     ELSE backlog' = backlog \o deferred[r] /\ UNCHANGED hold
  /\ UNCHANGED <<scopes, phase, operation, force, released, worker, claim, closed, fate>>

\* begin_defer_scope() and end_defer_scope() of an approval batch.  close()
\* forgets the depth under a batch that still runs.
BeginScope(c) ==
  /\ scopes' = [scopes EXCEPT ![c] = @ + 1]
  /\ UNCHANGED <<pending, deferred, hold, deliveryVars, closed, fate>>

Depth(c) == IF scopes[c] <= 1 THEN 0 ELSE scopes[c] - 1
IsOutermost(c) == scopes[c] <= 1
EndScope(c) ==
  /\ scopes' = [scopes EXCEPT ![c] = Depth(c)]
  /\ IF IsOutermost(c)
     THEN backlog' = backlog \o hold[c] /\ hold' = [hold EXCEPT ![c] = <<>>]
     ELSE UNCHANGED <<backlog, hold>>
  /\ UNCHANGED <<pending, deferred, phase, operation, force, released, worker, claim, closed, fate>>

-----------------------------------------------------------------------------
(* Deferral.                                                               *)

Waiting == {m \in Messages : \/ \E r \in Requests : m \in ToSet(deferred[r])
                             \/ \E c \in Conversations : m \in ToSet(hold[c])}
DeferredCount == Len(backlog) + Cardinality(Waiting)

Here(c) == {r \in ToSet(pending) : ConversationOf[r] = c}
IsFirst(r) ==
  \E i \in DOMAIN pending : /\ pending[i] = r
                           /\ \A j \in 1..(i - 1) : ConversationOf[pending[j]] # ConversationOf[r]

\* defer(): to the first request of the conversation, to the open batch, or
\* not at all.
Defer(m) ==
  LET c == ConversationOf[m] IN
  /\ fate[m] = "unseen" /\ \A n \in Messages : n < m => fate[n] # "unseen"
  /\ IF DeferredCount < Capacity /\ (Here(c) # {} \/ scopes[c] > 0)
     THEN /\ fate' = [fate EXCEPT ![m] = "kept"]
          /\ IF Here(c) # {}
             THEN /\ \E r \in Here(c) : IsFirst(r) /\ deferred' = [deferred EXCEPT ![r] = Append(@, m)]
                  /\ UNCHANGED hold
             ELSE hold' = [hold EXCEPT ![c] = Append(@, m)] /\ UNCHANGED deferred
     ELSE fate' = [fate EXCEPT ![m] = "passed"] /\ UNCHANGED <<deferred, hold>>
  /\ UNCHANGED <<pending, scopes, deliveryVars, closed>>

-----------------------------------------------------------------------------
(* The delivery worker.                                                    *)

\* Release the admission once, then call the sink or the failure handler.
ToRelease(m) == released[m] = 0
ToFailure(m) == closed \/ m \in force
Deliver ==
  LET m == backlog[1] IN
  /\ worker \in {"idle", "sleeping"} /\ backlog # <<>>
  /\ released' = [released EXCEPT ![m] = IF ToRelease(m) THEN @ + 1 ELSE @]
  /\ phase' = [phase EXCEPT ![m] = IF ToFailure(m) THEN "failure" ELSE "sink"]
  /\ operation' = [operation EXCEPT ![m] = "running"]
  /\ worker' = "busy"
  /\ UNCHANGED <<pending, listVars, backlog, force, claim, closed, fate>>

\* The call ends; its effect is there before the worker runs again.
Finish(m, end) ==
  /\ operation[m] = "running"
  /\ operation' = [operation EXCEPT ![m] = end]
  /\ fate' = IF end # "ok" THEN fate
             ELSE [fate EXCEPT ![m] = IF phase[m] = "sink" THEN "sunk" ELSE "failed"]
  /\ UNCHANGED <<pending, listVars, backlog, phase, force, released, worker, claim, closed>>
OperationEnds(m) == Finish(m, "ok") \/ Finish(m, "error")

\* A delivery that leaves the backlog is forgotten.
Forget(gone) ==
  /\ backlog' = Only(backlog, Messages \ gone)
  /\ phase' = [m \in Messages |-> IF m \in gone THEN "queued" ELSE phase[m]]
  /\ released' = [m \in Messages |-> IF m \in gone THEN 0 ELSE released[m]]

\* The worker resumes: done with the message, or a pause before the next try,
\* which goes to the failure handler.
WorkerResumes(m) ==
  /\ worker = "busy" /\ operation[m] \in {"ok", "error", "cancelled"}
  /\ operation' = [operation EXCEPT ![m] = "none"]
  /\ IF operation[m] = "ok"
     THEN Forget({m}) /\ force' = force \ {m} /\ worker' = "idle"
     ELSE /\ force' = IF m \in ToSet(backlog) /\ (phase[m] = "sink" \/ operation[m] = "cancelled")
                      THEN force \cup {m} ELSE force
          /\ worker' = "sleeping"
          /\ UNCHANGED <<backlog, phase, released>>
  /\ UNCHANGED <<pending, listVars, claim, closed, fate>>

-----------------------------------------------------------------------------
(* Cancellation and close.                                                 *)

\* _extract_deferred_delivery(): a delivery is taken out unless its sink call
\* runs or has succeeded, or it is the failure handler's.
BadExtractable(m) == phase[m] # "failure" /\ operation[m] # "running"
Extractable(m) == phase[m] # "failure" /\ operation[m] \notin {"running", "ok"}
ExtractableOf(S) == {m \in S : m \in ToSet(backlog) /\ Extractable(m)}

\* Deliveries that a canceller waits for: a sink call under way, and what the
\* failure handler has to settle.
InProgress(S) ==
  {m \in S : /\ m \in ToSet(backlog)
             /\ (phase[m] = "failure" \/ (phase[m] = "sink" /\ operation[m] = "running"))}

TakeOut(taken) ==
  /\ deferred' = [r \in Requests |-> Only(deferred[r], Messages \ taken)]
  /\ hold' = [c \in Conversations |-> Only(hold[c], Messages \ taken)]
  /\ Forget(taken)
  /\ force' = force \ taken
  /\ fate' = [m \in Messages |-> IF m \in taken THEN "extracted" ELSE fate[m]]
  /\ UNCHANGED <<pending, scopes, operation, worker, closed>>

\* extract_deferred_turn() and extract_deferred_session(), whose caller now
\* owns the messages, and will settle those that it could not take out.
Extract(S) ==
  LET taken == ExtractableOf(S) \cup (S \cap Waiting) IN
  /\ claim = {} /\ taken \cup InProgress(S) # {}
  /\ TakeOut(taken)
  /\ claim' = IF InProgress(S) = {} THEN {} ELSE S
ExtractTurn(t) == Extract({m \in Messages : TurnOf[m] = t})
ExtractSession(c) == Extract({m \in Messages : ConversationOf[m] = c})

\* settle_deferred_turn() and settle_deferred_session() look again when calls
\* they wait for have ended.
Settle ==
  LET taken == ExtractableOf(claim)
      waits == InProgress(claim) # {}
  IN
  /\ claim # {} /\ (waits => taken # {})
  /\ TakeOut(taken)
  /\ claim' = IF waits THEN claim ELSE {}

\* close(): everything deferred goes to the failure handler, running sinks are
\* cancelled, every request is settled.
\* The held-back messages come first, then those of the requests in the order
\* of the dict, each list in its order; any conversation may come first.
InList(seq, m, n) == \E i, j \in DOMAIN seq : i < j /\ seq[i] = m /\ seq[j] = n
Held == UNION {ToSet(hold[c]) : c \in Conversations}
Precedes(m, n) ==
  \/ m \in Held /\ n \notin Held
  \/ \E c \in Conversations : InList(hold[c], m, n)
  \/ \E r \in Requests : InList(deferred[r], m, n)
  \/ \E i, j \in DOMAIN pending :
       i < j /\ m \in ToSet(deferred[pending[i]]) /\ n \in ToSet(deferred[pending[j]])
Drained == {all \in SetToSeqs(Waiting) :
              \A i, j \in DOMAIN all : i < j => ~Precedes(all[j], all[i])}
Close ==
  /\ ~closed
  /\ closed' = TRUE
  /\ scopes' = [c \in Conversations |-> 0]
  /\ LET sinking == {m \in ToSet(backlog) : phase[m] = "sink"} IN
       /\ force' = force \cup sinking
       /\ operation' = [m \in Messages |-> IF m \in sinking /\ operation[m] = "running"
                                           THEN "cancelled" ELSE operation[m]]
  /\ \E all \in Drained : backlog' = backlog \o all
  /\ hold' = [c \in Conversations |-> <<>>]
  /\ deferred' = [r \in Requests |-> <<>>]
  /\ UNCHANGED <<pending, phase, released, worker, claim, fate>>

\* What the broker's own task and its callbacks do, and what the loop asks for.
WorkerStep == Deliver \/ \E m \in Messages : OperationEnds(m) \/ WorkerResumes(m)
LoopStep ==
  \/ \E m \in Messages : Defer(m)
  \/ \E c \in Conversations : ExtractSession(c)
  \/ \E t \in Turns : ExtractTurn(t)
  \/ Settle

-----------------------------------------------------------------------------
(* Properties.                                                             *)

Places(m) ==
  Cardinality({r \in Requests : m \in ToSet(deferred[r])})
  + Cardinality({c \in Conversations : m \in ToSet(hold[c])})
  + (IF m \in ToSet(backlog) THEN 1 ELSE 0)

\* A deferred message has one owner at any time: one list that holds it, or
\* the sink, the failure handler or the canceller that got it.  While its
\* successful delivery is not yet acknowledged it is still in the backlog.
OneOwner ==
  \A m \in Messages :
    IF fate[m] = "kept" THEN Places(m) = 1
    ELSE Places(m) = 0 \/ (m = Head(backlog) /\ operation[m] = "ok")

\* What the sink, the failure handler or a canceller got, no other gets too.
HandledOnce ==
  [][\A m \in Messages : fate[m] \notin {"unseen", "kept"} => fate'[m] = fate[m]]_vars

\* A cancellation that has settled the deliveries of its turn or session leaves
\* none of them on its way: what the sink has got is on the bus, where the
\* canceller drains it next (agent/loop.py:2496-2511, 2708-2715).
SettledIsOver ==
  [][claim # {} /\ claim' = {} =>
       \A m \in claim : m \in ToSet(backlog) => fate'[m] # "kept"]_vars

\* The messages of a conversation reach the bus in the order in which they
\* were deferred, also when several requests and a batch held them in turn.
DeferredInOrder ==
  [][\A m \in Messages : fate[m] # "sunk" /\ fate'[m] = "sunk" =>
       \A n \in Messages : n > m /\ ConversationOf[n] = ConversationOf[m] => fate[n] # "sunk"]_vars

\* _queue_deferred_locked() never raises for lack of capacity: it would lose
\* the messages of the request that ended.
BacklogHasRoom == Len(backlog) + Cardinality(Waiting) <= Capacity

\* The admission slot of a message is released at most once by the broker,
\* however often its delivery is tried.
ReleasedOnce == \A m \in Messages : released[m] <= 1

\* Every message has one owner and gives its slot back once, and there is
\* always room for it.
DeferInv ==
  /\ TypeOK
  /\ OneOwner
  /\ BacklogHasRoom
  /\ ReleasedOnce

=============================================================================
