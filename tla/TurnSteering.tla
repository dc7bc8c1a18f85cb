---------------------------- MODULE TurnSteering ----------------------------
(***************************************************************************)
(* nanocat/agent/loop.py with channels/web.py: the messages of one browser *)
(* conversation from their submission to the record in its history.        *)
(*                                                                         *)
(* A message opens a turn of its own or, as a steer, joins the turn that   *)
(* is active.  The intake buffers a steer for the live dispatch task, or   *)
(* starts one; a task that ends gives the steers it did not read back to   *)
(* the bus; the exact cancellation of a turn takes its messages out of     *)
(* every buffer.  The turn coordinator is composed in: a step is at most   *)
(* one call of it, and a task in code without an await that calls it       *)
(* several times has the event loop for itself (Busy).                     *)
(*                                                                         *)
(* A turn is named by the message that opened it, a dispatch task by the   *)
(* message it was started for.  The bus is first in, first out, as browser *)
(* messages have one priority.  /stop, shutdown, approvals, subagent       *)
(* reports, failing writes and a publisher cancelled after its message     *)
(* went in are left out.                                                   *)
(*                                                                         *)
(* A definition named Bad... is a mutated form of the one that follows it; *)
(* no behaviour of the specification uses it.                              *)
(***************************************************************************)
EXTENDS Naturals, FiniteSets, Sequences, Ordering

CONSTANTS
  Inputs,        \* messages the browser submits
  SteerMessages, \* those it submits as steers
  Submissions,   \* bound: sets of messages submitted in one behaviour
  NoTurn,        \* no turn, no message, no task
  Retention,     \* of the coordinator: at least the number of messages
  MaxCallbacks,  \* of the coordinator
  MaxCancels     \* bound: exact cancellations

ASSUME SteeringAssumption ==
  /\ SteerMessages \subseteq Inputs
  /\ Submissions \subseteq SUBSET Inputs
  /\ NoTurn \notin Inputs
  /\ IsFiniteSet(Inputs)
  /\ Retention \in Nat /\ Retention >= Cardinality(Inputs)
  /\ MaxCallbacks \in Nat
  /\ MaxCancels \in Nat

VARIABLES
  state, joins, deferred, finalizers, terminalIds, held, announced, overdrawn, \* TurnCoordinator
  opened,       \* turns in the order of their started_at
  place,        \* where each message is
  turnOf,       \* the turn it belongs to
  members,      \* messages merged into it
  bus,          \* the queue of the input lane
  ready,        \* messages with _web_handoff_ready
  steerBuf,     \* _steer_buf of the conversation
  recorded,     \* history: how often each message was written down
  unstarted,    \* history: messages whose task failed before its turn started
  interrupted,  \* history: turns whose work another message interrupted
  shared,       \* history: turns that more than one task was to work for
  pendingBuf,   \* _pending_buf
  newest,       \* _session_gen: the task started last
  turnTask,     \* _turn_tasks
  phase,        \* how far each dispatch task is
  committed,    \* history_committed of its _PendingTurn
  raised,       \* tasks that propagate a CancelledError
  handedOff,    \* handed_off
  carried,      \* the orphan being given back, with those merged into it
  handoffTurns, \* handoff_turn_ids
  interrupts,   \* tasks with a cancellation to be delivered
  superseded,   \* _superseded_tasks
  canceller,    \* _turn_cancel_operations: how far each one is
  claimTask,    \* the task it claimed
  stopped       \* history: turns an operation was started for

coordinator == <<state, joins, deferred, finalizers, terminalIds, held, announced, overdrawn>>
originVars == <<opened, turnOf, unstarted, interrupted, shared>>
queueVars == <<bus, ready, steerBuf>>
messageVars == <<originVars, place, members, queueVars, recorded>>
taskVars == <<pendingBuf, newest, turnTask, phase, committed, raised, handedOff>>
handoffVars == <<carried, handoffTurns>>
interruptVars == <<interrupts, superseded>>
cancelVars == <<canceller, claimTask, stopped>>
steeringVars == <<coordinator, messageVars, taskVars, handoffVars, interruptVars, cancelVars>>

Coordinator == INSTANCE TurnCoordinator WITH Turns <- Inputs, Steers <- Inputs

Places == {"absent", "new", "submitting", "bus", "handoff", "steering", "task", "merged",
           "carried", "claimed", "used", "refused"}
Phases == {"none", "lock", "setup", "running", "draining", "unwinding", "publishing", "orphans",
           "requeue", "undoing", "leaving", "ended"}

SteeringTypeOK ==
  /\ Coordinator!TypeOK
  /\ opened \in Seq(Inputs)
  /\ place \in [Inputs -> Places]
  /\ turnOf \in [Inputs -> Inputs \cup {NoTurn}]
  /\ members \in [Inputs -> SUBSET Inputs]
  /\ bus \in Seq(Inputs)
  /\ ready \subseteq Inputs
  /\ steerBuf \in Seq(Inputs)
  /\ recorded \in [Inputs -> Nat]
  /\ pendingBuf \in Inputs \cup {NoTurn}
  /\ newest \in Inputs \cup {NoTurn}
  /\ turnTask \in [Inputs -> Inputs \cup {NoTurn}]
  /\ phase \in [Inputs -> Phases]
  /\ UNION {committed, raised, handedOff, handoffTurns, interrupts, superseded, unstarted,
               interrupted, shared} \subseteq Inputs
  /\ carried \in Inputs \cup {NoTurn}
  /\ canceller \in [Inputs -> {"none", "begun", "waiting", "persisting"}]
  /\ claimTask \in [Inputs -> Inputs \cup {NoTurn}]
  /\ stopped \subseteq Inputs /\ Cardinality(stopped) <= MaxCancels

SteeringInit ==
  /\ Coordinator!Init
  /\ opened = <<>>
  /\ \E S \in Submissions :
       place = [m \in Inputs |-> IF m \in S THEN "new" ELSE "absent"]
  /\ turnOf = [m \in Inputs |-> NoTurn]
  /\ members = [m \in Inputs |-> {}]
  /\ bus = <<>>
  /\ ready = {}
  /\ steerBuf = <<>>
  /\ recorded = [m \in Inputs |-> 0]
  /\ unstarted = {}
  /\ interrupted = {}
  /\ shared = {}
  /\ pendingBuf = NoTurn
  /\ newest = NoTurn
  /\ turnTask = [m \in Inputs |-> NoTurn]
  /\ phase = [m \in Inputs |-> "none"]
  /\ committed = {}
  /\ raised = {}
  /\ handedOff = {}
  /\ carried = NoTurn
  /\ handoffTurns = {}
  /\ interrupts = {}
  /\ superseded = {}
  /\ canceller = [m \in Inputs |-> "none"]
  /\ claimTask = [m \in Inputs |-> NoTurn]
  /\ stopped = {}

-----------------------------------------------------------------------------
(* Calls of the coordinator that do nothing where it ignores them.         *)

\* release_web_steer(): the token is given up, once.
BadGiveBack(m) == UNCHANGED coordinator
GiveBack(m) ==
  IF held[m] = NoTurn THEN UNCHANGED coordinator
  ELSE Coordinator!ReleaseOne(m) \/ Coordinator!ReleaseLast(m)

\* activate_web_steer() asks whether the turn can give up a join, not whether
\* the message has one.
CanActivate(m) == state[turnOf[m]] \in Coordinator!Joinable /\ joins[turnOf[m]] > 0

\* complete(), cancel(), fail().
BadEndTurn(t, outcome) ==
  IF state[t] = "running" THEN Coordinator!Finish(t, outcome) ELSE UNCHANGED coordinator
EndTurn(t, outcome) ==
  IF state[t] \in Coordinator!Joinable THEN Coordinator!Finish(t, outcome) ELSE UNCHANGED coordinator

\* active_for_session(): the newest running turn, else the oldest received.
Latest(turns) == turns[Len(turns)]
BadActive ==
  LET In(s) == Only(opened, {t \in Inputs : state[t] = s /\ deferred[t] = "none"})
  IN IF In("running") # <<>> THEN {Latest(In("running"))}
     ELSE IF In("received") # <<>> THEN {Head(In("received"))} ELSE {}
Active ==
  LET In(s) == Only(opened, {t \in Inputs : state[t] = s})
  IN IF In("running") # <<>> THEN {Latest(In("running"))}
     ELSE IF In("received") # <<>> THEN {Head(In("received"))} ELSE {}

-----------------------------------------------------------------------------
(* Tasks, the session lock, and the messages a task stands for.            *)

Group(m) == {m} \cup members[m]
LiveTasks == {m \in Inputs : phase[m] \notin {"none", "ended"}}
Locked == \E m \in Inputs :
  phase[m] \in {"setup", "running", "draining", "unwinding", "publishing", "orphans",
                "requeue", "undoing"}
Busy == \E m \in Inputs : phase[m] \in {"draining", "orphans", "undoing", "leaving"}

PlaceAt(S, p) == place' = [m \in Inputs |-> IF m \in S THEN p ELSE place[m]]
Goto(m, p) == phase' = [phase EXCEPT ![m] = p]

\* The input of m reaches the history, or the store of records to retry.
Record(m) ==
  recorded' = [n \in Inputs |-> IF n \in Group(m) THEN recorded[n] + 1 ELSE recorded[n]]

-----------------------------------------------------------------------------
(* The Web channel: submit() under _ingress_lock.                          *)

Submit(m) ==
  /\ ~Busy
  /\ place[m] = "new"
  /\ \A n \in Inputs : place[n] # "submitting"
  /\ \/ /\ m \in SteerMessages
        /\ \E t \in Active : /\ Coordinator!ReserveJoin(m, t)
                             /\ turnOf' = [turnOf EXCEPT ![m] = t]
        /\ PlaceAt({m}, "submitting")
        /\ UNCHANGED opened
     \/ /\ Active = {}
        /\ Coordinator!Register(m)
        /\ turnOf' = [turnOf EXCEPT ![m] = m]
        /\ PlaceAt({m}, "submitting")
        /\ opened' = Append(opened, m)
     \/ /\ Active # {} /\ m \notin SteerMessages
        /\ PlaceAt({m}, "refused")
        /\ UNCHANGED <<coordinator, turnOf, opened>>
  /\ UNCHANGED <<unstarted, interrupted, shared, members, queueVars, recorded, taskVars,
                 handoffVars, interruptVars, cancelVars>>

\* The activity is recorded, in a thread, and the bus has taken the message.
\* That takes longer than the two iterations of the event loop in which a
\* cancellation reaches its task.
Accept(m) ==
  /\ ~Busy
  /\ interrupts = {} /\ \A t \in Inputs : canceller[t] # "begun"
  /\ place[m] = "submitting"
  /\ PlaceAt({m}, "bus")
  /\ bus' = Append(bus, m)
  /\ UNCHANGED <<coordinator, originVars, members, ready, steerBuf, recorded, taskVars,
                 handoffVars, interruptVars, cancelVars>>

\* The request is cancelled, or the bus had no room in time.
Reject(m) ==
  /\ ~Busy
  /\ place[m] = "submitting"
  /\ PlaceAt({m}, "refused")
  /\ IF turnOf[m] = m THEN EndTurn(m, "failed") ELSE GiveBack(m)
  /\ UNCHANGED <<originVars, members, queueVars, recorded, taskVars,
                 handoffVars, interruptVars, cancelVars>>

-----------------------------------------------------------------------------
(* The intake: run() with the message at the head of the bus.              *)

Incoming == Head(bus)
IsStopping(m) == canceller[turnOf[m]] # "none" \/ state[turnOf[m]] = "cancelling"

\* The intake has a message, and is not waiting for tasks it cancelled.
Takes ==
  /\ ~Busy
  /\ bus # <<>>
  /\ \A m \in Inputs : place[m] # "handoff"
  /\ superseded \cap LiveTasks = {}

\* A message of a turn under cancellation is kept as a stopped one.
IntakeStopped ==
  /\ Takes
  /\ IsStopping(Incoming)
  /\ bus' = Tail(bus)
  /\ PlaceAt({Incoming}, "used")
  /\ Record(Incoming)
  /\ GiveBack(Incoming)
  /\ UNCHANGED <<originVars, members, ready, steerBuf, taskVars, handoffVars,
                 interruptVars, cancelVars>>

\* A steer of a conversation with a live task waits for it.
IntakeSteer ==
  /\ Takes
  /\ ~IsStopping(Incoming)
  /\ Incoming \in SteerMessages \ ready
  /\ LiveTasks # {}
  /\ bus' = Tail(bus)
  /\ PlaceAt({Incoming}, "steering")
  /\ steerBuf' = Append(steerBuf, Incoming)
  /\ UNCHANGED <<coordinator, originVars, members, ready, recorded, taskVars, handoffVars,
                 interruptVars, cancelVars>>

\* What works for a turn, now or soon: a task, or a message one gave back.
GivenBack == {m \in ready : place[m] = "bus"}
Executions == LiveTasks \cup GivenBack

\* The executions in S may not be the only ones of their turns.
Share(S) == shared' = shared \cup {turnOf[m] : m \in S}

\* The dispatch task of m, in which the messages of `merged` are taken up.
Dispatch(m, merged) ==
  /\ members' = [members EXCEPT ![m] = @ \cup merged]
  /\ place' = [n \in Inputs |-> IF n = m THEN "task" ELSE
                                  IF n \in merged THEN "merged" ELSE place[n]]
  /\ pendingBuf' = m
  /\ newest' = m
  /\ turnTask' = [turnTask EXCEPT ![turnOf[m]] = m]
  /\ Goto(m, "lock")
  /\ Share(IF Executions \ {m} = {} THEN {} ELSE Executions \cup {m})
  /\ UNCHANGED <<opened, turnOf, unstarted, interrupted, committed, raised, handedOff>>

\* No task is live, or a task gave the message back.  A steer nobody gave back
\* becomes an execution of its turn with a join of that turn: its own, or, if
\* it opened the turn itself, that of a steer which joined it meanwhile.
IntakeDispatch ==
  /\ Takes
  /\ ~IsStopping(Incoming)
  /\ LiveTasks = {} \/ Incoming \in ready
  /\ bus' = Tail(bus)
  /\ ready' = ready \ {Incoming}
  /\ IF Incoming \notin SteerMessages \ ready THEN UNCHANGED coordinator
     ELSE IF CanActivate(Incoming) THEN Coordinator!ActivateJoin(Incoming, turnOf[Incoming])
     ELSE GiveBack(Incoming)
  /\ Dispatch(Incoming, {})
  /\ UNCHANGED <<steerBuf, recorded, handoffVars, interruptVars, cancelVars>>

\* Any other message cancels the live tasks and waits for them.
IntakeInterrupts ==
  /\ Takes
  /\ ~IsStopping(Incoming)
  /\ Incoming \notin SteerMessages \cup ready
  /\ LiveTasks # {}
  /\ bus' = Tail(bus)
  /\ PlaceAt({Incoming}, "handoff")
  /\ superseded' = superseded \cup LiveTasks
  /\ interrupts' = interrupts \cup LiveTasks
  /\ interrupted' = interrupted \cup {turnOf[m] : m \in LiveTasks}
  /\ UNCHANGED <<coordinator, opened, turnOf, unstarted, shared, members, ready, steerBuf,
                 recorded, taskVars, handoffVars, cancelVars>>

\* They have ended: what the pending buffer still has is merged in.
Merged == IF pendingBuf = NoTurn THEN {} ELSE Group(pendingBuf)
IntakeResumes(m) ==
  /\ ~Busy
  /\ place[m] = "handoff"
  /\ superseded \cap LiveTasks = {}
  /\ Dispatch(m, Merged)
  /\ UNCHANGED <<coordinator, queueVars, recorded, handoffVars, interruptVars, cancelVars>>

-----------------------------------------------------------------------------
(* A dispatch task: _dispatch(), _dispatch_inner(), _process_message().    *)

\* m is at `p`, is not about to be cancelled, and nothing else has the loop.
At(m, p) == ~Busy /\ phase[m] = p /\ m \notin interrupts
Hit(m, p) == ~Busy /\ phase[m] = p /\ m \in interrupts

\* The input of m is in the history; _mark_turn_history_committed() also
\* empties the pending buffer if it is of m.
Commit(m) ==
  /\ committed' = committed \cup {m}
  /\ PlaceAt(Group(m), "used")
  /\ Record(m)
ClearPending(m) == pendingBuf' = IF pendingBuf = m THEN NoTurn ELSE pendingBuf

\* The finally block under the lock: the newest task takes the steers nobody
\* has read.
BadAfterInner(m) == "leaving"
AfterInner(m) == IF newest = m /\ steerBuf # <<>> THEN "orphans" ELSE "leaving"

\* A cancellation is now propagating through m.
Raise(m) ==
  /\ raised' = raised \cup {m}
  /\ interrupts' = interrupts \ {m}
  /\ UNCHANGED superseded

\* Nothing of m is left but its record.
EndTask(m) ==
  /\ Goto(m, "ended")
  /\ newest' = IF newest = m THEN NoTurn ELSE newest
  /\ turnTask' = [t \in Inputs |-> IF turnTask[t] = m THEN NoTurn ELSE turnTask[t]]
  /\ raised' = raised \ {m}
  /\ handedOff' = handedOff \ {m}
  /\ interrupts' = interrupts \ {m}
  /\ superseded' = superseded \ {m}

\* The lock is free.  It is given in the order the tasks came, so the newest
\* task has it last.
Lock(m) ==
  /\ At(m, "lock")
  /\ ~Locked
  /\ m = newest => \A n \in Inputs \ {m} : phase[n] # "lock"
  /\ Goto(m, "setup")
  /\ UNCHANGED <<coordinator, messageVars, pendingBuf, newest, turnTask, committed, raised,
                 handedOff, handoffVars, interruptVars, cancelVars>>

LockHit(m) ==
  /\ Hit(m, "lock")
  /\ Goto(m, "leaving")
  /\ Raise(m)
  /\ UNCHANGED <<coordinator, messageVars, pendingBuf, newest, turnTask, committed, handedOff,
                 handoffVars, cancelVars>>

\* turns.start(): a turn that was given back is running already.
BeginTurn(m) ==
  LET t == turnOf[m]
  IN /\ At(m, "setup")
     /\ \/ state[t] = "received" /\ Coordinator!Start(t)
        \/ state[t] = "running" /\ UNCHANGED coordinator
     /\ Goto(m, "running")
     /\ UNCHANGED <<messageVars, pendingBuf, newest, turnTask, committed, raised, handedOff,
                    handoffVars, interruptVars, cancelVars>>

\* The context cannot be prepared, or start() finds the turn ended.  The
\* failure is recorded; the pending buffer keeps the message.
SetupFails(m) ==
  /\ At(m, "setup")
  /\ EndTurn(turnOf[m], "failed")
  /\ Commit(m)
  /\ unstarted' = unstarted \cup Group(m)
  /\ Goto(m, "publishing")
  /\ UNCHANGED <<opened, turnOf, interrupted, shared, members, queueVars, pendingBuf, newest,
                 turnTask, raised, handedOff, handoffVars, interruptVars, cancelVars>>

SetupHit(m) ==
  /\ Hit(m, "setup")
  /\ EndTurn(turnOf[m], "cancelled")
  /\ Goto(m, AfterInner(m))
  /\ Raise(m)
  /\ UNCHANGED <<messageVars, pendingBuf, newest, turnTask, committed, handedOff,
                 handoffVars, cancelVars>>

\* _drain_steer() between two iterations, one steer at a time: it becomes
\* part of the input of the running turn.
DrainSteer(m) ==
  LET s == Head(steerBuf)
  IN /\ At(m, "running") \/ phase[m] = "draining"
     /\ steerBuf # <<>>
     /\ GiveBack(s)
     /\ steerBuf' = Tail(steerBuf)
     /\ members' = [members EXCEPT ![m] = @ \cup Group(s)]
     /\ PlaceAt({s}, "merged")
     /\ Goto(m, IF Len(steerBuf) > 1 THEN "draining" ELSE "running")
     /\ UNCHANGED <<originVars, bus, ready, recorded, pendingBuf, newest, turnTask,
                    committed, raised, handedOff, handoffVars, interruptVars, cancelVars>>

\* The run ends, well or not, and is recorded.  The reply of a task that is
\* no longer the newest is dropped.
FinishRun(m, outcome) ==
  /\ At(m, "running")
  /\ EndTurn(turnOf[m], outcome)
  /\ Commit(m)
  /\ ClearPending(m)
  /\ Goto(m, IF outcome = "completed" /\ newest # m THEN "leaving" ELSE "publishing")
  /\ UNCHANGED <<originVars, members, queueVars, newest, turnTask, raised,
                 handedOff, handoffVars, interruptVars, cancelVars>>

\* The run is cancelled and its tool calls are settled, which may take long.
RunHit(m) ==
  /\ Hit(m, "running")
  /\ Goto(m, "unwinding")
  /\ Raise(m)
  /\ UNCHANGED <<coordinator, messageVars, pendingBuf, newest, turnTask, committed, handedOff,
                 handoffVars, cancelVars>>

\* The run is recorded as interrupted, unless it was superseded or the
\* cancellation came while intervention.finish_turn() was awaited.
Unwind(m) ==
  /\ ~Busy
  /\ phase[m] = "unwinding"
  /\ EndTurn(turnOf[m], "cancelled")
  /\ \/ m \notin superseded /\ Commit(m)
     \/ UNCHANGED <<committed, place, recorded>>
  /\ Goto(m, AfterInner(m))
  /\ interrupts' = interrupts \ {m}
  /\ UNCHANGED <<originVars, members, queueVars, pendingBuf, newest, turnTask, raised,
                 handedOff, handoffVars, superseded, cancelVars>>

\* The outbound lane has taken the reply; a cancellation that comes later is
\* swallowed by publish().
Publish(m) ==
  /\ ~Busy
  /\ phase[m] = "publishing"
  /\ Goto(m, AfterInner(m))
  /\ interrupts' = interrupts \ {m}
  /\ UNCHANGED <<coordinator, messageVars, pendingBuf, newest, turnTask, committed, raised,
                 handedOff, handoffVars, superseded, cancelVars>>

PublishHit(m) ==
  /\ Hit(m, "publishing")
  /\ EndTurn(turnOf[m], "cancelled")
  /\ Goto(m, AfterInner(m))
  /\ Raise(m)
  /\ UNCHANGED <<messageVars, pendingBuf, newest, turnTask, committed, handedOff,
                 handoffVars, cancelVars>>

\* One steer nobody read: it takes the turn over, its turn is over and it is
\* recorded, or it had not joined one.  Those to give back are merged.
Orphan(m) ==
  LET o == Head(steerBuf)
      joined == held[o] # NoTurn
      keep == ~joined \/ CanActivate(o)
      with == IF carried = NoTurn THEN {} ELSE Group(carried)
  IN /\ phase[m] = "orphans"
     /\ steerBuf' = Tail(steerBuf)
     /\ IF joined /\ keep THEN Coordinator!ActivateJoin(o, turnOf[o]) ELSE GiveBack(o)
     /\ Share(IF joined THEN {} ELSE {o})
     /\ IF keep
        THEN /\ carried' = o
             /\ members' = [members EXCEPT ![o] = @ \cup with]
             /\ place' = [n \in Inputs |-> IF n = o THEN "carried" ELSE
                                             IF n \in with THEN "merged" ELSE place[n]]
             /\ handoffTurns' = handoffTurns \cup (IF joined THEN {turnOf[o]} ELSE {})
             /\ UNCHANGED recorded
        ELSE /\ PlaceAt({o}, "used")
             /\ Record(o)
             /\ UNCHANGED <<members, handoffVars>>
     /\ Goto(m, IF Len(steerBuf) > 1 THEN "orphans"
                ELSE IF keep \/ carried # NoTurn THEN "requeue" ELSE "leaving")
     /\ UNCHANGED <<opened, turnOf, unstarted, interrupted, bus, ready, pendingBuf, newest,
                    turnTask, committed, raised, handedOff, interruptVars, cancelVars>>

\* The bus takes them back; the turn of m goes on in the next task.
HandsOff(m) == turnOf[m] \in handoffTurns
Requeue(m) ==
  /\ ~Busy
  /\ phase[m] = "requeue"
  /\ bus' = Append(bus, carried)
  /\ ready' = ready \cup {carried}
  /\ PlaceAt({carried}, "bus")
  /\ handedOff' = IF HandsOff(m) THEN handedOff \cup {m} ELSE handedOff
  /\ carried' = NoTurn
  /\ handoffTurns' = {}
  /\ interrupts' = interrupts \ {m}
  /\ Goto(m, "leaving")
  /\ UNCHANGED <<coordinator, originVars, members, steerBuf, recorded, pendingBuf, newest,
                 turnTask, committed, raised, superseded, cancelVars>>

\* The task is cancelled while the lane is full: the messages are recorded
\* as interrupted and the turns they were to go on with are cancelled.
RequeueHit(m) ==
  /\ Hit(m, "requeue")
  /\ PlaceAt({carried}, "used")
  /\ Record(carried)
  /\ carried' = NoTurn
  /\ Goto(m, "undoing")
  /\ Raise(m)
  /\ interrupted' = interrupted \cup handoffTurns
  /\ UNCHANGED <<coordinator, opened, turnOf, unstarted, shared, members, queueVars, pendingBuf,
                 newest, turnTask, committed, handedOff, handoffTurns, cancelVars>>

Undo(m) ==
  /\ phase[m] = "undoing"
  /\ \/ /\ handoffTurns = {}
        /\ Goto(m, "leaving")
        /\ UNCHANGED <<coordinator, handoffTurns>>
     \/ \E t \in handoffTurns :
          /\ EndTurn(t, "cancelled")
          /\ handoffTurns' = handoffTurns \ {t}
          /\ UNCHANGED phase
  /\ UNCHANGED <<messageVars, pendingBuf, newest, turnTask, committed, raised, handedOff,
                 carried, interruptVars, cancelVars>>

\* The end of _dispatch(): a turn that is still live is failed, unless it was
\* handed off; a cancelled one is cancelled.
Leave(m) ==
  /\ phase[m] = "leaving"
  /\ m \notin raised \/ m \in committed \cup superseded
  /\ IF m \in raised THEN EndTurn(turnOf[m], "cancelled")
     ELSE IF m \in handedOff THEN UNCHANGED coordinator
     ELSE EndTurn(turnOf[m], "failed")
  /\ EndTask(m)
  /\ UNCHANGED <<messageVars, pendingBuf, committed, handoffVars, cancelVars>>

\* A cancelled input that nobody recorded is recorded now: the lock is free.
LeaveUnrecorded(m) ==
  /\ phase[m] = "leaving"
  /\ m \in raised \ (committed \cup superseded)
  /\ Commit(m)
  /\ EndTurn(turnOf[m], "cancelled")
  /\ EndTask(m)
  /\ UNCHANGED <<originVars, members, queueVars, pendingBuf, handoffVars, cancelVars>>

-----------------------------------------------------------------------------
(* The exact cancellation of a turn: begin_cancel_turn() and its operation.*)

\* The messages of t the operation can claim, and the input a task that has
\* ended left in the pending buffer.
QueuedOf(t) == {m \in Inputs : turnOf[m] = t /\ place[m] \in {"bus", "handoff", "steering"}}
PendingOf(t) == pendingBuf # NoTurn /\ turnOf[pendingBuf] = t

Claim(t, claimed) ==
  /\ PlaceAt(claimed, "claimed")
  /\ bus' = Only(bus, Inputs \ claimed)
  /\ steerBuf' = Only(steerBuf, Inputs \ claimed)
  /\ ready' = ready \ claimed

BeginCancel(t) ==
  /\ ~Busy
  /\ t \notin stopped /\ Cardinality(stopped) < MaxCancels
  /\ Coordinator!Move(t, "cancelling")
  /\ Claim(t, QueuedOf(t) \cup
              (IF PendingOf(t) /\ turnTask[t] = NoTurn THEN {pendingBuf} ELSE {}))
  /\ pendingBuf' = IF PendingOf(t) THEN NoTurn ELSE pendingBuf
  /\ claimTask' = [claimTask EXCEPT ![t] = turnTask[t]]
  /\ canceller' = [canceller EXCEPT ![t] = "begun"]
  /\ stopped' = stopped \cup {t}
  /\ UNCHANGED <<originVars, members, recorded, newest, turnTask, phase, committed,
                 raised, handedOff, handoffVars, interruptVars>>

\* The operation cancels the task it claimed and waits for it.
CancelTask(t) ==
  /\ ~Busy
  /\ canceller[t] = "begun"
  /\ canceller' = [canceller EXCEPT ![t] = "waiting"]
  /\ interrupts' = interrupts \cup ({claimTask[t]} \cap LiveTasks)
  /\ UNCHANGED <<coordinator, messageVars, taskVars, handoffVars, superseded, claimTask,
                 stopped>>

\* Messages of t that came in meanwhile are claimed too.
Collect(t) ==
  /\ ~Busy
  /\ canceller[t] = "waiting"
  /\ claimTask[t] \notin LiveTasks
  /\ canceller' = [canceller EXCEPT ![t] = "persisting"]
  /\ Claim(t, {m \in QueuedOf(t) : place[m] # "steering"})
  /\ UNCHANGED <<coordinator, originVars, members, recorded, taskVars, handoffVars,
                 interruptVars, claimTask, stopped>>

ClaimedOf(t) == {m \in Inputs : turnOf[m] = t /\ place[m] = "claimed"}
Unrecorded(t) == claimTask[t] # NoTurn /\ claimTask[t] \notin committed

\* The input of the task, if the task did not record it itself.
PersistTask(t) ==
  /\ ~Busy /\ ~Locked
  /\ canceller[t] = "persisting"
  /\ Unrecorded(t)
  /\ Commit(claimTask[t])
  /\ UNCHANGED <<coordinator, originVars, members, queueVars, pendingBuf,
                 newest, turnTask, phase, raised, handedOff, handoffVars, interruptVars,
                 cancelVars>>

PersistClaimed(t) ==
  /\ ~Busy /\ ~Locked
  /\ canceller[t] = "persisting"
  /\ ~Unrecorded(t)
  /\ \E m \in ClaimedOf(t) : PlaceAt({m}, "used") /\ Record(m) /\ GiveBack(m)
  /\ UNCHANGED <<originVars, members, queueVars, taskVars, handoffVars,
                 interruptVars, cancelVars>>

EndCancel(t) ==
  /\ ~Busy
  /\ canceller[t] = "persisting"
  /\ ~Unrecorded(t)
  /\ ClaimedOf(t) = {}
  /\ IF state[t] = "cancelling" THEN Coordinator!Finalize(t, "cancelled") ELSE EndTurn(t, "cancelled")
  /\ canceller' = [canceller EXCEPT ![t] = "none"]
  /\ claimTask' = [claimTask EXCEPT ![t] = NoTurn]
  /\ UNCHANGED <<messageVars, taskVars, handoffVars, interruptVars, stopped>>

-----------------------------------------------------------------------------
Admit(m) == Accept(m) \/ Reject(m)
Intake ==
  \/ IntakeStopped \/ IntakeSteer \/ IntakeDispatch \/ IntakeInterrupts
  \/ \E m \in Inputs : IntakeResumes(m)
Step(m) ==
  \/ Lock(m) \/ LockHit(m) \/ BeginTurn(m) \/ SetupFails(m) \/ SetupHit(m)
  \/ DrainSteer(m) \/ FinishRun(m, "completed") \/ FinishRun(m, "failed") \/ RunHit(m) \/ Unwind(m)
  \/ Publish(m) \/ PublishHit(m) \/ Orphan(m) \/ Requeue(m) \/ RequeueHit(m) \/ Undo(m)
  \/ Leave(m) \/ LeaveUnrecorded(m)
Operate(t) ==
  CancelTask(t) \/ Collect(t) \/ PersistTask(t) \/ PersistClaimed(t) \/ EndCancel(t)

SteeringNext ==
  \/ \E m \in Inputs : Submit(m) \/ BeginCancel(m)
  \/ \E m \in Inputs : Admit(m) \/ Step(m) \/ Operate(m)
  \/ Intake

\* An admission has a time limit, and the intake, every task and every
\* operation go on while they can; a run ends because its provider calls and
\* tools have time limits.
SteeringSpec ==
  /\ SteeringInit /\ [][SteeringNext]_steeringVars
  /\ WF_steeringVars(Intake)
  /\ \A m \in Inputs : WF_steeringVars(Admit(m)) /\ WF_steeringVars(Step(m)) /\ WF_steeringVars(Operate(m))

-----------------------------------------------------------------------------
(* Properties.                                                             *)

\* A steer keeps its turn open only as long as it is on its way: whoever takes
\* it out of the bus or a buffer gives its token back with it
\* (loop.py:1221-1256, 1519-1530, 2335-2346, 3920-3941).
TokensFollowInput ==
  \A m \in Inputs : held[m] # NoTurn =>
    place[m] \in {"submitting", "bus", "steering", "claimed"} /\ held[m] = turnOf[m]

\* A turn stays open until the steers it has accepted are read or given back,
\* unless a steer opened it: dispatched after another one has joined, that
\* steer takes the join, and the turn may end under the guidance it has
\* accepted (loop.py:1637-1646, 2174-2176, turns.py:190-223).
AdmittedIsWaitedFor ==
  \A s \in Inputs : held[s] # NoTurn =>
    state[held[s]] \in Coordinator!Live \/ held[s] \in overdrawn \cap SteerMessages

\* Turns that are not left to one task after the other: the user stopped them,
\* another message interrupted them, or two tasks shared them.
Unsettled == stopped \cup interrupted \cup shared

\* Guidance that is read from the buffer, by a run or by the task that gives
\* it back, stays with the turn it was accepted for, unless the user stopped
\* that turn or the reader's own is not left to it (loop.py:1519-1530,
\* 3915-3955).  A turn that was stopped while a steer was submitted for it may
\* be running again beside a newer turn, whose guidance its task then reads.
GuidanceStaysInItsTurn ==
  [][\A m, s \in Inputs :
       /\ s \in members'[m] \ members[m]
       /\ place[s] \in {"steering", "carried"}
       /\ turnOf[s] \notin {s} \cup stopped /\ turnOf[m] \notin Unsettled
       => turnOf[s] = turnOf[m]]_steeringVars

\* No task works for a turn whose outcome is out, as long as the turn is left
\* to one task after the other (loop.py:3779-3787).  The outcome that a second
\* task has for a turn closes it under the first.
RunningTurnIsOpen ==
  \A m \in Inputs :
    phase[m] \in {"running", "draining"} /\ turnOf[m] \notin Unsettled =>
      state[turnOf[m]] \in Coordinator!Live

\* A message is written to the history once, however the task, the intake and
\* an operation that cancels its turn meet (loop.py:2549-2573, 3730-3760).  A
\* task that fails before its turn starts leaves its input in the pending
\* buffer, where the next message or an operation finds it again.
RecordedOnce == \A m \in Inputs : recorded[m] <= 1 \/ m \in unstarted

\* Messages, turns and tasks agree: no token without its message, no turn over
\* before its guidance is read, no work for a turn that is over, no message
\* recorded twice.
SteeringInv ==
  /\ SteeringTypeOK
  /\ TokensFollowInput
  /\ AdmittedIsWaitedFor
  /\ RunningTurnIsOpen
  /\ RecordedOnce

\* Again and again there is nothing left to write: a message the bus has
\* accepted is in the history (loop.py:2076-2237, 3702-3790).  Three cases are
\* left out, all after the user stopped a turn: a steer buffered while a task
\* gives earlier ones back is read by the task started for those, and by nobody
\* if their turn was stopped first; of two tasks of the stopped turn the older
\* may be interrupted by a message that merges only the input of the newest;
\* and guidance whose turn ended before it was read may be interrupted by a
\* message that is stopped before it has merged it.
AcceptedIsRecorded ==
  []<>(\A m \in Inputs :
         \/ place[m] \in {"absent", "new", "refused"}
         \/ recorded[m] > 0
         \/ stopped # {} /\ (place[m] = "steering" \/ turnOf[m] \in shared \cup overdrawn))

\* Again and again every turn has an outcome (loop.py:3779-3787, 2575-2593),
\* but for one that a steer opened while the user was stopping another: nobody
\* may read the steer, or a run of the other turn reads it and forgets its own.
TurnsEnd ==
  []<>(\A t \in Inputs :
         \/ state[t] \in Coordinator!Terminal \cup {"absent"}
         \/ stopped # {} /\ t \in SteerMessages)

=============================================================================
