----------------------------- MODULE MessageBus -----------------------------
(***************************************************************************)
(* nanocat/bus/queue.py: the bounded in-process bus between channels and   *)
(* the agent loop.  Four lanes, each a bounded priority queue: "inbound"   *)
(* and "commands" carry user input, "outbound" and "control" replies.      *)
(*                                                                         *)
(* A publisher of a control message decides in one step.  Any other        *)
(* publisher spawns a put task and waits for it or for the close event, so *)
(* the put, the close and a cancellation of the publisher interleave; the  *)
(* same holds for a consumer and its get task.  Code without an await in   *)
(* between is one action.                                                  *)
(*                                                                         *)
(* A message is the identity of one publish call; what it carries is given *)
(* by the functions Lane, Priority and Session.                            *)
(***************************************************************************)
EXTENDS Integers, FiniteSets, Sequences

CONSTANTS
  Messages,  \* publish calls
  Lane,      \* [Messages -> Lanes]: publish_inbound has routed commands away
  Priority,  \* [Messages -> Nat]: what _priority() returns
  Session,   \* [Messages -> Sessions]
  Sessions,  \* session keys
  Capacity,  \* [Lanes -> Nat]: maxsize and command_maxsize
  Scenarios, \* the sets of messages somebody may publish: one is chosen at the
             \* start, and the readers of their lanes with it
  StopLoop   \* whether the agent loop may stop reading while the bus is open

Lanes == {"inbound", "commands", "outbound", "control"}

\* The task that reads each lane: the agent loop, the command dispatcher and
\* the channel dispatcher, which reads both outbound lanes.
Readers == {"loop", "dispatcher", "channels"}
ReaderOf(lane) == CASE lane = "inbound"  -> "loop"
                    [] lane = "commands" -> "dispatcher"
                    [] OTHER             -> "channels"

\* MessageBus._CONTROL_PRIORITY
ControlPriority == 10

ASSUME BusAssumption ==
  /\ IsFiniteSet(Messages)
  /\ Lane \in [Messages -> Lanes]
  /\ Priority \in [Messages -> Nat]
  /\ Session \in [Messages -> Sessions]
  /\ Capacity \in [Lanes -> Nat \ {0}]
  /\ Scenarios \subseteq SUBSET Messages
  /\ StopLoop \in BOOLEAN

VARIABLES
  order,      \* the queue sequence numbers: messages in the order published
  publisher,  \* the publish call of each message
  putTask,    \* its put task
  fate,       \* where the message itself is
  earlier,    \* history: messages accepted before this one was published
  emptyEvent, \* _inbound_empty and the other three
  notify,     \* _outbound_notify, _control_outbound_notify
  pending,    \* _pending_inbound, _pending_commands
  reader,     \* the consumer of each lane
  orphan,     \* a get task whose consumer was cancelled
  closed      \* _closed

vars == <<order, publisher, putTask, fate, earlier, emptyEvent, notify,
          pending, reader, orphan, closed>>

PublisherStates == {"absent", "idle", "waiting", "accepted", "refused", "cancelled", "misled"}
Fates == {"none", "queued", "held", "delivered", "dropped", "drained", "lost"}
InputLanes == {"inbound", "commands"}
OutputLanes == {"outbound", "control"}

TypeOK ==
  /\ order \in Seq(Messages)
  /\ publisher \in [Messages -> PublisherStates]
  /\ putTask \in [Messages -> {"none", "running", "done"}]
  /\ fate \in [Messages -> Fates]
  /\ earlier \in [Messages -> SUBSET Messages]
  /\ emptyEvent \in [Lanes -> BOOLEAN]
  /\ notify \in [OutputLanes -> BOOLEAN]
  /\ pending \in [InputLanes -> [Sessions -> Nat]]
  /\ reader \in [Readers -> {"absent", "ready", "waiting", "ended", "stopped"}]
  /\ orphan \in BOOLEAN
  /\ closed \in BOOLEAN

Init ==
  /\ order = <<>>
  /\ \E calls \in Scenarios :
       /\ publisher = [m \in Messages |-> IF m \in calls THEN "idle" ELSE "absent"]
       /\ reader = [r \in Readers |->
                      IF \E m \in calls : ReaderOf(Lane[m]) = r THEN "ready" ELSE "absent"]
  /\ putTask = [m \in Messages |-> "none"]
  /\ fate = [m \in Messages |-> "none"]
  /\ earlier = [m \in Messages |-> {}]
  /\ emptyEvent = [l \in Lanes |-> TRUE]
  /\ notify = [l \in OutputLanes |-> FALSE]
  /\ pending = [l \in InputLanes |-> [s \in Sessions |-> 0]]
  /\ orphan = FALSE
  /\ closed = FALSE

-----------------------------------------------------------------------------
(* The priority queue.                                                     *)

Queue(lane) == {m \in Messages : fate[m] = "queued" /\ Lane[m] = lane}
Full(lane) == Cardinality(Queue(lane)) >= Capacity[lane]

\* The sequence number drawn for m when its publish call began.
Sequence(m) == CHOOSE i \in DOMAIN order : order[i] = m

\* Heap order: the lower priority number first, then the older message.
BadBefore(m, n) ==
  \/ Priority[m] < Priority[n]
  \/ Priority[m] = Priority[n] /\ Sequence(m) > Sequence(n)
Before(m, n) ==
  \/ Priority[m] < Priority[n]
  \/ Priority[m] = Priority[n] /\ Sequence(m) < Sequence(n)

First(lane) == CHOOSE m \in Queue(lane) : \A n \in Queue(lane) \ {m} : Before(m, n)
Worst(lane) == CHOOSE m \in Queue(lane) : \A n \in Queue(lane) \ {m} : Before(n, m)

\* The per-session counters of the input lanes: one message more, and
\* _decrement_pending(), which never goes below zero.
AddPending(m) ==
  IF Lane[m] \in InputLanes THEN [pending EXCEPT ![Lane[m]][Session[m]] = @ + 1]
  ELSE pending
BadDropPending(m) == pending
DropPending(m) ==
  IF Lane[m] \in InputLanes
  THEN [pending EXCEPT ![Lane[m]][Session[m]] = IF @ <= 1 THEN 0 ELSE @ - 1]
  ELSE pending

\* The counters when `new` displaces `old` in a full lane.
MovePending(old, new) ==
  IF Session[old] = Session[new] \/ Lane[new] \notin InputLanes THEN pending
  ELSE [pending EXCEPT ![Lane[new]][Session[new]] = @ + 1,
                       ![Lane[new]][Session[old]] = IF @ <= 1 THEN 0 ELSE @ - 1]

\* The event of an output lane that wakes the channel dispatcher.
BadWake(lane) == notify
Wake(lane) == IF lane \in OutputLanes THEN [notify EXCEPT ![lane] = TRUE] ELSE notify

-----------------------------------------------------------------------------
(* Publishing.                                                             *)

Accepted == {m \in Messages : publisher[m] = "accepted"}

\* The state every publish call starts from.
Begin(m) ==
  /\ publisher[m] = "idle"
  /\ order' = Append(order, m)
  /\ earlier' = [earlier EXCEPT ![m] = {n \in Accepted : Lane[n] = Lane[m]}]

\* A publish call on a closed bus raises BusClosedError.
PublishClosed(m) ==
  /\ closed
  /\ Begin(m)
  /\ publisher' = [publisher EXCEPT ![m] = "refused"]
  /\ UNCHANGED <<putTask, fate, emptyEvent, notify, pending, reader, orphan, closed>>

\* A control message is never kept waiting: it is put at once, in a full lane
\* in place of the worst message if that one is less urgent, or it is refused
\* with BusFullError.
Displaces(m, worst) == Priority[worst] > Priority[m]
PublishControl(m) ==
  LET lane == Lane[m]
      full == Full(lane)
  IN /\ ~closed
     /\ Priority[m] <= ControlPriority
     /\ Begin(m)
     /\ IF full /\ ~Displaces(m, Worst(lane))
        THEN /\ publisher' = [publisher EXCEPT ![m] = "refused"]
             /\ UNCHANGED <<fate, emptyEvent, notify, pending>>
        ELSE /\ publisher' = [publisher EXCEPT ![m] = "accepted"]
             /\ fate' = [n \in Messages |->
                           IF n = m THEN "queued"
                           ELSE IF full /\ n = Worst(lane) THEN "dropped" ELSE fate[n]]
             /\ pending' = IF full THEN MovePending(Worst(lane), m) ELSE AddPending(m)
             /\ emptyEvent' = [emptyEvent EXCEPT ![lane] = FALSE]
             /\ notify' = Wake(lane)
     /\ UNCHANGED <<putTask, reader, orphan, closed>>

\* Any other publish call counts the message and starts its put task.
PublishWaiting(m) ==
  /\ ~closed
  /\ Priority[m] > ControlPriority
  /\ Begin(m)
  /\ publisher' = [publisher EXCEPT ![m] = "waiting"]
  /\ putTask' = [putTask EXCEPT ![m] = "running"]
  /\ pending' = AddPending(m)
  /\ UNCHANGED <<fate, emptyEvent, notify, reader, orphan, closed>>

\* The put task finds room.
Put(m) ==
  /\ putTask[m] = "running"
  /\ ~Full(Lane[m])
  /\ putTask' = [putTask EXCEPT ![m] = "done"]
  /\ fate' = [fate EXCEPT ![m] = "queued"]
  /\ UNCHANGED <<order, publisher, earlier, emptyEvent, notify, pending, reader,
                 orphan, closed>>

\* The publisher resumes, or is cancelled as it waits, after its put task
\* finished: the message is in, and the cancellation is not raised again.
Resume(m) ==
  /\ publisher[m] = "waiting"
  /\ putTask[m] = "done"
  /\ publisher' = [publisher EXCEPT ![m] = "accepted"]
  /\ emptyEvent' = [emptyEvent EXCEPT ![Lane[m]] = FALSE]
  /\ notify' = Wake(Lane[m])
  /\ UNCHANGED <<order, putTask, fate, earlier, pending, reader, orphan, closed>>

\* The publisher is cancelled in the finally block, where it waits for the two
\* tasks: it is told so although the message is in, which is no longer counted
\* and wakes nobody.
CancelLate(m) ==
  /\ publisher[m] = "waiting"
  /\ putTask[m] = "done"
  /\ publisher' = [publisher EXCEPT ![m] = "misled"]
  /\ emptyEvent' = [emptyEvent EXCEPT ![Lane[m]] = FALSE]
  /\ pending' = DropPending(m)
  /\ UNCHANGED <<order, putTask, fate, earlier, notify, reader, orphan, closed>>

\* The put task is cancelled in the finally block of _publish.
AbandonPut(m) == [putTask EXCEPT ![m] = "none"]

\* The publisher is cancelled, or the bus closes, before the put.
GiveUp(m, answer) ==
  /\ publisher[m] = "waiting"
  /\ putTask[m] = "running"
  /\ publisher' = [publisher EXCEPT ![m] = answer]
  /\ putTask' = AbandonPut(m)
  /\ pending' = DropPending(m)
  /\ UNCHANGED <<order, fate, earlier, emptyEvent, notify, reader, orphan, closed>>

CancelPublish(m) == GiveUp(m, "cancelled")

RefuseWaiting(m) == closed /\ GiveUp(m, "refused")

-----------------------------------------------------------------------------
(* Consuming.                                                              *)

\* m leaves the queue of its lane for its consumer.
Deliver(m) ==
  /\ fate' = [fate EXCEPT ![m] = "delivered"]
  /\ pending' = DropPending(m)
  /\ emptyEvent' = IF Queue(Lane[m]) \ {m} = {}
                   THEN [emptyEvent EXCEPT ![Lane[m]] = TRUE] ELSE emptyEvent

\* consume_inbound(), consume_command(): a message is there.
Consume(lane) ==
  /\ lane \in InputLanes
  /\ reader[ReaderOf(lane)] = "ready"
  /\ Queue(lane) # {}
  /\ Deliver(First(lane))
  /\ UNCHANGED <<order, publisher, putTask, earlier, notify, reader, orphan, closed>>

\* ... or the lane is empty: the consumer ends with the bus, or starts a get
\* task and waits for it or for the close event.
AwaitInput(lane) ==
  /\ lane \in InputLanes
  /\ reader[ReaderOf(lane)] = "ready"
  /\ Queue(lane) = {}
  /\ reader' = [reader EXCEPT ![ReaderOf(lane)] = IF closed THEN "ended" ELSE "waiting"]
  /\ UNCHANGED <<order, publisher, putTask, fate, earlier, emptyEvent, notify,
                 pending, orphan, closed>>

\* The get task takes a message before its consumer runs again.
Get(lane) ==
  /\ lane \in InputLanes
  /\ reader[ReaderOf(lane)] = "waiting"
  /\ Queue(lane) # {}
  /\ \A m \in Messages : Lane[m] = lane => fate[m] # "held"
  /\ fate' = [fate EXCEPT ![First(lane)] = "held"]
  /\ UNCHANGED <<order, publisher, putTask, earlier, emptyEvent, notify, pending,
                 reader, orphan, closed>>

\* The consumer resumes with what its get task holds.
ResumeConsumer(m) ==
  /\ fate[m] = "held"
  /\ fate' = [fate EXCEPT ![m] = "delivered"]
  /\ pending' = DropPending(m)
  /\ emptyEvent' = IF Queue(Lane[m]) = {}
                   THEN [emptyEvent EXCEPT ![Lane[m]] = TRUE] ELSE emptyEvent
  /\ reader' = [reader EXCEPT ![ReaderOf(Lane[m])] = "ready"]
  /\ UNCHANGED <<order, publisher, putTask, earlier, notify, orphan, closed>>

\* The close event wakes a consumer whose get task holds nothing.  It looks at
\* the queue once more before it ends.
ClosingLook(lane) == Queue(lane) # {}
CloseConsumer(lane) ==
  /\ lane \in InputLanes
  /\ closed
  /\ reader[ReaderOf(lane)] = "waiting"
  /\ \A m \in Messages : Lane[m] = lane => fate[m] # "held"
  /\ IF ClosingLook(lane)
     THEN /\ Deliver(First(lane))
          /\ reader' = [reader EXCEPT ![ReaderOf(lane)] = "ready"]
     ELSE /\ reader' = [reader EXCEPT ![ReaderOf(lane)] = "ended"]
          /\ UNCHANGED <<fate, pending, emptyEvent>>
  /\ UNCHANGED <<order, publisher, putTask, earlier, notify, orphan, closed>>

\* AgentLoop.stop(): _consume_inbound_or_stop cancels consume_inbound(), which
\* leaves its get task alone.
StopConsumer ==
  /\ StopLoop
  /\ reader["loop"] \in {"ready", "waiting"}
  /\ reader' = [reader EXCEPT !["loop"] = "stopped"]
  /\ fate' = [m \in Messages |->
                IF fate[m] = "held" /\ Lane[m] = "inbound" THEN "lost" ELSE fate[m]]
  /\ orphan' = (reader["loop"] = "waiting"
                /\ \A m \in Messages : Lane[m] = "inbound" => fate[m] # "held")
  /\ UNCHANGED <<order, publisher, putTask, earlier, emptyEvent, notify, pending, closed>>

\* The orphaned get task takes a message nobody will ever see.
OrphanGet ==
  /\ orphan
  /\ Queue("inbound") # {}
  /\ fate' = [fate EXCEPT ![First("inbound")] = "lost"]
  /\ orphan' = FALSE
  /\ UNCHANGED <<order, publisher, putTask, earlier, emptyEvent, notify, pending,
                 reader, closed>>

\* consume_outbound() prefers a control message.
OutputLane == IF Queue("control") # {} THEN "control" ELSE "outbound"
ConsumeOutput ==
  /\ reader["channels"] = "ready"
  /\ Queue(OutputLane) # {}
  /\ Deliver(First(OutputLane))
  /\ UNCHANGED <<order, publisher, putTask, earlier, notify, reader, orphan, closed>>

\* With both lanes empty it ends with the bus, or it clears the two events and
\* waits for one of them.
ClearNotify == [l \in OutputLanes |-> FALSE]
AwaitOutput ==
  /\ reader["channels"] = "ready"
  /\ Queue("control") \union Queue("outbound") = {}
  /\ IF closed
     THEN /\ reader' = [reader EXCEPT !["channels"] = "ended"]
          /\ UNCHANGED notify
     ELSE /\ reader' = [reader EXCEPT !["channels"] = "waiting"]
          /\ notify' = ClearNotify
  /\ UNCHANGED <<order, publisher, putTask, fate, earlier, emptyEvent, pending,
                 orphan, closed>>

\* What its wait ends with: one of the two events, or the close event.
Woken == closed \/ \E l \in OutputLanes : notify[l]
WakeOutput ==
  /\ reader["channels"] = "waiting"
  /\ Woken
  /\ reader' = [reader EXCEPT !["channels"] = "ready"]
  /\ UNCHANGED <<order, publisher, putTask, fate, earlier, emptyEvent, notify,
                 pending, orphan, closed>>

-----------------------------------------------------------------------------
(* Draining and closing.                                                   *)

\* drain_inbound(session): /stop takes what a session has queued; shutdown
\* drains every session.
Drain(sessions) ==
  LET drained == {m \in Queue("inbound") : Session[m] \in sessions}
  IN /\ drained # {}
     /\ fate' = [m \in Messages |-> IF m \in drained THEN "drained" ELSE fate[m]]
     /\ pending' = [pending EXCEPT !["inbound"] = [s \in Sessions |->
                      LET left == @[s] - Cardinality({m \in drained : Session[m] = s})
                      IN IF left < 0 THEN 0 ELSE left]]
     /\ emptyEvent' = IF Queue("inbound") = drained
                      THEN [emptyEvent EXCEPT !["inbound"] = TRUE] ELSE emptyEvent
     /\ UNCHANGED <<order, publisher, putTask, earlier, notify, reader, orphan, closed>>

Close ==
  /\ ~closed
  /\ closed' = TRUE
  /\ UNCHANGED <<order, publisher, putTask, fate, earlier, emptyEvent, notify,
                 pending, reader, orphan>>

Next ==
  \/ \E m \in Messages :
       \/ PublishClosed(m) \/ PublishControl(m) \/ PublishWaiting(m)
       \/ Put(m) \/ Resume(m) \/ CancelLate(m) \/ CancelPublish(m) \/ RefuseWaiting(m)
       \/ ResumeConsumer(m)
  \/ \E l \in InputLanes :
       Consume(l) \/ AwaitInput(l) \/ Get(l) \/ CloseConsumer(l)
  \/ StopConsumer \/ OrphanGet
  \/ ConsumeOutput \/ AwaitOutput \/ WakeOutput
  \/ \E s \in Sessions : Drain({s})
  \/ Drain(Sessions)
  \/ Close

\* The event loop runs every task that is ready; nobody is obliged to publish,
\* to cancel, to drain, to stop or to close.
Fairness ==
  /\ \A m \in Messages : WF_vars(Put(m) \/ Resume(m) \/ RefuseWaiting(m))
  /\ \A l \in InputLanes :
       WF_vars(Consume(l) \/ AwaitInput(l) \/ Get(l) \/ CloseConsumer(l)
               \/ \E m \in Messages : Lane[m] = l /\ ResumeConsumer(m))
  /\ WF_vars(ConsumeOutput \/ AwaitOutput \/ WakeOutput)

Spec == Init /\ [][Next]_vars
FairSpec == Spec /\ Fairness

-----------------------------------------------------------------------------
(* Safety.                                                                 *)

\* No lane ever holds more than its limit, although a put and a displacement
\* are decided before the message goes in (queue.py:133-143, 196-209).
LanesAreBounded == \A l \in Lanes : Cardinality(Queue(l)) <= Capacity[l]

\* A publisher that was told its message did not get in, or was cancelled
\* before it did, never finds it delivered later: the put task it leaves behind
\* is gone (queue.py:209-229).
RefusedIsNeverDelivered ==
  \A m \in Messages : publisher[m] \in {"refused", "cancelled"} => fate[m] = "none"

\* The counters the loop consults before it starts exclusive work on a session
\* are the messages of that session still on their way: counted before the put,
\* taken back exactly once however the publish call or the message ends
\* (queue.py:231-247, 282-292, 369-400).  A message an orphaned get task took
\* is never taken back; a publisher cancelled too late takes its own back early.
OnTheWay(lane, s) ==
  {m \in Messages : /\ Lane[m] = lane /\ Session[m] = s
                    /\ putTask[m] = "running" \/ fate[m] \in {"queued", "held", "lost"}}
PendingIsExact ==
  (\A m \in Messages : publisher[m] # "misled") =>
  \A l \in InputLanes, s \in Sessions :
    pending[l][s] = Cardinality(OnTheWay(l, s))

\* An input is lost only by a loop that stops, and then at most one: what its
\* get task held, or what the task it leaves behind takes
\* (queue.py:318-331, agent/loop.py:2599-2608).
StopLosesAtMostOne ==
  LET lost == {m \in Messages : fate[m] = "lost"}
  IN /\ Cardinality(lost) <= 1
     /\ lost # {} => reader["loop"] = "stopped" /\ ~orphan


\* Limits, verdicts and counters agree however publish calls, consumers and
\* drains meet, are cancelled or stop.
BusInv ==
  /\ TypeOK
  /\ LanesAreBounded
  /\ RefusedIsNeverDelivered
  /\ PendingIsExact
  /\ StopLosesAtMostOne

\* A message whose publisher waited for an earlier one of the same lane to be
\* accepted never overtakes it, unless it is more urgent: a turn's final reply
\* does not reach a channel before its own progress (queue.py:178-182).
LedgerOrder ==
  [][\A m \in Messages : fate[m] # "delivered" /\ fate'[m] = "delivered" =>
       \A n \in earlier[m] :
         Priority[n] <= Priority[m] => fate[n] \notin {"queued", "held"}]_vars

(* Liveness. *)

\* Every message accepted by an open bus reaches its consumer or is taken out
\* by a drain or a displacement, unless the loop stops: no wake-up of a consumer is lost, and closing
\* the bus lets the consumers finish what is queued (queue.py:333-339, 342-367).
AcceptedLeaves ==
  \A m \in Messages :
    (publisher[m] = "accepted" /\ ~closed) ~>
      (fate[m] \notin {"queued", "held"} \/ reader[ReaderOf(Lane[m])] = "stopped")

\* Closing ends every publish call and every consumer (queue.py:430-432).
CloseReleasesEveryone ==
  closed ~> /\ \A m \in Messages : publisher[m] # "waiting"
            /\ \A r \in Readers : reader[r] \notin {"ready", "waiting"}

\* Neither a message nor a waiting task is forgotten.
NobodyWaitsForEver == AcceptedLeaves /\ CloseReleasesEveryone

=============================================================================
