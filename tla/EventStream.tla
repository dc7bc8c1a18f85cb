---------------------------- MODULE EventStream ----------------------------
(***************************************************************************)
(* The event stream between the runtime and one browser tab: SseBroker of   *)
(* api/events.py, with its bounded history and its bounded queue of a       *)
(* subscriber, and connectEvents() of the frontend's api/sse.ts, the loop    *)
(* that reads, reconnects with Last-Event-ID, recovers the state over REST   *)
(* after a "stream.reset", and is suspended with its page.                  *)
(*                                                                         *)
(* Events are their identifiers.  What a tab displays is "known", the events *)
(* its view accounts for: one per event it is given, and all those published *)
(* before the first request of a recovery.  The events a connection still    *)
(* owes the tab are "wire" (replayed, or taken by the response) and "queue". *)
(***************************************************************************)
EXTENDS Naturals, Sequences

CONSTANTS
  HistoryLimit,      \* events kept for replay
  SubscriberLimit,   \* events queued for a subscriber
  MaxEvents,         \* bound: events published by one run of the server
  MaxLosses,         \* bound: lost connections and refused requests
  MaxSuspends,       \* bound: times the page enters the back/forward cache
  MaxRestarts        \* bound: restarts of the server

StreamAssumption ==
  /\ HistoryLimit \in Nat \ {0}
  /\ SubscriberLimit \in Nat \ {0, 1}
  /\ MaxEvents \in Nat /\ MaxLosses \in Nat /\ MaxSuspends \in Nat /\ MaxRestarts \in Nat
ASSUME StreamAssumption

VARIABLES
  server,        \* "up", "closed" (close() was called), or "down"
  newest,        \* _event_id
  subscribed,    \* the broker has a subscriber: the tab's connection is open
  wire, queue,   \* what the connection still delivers
  pc,            \* where open() of connectEvents is, "idle" outside of it
  cursor,        \* lastEventId, 0 when empty
  dirty,         \* recoveryDirty
  timer,         \* recoveryTimer is set
  attempt,       \* recoveryPromise: "none", "asked", "read"
  suspended,     \* the page is in the back/forward cache
  resumePending,
  known,         \* history: events of this run of the server the view accounts for
  snapshot,      \* newest when the recovery under way read the state
  sameRun,       \* history: cursor was given by this run of the server
  lost,          \* history: events that had left the window when a tab connected without a cursor
  losses, suspends, restarts   \* counters of the bounds

broker  == <<server, newest>>
conn    == <<subscribed, wire, queue>>
recover == <<dirty, timer, attempt, snapshot>>
page    == <<suspended, resumePending>>
view    == <<known, sameRun, lost>>
bounds  == <<losses, suspends, restarts>>
vars    == <<broker, conn, pc, cursor, recover, page, view, bounds>>

Event(n) == [kind |-> "event", id |-> n]
Reset(n) == [kind |-> "stream.reset", id |-> n]
End      == [kind |-> "end", id |-> 0]
Item     == [kind : {"event", "stream.reset", "end"}, id : Nat]

\* The first event the history still holds.
Oldest == IF newest > HistoryLimit THEN newest - HistoryLimit + 1 ELSE 1

TypeOK ==
  /\ server \in {"up", "closed", "down"}
  /\ newest \in 0..MaxEvents
  /\ subscribed \in BOOLEAN
  /\ wire \in Seq(Item)
  /\ queue \in Seq(Item) /\ Len(queue) <= SubscriberLimit
  /\ pc \in {"idle", "top", "recover", "reset", "fetch", "read", "wait", "left"}
  /\ cursor \in 0..MaxEvents
  /\ dirty \in BOOLEAN
  /\ timer \in BOOLEAN
  /\ attempt \in {"none", "asked", "read"}
  /\ snapshot \in 0..MaxEvents
  /\ suspended \in BOOLEAN
  /\ resumePending \in BOOLEAN
  /\ known \in SUBSET (1..MaxEvents)
  /\ sameRun \in BOOLEAN
  /\ lost \in SUBSET (1..MaxEvents)
  /\ losses \in 0..MaxLosses
  /\ suspends \in 0..MaxSuspends
  /\ restarts \in 0..MaxRestarts

\* The tab has loaded its state and opens the stream.
Init ==
  /\ server = "up"
  /\ newest = 0
  /\ subscribed = FALSE
  /\ wire = <<>>
  /\ queue = <<>>
  /\ pc = "top"
  /\ cursor = 0
  /\ dirty = FALSE
  /\ timer = FALSE
  /\ attempt = "none"
  /\ snapshot = 0
  /\ suspended = FALSE
  /\ resumePending = FALSE
  /\ known = {}
  /\ sameRun = TRUE
  /\ lost = {}
  /\ losses = 0
  /\ suspends = 0
  /\ restarts = 0

-----------------------------------------------------------------------------
(* The broker. *)

\* _offer(): a subscriber that overflows loses its queue and is told so.
Offer(n) ==
  queue' = IF Len(queue) < SubscriberLimit THEN Append(queue, Event(n))
           ELSE <<Reset(n)>>

\* publish(): the event enters the history, whose oldest may leave it.
Publish ==
  /\ server = "up"
  /\ newest < MaxEvents
  /\ newest' = newest + 1
  /\ IF subscribed THEN Offer(newest + 1) ELSE UNCHANGED queue
  /\ UNCHANGED <<server, subscribed, wire, pc, cursor, recover, page, view, bounds>>

\* The response takes the next event of its queue; the sentinel of close()
\* ends it.
Send ==
  /\ wire = <<>> /\ queue # <<>>
  /\ wire' = <<Head(queue)>>
  /\ queue' = Tail(queue)
  /\ UNCHANGED <<broker, subscribed, pc, cursor, recover, page, view, bounds>>

BadReplay ==                  \* the last event seen is sent again
  IF cursor > newest \/ (cursor # 0 /\ cursor < Oldest - 1) THEN <<Reset(newest)>>
  ELSE LET from == IF cursor < Oldest THEN Oldest ELSE cursor
       IN  [i \in 1..(newest - from + 1) |-> Event(from + i - 1)]

BadReplayWindow ==            \* off by one: one event that left the window is not missed
  IF cursor > newest \/ (cursor # 0 /\ cursor + 1 < Oldest - 1) THEN <<Reset(newest)>>
  ELSE LET from == IF cursor + 1 < Oldest THEN Oldest ELSE cursor + 1
       IN  [i \in 1..(newest - from + 1) |-> Event(from + i - 1)]

\* What open_subscription() replays to a subscriber that has seen cursor: the
\* rest of the history, or a reset when events it has not seen left it.
Replay ==
  IF cursor > newest \/ (cursor # 0 /\ cursor < Oldest - 1) THEN <<Reset(newest)>>
  ELSE LET from == IF cursor + 1 < Oldest THEN Oldest ELSE cursor + 1
       IN  [i \in 1..(newest - from + 1) |-> Event(from + i - 1)]

\* close(): queues are emptied for the sentinel that ends their streams.
CloseBroker ==
  /\ server = "up"
  /\ restarts < MaxRestarts
  /\ server' = "closed"
  /\ queue' = IF subscribed THEN <<End>> ELSE <<>>
  /\ UNCHANGED <<newest, subscribed, wire, pc, cursor, recover, page, view, bounds>>

\* The process ends and its connections break.
Crash ==
  /\ server # "down"
  /\ restarts < MaxRestarts
  /\ restarts' = restarts + 1
  /\ server' = "down"
  /\ newest' = 0
  /\ subscribed' = FALSE
  /\ wire' = <<>>
  /\ queue' = <<>>
  /\ pc' = IF pc = "read" THEN "wait" ELSE pc
  /\ known' = {}
  /\ lost' = {}
  /\ snapshot' = 0
  /\ sameRun' = (cursor = 0)
  /\ UNCHANGED <<cursor, dirty, timer, attempt, page, losses, suspends>>

\* A new process numbers its events from one.
Restart ==
  /\ server = "down"
  /\ server' = "up"
  /\ UNCHANGED <<newest, conn, pc, cursor, recover, page, view, bounds>>

-----------------------------------------------------------------------------
(* The loop of open(). *)

NoConnection == subscribed' = FALSE /\ wire' = <<>> /\ queue' = <<>>

\* The head of the loop: a tab whose view has to be recovered asks for that
\* first, or waits when the recovery is already on a timer.
Top ==
  /\ pc = "top" /\ ~suspended
  /\ IF ~dirty THEN pc' = "fetch" /\ UNCHANGED attempt
     ELSE IF timer THEN pc' = "wait" /\ UNCHANGED attempt
     ELSE pc' = "recover" /\ attempt' = IF attempt = "none" THEN "asked" ELSE attempt
  /\ UNCHANGED <<broker, conn, cursor, dirty, timer, snapshot, page, view, bounds>>

\* fetch() is answered: the subscriber is registered and the history read in
\* one step.
Connect ==
  /\ pc = "fetch" /\ server = "up"
  /\ pc' = "read"
  /\ subscribed' = TRUE
  /\ wire' = Replay
  /\ queue' = <<>>
  /\ lost' = IF cursor = 0 THEN lost \cup (1..(Oldest - 1) \ known) ELSE lost
  /\ UNCHANGED <<broker, cursor, recover, page, known, sameRun, bounds>>

\* fetch() fails: the server is away, or refuses a subscriber too many.
Refused ==
  /\ pc = "fetch"
  /\ \/ server # "up" /\ UNCHANGED losses
     \/ server = "up" /\ losses < MaxLosses /\ losses' = losses + 1
  /\ pc' = "wait"
  /\ UNCHANGED <<broker, conn, cursor, recover, page, view, suspends, restarts>>

\* An event is given to the view and its number kept.
Receive ==
  /\ pc = "read" /\ wire # <<>>
  /\ Head(wire).kind = "event"
  /\ known' = known \cup {Head(wire).id}
  /\ cursor' = Head(wire).id
  /\ wire' = Tail(wire)
  /\ UNCHANGED <<broker, subscribed, queue, pc, recover, page, sameRun, lost, bounds>>

\* A reset closes the connection; recoverReset() recovers at once or, when the
\* last overflow is recent, with a timer.
ReceiveReset ==
  /\ pc = "read" /\ wire # <<>>
  /\ Head(wire).kind = "stream.reset"
  /\ cursor' = Head(wire).id
  /\ sameRun' = TRUE
  /\ NoConnection
  /\ dirty' = TRUE
  /\ \/ /\ pc' = "reset"
        /\ timer' = FALSE
        /\ attempt' = "asked"
     \/ /\ pc' = "wait"
        /\ timer' = TRUE
        /\ UNCHANGED attempt
  /\ UNCHANGED <<broker, snapshot, page, known, lost, bounds>>

\* The stream ends, the connection breaks, or the view's handler throws: the
\* event at hand is asked for again.
LoseConnection ==
  /\ pc = "read"
  /\ \/ wire # <<>> /\ Head(wire) = End /\ UNCHANGED losses
     \/ losses < MaxLosses /\ losses' = losses + 1
  /\ NoConnection
  /\ pc' = "wait"
  /\ UNCHANGED <<broker, cursor, recover, page, view, suspends, restarts>>

\* wait() ends.
Retry ==
  /\ pc = "wait"
  /\ pc' = "top"
  /\ UNCHANGED <<broker, conn, cursor, recover, page, view, bounds>>

BadLeave ==                   \* the pending resume is forgotten
  /\ pc = "left" \/ (pc = "top" /\ suspended)
  /\ pc' = "idle"
  /\ resumePending' = FALSE
  /\ UNCHANGED <<broker, conn, cursor, recover, suspended, view, bounds>>

\* open() returns, and starts again when the page was resumed meanwhile.
Leave ==
  /\ pc = "left" \/ (pc = "top" /\ suspended)
  /\ IF resumePending /\ ~suspended
     THEN pc' = "top" /\ resumePending' = FALSE
     ELSE pc' = "idle" /\ UNCHANGED resumePending
  /\ UNCHANGED <<broker, conn, cursor, recover, suspended, view, bounds>>

-----------------------------------------------------------------------------
(* Recovery: attemptRecovery() and its timer. *)

\* Where open() goes when the recovery it awaits ends.
AfterAttempt(recovered) ==
  CASE pc \in {"recover", "reset"} /\ suspended -> "left"
    [] pc = "recover" /\ ~suspended -> IF recovered THEN "fetch" ELSE "wait"
    [] pc = "reset" /\ ~suspended -> "wait"
    [] OTHER -> pc

\* The requests of onReset() are answered with the state of the server.
ReadState ==
  /\ attempt = "asked" /\ ~suspended /\ server # "down"
  /\ attempt' = "read"
  /\ snapshot' = newest
  /\ UNCHANGED <<broker, conn, pc, cursor, dirty, timer, page, view, bounds>>

\* The state is in the view.
Recovered ==
  /\ attempt = "read"
  /\ attempt' = "none"
  /\ known' = known \cup 1..snapshot
  /\ lost' = {e \in lost : e > snapshot}
  /\ dirty' = FALSE
  /\ pc' = AfterAttempt(TRUE)
  /\ UNCHANGED <<broker, conn, cursor, timer, snapshot, page, sameRun, bounds>>

BadAttemptFails ==            \* a failed recovery counts
  /\ attempt # "none"
  /\ attempt' = "none"
  /\ losses < MaxLosses /\ losses' = losses + 1
  /\ dirty' = FALSE
  /\ timer' = (timer \/ ~suspended)
  /\ pc' = AfterAttempt(FALSE)
  /\ UNCHANGED <<broker, conn, cursor, snapshot, page, view, suspends, restarts>>

\* A request fails, or the page was suspended before the first: the recovery is
\* tried again with a timer.
AttemptFails ==
  /\ attempt # "none"
  /\ \/ (server = "down" \/ suspended) /\ UNCHANGED losses
     \/ losses < MaxLosses /\ losses' = losses + 1
  /\ attempt' = "none"
  /\ timer' = (timer \/ ~suspended)
  /\ pc' = AfterAttempt(FALSE)
  /\ UNCHANGED <<broker, conn, cursor, dirty, snapshot, page, view, suspends, restarts>>

RecoveryTimer ==
  /\ timer
  /\ timer' = FALSE
  /\ attempt' = IF dirty /\ ~suspended /\ attempt = "none" THEN "asked" ELSE attempt
  /\ UNCHANGED <<broker, conn, pc, cursor, dirty, snapshot, page, view, bounds>>

-----------------------------------------------------------------------------
(* The page enters the back/forward cache and leaves it. *)

Suspend ==
  /\ ~suspended
  /\ suspends < MaxSuspends
  /\ suspends' = suspends + 1
  /\ suspended' = TRUE
  /\ NoConnection
  /\ timer' = FALSE
  /\ pc' = CASE pc \in {"fetch", "read"} -> "left"
             [] pc = "wait" -> "top"
             [] OTHER -> pc
  /\ UNCHANGED <<broker, cursor, dirty, attempt, snapshot, resumePending, view, losses, restarts>>

Resume ==
  /\ suspended
  /\ suspended' = FALSE
  /\ timer' = (timer \/ dirty)
  /\ IF pc = "idle" THEN pc' = "top" /\ UNCHANGED resumePending
     ELSE resumePending' = TRUE /\ UNCHANGED pc
  /\ UNCHANGED <<broker, conn, cursor, dirty, attempt, snapshot, view, bounds>>

Loop == \/ Top \/ Connect \/ Refused \/ Receive \/ ReceiveReset \/ LoseConnection
        \/ Retry \/ Leave
Recovery == ReadState \/ Recovered \/ AttemptFails

Next ==
  \/ Publish \/ Send \/ CloseBroker \/ Crash \/ Restart
  \/ Loop \/ Recovery \/ RecoveryTimer \/ Suspend \/ Resume

\* Responses are written, the browser runs its tasks and its timers, and
\* requests end.
Fairness == WF_vars(Send) /\ WF_vars(Loop) /\ WF_vars(Recovery) /\ WF_vars(RecoveryTimer)

Spec == Init /\ [][Next]_vars
FairSpec == Spec /\ Fairness

-----------------------------------------------------------------------------
(* Properties.  They speak of a tab whose cursor is of the running server   *)
(* (the numbers of another run mean nothing, and the server cannot tell      *)
(* them apart), and not of events a tab that has seen none never heard of:   *)
(* without Last-Event-ID the server gives no reset.                         *)

Published == 1..newest
Owed == {wire[i] : i \in DOMAIN wire} \cup {queue[i] : i \in DOMAIN queue}

\* No event is missed in silence: every event is in the view, on its way, to be
\* asked for, or its absence is announced by a reset on its way or a recovery
\* to come.  Overflows, lost connections, suspensions and the replay window
\* at its limit all lie between a publication and the view.
GapIsAnnounced ==
  sameRun =>
    \A e \in Published \ (known \cup lost) :
      \/ dirty
      \/ \E item \in Owed : item = Event(e) \/ item.kind = "stream.reset"
      \/ ~subscribed /\ e > cursor
      \/ \E item \in Owed : item = End /\ e > cursor

\* The number given back to the server stands for all events before it: a tab
\* that has no recovery to do has them in its view.
CursorIsHonest ==
  sameRun /\ ~dirty => \A e \in 1..cursor : e \in known \cup lost

\* No stream is read while the view is known to be out of date.
RecoversFirst == subscribed => ~dirty

\* Within a run of the server, a tab is given every event at most once and in
\* the order of publication.
EachOnceInOrder ==
  [][Receive /\ sameRun => Head(wire).id > cursor]_vars

\* A tab that is not suspended catches up with a server that stays up.
CatchesUp ==
  <>[](suspended \/ server # "up" \/ ~sameRun \/ known \cup lost = Published)

\* What the tab knows and when it reads.
EventsInv == TypeOK /\ CursorIsHonest /\ RecoversFirst

=============================================================================
