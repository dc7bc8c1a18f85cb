--------------------------- MODULE SessionRoutes ---------------------------
(***************************************************************************)
(* Requests to one Web session: the idempotency cache and the session routes *)
(* of api/app.py, the routing guard and the session actions of               *)
(* application/control.py, commands that run in a request                     *)
(* (application/command_dispatcher.py), and what they meet in the agent loop  *)
(* (the queue, the hand-off, turns, is_session_busy) and in the Web channel    *)
(* (sends take the same guard).                                              *)
(*                                                                         *)
(* The guard is a FIFO lock per route.  Whoever holds it runs the nested       *)
(* guards of the same route at once (it is re-entrant for a task), so `line`   *)
(* has every user once.  The channel dispatcher is one task for the outbound   *)
(* messages of all channels: while it waits for the guard, all of them wait.   *)
(* A turn is named by the request that submitted it; a chat has one session.   *)
(***************************************************************************)
EXTENDS Integers, FiniteSets, SequencesExt

CONSTANTS
  Requests,
  Keys,        \* values of Idempotency-Key
  None,
  Dispatcher,  \* the user of the guard that is no request
  Plans,       \* what is asked for; see PlanType
  MaxMutations,  \* of the idempotency cache, and limit of its flights
  MaxUsers,    \* requests that may use one key at a time
  OutSize      \* bound of the outbound lane

Kinds == {"submit", "delete", "compact", "run", "absent"}
\* `key` and `print` (the fingerprint of the body) matter for submissions.
\* Bounds: `outputs` of a job that is run by hand, `others`, the output of other
\* conversations.  `fault` allows a session that cannot be read, `closes` the end
\* of the server, `forgets` the end of an entry's life.
PlanType == [kind : [Requests -> Kinds], key : [Requests -> Keys], print : [Requests -> Nat],
             outputs : Nat, others : Nat, fault : BOOLEAN, closes : BOOLEAN, forgets : BOOLEAN]

RoutesAssumption ==
  /\ None \notin Requests \cup Keys /\ Dispatcher \notin Requests \cup {None}
  /\ Plans \subseteq PlanType
  /\ MaxMutations \in Nat \ {0} /\ MaxUsers \in Nat \ {0} /\ OutSize \in Nat \ {0}
ASSUME RoutesAssumption

VARIABLES
  plan,
  caller,     \* the client's request: "new", "waiting", "answered", "gone"
  flight,     \* the request whose work a caller waits for
  result,     \* what a caller was told: a turn, or a status
  remembered, \* _entries: completed mutations, least recently used first
  inflight,   \* _inflight: the work under way of each key
  closing,    \* close(): "no", "waits", "closed"
  work,       \* the handler, or the flight's task
  answer,     \* the status it ends with
  loaded,     \* the revision that If-Match was compared with
  line,       \* routing_guard: its owner and those who wait
  exclusive,  \* _exclusive_sessions: who has reserved the session
  session,    \* "there", "gone", or "new": another was created in its chat
  revision,
  place,      \* the turn of a submission
  out,        \* the outbound lane
  sending,    \* the message that the dispatcher has taken
  left,       \* outputs and others still to come
  forgotten,  \* history: works whose entry was evicted or has expired
  blind       \* history: turns that is_session_busy() did not see

cacheVars   == <<caller, flight, result, remembered, inflight, closing, forgotten>>
routeVars   == <<line, exclusive, session, revision, blind>>
outVars     == <<out, sending, left>>
workVars    == <<work, answer, loaded>>
routesVars  == <<plan, cacheVars, workVars, routeVars, place, outVars>>

Statuses == {"accepted", "ok", "missing", "refused", "changed", "busy", "error", "cancelled"}
Places == {"none", "registered", "lane", "gap", "task", "running", "replying", "over"}
\* An outbound message: the reply of a turn, or another one to this chat or not.
Output == [turn : Requests \cup {None}, web : BOOLEAN]

RoutesTypeOK ==
  /\ plan \in Plans
  /\ caller \in [Requests -> {"new", "waiting", "answered", "gone"}]
  /\ flight \in [Requests -> Requests \cup {None}]
  /\ result \in [Requests -> Statuses \cup {"none", "conflict"}]
  /\ remembered \in Seq(Requests) /\ inflight \in [Keys -> Requests \cup {None}]
  /\ closing \in {"no", "waits", "closed"}
  /\ work \in [Requests -> {"none", "arrived", "queued", "publishing", "deleting",
                            "cleaning", "compacting", "job", "over"}]
  /\ answer \in [Requests -> Statuses \cup {"none"}] /\ loaded \in [Requests -> Nat]
  /\ line \in Seq(Requests \cup {Dispatcher}) /\ exclusive \in Requests \cup {None}
  /\ session \in {"there", "gone", "new"} /\ revision \in Nat
  /\ place \in [Requests -> Places]
  /\ out \in Seq(Output) /\ sending \in Output \cup {None}
  /\ left \in [outputs : Nat, others : Nat]
  /\ forgotten \subseteq Requests /\ blind \subseteq Requests

RoutesInit ==
  /\ plan \in Plans
  /\ caller = [r \in Requests |-> "new"] /\ flight = [r \in Requests |-> None]
  /\ result = [r \in Requests |-> "none"]
  /\ remembered = <<>> /\ inflight = [k \in Keys |-> None] /\ closing = "no"
  /\ work = [r \in Requests |-> "none"] /\ answer = [r \in Requests |-> "none"]
  /\ loaded = [r \in Requests |-> 0]
  /\ line = <<>> /\ exclusive = None /\ session = "there" /\ revision = 0
  /\ place = [r \in Requests |-> "none"]
  /\ out = <<>> /\ sending = None
  /\ left = [outputs |-> plan.outputs, others |-> plan.others]
  /\ forgotten = {} /\ blind = {}

-----------------------------------------------------------------------------
(* The idempotency cache.  execute() keeps its key's lock over no await, so    *)
(* that entering is one step.                                                *)

Keyed(r) == plan.kind[r] = "submit"
Key(r)   == plan.key[r]
Users(k) == {q \in Requests : caller[q] = "waiting" /\ Keyed(q) /\ Key(q) = k}
UsedKeys == {k \in Keys : Users(k) # {}}
Flights  == {k \in Keys : inflight[k] # None}
Entry(k) == {e \in ToSet(remembered) : Key(e) = k}

Tell(r, status, of) ==
  /\ caller' = [caller EXCEPT ![r] = "answered"]
  /\ result' = [result EXCEPT ![r] = status]
  /\ flight' = [flight EXCEPT ![r] = of]
Refuse(r, status) ==
  /\ Tell(r, status, None)
  /\ UNCHANGED <<remembered, inflight, work>>

\* _register_key() and the closed check.
AtCapacity(r) ==
  \/ Key(r) \notin UsedKeys /\ Cardinality(UsedKeys) >= MaxMutations
  \/ Cardinality(Users(Key(r))) >= MaxUsers
  \/ closing # "no"
Repeats(r, e) == plan.print[r] = plan.print[e]

Replays(r, e) ==
  /\ IF Repeats(r, e)
     THEN /\ Tell(r, answer[e], e)
          /\ remembered' = Append(RemoveFirst(remembered, e), e)
          /\ UNCHANGED <<inflight, work>>
     ELSE Refuse(r, "conflict")
Joins(r, f) ==
  IF Repeats(r, f)
  THEN /\ caller' = [caller EXCEPT ![r] = "waiting"] /\ flight' = [flight EXCEPT ![r] = f]
       /\ UNCHANGED <<result, remembered, inflight, work>>
  ELSE Refuse(r, "conflict")
TakesOff(r) ==
  /\ caller' = [caller EXCEPT ![r] = "waiting"] /\ flight' = [flight EXCEPT ![r] = r]
  /\ inflight' = [inflight EXCEPT ![Key(r)] = r]
  /\ work' = [work EXCEPT ![r] = "arrived"]
  /\ UNCHANGED <<result, remembered>>

Execute(r) ==
  /\ caller[r] = "new" /\ Keyed(r)
  /\ IF AtCapacity(r) THEN Refuse(r, "busy")
     ELSE IF Entry(Key(r)) # {} THEN \E e \in Entry(Key(r)) : Replays(r, e)
     ELSE IF inflight[Key(r)] # None THEN Joins(r, inflight[Key(r)])
     ELSE IF Cardinality(Flights) >= MaxMutations THEN Refuse(r, "busy")
     ELSE TakesOff(r)
  /\ UNCHANGED <<plan, closing, forgotten, answer, loaded, routeVars, place, outVars>>

\* A request without a key runs its handler itself.
Request(r) ==
  /\ caller[r] = "new" /\ ~Keyed(r) /\ plan.kind[r] # "absent"
  /\ caller' = [caller EXCEPT ![r] = "waiting"] /\ flight' = [flight EXCEPT ![r] = r]
  /\ work' = [work EXCEPT ![r] = "arrived"]
  /\ UNCHANGED <<plan, result, remembered, inflight, closing, forgotten, answer, loaded,
                 routeVars, place, outVars>>

\* The end of a work: _complete() for a flight.  A failure (500 and above) is not
\* remembered.
BadRemembered(status) == status \in {"ok", "missing", "refused"}    \* a 202 is not final
Remembered(status) == status \notin {"busy", "error", "cancelled"}
Ends(r, status) ==
  /\ work' = [work EXCEPT ![r] = "over"]
  /\ answer' = [answer EXCEPT ![r] = status]
  /\ IF Keyed(r)
     THEN LET all == Append(remembered, r) IN
          /\ inflight' = [inflight EXCEPT ![Key(r)] = None]
          /\ IF Remembered(status)
             THEN /\ remembered' = IF Len(all) > MaxMutations THEN Tail(all) ELSE all
                  /\ forgotten' = forgotten \cup (ToSet(all) \ ToSet(remembered'))
             ELSE UNCHANGED <<remembered, forgotten>>
     ELSE UNCHANGED <<remembered, inflight, forgotten>>
  /\ UNCHANGED <<plan, caller, flight, result, closing>>
Continues(r, step) ==
  /\ work' = [work EXCEPT ![r] = step]
  /\ UNCHANGED <<plan, cacheVars, answer>>

\* `await asyncio.shield(task)` returns.
Answered(r) ==
  /\ caller[r] = "waiting" /\ work[flight[r]] = "over"
  /\ Tell(r, answer[flight[r]], flight[r])
  /\ UNCHANGED <<plan, remembered, inflight, closing, forgotten, workVars, routeVars, place, outVars>>

\* The client goes away; the flight goes on.
Disconnect(r) ==
  /\ caller[r] = "waiting" /\ Keyed(r)
  /\ caller' = [caller EXCEPT ![r] = "gone"]
  /\ UNCHANGED <<plan, flight, result, remembered, inflight, closing, forgotten, workVars,
                 routeVars, place, outVars>>

\* An entry has expired; the next request removes it.
Forget(e) ==
  /\ plan.forgets /\ e \in ToSet(remembered)
  /\ remembered' = RemoveFirst(remembered, e) /\ forgotten' = forgotten \cup {e}
  /\ UNCHANGED <<plan, caller, flight, result, inflight, closing, workVars, routeVars, place, outVars>>

CloseCache ==
  /\ plan.closes /\ closing = "no"
  /\ closing' = "waits"
  /\ UNCHANGED <<plan, caller, flight, result, remembered, inflight, forgotten, workVars,
                 routeVars, place, outVars>>
CacheClosed ==
  /\ closing = "waits" /\ Flights = {}
  /\ closing' = "closed"
  /\ UNCHANGED <<plan, caller, flight, result, remembered, inflight, forgotten, workVars,
                 routeVars, place, outVars>>

-----------------------------------------------------------------------------
(* The guard.                                                               *)

Holds(u) == line # <<>> /\ Head(line) = u
Waits(u) == line' = Append(line, u)
Leaves(u) == line' = RemoveFirst(line, u)

\* The session of the request is looked up before and after the guard.
Enter(r) ==
  /\ work[r] = "arrived"
  /\ IF session # "there"
     THEN Ends(r, "missing") /\ UNCHANGED line
     ELSE Continues(r, "queued") /\ Waits(r)
  /\ loaded' = [loaded EXCEPT ![r] = revision]
  /\ UNCHANGED <<exclusive, session, revision, blind, place, outVars>>

Called(r, kind) == work[r] = "queued" /\ Holds(r) /\ plan.kind[r] = kind
Missing(r) ==
  /\ work[r] = "queued" /\ Holds(r) /\ session # "there"
  /\ Ends(r, "missing") /\ Leaves(r)
  /\ UNCHANGED <<loaded, exclusive, session, revision, blind, place, outVars>>

-----------------------------------------------------------------------------
(* Submissions.                                                             *)

Unfinished == {r \in Requests : place[r] \notin {"none", "over"}}

\* accept(): the attachments are leased and the activity is recorded with the
\* turn registered; only the guard keeps others out meanwhile.
Admit(r) ==
  /\ Called(r, "submit") /\ session = "there"
  /\ IF Unfinished # {}
     THEN Ends(r, "refused") /\ Leaves(r) /\ UNCHANGED place
     ELSE /\ Continues(r, "publishing")
          /\ place' = [place EXCEPT ![r] = "registered"]
          /\ UNCHANGED line
  /\ UNCHANGED <<loaded, exclusive, session, revision, blind, outVars>>

PublishTurn(r) ==
  /\ work[r] = "publishing"
  /\ Ends(r, "accepted") /\ Leaves(r)
  /\ place' = [place EXCEPT ![r] = "lane"]
  /\ UNCHANGED <<loaded, exclusive, session, revision, blind, outVars>>

\* The inbound lane has no room for two seconds.
PublishTimesOut(r) ==
  /\ work[r] = "publishing"
  /\ Ends(r, "busy") /\ Leaves(r)
  /\ place' = [place EXCEPT ![r] = "over"]
  /\ UNCHANGED <<loaded, exclusive, session, revision, blind, outVars>>

\* close() of the cache cancels, after five seconds, what is still under way.
CancelFlight(r) ==
  /\ closing = "waits" /\ Keyed(r) /\ work[r] \in {"arrived", "queued", "publishing"}
  /\ Ends(r, "cancelled") /\ Leaves(r)
  /\ place' = [place EXCEPT ![r] = IF @ = "registered" THEN "over" ELSE @]
  /\ UNCHANGED <<loaded, exclusive, session, revision, blind, outVars>>

-----------------------------------------------------------------------------
(* Turns in the agent loop.                                                  *)

TurnStep(r, from, to) ==
  /\ place[r] = from /\ place' = [place EXCEPT ![r] = to]
  /\ UNCHANGED <<plan, cacheVars, workVars, line, exclusive, blind>>

\* The bus no longer counts the message; run() receives it some iterations of
\* the event loop later.
Consume(r) == TurnStep(r, "lane", "gap") /\ UNCHANGED <<session, revision, outVars>>
\* _handoff_messages, and without an await the task in _active_tasks.
HandOff(r) == TurnStep(r, "gap", "task") /\ UNCHANGED <<session, revision, outVars>>

\* _dispatch_inner(): after the operation that has the session.  get_or_create()
\* makes a session for a chat that has none.
BadBegin(r) ==                \* does not wait for the operation
  /\ TurnStep(r, "task", "running")
  /\ session' = IF session = "gone" THEN "new" ELSE session
  /\ UNCHANGED <<revision, outVars>>
Begin(r) ==
  /\ exclusive = None
  /\ TurnStep(r, "task", "running")
  /\ session' = IF session = "gone" THEN "new" ELSE session
  /\ UNCHANGED <<revision, outVars>>

Record(r) ==
  /\ TurnStep(r, "running", "replying")
  /\ revision' = revision + 1
  /\ UNCHANGED <<session, outVars>>

HasRoom == Len(out) < OutSize
Puts(o) == HasRoom /\ out' = Append(out, o)

Reply(r) ==
  /\ TurnStep(r, "replying", "over")
  /\ Puts([turn |-> r, web |-> TRUE])
  /\ UNCHANGED <<session, revision, sending, left>>

\* Other conversations publish, too.
OtherOutput ==
  /\ left.others > 0 /\ left' = [left EXCEPT !.others = @ - 1]
  /\ Puts([turn |-> None, web |-> FALSE])
  /\ UNCHANGED <<plan, cacheVars, workVars, routeVars, place, sending>>

-----------------------------------------------------------------------------
(* Operations on the session.                                                *)

\* is_session_busy(): the bus, the hand-offs, the commands, the tasks, the lock
\* and the running turns.
Busy == exclusive # None \/ \E r \in Requests : place[r] \in {"lane", "task", "running", "replying"}

Reserves(r) ==
  /\ exclusive' = r
  /\ blind' = blind \cup Unfinished

\* _action_session_delete(): the revision that the client saw must be that of
\* now; then the approvals of the session are cancelled.
BadBeginDelete(r) ==          \* does not compare the revision again
  /\ Called(r, "delete") /\ session = "there"
  /\ IF Busy
     THEN Ends(r, "refused") /\ Leaves(r) /\ UNCHANGED <<exclusive, blind>>
     ELSE Continues(r, "deleting") /\ Reserves(r) /\ UNCHANGED line
  /\ UNCHANGED <<loaded, session, revision, place, outVars>>
BeginDelete(r) ==
  /\ Called(r, "delete") /\ session = "there"
  /\ LET refusal == IF Busy THEN "refused" ELSE "changed"
     IN IF Busy \/ revision # loaded[r]
        THEN Ends(r, refusal) /\ Leaves(r) /\ UNCHANGED <<exclusive, blind>>
        ELSE Continues(r, "deleting") /\ Reserves(r) /\ UNCHANGED line
  /\ UNCHANGED <<loaded, session, revision, place, outVars>>

DeleteSession(r) ==
  /\ work[r] = "deleting"
  /\ Continues(r, "cleaning")
  /\ session' = "gone"
  /\ UNCHANGED <<loaded, line, exclusive, revision, blind, place, outVars>>

\* The background work and the files of the session are removed.
Cleaned(r) ==
  /\ work[r] = "cleaning"
  /\ Ends(r, "ok") /\ Leaves(r) /\ exclusive' = None
  /\ UNCHANGED <<loaded, session, revision, blind, place, outVars>>

\* _action_compact_run() reads the session between the reservation and its try
\* statement: a session that cannot be read keeps the reservation.
BeginCompact(r) ==
  /\ Called(r, "compact") /\ session = "there"
  /\ IF Busy
     THEN Ends(r, "refused") /\ Leaves(r) /\ UNCHANGED <<exclusive, blind>>
     ELSE /\ Reserves(r)
          /\ \/ Continues(r, "compacting") /\ UNCHANGED line
             \/ plan.fault /\ Ends(r, "error") /\ Leaves(r)
  /\ UNCHANGED <<loaded, session, revision, place, outVars>>

Compacted(r) ==
  /\ work[r] = "compacting"
  /\ Ends(r, "ok") /\ Leaves(r) /\ exclusive' = None
  /\ revision' \in {revision, revision + 1}
  /\ UNCHANGED <<loaded, session, blind, place, outVars>>

\* `/cron run` in POST /commands/execute: the guard is kept during the job's turn,
\* which has a session key of its own and reserves nothing.
BeginJob(r) ==
  /\ Called(r, "run") /\ session = "there"
  /\ Continues(r, "job")
  /\ UNCHANGED <<loaded, routeVars, place, outVars>>
JobOutputs(r) ==
  /\ work[r] = "job" /\ left.outputs > 0 /\ left' = [left EXCEPT !.outputs = @ - 1]
  /\ \E web \in BOOLEAN : Puts([turn |-> None, web |-> web])
  /\ UNCHANGED <<plan, cacheVars, workVars, routeVars, place, sending>>
JobEnds(r) ==
  /\ work[r] = "job" /\ left.outputs = 0
  /\ Ends(r, "ok") /\ Leaves(r)
  /\ UNCHANGED <<loaded, exclusive, session, revision, blind, place, outVars>>

-----------------------------------------------------------------------------
(* The channel dispatcher and the Web channel's send().                      *)

Take ==
  /\ sending = None /\ out # <<>>
  /\ out' = Tail(out)
  /\ IF Head(out).web
     THEN sending' = Head(out) /\ Waits(Dispatcher)
     ELSE UNCHANGED <<sending, line>>
  /\ UNCHANGED <<plan, cacheVars, workVars, exclusive, session, revision, blind, place, left>>

\* A reply names its session; it is dropped when that is gone.  Either way the
\* message is done with.
BadDeliver ==                    \* returns from a dropped message with the guard
  /\ sending # None /\ Holds(Dispatcher)
  /\ sending' = None
  /\ IF session = "there" THEN Leaves(Dispatcher) ELSE UNCHANGED line
  /\ UNCHANGED <<plan, cacheVars, workVars, exclusive, session, revision, blind, place, out, left>>
Deliver ==
  /\ sending # None /\ Holds(Dispatcher)
  /\ sending' = None /\ Leaves(Dispatcher)
  /\ UNCHANGED <<plan, cacheVars, workVars, exclusive, session, revision, blind, place, out, left>>

-----------------------------------------------------------------------------

Client(r) == Request(r) \/ Execute(r) \/ Disconnect(r)
Progress(r) ==
  \/ Enter(r) \/ Missing(r) \/ Answered(r)
  \/ Admit(r) \/ PublishTurn(r) \/ PublishTimesOut(r)
  \/ BeginDelete(r) \/ DeleteSession(r) \/ Cleaned(r)
  \/ BeginCompact(r) \/ Compacted(r)
  \/ BeginJob(r) \/ JobOutputs(r) \/ JobEnds(r)
Turn(r) == Consume(r) \/ HandOff(r) \/ Begin(r) \/ Record(r) \/ Reply(r)

RoutesNext ==
  \/ \E r \in Requests : Client(r) \/ Progress(r) \/ Turn(r) \/ Forget(r) \/ CancelFlight(r)
  \/ CloseCache \/ CacheClosed \/ OtherOutput \/ Take \/ Deliver

RoutesSpec == RoutesInit /\ [][RoutesNext]_routesVars

\* Tasks that can go on do; a request may never come, a client may stay, and
\* nothing has to expire or close.  Each request takes finitely many steps, so that
\* no task has to be named.
RoutesFairness ==
  /\ WF_routesVars(\E r \in Requests : Progress(r) \/ Turn(r))
  /\ WF_routesVars(Take \/ Deliver) /\ WF_routesVars(CacheClosed)
FairRoutesSpec == RoutesSpec /\ RoutesFairness

-----------------------------------------------------------------------------
(* Properties.                                                              *)

\* While an operation has reserved the session no turn of it runs.
OperationsAreExclusive == exclusive # None => \A r \in Requests : place[r] \notin {"running", "replying"}

\* The only work that is_session_busy() misses at a reservation is a message on
\* its way from the bus to the loop (loop.py:2078-2092).
OnlyTheGapIsMissed ==
  \A o \in Requests : exclusive = o /\ work[o] # "over" =>
    \A r \in Unfinished : r \in blind /\ place[r] \in {"gap", "task"}

\* A deleted session's chat gets another session only by a turn that the deletion
\* did not see.
RevivedByTheGapOnly == session = "new" => blind # {}

\* No mutation goes on in a server that has closed its cache.
ClosedIsQuiet == closing = "closed" => \A r \in Requests : Keyed(r) => work[r] \in {"none", "over"}

\* The guard of the route and the reservations of the loop together keep the
\* session and its turns apart, except in the gap.
RoutesInv ==
  /\ RoutesTypeOK
  /\ OperationsAreExclusive
  /\ OnlyTheGapIsMissed
  /\ RevivedByTheGapOnly
  /\ ClosedIsQuiet

\* A mutation with a key is carried out once, however its client repeats it or
\* goes away, until its entry was evicted or has expired.
OnceWhileRemembered ==
  \A q, r \in Requests :
    q # r /\ Keyed(q) /\ Keyed(r) /\ Key(q) = Key(r) /\ {answer[q], answer[r]} = {"accepted"}
      => {q, r} \cap forgotten # {}

\* A session is deleted in the state that the client has seen, although it waits for
\* the guard, for the approvals and for nobody's turn.
DeletedAsSeen ==
  [][session' = "gone" /\ session # "gone" =>
       \E r \in Requests : exclusive = r /\ work[r] = "deleting" /\ loaded[r] = revision]_routesVars

\* The docstring of is_session_busy(): "Return whether a session has queued,
\* active, or exclusive work." (loop.py:969)  A session with an accepted turn is
\* not deleted.
TurnKeepsItsSession == [][session' = "gone" => \A r \in Requests : answer[r] = "accepted" => place[r] = "over"]_routesVars

\* The job waits for room that only the dispatcher makes, and the dispatcher for
\* the guard of the request that runs the job.
Wedged == ~HasRoom /\ \E r \in Requests : work[r] = "job" /\ sending # None /\ Holds(r)
\* A compaction has kept its reservation.
Leaked == \E r \in Requests : exclusive = r /\ work[r] = "over"

\* Every request is answered, every turn ends and every message is sent, although
\* one guard and one dispatcher serve them all, unless a job that is run by hand
\* fills the lane or a reservation was leaked.
ServedUnlessWedged ==
  /\ \A r \in Requests : caller[r] = "waiting" ~> caller[r] # "waiting" \/ Wedged
  /\ \A r \in Requests : place[r] = "lane" ~> place[r] = "over" \/ Wedged \/ Leaked
  /\ [](out # <<>> => <>(sending # None \/ out = <<>> \/ Wedged))

=============================================================================
