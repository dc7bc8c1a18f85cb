-------------------------- MODULE RuntimeShutdown --------------------------
(***************************************************************************)
(* The life of the process: RuntimeSupervisor (runtime/supervisor.py), the  *)
(* shutdown coordinator and the registry of owners (runtime/lifecycle.py),   *)
(* and run_service_async() with asyncio.run() around it (launcher.py).       *)
(*                                                                         *)
(* Components are numbered in the order of registration: a component may     *)
(* use those before it and is closed before them.  A critical component      *)
(* whose close exceeds its limit keeps the rest open: a continuation waits    *)
(* for it and then walks over what is left.  asyncio.run() cancels what runs  *)
(* when the service has returned: a continuation that waits goes on waiting,  *)
(* one that walks leaves the close it waits for to its cleanup and goes on.   *)
(***************************************************************************)
EXTENDS Integers, FiniteSets

CONSTANTS
  Last,        \* number of components
  Critical,    \* the critical ones
  Steps,       \* awaits of start(), each followed by _raise_if_stopping()
  Services     \* tasks of start(): channels, agent, commands, HTTP

Components == 1..Last

RuntimeAssumption ==
  /\ Last \in Nat \ {0}
  /\ Critical \subseteq Components
  /\ Steps \in Nat
ASSUME RuntimeAssumption

VARIABLES
  main,        \* run_service_async() and asyncio.run()
  started,     \* start(): "no", "starting" (holds _lifecycle_lock), "yes", "failed"
  step,        \* awaits of start() that have ended
  tasks,       \* _tasks that run
  stop,        \* _stop_task: "none", "asked" (waits for the lock), "closing", "joining", "done"
  walker,      \* who walks in close_all(): "none", "coordinator" or "continuation"
  at,          \* where: components above it are done with
  closers,     \* components whose close runs and is not given up
  cleanups,    \* components whose close was cancelled with the walk and still runs
  closed,      \* OwnedComponent.closed
  failed,      \* failed of the coordinator's report
  detached,    \* the critical component whose close a continuation waits for, or 0
  owed,        \* asyncio.run() waits for a continuation it has cancelled
  restart,     \* _restart_task
  tried,       \* history: components whose close was begun
  slow,        \* history: critical closes that exceeded their limit
  cut          \* history: a walk, or the wait for one, ended and nobody goes on

histories == <<tried, slow, cut>>
registry == <<walker, at, closers, cleanups, closed, failed, detached, histories>>
service  == <<started, step, tasks>>
vars     == <<main, service, stop, registry, owed, restart>>

TypeOK ==
  /\ main \in {"starting", "waiting", "stopping", "leaving", "gone"}
  /\ started \in {"no", "starting", "yes", "failed"}
  /\ step \in 0..Steps
  /\ tasks \in SUBSET Services
  /\ stop \in {"none", "asked", "closing", "joining", "done"}
  /\ walker \in {"none", "coordinator", "continuation"}
  /\ at \in 0..Last
  /\ closers \in SUBSET Components
  /\ cleanups \in SUBSET Components
  /\ closed \in SUBSET Components
  /\ failed \in SUBSET Components
  /\ detached \in {0} \cup Critical
  /\ owed \in BOOLEAN
  /\ restart \in {"none", "sleeping", "stopping", "aborted", "exec"}
  /\ tried \in SUBSET Components
  /\ slow \in SUBSET Critical
  /\ cut \in BOOLEAN

Init ==
  /\ main = "starting"
  /\ started = "no"
  /\ step = 0
  /\ tasks = {}
  /\ stop = "none"
  /\ walker = "none"
  /\ at = 0
  /\ closers = {}
  /\ cleanups = {}
  /\ closed = {}
  /\ failed = {}
  /\ detached = 0
  /\ owed = FALSE
  /\ restart = "none"
  /\ tried = {}
  /\ slow = {}
  /\ cut = FALSE

Running == main \in {"starting", "waiting", "stopping"}
Asked == IF stop = "none" THEN "asked" ELSE stop
LockIsFree == started # "starting" /\ stop # "closing"

-----------------------------------------------------------------------------
(* start(), wait() and run(). *)

\* start() takes the lock, unless a stop came first.
BeginStart ==
  /\ main = "starting" /\ started = "no" /\ LockIsFree
  /\ IF stop = "none"
     THEN started' = "starting" /\ UNCHANGED main
     ELSE main' = "stopping" /\ UNCHANGED started
  /\ UNCHANGED <<step, tasks, stop, registry, owed, restart>>

\* An await of start() ends; a stop asked for meanwhile ends the start
\* (_raise_if_stopping).
StartStep ==
  /\ started = "starting" /\ step < Steps
  /\ step' = step + 1
  /\ IF stop = "none"
     THEN tasks' = Services /\ UNCHANGED <<main, started>>
     ELSE started' = "failed" /\ main' = "stopping" /\ UNCHANGED tasks
  /\ UNCHANGED <<stop, registry, owed, restart>>

\* start() returns; run() waits for the tasks, unless it has to stop.
StartEnds ==
  /\ started = "starting" /\ step = Steps
  /\ started' = "yes"
  /\ main' = IF stop = "none" THEN "waiting" ELSE "stopping"
  /\ UNCHANGED <<step, tasks, stop, registry, owed, restart>>

\* A component fails to start.
StartFails ==
  /\ started = "starting" /\ step < Steps
  /\ started' = "failed"
  /\ main' = "stopping"
  /\ stop' = Asked
  /\ UNCHANGED <<step, tasks, registry, owed, restart>>

\* A task of a service ends, or fails and takes the runtime with it.
TaskEnds(t) ==
  /\ t \in tasks /\ Running
  /\ tasks' = tasks \ {t}
  /\ \/ /\ main = "waiting"
        /\ main' = "stopping"
        /\ stop' = Asked
     \/ UNCHANGED <<main, stop>>
  /\ UNCHANGED <<started, step, registry, owed, restart>>

\* wait() ends with its last task, or at once with one that has failed before.
WaitEnds ==
  /\ main = "waiting" /\ tasks # Services
  /\ main' = "stopping"
  /\ stop' = Asked
  /\ UNCHANGED <<service, registry, owed, restart>>

-----------------------------------------------------------------------------
(* stop(): the first caller starts the one stop task. *)

\* A signal asks for a stop.
Signal ==
  /\ Running /\ stop = "none"
  /\ stop' = "asked"
  /\ UNCHANGED <<main, service, registry, owed, restart>>

\* The stop task has the lock and closes the components.
TakeLock ==
  /\ stop = "asked" /\ LockIsFree
  /\ stop' = "closing"
  /\ walker' = "coordinator"
  /\ at' = Last
  /\ UNCHANGED <<main, service, closers, cleanups, closed, failed, detached, histories, owed, restart>>

\* The service tasks that have not ended are cancelled.
Join ==
  /\ stop = "joining"
  /\ stop' = "done"
  /\ tasks' = {}
  /\ UNCHANGED <<main, started, step, registry, owed, restart>>

-----------------------------------------------------------------------------
(* close_all(). *)

Left == {c \in Components : c <= at /\ c \notin closed}

\* The next component begins to close.
CloseNext ==
  /\ walker # "none" /\ closers = {}
  /\ \E c \in Left :
       /\ \A d \in Left : d <= c
       /\ closers' = {c}
       /\ tried' = tried \cup {c}
       /\ at' = c
  /\ UNCHANGED <<main, service, stop, walker, cleanups, closed, failed, detached, slow, cut,
                 owed, restart>>

BadWalkOver ==                \* the report waits for the continuation
  /\ walker' = "none"
  /\ stop' = IF walker = "coordinator" /\ closers = {} THEN "joining" ELSE stop
  /\ owed' = IF walker = "continuation" THEN FALSE ELSE owed

\* What the walk leaves to its caller: the stop task goes on, or the
\* continuation ends.
WalkOver ==
  /\ walker' = "none"
  /\ stop' = IF walker = "coordinator" THEN "joining" ELSE stop
  /\ owed' = IF walker = "continuation" THEN FALSE ELSE owed

WalkEnds ==
  /\ walker # "none" /\ closers = {} /\ Left = {}
  /\ WalkOver
  /\ UNCHANGED <<main, service, at, closers, cleanups, closed, failed, detached, histories, restart>>

Reported(cs) == IF walker = "coordinator" THEN failed \cup cs ELSE failed

\* The close the walk waits for ends, or raises: the walk goes on.
CloserEnds(c) ==
  /\ walker # "none" /\ c \in closers
  /\ closers' = closers \ {c}
  /\ at' = c - 1
  /\ \/ closed' = closed \cup {c} /\ UNCHANGED failed
     \/ failed' = Reported({c}) /\ UNCHANGED closed
  /\ UNCHANGED <<main, service, stop, walker, cleanups, detached, histories, owed, restart>>

\* The close of a critical component itself raises TimeoutError: the walk ends
\* as after a limit, but no continuation goes on.
CloserTimesOut(c) ==
  /\ walker # "none" /\ c \in closers \cap Critical
  /\ closers' = closers \ {c}
  /\ failed' = Reported({c})
  /\ cut' = TRUE
  /\ WalkOver
  /\ UNCHANGED <<main, service, at, cleanups, closed, detached, tried, slow, restart>>

\* A close exceeds its limit and nothing depends on it: it is cancelled.
GiveUp(c) ==
  /\ walker # "none" /\ c \in closers \ Critical
  /\ closers' = closers \ {c}
  /\ at' = c - 1
  /\ failed' = Reported({c})
  /\ UNCHANGED <<main, service, stop, walker, cleanups, closed, detached, histories, owed,
                 restart>>

BadDetach(c) ==               \* the walk goes on
  /\ walker # "none" /\ c \in closers \cap Critical
  /\ closers' = closers \ {c}
  /\ at' = c - 1
  /\ failed' = Reported({c})
  /\ detached' = c
  /\ slow' = slow \cup {c}
  /\ UNCHANGED <<main, service, stop, walker, cleanups, closed, tried, cut, owed, restart>>

\* A critical close exceeds its limit: it goes on in the background, and what
\* is left is reported as failed.
Detach(c) ==
  /\ walker # "none" /\ c \in closers \cap Critical
  /\ detached' = c
  /\ failed' = Reported(1..c)
  /\ slow' = slow \cup {c}
  /\ WalkOver
  /\ UNCHANGED <<main, service, at, closers, cleanups, closed, tried, cut, restart>>

\* The detached close ends, in whatever way: the continuation walks over all
\* components that are not closed.
Continuation ==
  /\ detached # 0
  /\ closers' = closers \ {detached}
  /\ closed' = closed \cup {detached}
  /\ detached' = 0
  /\ walker' = "continuation"
  /\ at' = Last
  /\ UNCHANGED <<main, service, stop, cleanups, failed, histories, owed, restart>>

-----------------------------------------------------------------------------
(* The end of the process. *)

\* asyncio.run() cancels every task that is left and waits for it.  A
\* continuation that waits for a close, cancelled too, goes on waiting; if the
\* close has just ended with an error, the continuation dies of that error.
WaitIsCancelled ==
  /\ detached # 0
  /\ \/ owed' = TRUE /\ UNCHANGED registry
     \/ /\ owed' = FALSE /\ cut' = TRUE
        /\ closers' = closers \ {detached} /\ detached' = 0
        /\ UNCHANGED <<walker, at, cleanups, closed, failed, tried, slow>>

\* One that walks goes on with the next component, while the close it waited
\* for, cancelled too, may still run its cleanup.
WalkIsCancelled ==
  /\ walker = "continuation"
  /\ \E c \in closers : closers' = closers \ {c} /\ cleanups' = {c} /\ at' = c - 1
  /\ owed' = TRUE
  /\ UNCHANGED <<walker, closed, failed, detached, histories>>

NothingIsLeft == detached = 0 /\ walker = "none" /\ owed' = FALSE /\ UNCHANGED registry

\* run_service_async() returns when the stop task has ended.  A restart that
\* waits for the same stop resumes first.
MainReturns ==
  /\ main = "stopping" /\ stop = "done" /\ restart # "stopping"
  /\ main' = "leaving"
  /\ WaitIsCancelled \/ WalkIsCancelled \/ NothingIsLeft
  /\ restart' = IF restart = "sleeping" THEN "none" ELSE restart
  /\ UNCHANGED <<service, stop>>

CleanupEnds ==
  /\ cleanups # {} /\ cleanups' = {}
  /\ UNCHANGED <<main, service, stop, walker, at, closers, closed, failed, detached, histories,
                 owed, restart>>

Exit ==
  /\ main = "leaving" /\ ~owed /\ cleanups = {}
  /\ main' = "gone"
  /\ UNCHANGED <<service, stop, registry, owed, restart>>

\* request_restart(): a task sleeps for a second, stops the runtime and
\* replaces the process unless a critical component failed to close.
RequestRestart ==
  /\ Running /\ stop = "none" /\ restart = "none"
  /\ restart' = "sleeping"
  /\ UNCHANGED <<main, service, stop, registry, owed>>

RestartStops ==
  /\ restart = "sleeping"
  /\ restart' = "stopping"
  /\ stop' = Asked
  /\ UNCHANGED <<main, service, registry, owed>>

BadRestartDecides ==          \* reads the flags of the moment, not the report
  /\ restart = "stopping" /\ stop = "done"
  /\ IF detached = 0
     THEN restart' = "exec" /\ main' = "gone"
     ELSE restart' = "aborted" /\ UNCHANGED main
  /\ UNCHANGED <<service, stop, registry, owed>>

RestartDecides ==
  /\ restart = "stopping" /\ stop = "done"
  /\ IF failed \cap Critical = {}
     THEN restart' = "exec" /\ main' = "gone"
     ELSE restart' = "aborted" /\ UNCHANGED main
  /\ UNCHANGED <<service, stop, registry, owed>>

Alive == main # "gone"

Next ==
  /\ Alive
  /\ \/ BeginStart \/ StartStep \/ StartEnds \/ StartFails \/ WaitEnds
     \/ Signal \/ TakeLock \/ Join \/ CloseNext \/ WalkEnds \/ Continuation
     \/ CleanupEnds \/ MainReturns \/ Exit \/ RequestRestart \/ RestartStops \/ RestartDecides
     \/ \E t \in Services : TaskEnds(t)
     \/ \E c \in Components : CloserEnds(c) \/ CloserTimesOut(c) \/ GiveUp(c) \/ Detach(c)

\* Starts end or fail; a close ends, fails or exceeds its limit; a close that is
\* cancelled ends.  Nothing makes a detached close end before that.
Fairness ==
  /\ WF_vars(Alive /\ (BeginStart \/ StartStep \/ StartEnds \/ StartFails))
  /\ WF_vars(Alive /\ (TakeLock \/ CloseNext \/ WalkEnds \/ Join))
  /\ WF_vars(Alive /\ \E c \in Components :
                        CloserEnds(c) \/ CloserTimesOut(c) \/ GiveUp(c) \/ Detach(c))
  /\ WF_vars(Alive /\ CleanupEnds)
  /\ WF_vars(Alive /\ stop = "done" /\ (WaitEnds \/ MainReturns))
  /\ WF_vars(Alive /\ Exit)
  /\ WF_vars(Alive /\ (RestartStops \/ RestartDecides))
  /\ \A t \in Services : WF_vars(Alive /\ stop = "done" /\ TaskEnds(t))
  /\ WF_vars(Alive /\ owed /\ Continuation)

Spec == Init /\ [][Next]_vars
FairSpec == Spec /\ Fairness

-----------------------------------------------------------------------------
(* Properties. *)

\* A component is closed only when no critical component that may use it is
\* still closing, however many limits were exceeded before.  The exception: a
\* close that asyncio.run() cancelled with the walk may still clean up, in a
\* process that leaves after a limit was exceeded.
DependantsFirst ==
  [][\A c \in closers' \ closers : \A d \in Critical : d > c =>
       /\ d \notin closers \cup {detached}
       /\ d \in cleanups => main = "leaving" /\ slow # {}]_vars

\* Only one walk goes on, and it waits for one close at a time; at most one more
\* close, cancelled with the walk after a limit was exceeded, cleans up.
OneCloseAtATime ==
  /\ Cardinality(closers) <= 1
  /\ detached # 0 => walker = "none" /\ closers = {detached}
  /\ cleanups # {} => main = "leaving" /\ slow # {} /\ Cardinality(cleanups) = 1

\* The process is replaced only when every critical component is closed and no
\* close of one, no service and no start is under way.
RestartIsClean ==
  restart = "exec" =>
    /\ Critical \subseteq closed
    /\ closers \cap Critical = {}
    /\ tasks = {}
    /\ started # "starting"

\* No component starts, and no task begins, once the components are being
\* closed.
NoStartAfterStop ==
  [][step' # step \/ ~(tasks' \subseteq tasks) => walker = "none" /\ tried = {}]_vars

\* A process that ends by itself has closed, or tried to close, every
\* component, although it was cancelled while a critical close was detached or
\* its continuation walked.  (A second limit exceeded by then is not waited for.
\* A critical close that raises TimeoutError, or an error in the moment in which
\* its continuation is cancelled, leaves the rest open: cut.)
EveryoneIsAsked ==
  main = "gone" /\ restart # "exec" /\ Cardinality(slow) <= 1 /\ ~cut => tried = Components

\* A stop that was asked for (none is ever taken back) ends the process.
StopEnds == []<>(stop = "none" \/ main = "gone")

\* However often a limit is exceeded or a walk cancelled, closing stays
\* sequential and complete, and a restart replaces a process at rest.
ShutdownInv ==
  /\ TypeOK
  /\ OneCloseAtATime
  /\ RestartIsClean
  /\ EveryoneIsAsked

\* A component outlives those that use it, and none begins to work meanwhile.
CloseOrder == DependantsFirst /\ NoStartAfterStop

=============================================================================
