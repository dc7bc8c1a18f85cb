---------------------------- MODULE ProcessProofs ----------------------------
(***************************************************************************)
(* What outlives a turn, for every value of the constants: that the shutdown  *)
(* is sequential and complete (RuntimeShutdown), that a turn which could not   *)
(* be saved is recorded once and in order and is not dropped (TurnDurability), *)
(* and that the composition of the two, the specification of MCProcess, has    *)
(* both invariants.  Each module has its own inductive invariant, IInv and     *)
(* DurabilityIInv.                                                            *)
(***************************************************************************)
EXTENDS MCProcess, OrderingProofs

-----------------------------------------------------------------------------
(***************************************************************************)
(* The shutdown.  For any number of components, of which any are critical,    *)
(* any services and any number of limits exceeded: closing is sequential and   *)
(* in order, a restart replaces a process at rest, nobody is left out.         *)
(*                                                                         *)
(* The invariant says who walks (Walks), what lies behind a walk (Passed,      *)
(* Reports), what the limits that were exceeded, a walk that was cut short     *)
(* and a walk that was cancelled leave behind (Exceeded, Cut, Cancelled), and  *)
(* what the end of the process may rely on (Ends, AtRest).                     *)
(***************************************************************************)

\* Nothing happens to a component before the stop task has the lock, and no
\* start goes on after that.
BeforeStop ==
  IF stop \in {"none", "asked"}
  THEN /\ walker = "none" /\ detached = 0
       /\ closers = {} /\ closed = {} /\ failed = {} /\ tried = {} /\ slow = {}
       /\ cleanups = {} /\ cut = FALSE
  ELSE started # "starting"

\* One walk at a time, and it waits for the component where it is; nobody walks
\* while a close is detached.
Walks ==
  /\ (stop = "closing" <=> walker = "coordinator")
  /\ walker # "none" => detached = 0 /\ closers \subseteq {at}
  /\ walker = "none" /\ detached = 0 => closers = {}
  /\ detached # 0 => walker = "none" /\ closers = {detached}

\* A walk has asked everybody behind it.
Passed ==
  /\ closed \subseteq tried /\ closers \subseteq tried /\ closers \cap closed = {}
  /\ walker # "none" => \A c \in Components : c > at => c \in tried
  /\ stop \in {"joining", "done"} /\ walker = "none" /\ detached = 0 /\ ~cut => tried = Components

\* The report of the coordinator names everybody that it has not closed.
Reports ==
  /\ walker = "coordinator" => \A c \in Components : c > at => c \in closed \cup failed
  /\ stop \in {"joining", "done"} /\ ~cut => Components \subseteq closed \cup failed

\* A critical close that exceeds its limit is reported, and has ended when
\* the next one exceeds its own.
Exceeded ==
  /\ walker = "coordinator" => slow = {}
  /\ slow # {} => failed \cap Critical # {}
  /\ walker = "continuation" => slow # {} /\ slow \subseteq closed
  /\ detached # 0 => detached \in slow /\ slow \ {detached} \subseteq closed

\* A walk is cut short by a critical close that the coordinator reports, or
\* after one was.
Cut == /\ cut => failed \cap Critical # {}
       /\ walker = "coordinator" => ~cut

\* A cancelled walk has left one close to its cleanup, at the end of a process
\* that is not replaced.
Cancelled ==
  /\ cleanups # {} => main = "leaving" /\ slow # {} /\ \E c \in Components : cleanups = {c}
  /\ main = "leaving" => restart \in {"none", "aborted"}

Few == \A c, d \in slow : c = d

\* The process ends after the stop, and then owes nothing unless a second limit
\* was exceeded.
Ends ==
  /\ main \in {"leaving", "gone"} => stop = "done"
  /\ main \in {"leaving", "gone"} /\ restart # "exec" /\ ~owed /\ Few /\ ~cut => tried = Components
  /\ main = "gone" /\ restart # "exec" => ~owed

AtRest ==
  /\ stop = "done" => tasks = {}
  /\ restart = "exec" => main = "gone"
  /\ RestartIsClean

IInv == TypeOK /\ BeforeStop /\ Walks /\ Passed /\ Reports /\ Exceeded /\ Cut /\ Cancelled /\ Ends
        /\ AtRest

-----------------------------------------------------------------------------
(* The steps.                                                               *)

\* Starts, services and signals leave the components alone.
LEMMA StartKeeps ==
  ASSUME RuntimeAssumption, IInv,
         \/ BeginStart \/ StartStep \/ StartEnds \/ StartFails \/ WaitEnds \/ Signal
         \/ \E t \in Services : TaskEnds(t)
  PROVE  IInv'
<1> USE DEF IInv
<1>0. main \notin {"leaving", "gone"}
  BY DEF BeginStart, StartStep, StartEnds, StartFails, WaitEnds, Signal, TaskEnds, Running,
         BeforeStop, Ends
<1>1. /\ UNCHANGED <<registry, owed, restart>> /\ stop' \in {stop, Asked}
      /\ main' \in {main, "waiting", "stopping"}
  BY DEF BeginStart, StartStep, StartEnds, StartFails, WaitEnds, Signal, TaskEnds, Asked,
         service
<1>2. TypeOK'
  <2>1. /\ started' \in {"no", "starting", "yes", "failed"} /\ tasks' \in SUBSET Services
        /\ step' = step \/ (step < Steps /\ step' = step + 1)
    BY DEF TypeOK, BeginStart, StartStep, StartEnds, StartFails, WaitEnds, Signal, TaskEnds, service
  <2>2. step' \in 0..Steps
    BY <2>1 DEF TypeOK, RuntimeAssumption
  <2> QED BY <1>1, <2>1, <2>2 DEF TypeOK, Asked, registry, histories
<1>3. BeforeStop'
  BY DEF BeforeStop, BeginStart, StartStep, StartEnds, StartFails, WaitEnds, Signal, TaskEnds,
         Asked, LockIsFree, registry, histories, service
<1>4. Walks' /\ Passed' /\ Reports' /\ Exceeded' /\ Cut'
  BY <1>1 DEF BeforeStop, Walks, Passed, Reports, Exceeded, Cut, Asked, registry, histories
<1>7. Cancelled'
  BY <1>0, <1>1 DEF Cancelled, registry, histories
<1>5. Ends'
  BY <1>1, <1>0 DEF Ends, Few, registry, histories
<1>6. AtRest'
  <2>1. tasks' \subseteq tasks \/ stop = "none"
    BY DEF BeginStart, StartStep, StartEnds, StartFails, WaitEnds, Signal, TaskEnds, service
  <2>2. restart # "exec"
    BY <1>0 DEF AtRest
  <2> QED BY <1>1, <2>1, <2>2 DEF AtRest, RestartIsClean, Asked, registry
<1> QED BY <1>2, <1>3, <1>4, <1>5, <1>6, <1>7

\* The stop task takes the lock, and cancels the services when it has closed the
\* components.
LEMMA StopKeeps ==
  ASSUME RuntimeAssumption, IInv, TakeLock \/ Join
  PROVE  IInv'
<1> USE DEF IInv
<1>1. TypeOK'
  <2>1. CASE TakeLock
    BY <2>1 DEF TypeOK, TakeLock, service, histories, RuntimeAssumption
  <2>2. CASE Join
    BY <2>2 DEF TypeOK, Join, registry, histories
  <2> QED BY <2>1, <2>2
<1>2. BeforeStop' /\ Walks' /\ Exceeded' /\ Cut' /\ Cancelled'
  BY DEF BeforeStop, Walks, Exceeded, Cut, Cancelled, TakeLock, Join, LockIsFree, registry,
         histories, service
<1>3. Passed' /\ Reports'
  BY DEF BeforeStop, Passed, Reports, TakeLock, Join, Components, RuntimeAssumption, registry,
         histories
<1>4. Ends'
  BY DEF Ends, Few, TakeLock, Join, registry, histories
<1>5. AtRest'
  BY DEF AtRest, Ends, TakeLock, Join, RestartIsClean, registry, service
<1> QED BY <1>1, <1>2, <1>3, <1>4, <1>5

\* The walk goes on to the next component that is not closed.
LEMMA CloseNextKeeps ==
  ASSUME RuntimeAssumption, IInv, CloseNext
  PROVE  IInv'
<1> USE DEF IInv
<1>1. PICK c \in Left : /\ \A d \in Left : d <= c
                        /\ closers' = {c} /\ tried' = tried \cup {c} /\ at' = c
  BY DEF CloseNext
<1>2. c \in Components /\ c <= at /\ c \notin closed /\ walker # "none" /\ closers = {}
      /\ \A d \in Components : d > c => d > at \/ d \in closed
  BY <1>1 DEF Left, CloseNext, Components, TypeOK
<1>3. TypeOK'
  BY <1>1, <1>2 DEF TypeOK, CloseNext, Components, service
<1>4. BeforeStop' /\ Walks' /\ Exceeded' /\ Cut' /\ Cancelled'
  BY <1>1, <1>2 DEF BeforeStop, Walks, Exceeded, Cut, Cancelled, CloseNext, service
<1>5. Passed' /\ Reports'
  BY <1>1, <1>2 DEF Walks, Passed, Reports, CloseNext
<1>6. Ends' /\ AtRest'
  BY <1>1, <1>2 DEF Ends, Few, AtRest, CloseNext, RestartIsClean, service, TypeOK, Components
<1> QED BY <1>3, <1>4, <1>5, <1>6

\* Nothing is left: everybody has been asked.
LEMMA WalkEndsKeeps ==
  ASSUME RuntimeAssumption, IInv, WalkEnds
  PROVE  IInv'
<1> USE DEF IInv
<1>1. TypeOK'
  BY DEF TypeOK, WalkEnds, WalkOver, service, histories
<1>2. BeforeStop' /\ Walks' /\ Exceeded' /\ Cut' /\ Cancelled'
  BY DEF BeforeStop, Walks, Exceeded, Cut, Cancelled, WalkEnds, WalkOver, service, histories
<1>3. tried = Components /\ (walker = "coordinator" => Components \subseteq closed \cup failed)
  <2>1. \A c \in Components : c > at \/ c \in closed
    BY DEF WalkEnds, Left, TypeOK, Components
  <2>2. \A c \in Components : c \in tried
    BY <2>1 DEF WalkEnds, Passed
  <2> QED BY <2>1, <2>2 DEF Reports, TypeOK
<1>4. Passed' /\ Reports'
  BY <1>3 DEF Passed, Reports, Walks, BeforeStop, WalkEnds, WalkOver, TypeOK, histories
<1>5. Ends'
  BY <1>3 DEF Ends, Few, WalkEnds, WalkOver, Walks, histories
<1>6. AtRest'
  BY DEF AtRest, Ends, WalkEnds, WalkOver, RestartIsClean, service
<1> QED BY <1>1, <1>2, <1>4, <1>5, <1>6

\* A close ends, or is given up.
LEMMA CloserKeeps ==
  ASSUME RuntimeAssumption, IInv, NEW c \in Components, CloserEnds(c) \/ GiveUp(c)
  PROVE  IInv'
<1> USE DEF IInv
<1>1. /\ walker # "none" /\ c \in closers /\ closers' = {} /\ at = c /\ at' = c - 1 /\ detached = 0
      /\ closed \subseteq closed' /\ closed' \subseteq closed \cup {c}
      /\ failed \subseteq failed' /\ failed' \subseteq failed \cup {c}
      /\ walker = "coordinator" => c \in closed' \cup failed'
      /\ UNCHANGED <<main, service, stop, walker, cleanups, detached, tried, slow, cut, owed, restart>>
  BY DEF CloserEnds, GiveUp, Reported, Walks, histories
<1>2. \A d \in Components : d > at' => d > at \/ d = c
  BY <1>1 DEF Components
<1>3. TypeOK'
  BY <1>1 DEF TypeOK, Components, service, RuntimeAssumption
<1>4. BeforeStop' /\ Walks' /\ Exceeded' /\ Cut' /\ Cancelled'
  BY <1>1 DEF BeforeStop, Walks, Exceeded, Cut, Cancelled, service
<1>5. Passed' /\ Reports'
  BY <1>1, <1>2 DEF Passed, Reports, Walks
<1>6. Ends' /\ AtRest'
  BY <1>1 DEF Ends, Few, AtRest, RestartIsClean, service
<1> QED BY <1>3, <1>4, <1>5, <1>6

\* A critical close raises TimeoutError: nobody goes on, and it is reported.
LEMMA TimesOutKeeps ==
  ASSUME RuntimeAssumption, IInv, NEW c \in Components, CloserTimesOut(c)
  PROVE  IInv'
<1> USE DEF IInv
<1>1. /\ walker # "none" /\ c \in closers /\ c \in Critical /\ closers' = {} /\ detached = 0
      /\ walker' = "none" /\ cut' = TRUE /\ failed \subseteq failed' /\ failed' \subseteq failed \cup {c}
      /\ UNCHANGED <<main, service, at, cleanups, closed, detached, tried, slow, restart>>
  BY DEF CloserTimesOut, Reported, WalkOver, Walks
<1>2. IF walker = "coordinator"
      THEN stop = "closing" /\ stop' = "joining" /\ UNCHANGED owed /\ c \in failed'
      ELSE /\ stop \in {"joining", "done"} /\ UNCHANGED <<stop, failed>> /\ owed' = FALSE
           /\ slow # {}
  BY DEF CloserTimesOut, Reported, WalkOver, Walks, Exceeded, TypeOK, BeforeStop
<1>3. TypeOK'
  BY <1>1, <1>2 DEF TypeOK, service
<1>4. BeforeStop' /\ Walks' /\ Cancelled'
  BY <1>1, <1>2 DEF BeforeStop, Walks, Cancelled, service
<1>5. Passed' /\ Reports' /\ Exceeded' /\ Cut'
  BY <1>1, <1>2 DEF Passed, Reports, Exceeded, Cut
<1>6. Ends' /\ AtRest'
  BY <1>1, <1>2 DEF Ends, AtRest, RestartIsClean, service
<1> QED BY <1>3, <1>4, <1>5, <1>6

\* A critical close exceeds its limit: the first is reported, and after a second
\* the process waits for nothing more.
LEMMA DetachKeeps ==
  ASSUME RuntimeAssumption, IInv, NEW c \in Components, Detach(c)
  PROVE  IInv'
<1> USE DEF IInv
<1>1. c # 0 /\ c \in closers /\ c \in Critical /\ walker # "none"
  BY DEF Detach, Components
<1>2. /\ closers = {c} /\ at = c /\ detached = 0 /\ detached' = c /\ walker' = "none" /\ slow' = slow \cup {c}
      /\ UNCHANGED <<main, service, at, closers, cleanups, closed, tried, cut, restart>>
  BY <1>1 DEF Detach, WalkOver, Walks
<1>3. IF walker = "coordinator"
      THEN /\ stop = "closing" /\ stop' = "joining" /\ UNCHANGED owed /\ slow = {}
           /\ failed' = failed \cup 1..c
      ELSE /\ stop \in {"joining", "done"} /\ UNCHANGED <<stop, failed>> /\ owed' = FALSE
           /\ slow # {} /\ slow \subseteq closed
  BY <1>1, <1>2 DEF Detach, WalkOver, Reported, Walks, Exceeded, TypeOK, BeforeStop
<1>4. c \notin closed
  BY <1>1, <1>2 DEF Passed
<1>5. 1..c \subseteq Components /\ c \in 1..c /\ \A d \in Components : d > c \/ d \in 1..c
  BY DEF Components, RuntimeAssumption
<1>6. TypeOK'
  BY <1>1, <1>2, <1>3, <1>5 DEF TypeOK, service
<1>7. BeforeStop' /\ Walks'
  BY <1>1, <1>2, <1>3 DEF BeforeStop, Walks, service
<1>8. Passed' /\ Reports'
  BY <1>1, <1>2, <1>3, <1>5 DEF Passed, Reports
<1>9. Exceeded' /\ Cut' /\ Cancelled'
  BY <1>1, <1>2, <1>3, <1>4, <1>5 DEF Exceeded, Cut, Cancelled
<1>10. Ends'
  <2>1. walker # "coordinator" => ~Few'
    BY <1>1, <1>2, <1>3, <1>4 DEF Few
  <2>2. walker = "coordinator" => main \notin {"leaving", "gone"} /\ main' = main
    BY <1>1, <1>2, <1>3 DEF Ends
  <2> QED BY <1>1, <1>2, <1>3, <2>1, <2>2 DEF Ends
<1>11. AtRest'
  BY <1>1, <1>2, <1>3 DEF AtRest, Ends, RestartIsClean, service
<1> QED BY <1>6, <1>7, <1>8, <1>9, <1>10, <1>11

\* The detached close has ended, and the walk begins again.
LEMMA ContinuationKeeps ==
  ASSUME RuntimeAssumption, IInv, Continuation
  PROVE  IInv'
<1> USE DEF IInv
<1>1. TypeOK'
  BY DEF TypeOK, Continuation, Components, RuntimeAssumption, service, histories
<1>2. BeforeStop' /\ Walks' /\ Exceeded' /\ Cut' /\ Cancelled'
  BY DEF BeforeStop, Walks, Exceeded, Cut, Cancelled, Continuation, service, histories
<1>3. Passed' /\ Reports'
  BY DEF Passed, Reports, Walks, Continuation, Components, RuntimeAssumption, histories
<1>4. Ends' /\ AtRest'
  BY DEF Ends, Few, AtRest, Walks, RestartIsClean, Continuation, service, histories
<1> QED BY <1>1, <1>2, <1>3, <1>4

\* asyncio.run() cancels what is left: a continuation goes on waiting, dies with
\* its close, or walks on beside the cleanup of the close it waited for.
LEMMA MainReturnsKeeps ==
  ASSUME RuntimeAssumption, IInv, MainReturns
  PROVE  IInv'
<1> USE DEF IInv
<1>1. /\ main' = "leaving" /\ stop = "done" /\ restart' \in {"none", "aborted"}
      /\ restart' = restart \/ restart = "sleeping"
      /\ UNCHANGED <<service, stop>> /\ restart # "exec" /\ main = "stopping"
  BY DEF MainReturns, AtRest, TypeOK
<1>2. CASE WaitIsCancelled
  <2>1. /\ detached \in slow /\ walker = "none" /\ closers = {detached} /\ failed \cap Critical # {}
        /\ UNCHANGED <<walker, at, cleanups, closed, failed, tried, slow>>
        /\ \/ owed' = TRUE /\ UNCHANGED <<closers, detached, cut>>
           \/ owed' = FALSE /\ cut' = TRUE /\ closers' = {} /\ detached' = 0
    BY <1>2 DEF WaitIsCancelled, Walks, Exceeded, registry, histories
  <2>2. TypeOK'
    BY <1>1, <2>1 DEF TypeOK, service
  <2>3. BeforeStop' /\ Walks' /\ Passed' /\ Reports' /\ Cancelled'
    BY <1>1, <2>1 DEF BeforeStop, Walks, Passed, Reports, Cancelled, service
  <2>4. Exceeded' /\ Cut' /\ Ends'
    BY <1>1, <2>1 DEF Exceeded, Cut, Ends
  <2>5. AtRest'
    BY <1>1, <2>1 DEF AtRest, RestartIsClean, service
  <2> QED BY <2>2, <2>3, <2>4, <2>5
<1>3. CASE WalkIsCancelled
  <2>1. PICK c \in closers : closers' = closers \ {c} /\ cleanups' = {c} /\ at' = c - 1
    BY <1>3 DEF WalkIsCancelled
  <2>2. /\ c \in Components /\ c = at /\ closers' = {} /\ walker = "continuation" /\ slow # {} /\ owed' = TRUE
        /\ detached = 0 /\ c \in tried
        /\ UNCHANGED <<walker, closed, failed, detached, tried, slow, cut>>
    BY <1>3, <2>1 DEF WalkIsCancelled, Walks, Passed, Exceeded, histories, TypeOK
  <2>3. \A d \in Components : d > at' => d > at \/ d = c
    BY <2>1, <2>2 DEF Components
  <2>4. TypeOK'
    BY <1>1, <2>1, <2>2 DEF TypeOK, Components, service, RuntimeAssumption
  <2>5. BeforeStop' /\ Walks' /\ Cancelled'
    BY <1>1, <2>1, <2>2 DEF BeforeStop, Walks, Cancelled, service
  <2>6. Passed' /\ Reports' /\ Exceeded' /\ Cut'
    BY <1>1, <2>1, <2>2, <2>3 DEF Passed, Reports, Exceeded, Cut
  <2>7. Ends' /\ AtRest'
    BY <1>1, <2>1, <2>2 DEF Ends, AtRest, RestartIsClean, service
  <2> QED BY <2>4, <2>5, <2>6, <2>7
<1>4. CASE NothingIsLeft
  <2>1. detached = 0 /\ walker = "none" /\ owed' = FALSE /\ UNCHANGED registry
    BY <1>4 DEF NothingIsLeft
  <2>2. TypeOK'
    BY <1>1, <2>1 DEF TypeOK, service, registry, histories
  <2>3. BeforeStop' /\ Walks' /\ Passed' /\ Reports' /\ Exceeded' /\ Cut' /\ Cancelled'
    BY <1>1, <2>1 DEF BeforeStop, Walks, Passed, Reports, Exceeded, Cut, Cancelled, service, registry,
                      histories
  <2>4. Ends'
    BY <1>1, <2>1 DEF Ends, Passed, registry, histories
  <2>5. AtRest'
    BY <1>1, <2>1 DEF AtRest, RestartIsClean, service
  <2> QED BY <2>2, <2>3, <2>4, <2>5
<1> QED BY <1>2, <1>3, <1>4 DEF MainReturns

\* What it has cancelled ends.
LEMMA CleanupKeeps ==
  ASSUME RuntimeAssumption, IInv, CleanupEnds
  PROVE  IInv'
<1> USE DEF IInv
<1>1. TypeOK'
  BY DEF TypeOK, CleanupEnds, service, histories
<1>2. BeforeStop' /\ Walks' /\ Passed' /\ Reports' /\ Exceeded' /\ Cut' /\ Cancelled'
  BY DEF BeforeStop, Walks, Passed, Reports, Exceeded, Cut, Cancelled, CleanupEnds, service, histories
<1>3. Ends' /\ AtRest'
  BY DEF Ends, Few, AtRest, RestartIsClean, CleanupEnds, service, histories
<1> QED BY <1>1, <1>2, <1>3

\* The process ends, or is replaced.
LEMMA EndKeeps ==
  ASSUME RuntimeAssumption, IInv,
         Exit \/ RequestRestart \/ RestartStops \/ RestartDecides
  PROVE  IInv'
<1> USE DEF IInv
<1>1. UNCHANGED <<service, registry>> /\ stop' \in {stop, Asked}
  BY DEF Exit, RequestRestart, RestartStops, RestartDecides
<1>2. TypeOK'
  <2>1. /\ main' \in {main, "leaving", "gone"} /\ owed' \in BOOLEAN
        /\ restart' \in {restart, "none", "sleeping", "stopping", "aborted", "exec"}
    BY DEF TypeOK, Exit, RequestRestart, RestartStops, RestartDecides
  <2> QED BY <1>1, <2>1 DEF TypeOK, Asked, registry, histories, service
<1>3. BeforeStop' /\ Walks' /\ Passed' /\ Reports' /\ Exceeded' /\ Cut'
  BY <1>1 DEF BeforeStop, Walks, Passed, Reports, Exceeded, Cut, Asked, registry, histories, service
<1>6. Cancelled'
  BY <1>1 DEF Cancelled, Exit, RequestRestart, RestartStops, RestartDecides, Running, registry,
              histories
<1>4. Ends'
  <2>2. CASE Exit
    BY <2>2 DEF Ends, Few, Exit, registry, histories
  <2>3. CASE RequestRestart \/ RestartStops
    BY <2>3 DEF Ends, Few, AtRest, RequestRestart, RestartStops, Running, Asked, registry, histories
  <2>4. CASE RestartDecides
    BY <2>4 DEF Ends, Few, AtRest, RestartDecides, registry, histories
  <2> QED BY <2>2, <2>3, <2>4
<1>5. AtRest'
  <2>1. CASE RestartDecides
    BY <2>1 DEF AtRest, RestartIsClean, RestartDecides, TypeOK, BeforeStop, Walks, Reports, Exceeded,
                Cut, registry, service, Components, RuntimeAssumption
  <2>2. CASE Exit \/ RequestRestart \/ RestartStops
    BY <2>2 DEF AtRest, RestartIsClean, Ends, BeforeStop, Exit, RequestRestart,
                RestartStops, Asked, Running, registry, service
  <2> QED BY <2>1, <2>2
<1> QED BY <1>2, <1>3, <1>4, <1>5, <1>6

LEMMA NextKeeps == RuntimeAssumption /\ IInv /\ [Next]_vars => IInv'
<1> SUFFICES ASSUME RuntimeAssumption, IInv, [Next]_vars PROVE IInv'
  OBVIOUS
<1>1. CASE UNCHANGED vars
  BY <1>1 DEF vars, registry, histories, service, IInv, TypeOK, BeforeStop, Walks, Passed, Reports,
              Exceeded, Cut, Cancelled, Ends, Few, AtRest, RestartIsClean
<1> QED BY <1>1, StartKeeps, StopKeeps, CloseNextKeeps, WalkEndsKeeps, CloserKeeps, TimesOutKeeps,
           DetachKeeps, ContinuationKeeps, MainReturnsKeeps, CleanupKeeps, EndKeeps DEF Next

-----------------------------------------------------------------------------
(* The theorems.                                                            *)

LEMMA InitIInv == Init => IInv
<1> SUFFICES ASSUME Init PROVE IInv
  OBVIOUS
<1>1. TypeOK
  <2>1. 0 \in 0..Steps /\ 0 \in 0..Last
    BY RuntimeAssumption DEF RuntimeAssumption
  <2> QED BY <2>1 DEF Init, TypeOK
<1>2. BeforeStop /\ Walks /\ Passed /\ Reports /\ Exceeded /\ Cut /\ Cancelled
  BY DEF Init, BeforeStop, Walks, Passed, Reports, Exceeded, Cut, Cancelled
<1>3. Ends /\ AtRest
  BY DEF Init, Ends, AtRest, RestartIsClean
<1> QED BY <1>1, <1>2, <1>3 DEF IInv

LEMMA Invariance == Spec => []IInv
<1>1. IInv /\ [Next]_vars => IInv'
  BY RuntimeAssumption, NextKeeps
<1> QED BY InitIInv, <1>1, PTL DEF Spec

\* A set of at most one element has none that differ, and the other way round.
LEMMA AtMostOne ==
  ASSUME NEW S, IsFiniteSet(S)
  PROVE  Cardinality(S) <= 1 <=> \A c, d \in S : c = d
<1>1. ASSUME NEW c \in S, NEW d \in S, c # d PROVE ~(Cardinality(S) <= 1)
  <2>1. IsFiniteSet({c}) /\ Cardinality({c}) = 1
    BY FS_Singleton
  <2>2. IsFiniteSet({c} \cup {d}) /\ Cardinality({c} \cup {d}) = 2
    BY <1>1, <2>1, d \notin {c}, FS_AddElement
  <2>3. Cardinality({c} \cup {d}) <= Cardinality(S) /\ Cardinality(S) \in Nat
    BY FS_Subset, FS_CardinalityType
  <2> QED BY <2>2, <2>3
<1>2. ASSUME \A c, d \in S : c = d PROVE Cardinality(S) <= 1
  <2>1. CASE S = {}
    BY <2>1, FS_EmptySet
  <2>2. CASE S # {}
    <3>1. PICK c : S = {c}
      BY <1>2, <2>2
    <3> QED BY <3>1, FS_Singleton
  <2> QED BY <2>1, <2>2
<1> QED BY <1>1, <1>2

LEMMA InvariantIsEnough == IInv => ShutdownInv
<1> SUFFICES ASSUME IInv PROVE ShutdownInv
  OBVIOUS
<1>1. IsFiniteSet(Components)
  BY RuntimeAssumption, FS_Interval DEF Components, RuntimeAssumption
<1>2. IsFiniteSet(closers) /\ IsFiniteSet(slow)
  BY RuntimeAssumption, <1>1, FS_Subset DEF IInv, TypeOK, RuntimeAssumption
<1>3. \A c, d \in closers : c = d
  BY DEF IInv, Walks
<1>6. cleanups # {} => Cardinality(cleanups) = 1
  BY FS_Singleton DEF IInv, Cancelled
<1>4. OneCloseAtATime
  BY <1>2, <1>3, <1>6, AtMostOne DEF IInv, Walks, Cancelled, OneCloseAtATime
<1>5. EveryoneIsAsked
  BY <1>2, AtMostOne DEF IInv, Ends, Few, EveryoneIsAsked
<1> QED BY <1>4, <1>5 DEF IInv, AtRest, ShutdownInv

\* Closing is sequential and complete and a restart replaces a process at rest,
\* for any components and however often a limit is exceeded (lifecycle.py,
\* supervisor.py).
THEOREM ShutdownIsCorrect == Spec => []ShutdownInv
BY InvariantIsEnough, Invariance, PTL

\* A component is closed only when no critical one that may use it still closes
\* (a cleanup that asyncio.run() has left to itself excepted), and none starts once the components are being closed (lifecycle.py:97-145,
\* supervisor.py:133-188).
THEOREM ClosesInOrder == Spec => CloseOrder
<1>1. IInv /\ [Next]_vars =>
        [\A c \in closers' \ closers : \A d \in Critical : d > c =>
           /\ d \notin closers \cup {detached}
           /\ d \in cleanups => main = "leaving" /\ slow # {}]_vars
  <2> SUFFICES ASSUME IInv, Next, NEW c \in closers' \ closers, NEW d \in Critical, d > c
               PROVE  /\ d \notin closers \cup {detached}
                      /\ d \in cleanups => main = "leaving" /\ slow # {}
    OBVIOUS
  <2>1. CloseNext
    BY DEF Next, BeginStart, StartStep, StartEnds, StartFails, WaitEnds, Signal, TakeLock, Join,
           WalkEnds, Continuation, MainReturns, Exit, RequestRestart, RestartStops, RestartDecides,
           TaskEnds, CloserEnds, CloserTimesOut, GiveUp, Detach, CleanupEnds, WaitIsCancelled,
           WalkIsCancelled, NothingIsLeft, registry
  <2>2. closers = {} /\ detached = 0
    BY <2>1 DEF CloseNext, IInv, Walks
  <2>3. d # 0
    BY RuntimeAssumption DEF RuntimeAssumption, Components
  <2> QED BY <2>2, <2>3 DEF IInv, Cancelled
<1>2. IInv /\ [Next]_vars =>
        [step' # step \/ ~(tasks' \subseteq tasks) => walker = "none" /\ tried = {}]_vars
  <2> SUFFICES ASSUME IInv, Next, step' # step \/ ~(tasks' \subseteq tasks)
               PROVE  walker = "none" /\ tried = {}
    OBVIOUS
  <2>1. StartStep
    BY DEF Next, BeginStart, StartEnds, StartFails, WaitEnds, Signal, TakeLock, Join, CloseNext,
           WalkEnds, Continuation, MainReturns, Exit, RequestRestart, RestartStops, RestartDecides,
           TaskEnds, CloserEnds, CloserTimesOut, GiveUp, Detach, CleanupEnds, service
  <2> QED BY <2>1 DEF StartStep, IInv, BeforeStop
<1> QED BY <1>1, <1>2, Invariance, PTL DEF Spec, CloseOrder, DependantsFirst, NoStartAfterStop

-----------------------------------------------------------------------------
(***************************************************************************)
(* The turns that could not be saved.  For any turns of any sessions, any      *)
(* number of failing reads and writes and any number of exits.                *)
(*                                                                         *)
(* The histories grow (Histories), a turn that was recorded or kept has left   *)
(* its message for good (MessageLeft), and what memory, recovery files and     *)
(* marked files say of one turn agrees (Files, KeptOnce): whatever is saved    *)
(* again is known to its file.  The rest says what the pass that runs works    *)
(* on (Saved, Retries, Stops, Flushes, Replays).                              *)
(***************************************************************************)

\* A session's file holds its own turns, each of them once.
Histories ==
  /\ history \in [Sessions -> Seq(Turns)]
  /\ RecordedOnce
  /\ \A s \in Sessions : \A i \in DOMAIN history[s] : SessionOf[history[s][i]] = s

\* A turn leaves its message when it is recorded, kept or written to a recovery
\* file, and none comes back to it.
MessageLeft ==
  \A t \in Turns : (kept[t] # "no" \/ journal[t] # "no" \/ Recorded(t)) => life[t] = "over"

\* A file that is marked with a turn has it; a recorded turn that still has a
\* recovery file is marked; a kept turn knows of its recovery file.
Files ==
  /\ \A t \in marked : Recorded(t)
  /\ \A t \in Turns : journal[t] # "no" /\ Recorded(t) => t \in marked
  /\ \A t \in Turns : journal[t] # "no" /\ kept[t] # "no" => t \in identified

\* The turn that a pass has saved and not yet unlinked.
Unlinks(t) == t \in task.saved
Saved ==
  /\ task.saved # {} => task.pass \in {"retry", "replay"} /\ task.todo # {}
  /\ task.saved \subseteq task.todo /\ \A t, u \in task.saved : t = u
  /\ \A t \in Turns : Unlinks(t) => Recorded(t) /\ (t \in identified => t \in marked)

\* A kept turn is recorded only if the file will know it when it is saved again.
KeptOnce ==
  \A t \in Turns : kept[t] # "no" /\ Recorded(t) => Unlinks(t) \/ t \in identified \cap marked

\* A retry works on what is kept in one session, a /stop on what was read of
\* its own, a flush on what is kept; a replay on recovery files, and what it
\* keeps blocks its session.
Retries == task.pass = "retry" =>
  mode = "up" /\ task.todo # {} /\ \E s \in Sessions : task.todo = KeptIn(s)
Stops == task.pass = "stop" =>
  /\ mode \in {"up", "closing"}
  /\ \E s \in stopping : task.at = {s} /\ task.todo \subseteq KeptAs("stopped", s)
Flushes == task.pass = "flush" => mode = "closing" /\ \A t \in task.todo : kept[t] # "no"
Replays ==
  /\ task.pass = "replay" <=> mode = "starting"
  /\ task.pass = "replay" =>
       /\ \A t \in task.todo : kept[t] = "no" /\ journal[t] # "no" /\ t \in identified
       /\ \A t \in Turns : kept[t] # "no" => SessionOf[t] \in task.at /\ t \in identified
Down == mode = "down" => task = NoPass /\ \A t \in Turns : kept[t] = "no"

DurabilityIInv ==
  /\ DurabilityTypeOK /\ Histories /\ HasOwner /\ MessageLeft /\ Files
  /\ Saved /\ KeptOnce /\ Retries /\ Stops /\ Flushes /\ Replays /\ Down

-----------------------------------------------------------------------------
(* The turns that may be next, and what a save adds to the files.            *)

LEMMA OldestIs ==
  ASSUME DurabilityAssumption, NEW S \in SUBSET Turns, S # {}
  PROVE  Oldest(S) \in S /\ \A u \in S : Oldest(S) <= u
<1>1. S \in SUBSET Nat
  BY DEF DurabilityAssumption
<1>2. PICK t \in S : \A u \in S : t <= u
  BY <1>1, LeastNumber
<1> QED BY <1>2 DEF Oldest

\* What is next is of the pass: without a number, or the oldest if all have one.
LEMMA DueIs ==
  ASSUME DurabilityAssumption, DurabilityTypeOK, Saved, NEW t \in Due, task.todo # {}
  PROVE  /\ t \in task.todo /\ t \in Turns
         /\ task.saved # {} => t \in task.saved
         /\ task.saved = {} /\ t \notin unnumbered =>
              \A u \in task.todo : t <= u /\ u \notin unnumbered
<1>1. task.todo \in SUBSET Turns /\ task.saved \subseteq task.todo
  BY DEF DurabilityTypeOK, Saved
<1>2. Oldest(task.todo) \in task.todo /\ \A u \in task.todo : Oldest(task.todo) <= u
  BY <1>1, OldestIs
<1> QED BY <1>1, <1>2 DEF Due, First

\* The histories stay in order and get the turns of S.
Adds(S) == Histories' /\ \A t \in Turns : Recorded(t)' <=> (Recorded(t) \/ t \in S)

LEMMA NothingAdded ==
  ASSUME Histories, UNCHANGED history
  PROVE  Adds({})
BY DEF Adds, Histories, RecordedOnce, Recorded

LEMMA RecordAdds ==
  ASSUME DurabilityAssumption, Histories, NEW t \in Turns, ~Recorded(t),
         history' = [history EXCEPT ![SessionOf[t]] = Append(@, t)]
  PROVE  Adds({t})
<1> DEFINE s == SessionOf[t]   h == history[s]   g == Append(h, t)
<1>1. s \in Sessions /\ h \in Seq(Turns)
  BY DEF DurabilityAssumption, Histories
<1>2. g \in Seq(Turns) /\ DOMAIN g = 1..(Len(h) + 1) /\ DOMAIN h = 1..Len(h) /\ Len(h) \in Nat
      /\ g[Len(h) + 1] = t /\ \A i \in 1..Len(h) : g[i] = h[i]
  BY <1>1
<1>3. history'[s] = g /\ \A r \in Sessions \ {s} : history'[r] = history[r]
  BY <1>1 DEF Histories
<1>4. \A i \in 1..Len(h) : h[i] # t
  BY <1>2 DEF Recorded, Range
<1>5. \A i, j \in 1..Len(h) : h[i] = h[j] => i = j
  BY <1>1, <1>2 DEF Histories, RecordedOnce, IsInjective
<1>6. IsInjective(g)
  BY <1>2, <1>4, <1>5 DEF IsInjective
<1>7. \A i \in DOMAIN g : SessionOf[g[i]] = s
  BY <1>1, <1>2 DEF Histories
<1>8. \A u : u \in Range(g) <=> u \in Range(h) \/ u = t
  <2> HIDE DEF g, h
  <2> QED BY <1>2 DEF Range
<1> HIDE DEF g, h, s
<1>9. Histories'
  <2>1. history' \in [Sessions -> Seq(Turns)]
    BY <1>1, <1>2 DEF Histories, g, h, s
  <2>2. ASSUME NEW r \in Sessions
        PROVE  IsInjective(history'[r]) /\ \A i \in DOMAIN history'[r] : SessionOf[history'[r][i]] = r
    <3>1. CASE r = s
      BY <3>1, <1>3, <1>6, <1>7
    <3>2. CASE r # s
      BY <3>2, <1>3 DEF Histories, RecordedOnce
    <3> QED BY <3>1, <3>2
  <2> QED BY <2>1, <2>2 DEF Histories, RecordedOnce
<1>10. ASSUME NEW u \in Turns PROVE Recorded(u)' <=> Recorded(u) \/ u = t
  <2>1. CASE SessionOf[u] = s
    BY <2>1, <1>3, <1>8 DEF Recorded, h
  <2>2. CASE SessionOf[u] # s
    BY <2>2, <1>3 DEF Recorded, DurabilityAssumption, s
  <2> QED BY <2>1, <2>2
<1> QED BY <1>9, <1>10 DEF Adds

\* _persist_stopped_turn(): a turn that the file knows is not written again.
LEMMA SaveAdds ==
  ASSUME DurabilityAssumption, DurabilityTypeOK, Histories, Files, NEW t \in Turns, Save(t),
         Recorded(t) => t \in identified \cap marked
  PROVE  /\ Adds({t})
         /\ marked' \in SUBSET Turns /\ marked \subseteq marked' /\ marked' \subseteq marked \cup {t}
         /\ t \in identified => t \in marked'
         /\ \A u \in marked' : Recorded(u)'
<1>1. CASE t \in identified \cap marked
  <2>1. UNCHANGED <<history, marked>> /\ Recorded(t)
    BY <1>1 DEF Save, Files
  <2>2. Adds({t})
    BY <2>1, NothingAdded DEF Adds
  <2> QED BY <1>1, <2>1, <2>2 DEF Files, DurabilityTypeOK, Adds
<1>2. CASE t \notin identified \cap marked
  <2>1. Adds({t})
    BY <1>2, RecordAdds DEF Save
  <2>2. marked' = IF t \in identified THEN marked \cup {t} ELSE marked
    BY <1>2 DEF Save, Marks
  <2>3. marked \subseteq Turns /\ \A u \in marked : Recorded(u)
    BY DEF Files, DurabilityTypeOK
  <2>4. Recorded(t)' /\ \A u \in Turns : Recorded(u) => Recorded(u)'
    BY <2>1 DEF Adds
  <2> QED BY <2>1, <2>2, <2>3, <2>4
<1> QED BY <1>1, <1>2

\* What /stop found put aside is recorded in the order of arrival.
LEMMA AscendingAdds ==
  ASSUME DurabilityAssumption, Histories, NEW s \in Sessions, NEW S \in SUBSET InSession(s),
         \A t \in S : ~Recorded(t),
         history' = [history EXCEPT ![s] = @ \o Ascending(S)]
  PROVE  Adds(S)
<1> DEFINE h == history[s]   a == Ascending(S)   g == h \o a
<1>1. S \in SUBSET Int /\ S \subseteq Turns /\ IsFiniteSet(S) /\ \A t \in S : SessionOf[t] = s
  <2>1. S \in SUBSET Turns /\ Turns \subseteq Nat /\ IsFiniteSet(Turns)
    BY DEF InSession, DurabilityAssumption
  <2>2. IsFiniteSet(S)
    BY <2>1, FS_Subset
  <2> QED BY <2>1, <2>2 DEF InSession
<1>2. /\ a \in Seq(S) /\ Len(a) \in Nat
      /\ \A x \in S : \E k \in 1..Len(a) : a[k] = x
      /\ \A k, l \in 1..Len(a) : k < l => a[k] < a[l]
  BY <1>1, AscendingFacts
<1>3. \A k \in 1..Len(a) : a[k] \in S
  BY <1>2
<1>4. \A k, l \in 1..Len(a) : a[k] = a[l] => k = l
  <2> SUFFICES ASSUME NEW k \in 1..Len(a), NEW l \in 1..Len(a), a[k] = a[l] PROVE k = l
    OBVIOUS
  <2>1. a[k] \in Int /\ ~(a[k] < a[l]) /\ ~(a[l] < a[k])
    <3>1. a[k] \in S
      BY <1>3
    <3>2. a[k] \in Int
      BY <3>1, <1>1
    <3>3. \A x \in Int : ~(x < x)
      OBVIOUS
    <3> HIDE DEF a
    <3> QED BY <3>2, <3>3
  <2>2. k \in Int /\ l \in Int
    BY <1>2
  <2>3. k < l \/ l < k \/ k = l
    BY <2>2
  <2> HIDE DEF a
  <2> QED BY <1>2, <2>1, <2>3
<1>5. h \in Seq(Turns) /\ Len(h) \in Nat /\ a \in Seq(Turns)
  <2>1. h \in Seq(Turns)
    BY DEF Histories
  <2>2. a \in [1..Len(a) -> Turns]
    <3> HIDE DEF a
    <3>1. a \in [1..Len(a) -> S]
      BY <1>2
    <3> QED BY <3>1, <1>1
  <2> HIDE DEF h, a
  <2> QED BY <2>1, <2>2, <1>2
<1>6. /\ g \in Seq(Turns) /\ DOMAIN g = 1..(Len(h) + Len(a))
      /\ \A i \in 1..Len(h) : g[i] = h[i]
      /\ \A i \in 1..Len(a) : g[Len(h) + i] = a[i]
      /\ \A i \in 1..(Len(h) + Len(a)) : i \in 1..Len(h) \/ i - Len(h) \in 1..Len(a)
  <2> HIDE DEF h, a
  <2> QED BY <1>2, <1>5
<1>7. history'[s] = g /\ \A r \in Sessions \ {s} : history'[r] = history[r]
  BY DEF Histories
<1>8. \A i \in 1..Len(h) : h[i] \notin S /\ SessionOf[h[i]] = s
  <2>1. \A i \in 1..Len(h) : h[i] \in Range(h) /\ SessionOf[h[i]] = s
    BY <1>5 DEF Histories, Range
  <2> QED BY <1>1, <2>1 DEF Recorded
<1>9. \A i, j \in 1..Len(h) : h[i] = h[j] => i = j
  BY <1>5 DEF Histories, RecordedOnce, IsInjective
<1> HIDE DEF g, h, a
<1>10. \A i \in 1..(Len(h) + Len(a)) :
         \/ i \in 1..Len(h) /\ g[i] = h[i]
         \/ i - Len(h) \in 1..Len(a) /\ g[i] = a[i - Len(h)]
  <2> TAKE i \in 1..(Len(h) + Len(a))
  <2>1. CASE i \in 1..Len(h)
    BY <2>1, <1>6
  <2>2. CASE i - Len(h) \in 1..Len(a)
    <3>1. Len(h) + (i - Len(h)) = i
      BY <1>5
    <3>2. g[Len(h) + (i - Len(h))] = a[i - Len(h)]
      BY <2>2, <1>6
    <3> QED BY <2>2, <3>1, <3>2
  <2>3. i \in 1..Len(h) \/ i - Len(h) \in 1..Len(a)
    BY <1>6
  <2> QED BY <2>1, <2>2, <2>3
<1>11. IsInjective(g)
  <2> SUFFICES ASSUME NEW i \in 1..(Len(h) + Len(a)), NEW j \in 1..(Len(h) + Len(a)), g[i] = g[j]
               PROVE  i = j
    BY <1>6 DEF IsInjective
  <2>1. i \in Int /\ j \in Int
    BY <1>2, <1>5
  <2>2. CASE i \in 1..Len(h) /\ g[i] = h[i]
    <3>1. ~(j - Len(h) \in 1..Len(a) /\ g[j] = a[j - Len(h)])
      BY <2>2, <1>8, <1>3
    <3>2. j \in 1..Len(h) /\ h[i] = h[j]
      BY <2>2, <3>1, <1>10
    <3> QED BY <2>2, <3>2, <1>9
  <2>3. CASE i - Len(h) \in 1..Len(a) /\ g[i] = a[i - Len(h)]
    <3>1. ~(j \in 1..Len(h) /\ g[j] = h[j])
      BY <2>3, <1>8, <1>3
    <3>2. i - Len(h) = j - Len(h)
      BY <2>3, <3>1, <1>10, <1>4
    <3> QED BY <3>2, <2>1, <1>5
  <2> QED BY <2>2, <2>3, <1>10
<1>12. \A i \in DOMAIN g : SessionOf[g[i]] = s
  <2>1. ASSUME NEW i \in 1..(Len(h) + Len(a)) PROVE SessionOf[g[i]] = s
    <3>1. CASE i \in 1..Len(h) /\ g[i] = h[i]
      BY <3>1, <1>8
    <3>2. CASE i - Len(h) \in 1..Len(a) /\ g[i] = a[i - Len(h)]
      BY <3>2, <1>1, <1>3
    <3> QED BY <3>1, <3>2, <1>10
  <2> QED BY <2>1, <1>6
<1>13. \A u : u \in Range(g) <=> u \in Range(h) \/ u \in S
  <2> TAKE u
  <2>1. ASSUME u \in Range(g) PROVE u \in Range(h) \/ u \in S
    <3>1. PICK i \in 1..(Len(h) + Len(a)) : g[i] = u
      BY <2>1, <1>6 DEF Range
    <3>2. DOMAIN h = 1..Len(h)
      BY <1>5
    <3> QED BY <3>1, <3>2, <1>10, <1>3 DEF Range
  <2>2. ASSUME u \in Range(h) PROVE u \in Range(g)
    <3>1. PICK i \in 1..Len(h) : h[i] = u
      BY <2>2, <1>5 DEF Range
    <3>2. i \in 1..(Len(h) + Len(a))
      BY <1>2, <1>5
    <3>3. i \in DOMAIN g /\ g[i] = u
      BY <3>1, <3>2, <1>6
    <3> QED BY <3>3 DEF Range
  <2>3. ASSUME u \in S PROVE u \in Range(g)
    <3>1. PICK k \in 1..Len(a) : a[k] = u
      BY <2>3, <1>2
    <3>2. Len(h) + k \in 1..(Len(h) + Len(a))
      BY <1>2, <1>5
    <3>3. Len(h) + k \in DOMAIN g /\ g[Len(h) + k] = u
      BY <3>1, <3>2, <1>6
    <3> QED BY <3>3 DEF Range
  <2> QED BY <2>1, <2>2, <2>3
<1>14. Histories'
  <2>1. history' \in [Sessions -> Seq(Turns)]
    BY <1>6 DEF Histories, g, h, a
  <2>2. ASSUME NEW r \in Sessions
        PROVE  IsInjective(history'[r]) /\ \A i \in DOMAIN history'[r] : SessionOf[history'[r][i]] = r
    <3>1. CASE r = s
      BY <3>1, <1>7, <1>11, <1>12
    <3>2. CASE r # s
      BY <3>2, <1>7 DEF Histories, RecordedOnce
    <3> QED BY <3>1, <3>2
  <2> QED BY <2>1, <2>2 DEF Histories, RecordedOnce
<1>15. ASSUME NEW u \in Turns PROVE Recorded(u)' <=> Recorded(u) \/ u \in S
  <2>1. CASE SessionOf[u] = s
    BY <2>1, <1>7, <1>13 DEF Recorded, h
  <2>2. CASE SessionOf[u] # s
    BY <2>2, <1>1, <1>7 DEF Recorded, DurabilityAssumption
  <2> QED BY <2>1, <2>2
<1> QED BY <1>14, <1>15 DEF Adds

-----------------------------------------------------------------------------
(* The turns.                                                               *)

\* Between two passes nothing is said about passes.
LEMMA Idle ==
  ASSUME task' = NoPass, mode' \in {"up", "closing"}
  PROVE  /\ Saved' /\ Retries' /\ Stops' /\ Flushes' /\ Replays' /\ Down'
         /\ \A t \in Turns : ~Unlinks(t)'
BY DEF NoPass, Pass, Saved, Unlinks, Retries, Stops, Flushes, Replays, Down

LEMMA PassType ==
  /\ \A name \in Passes, todo \in SUBSET Turns, of \in SUBSET Sessions :
       Pass(name, todo, of) \in [pass : Passes, todo : SUBSET Turns, saved : SUBSET Turns, at : SUBSET Sessions]
  /\ NoPass \in [pass : Passes, todo : SUBSET Turns, saved : SUBSET Turns, at : SUBSET Sessions]
BY DEF NoPass, Pass, Passes

LEMMA NoneSaved == ASSUME task = NoPass PROVE \A t \in Turns : ~Unlinks(t)
BY DEF NoPass, Pass, Unlinks

\* run() takes a message.
LEMMA ArriveKeeps ==
  ASSUME DurabilityAssumption, DurabilityIInv, NEW t \in Turns, Arrive(t)
  PROVE  DurabilityIInv'
<1> USE DEF DurabilityIInv
<1>1. /\ task' = NoPass /\ task = NoPass /\ mode' \in {"up", "closing"} /\ mode' = mode
      /\ UNCHANGED <<history, marked, journal, kept, identified, stopping, faults, exits, unnumbered>>
      /\ life[t] # "over"
      /\ \E to \in {"live", "buffered"} : life' = [life EXCEPT ![t] = to]
      /\ retry' \in BOOLEAN /\ (retry => retry')
  BY DEF Arrive, diskVars, bounds, DurabilityTypeOK
<1>2. Adds({})
  BY <1>1, NothingAdded
<1>3. DurabilityTypeOK'
  BY <1>1, <1>2 DEF DurabilityTypeOK, Adds, Histories
<1>4. HasOwner'
  BY <1>1 DEF HasOwner
<1>5. MessageLeft' /\ Files' /\ KeptOnce'
  BY <1>1, <1>2, NoneSaved DEF MessageLeft, Files, KeptOnce, DurabilityTypeOK, Adds
<1> QED BY <1>1, <1>2, <1>3, <1>4, <1>5, Idle DEF Adds

\* A turn that has its message is recorded, or kept.
LEMMA TurnEndKeeps ==
  ASSUME DurabilityAssumption, DurabilityIInv, NEW t \in Turns,
         task = NoPass, mode \in {"up", "closing"}, life[t] # "over",
         UNCHANGED <<marked, journal, mode, identified, stopping, task>>,
         unnumbered' \subseteq Turns,
         \/ Record(t) \/ FailToRecord(t)
         \/ history' = history /\ (NoFault \/ Fault) /\ \E kind \in {"stopped", "pending"} : Keep(t, kind)
  PROVE  DurabilityIInv'
<1> USE DEF DurabilityIInv
<1>1. kept[t] = "no" /\ journal[t] = "no" /\ ~Recorded(t)
  BY DEF MessageLeft
<1>2. /\ life' = [life EXCEPT ![t] = "over"]
      /\ faults' \in 0..MaxFaults /\ exits' = exits
      /\ \/ Adds({t}) /\ kept' = kept /\ retry' = retry
         \/ /\ Adds({}) /\ retry' = Woken(SessionOf[t])
            /\ \E kind \in {"stopped", "pending"} : kept' = [kept EXCEPT ![t] = kind]
  <2>1. faults' \in 0..MaxFaults /\ exits' = exits
    BY DEF Record, FailToRecord, Fault, NoFault, bounds, DurabilityTypeOK, DurabilityAssumption
  <2>2. CASE Record(t)
    BY <1>1, <2>1, <2>2, RecordAdds DEF Record
  <2>3. CASE FailToRecord(t)
    BY <2>1, <2>3, NothingAdded DEF FailToRecord, Keep
  <2>4. CASE history' = history /\ (NoFault \/ Fault)
             /\ \E kind \in {"stopped", "pending"} : Keep(t, kind)
    BY <2>1, <2>4, NothingAdded DEF Keep
  <2> QED BY <2>2, <2>3, <2>4
<1>3. retry' \in BOOLEAN /\ (retry => retry') /\ kept' \in [Turns -> Kinds]
      /\ \A u \in Turns \ {t} : kept'[u] = kept[u]
  <2>1. Woken(SessionOf[t]) \in BOOLEAN /\ (retry => Woken(SessionOf[t])) /\ retry \in BOOLEAN
    BY DEF Woken, DurabilityTypeOK
  <2>2. retry' \in BOOLEAN /\ (retry => retry')
    BY <1>2, <2>1
  <2>3. CASE kept' = kept
    BY <2>2, <2>3 DEF DurabilityTypeOK
  <2>4. CASE \E kind \in {"stopped", "pending"} : kept' = [kept EXCEPT ![t] = kind]
    BY <2>2, <2>4 DEF DurabilityTypeOK, Kinds
  <2> QED BY <1>2, <2>3, <2>4
<1>4. DurabilityTypeOK'
  BY <1>2, <1>3 DEF DurabilityTypeOK, Adds, Histories
<1>5. HasOwner'
  <2>1. kept'[t] # "no" => retry' \/ mode # "up" \/ SessionOf[t] \in stopping
    BY <1>1, <1>2 DEF Woken, DurabilityTypeOK
  <2> QED BY <1>3, <2>1 DEF HasOwner
<1>6. MessageLeft' /\ Files' /\ KeptOnce'
  <2>1. \A u \in Turns \ {t} : Recorded(u)' <=> Recorded(u)
    BY <1>2 DEF Adds
  <2>2. \A u \in Turns : Recorded(u) => Recorded(u)'
    BY <1>2 DEF Adds
  <2>3. ~(kept'[t] # "no" /\ Recorded(t)')
    BY <1>1, <1>2 DEF Adds, DurabilityTypeOK
  <2>4. MessageLeft'
    BY <1>2, <1>3, <2>1 DEF MessageLeft, DurabilityTypeOK
  <2>5. Files'
    BY <1>1, <1>3, <2>1, <2>2 DEF Files, DurabilityTypeOK
  <2>6. KeptOnce'
    BY <1>3, <2>1, <2>3, NoneSaved DEF KeptOnce
  <2> QED BY <2>4, <2>5, <2>6
<1>7. task' = NoPass /\ mode' \in {"up", "closing"}
  OBVIOUS
<1> QED BY <1>2, <1>4, <1>5, <1>6, <1>7, Idle DEF Adds

LEMMA TurnKeeps ==
  ASSUME DurabilityAssumption, DurabilityIInv, NEW t \in Turns,
         TurnEnds(t) \/ CancelledAtLock(t) \/ CloseTurn(t)
  PROVE  DurabilityIInv'
<1>1. /\ task = NoPass /\ mode \in {"up", "closing"} /\ life[t] # "over"
      /\ UNCHANGED <<marked, journal, mode, identified, stopping, task>>
  BY DEF TurnEnds, CancelledAtLock, CloseTurn, diskVars
<1>2. \/ Record(t) \/ FailToRecord(t)
      \/ history' = history /\ (NoFault \/ Fault) /\ \E kind \in {"stopped", "pending"} : Keep(t, kind)
  BY DEF TurnEnds, CancelledAtLock, CloseTurn, FailToRecordRunning, diskVars
<1>3. unnumbered' \subseteq Turns
  <2>1. unnumbered \subseteq Turns
    BY DEF DurabilityIInv, DurabilityTypeOK
  <2> QED BY <2>1 DEF TurnEnds, CancelledAtLock, CloseTurn, Record, FailToRecord, FailToRecordRunning
<1> QED BY <1>1, <1>2, <1>3, TurnEndKeeps

\* Exact cancellation saves what its turn has left.
LEMMA CancelSavesKeeps ==
  ASSUME DurabilityAssumption, DurabilityIInv, NEW t \in Turns, CancelSaves(t)
  PROVE  DurabilityIInv'
<1> USE DEF DurabilityIInv
<1>1. /\ task = NoPass /\ task' = NoPass /\ mode' \in {"up", "closing"} /\ mode' = mode
      /\ kept[t] = "stopped" /\ t \notin identified /\ Save(t)
      /\ kept' = [kept EXCEPT ![t] = "no"]
      /\ UNCHANGED <<journal, life, identified, stopping, retry, faults, exits, unnumbered>>
  BY DEF CancelSaves, bounds
<1>2. ~Recorded(t) /\ life[t] = "over" /\ journal[t] = "no"
  BY <1>1, NoneSaved DEF KeptOnce, MessageLeft, Files
<1>3. Adds({t}) /\ marked' \in SUBSET Turns /\ marked' = marked
  <2>1. Adds({t}) /\ marked' \in SUBSET Turns
    BY <1>1, <1>2, SaveAdds
  <2>2. marked' = marked
    BY <1>1 DEF Save, Marks
  <2> QED BY <2>1, <2>2
<1>4. DurabilityTypeOK'
  BY <1>1, <1>3 DEF DurabilityTypeOK, Adds, Histories, Kinds
<1>5. HasOwner'
  BY <1>1 DEF HasOwner, DurabilityTypeOK
<1>6. MessageLeft' /\ Files' /\ KeptOnce'
  <2>1. MessageLeft'
    BY <1>1, <1>2, <1>3 DEF MessageLeft, DurabilityTypeOK, Adds
  <2>2. Files'
    BY <1>1, <1>2, <1>3 DEF Files, DurabilityTypeOK, Adds
  <2>3. KeptOnce'
    BY <1>1, <1>3, NoneSaved DEF KeptOnce, DurabilityTypeOK, Adds
  <2> QED BY <2>1, <2>2, <2>3
<1> QED BY <1>1, <1>3, <1>4, <1>5, <1>6, Idle DEF Adds

-----------------------------------------------------------------------------
(* The retry task.                                                          *)

\* A pass begins on what is kept in a session.
LEMMA RetryBeginsKeeps ==
  ASSUME DurabilityAssumption, DurabilityIInv, NEW s \in Sessions, RetryBegins(s)
  PROVE  DurabilityIInv'
<1> USE DEF DurabilityIInv
<1>1. /\ mode = "up" /\ KeptIn(s) # {} /\ UNCHANGED <<diskVars, unnumbered, mode, memoryVars>>
      /\ \/ task' = Pass("retry", KeptIn(s), {})
         \/ task = NoPass /\ task' = NoPass
      /\ faults' \in 0..MaxFaults /\ exits' = exits /\ task = NoPass
  BY DEF RetryBegins, NoFault, Fault, bounds, DurabilityTypeOK, DurabilityAssumption
<1>2. Adds({})
  BY <1>1, NothingAdded DEF diskVars
<1>3. KeptIn(s) \in SUBSET Turns /\ KeptIn(s)' = KeptIn(s)
  BY <1>1 DEF KeptIn, InSession, memoryVars
<1>4. DurabilityTypeOK'
  <2>1. task' \in [pass : Passes, todo : SUBSET Turns, saved : SUBSET Turns, at : SUBSET Sessions]
    BY <1>1, <1>3, PassType DEF Passes
  <2> QED BY <1>1, <1>2, <2>1 DEF DurabilityTypeOK, Adds, Histories, memoryVars, diskVars
<1>5. HasOwner'
  BY <1>1 DEF HasOwner, memoryVars
<1>6. MessageLeft' /\ Files'
  BY <1>1, <1>2 DEF MessageLeft, Files, Adds, diskVars, memoryVars, DurabilityTypeOK
<1>7. KeptOnce'
  BY <1>1, <1>2, NoneSaved DEF KeptOnce, Adds, diskVars, memoryVars
<1>8. Saved' /\ Retries' /\ Stops' /\ Flushes' /\ Replays' /\ Down'
  <2>1. CASE task' = Pass("retry", KeptIn(s), {})
    BY <1>1, <1>3, <2>1
       DEF Pass, Saved, Unlinks, Retries, Stops, Flushes, Replays, Down, NoPass
  <2>2. CASE task' = NoPass
    BY <1>1, <2>2, Idle
  <2> QED BY <1>1, <2>1, <2>2
<1> QED BY <1>2, <1>4, <1>5, <1>6, <1>7, <1>8 DEF Adds

\* The oldest turn of the pass is saved, or the pass ends.
LEMMA RetryStepKeeps ==
  ASSUME DurabilityAssumption, DurabilityIInv, RetryStep
  PROVE  DurabilityIInv'
<1> USE DEF DurabilityIInv
<1>0. /\ UNCHANGED <<journal, unnumbered, mode, life, kept, identified, stopping, retry>>
      /\ faults' \in 0..MaxFaults /\ exits' = exits
      /\ task.pass = "retry" /\ task.saved = {} /\ mode = "up" /\ task.todo # {}
  BY DEF RetryStep, NoFault, Fault, bounds, DurabilityTypeOK, DurabilityAssumption, memoryVars, Retries
<1>1. \/ \E t \in Due : Save(t) /\ task' = [task EXCEPT !.saved = {t}]
      \/ task' = NoPass /\ history' = history /\ marked' = marked
  BY DEF RetryStep
<1>2. CASE \E t \in Due : Save(t) /\ task' = [task EXCEPT !.saved = {t}]
  <2>0. PICK t \in Due : Save(t) /\ task' = [task EXCEPT !.saved = {t}]
    BY <1>2
  <2>1. t \in task.todo /\ t \in Turns /\ kept[t] # "no"
    <3>1. t \in task.todo /\ t \in Turns
      BY <1>0, DueIs
    <3> QED BY <1>0, <3>1 DEF Retries, KeptIn
  <2>2. Recorded(t) => t \in identified \cap marked
    BY <1>0, <2>1 DEF KeptOnce, Unlinks
  <2>3. /\ Adds({t}) /\ marked' \in SUBSET Turns /\ marked \subseteq marked' /\ marked' \subseteq marked \cup {t}
        /\ (t \in identified => t \in marked')
        /\ \A u \in marked' : Recorded(u)'
    BY <2>0, <2>1, <2>2, SaveAdds
  <2>4. /\ task'.pass = "retry" /\ task'.todo = task.todo /\ task'.saved = {t}
        /\ task'.at = task.at
        /\ task' \in [pass : Passes, todo : SUBSET Turns, saved : SUBSET Turns, at : SUBSET Sessions]
    BY <1>0, <2>0, <2>1 DEF DurabilityTypeOK
  <2>5. DurabilityTypeOK'
    BY <1>0, <2>3, <2>4 DEF DurabilityTypeOK, Adds, Histories
  <2>6. HasOwner'
    BY <1>0 DEF HasOwner
  <2>7. MessageLeft'
    BY <1>0, <2>1, <2>3 DEF MessageLeft, Adds
  <2>8. Files'
    BY <1>0, <2>1, <2>3 DEF Files, Adds
  <2>9. \A u \in Turns : Unlinks(u)' <=> u = t
    BY <2>4 DEF Unlinks
  <2>10. Saved'
    BY <1>0, <2>1, <2>3, <2>4, <2>9 DEF Saved, Adds
  <2>11. KeptOnce'
    BY <1>0, <2>3, <2>9 DEF KeptOnce, Adds, Unlinks
  <2>12. Retries'
    BY <1>0, <2>4 DEF Retries, KeptIn
  <2>13. Stops' /\ Flushes' /\ Replays' /\ Down'
    BY <1>0, <2>4 DEF Stops, Flushes, Replays, Down
  <2> QED BY <2>3, <2>5, <2>6, <2>7, <2>8, <2>10, <2>11, <2>12, <2>13 DEF Adds
<1>4. CASE task' = NoPass /\ history' = history /\ marked' = marked
  <2>1. Adds({})
    BY <1>4, NothingAdded
  <2>2. DurabilityTypeOK'
    BY <1>0, <1>4, <2>1, PassType DEF DurabilityTypeOK, Adds, Histories
  <2>3. HasOwner'
    BY <1>0 DEF HasOwner
  <2>4. MessageLeft' /\ Files'
    BY <1>0, <1>4, <2>1 DEF MessageLeft, Files, Adds, DurabilityTypeOK
  <2>5. KeptOnce'
    BY <1>0, <1>4, <2>1 DEF KeptOnce, Adds, Unlinks
  <2> QED BY <1>0, <1>4, <2>1, <2>2, <2>3, <2>4, <2>5, Idle DEF Adds
<1> QED BY <1>1, <1>2, <1>4

\* It is unlinked and forgotten, or stays with its mark.
LEMMA RetryUnlinksKeeps ==
  ASSUME DurabilityAssumption, DurabilityIInv, NEW t \in Turns, RetryUnlinks(t)
  PROVE  DurabilityIInv'
<1> USE DEF DurabilityIInv
<1>1. t \in task.saved /\ t \in task.todo /\ kept[t] # "no"
  <2>1. t \in task.saved /\ task.pass = "retry"
    BY DEF RetryUnlinks
  <2>2. t \in task.todo
    BY <2>1 DEF Saved
  <2> QED BY <2>1, <2>2 DEF Retries, KeptIn
<1>2. /\ UNCHANGED <<history, marked, unnumbered, mode, life, stopping, retry>>
      /\ faults' \in 0..MaxFaults /\ exits' = exits
      /\ task.pass = "retry" /\ mode = "up"
      /\ \/ /\ journal' = [journal EXCEPT ![t] = IF t \in identified THEN "no" ELSE @]
            /\ kept' = [kept EXCEPT ![t] = "no"] /\ identified' = identified \ {t}
            /\ task' = IF task.todo \ {t} = {} THEN NoPass ELSE Pass("retry", task.todo \ {t}, {})
         \/ task' = NoPass /\ UNCHANGED <<journal, kept, identified>>
  BY <1>1 DEF RetryUnlinks, Unlink, NoFault, Fault, bounds, DurabilityTypeOK, DurabilityAssumption, Retries
<1>3. Adds({})
  BY <1>2, NothingAdded
<1>4. Recorded(t) /\ (t \in identified => t \in marked) /\ (\A u \in Turns : Unlinks(u) => u = t)
  BY <1>1, <1>2 DEF Saved, Unlinks
<1>5. DurabilityTypeOK'
  <2>1. task' \in [pass : Passes, todo : SUBSET Turns, saved : SUBSET Turns, at : SUBSET Sessions]
    <3>1. task.todo \ {t} \in SUBSET Turns /\ {} \in SUBSET Sessions /\ "retry" \in Passes
      BY DEF DurabilityTypeOK, Passes
    <3>2. Pass("retry", task.todo \ {t}, {})
            \in [pass : Passes, todo : SUBSET Turns, saved : SUBSET Turns, at : SUBSET Sessions]
      BY <3>1, PassType
    <3>3. task' = NoPass \/ task' = Pass("retry", task.todo \ {t}, {})
      BY <1>2
    <3> QED BY <3>2, <3>3, PassType
  <2>2. journal' \in [Turns -> Kinds] /\ kept' \in [Turns -> Kinds]
    BY <1>2 DEF DurabilityTypeOK, Kinds
  <2> QED BY <1>2, <1>3, <2>1, <2>2 DEF DurabilityTypeOK, Adds, Histories
<1>6. HasOwner' /\ MessageLeft'
  BY <1>2, <1>3 DEF HasOwner, MessageLeft, DurabilityTypeOK, Adds
<1>7. Files'
  BY <1>2, <1>3, <1>4 DEF Files, DurabilityTypeOK, Adds
<1>8. \A u \in Turns : ~Unlinks(u)'
  BY <1>2 DEF Unlinks, NoPass, Pass
<1>9. KeptOnce'
  <2>1. CASE kept' = [kept EXCEPT ![t] = "no"] /\ identified' = identified \ {t}
    BY <1>2, <1>3, <1>4, <1>8, <2>1 DEF KeptOnce, DurabilityTypeOK, Adds
  <2>2. CASE UNCHANGED <<kept, identified>>
    <3>1. t \in identified
      BY <1>1, <1>2, <2>2 DEF RetryUnlinks, DurabilityTypeOK
    <3> QED BY <1>2, <1>3, <1>4, <1>8, <2>2, <3>1 DEF KeptOnce, Adds
  <2> QED BY <1>2, <2>1, <2>2
<1>10. Saved' /\ Retries' /\ Stops' /\ Flushes' /\ Replays' /\ Down'
  <2>1. CASE task' = NoPass
    BY <1>2, <2>1, Idle
  <2>2. CASE task' # NoPass
    <3>1. /\ task' = Pass("retry", task.todo \ {t}, {}) /\ task.todo \ {t} # {}
          /\ kept' = [kept EXCEPT ![t] = "no"]
      BY <1>2, <2>2
    <3>2. PICK s \in Sessions : task.todo = KeptIn(s)
      BY <1>2 DEF Retries
    <3>3. task.todo \ {t} = KeptIn(s)'
      BY <3>1, <3>2 DEF KeptIn, InSession, DurabilityTypeOK
    <3> QED BY <1>2, <1>8, <3>1, <3>3 DEF Pass, Saved, Retries, Stops, Flushes, Replays, Down
  <2> QED BY <2>1, <2>2
<1> QED BY <1>3, <1>5, <1>6, <1>7, <1>9, <1>10 DEF Adds

LEMMA RetryEndsKeeps ==
  ASSUME DurabilityAssumption, DurabilityIInv, RetryEnds
  PROVE  DurabilityIInv'
<1> USE DEF DurabilityIInv
<1>1. /\ task = NoPass /\ task' = NoPass /\ mode = "up" /\ mode' = "up" /\ retry' = FALSE
      /\ \A t \in Turns : kept[t] = "no"
      /\ UNCHANGED <<history, marked, journal, life, kept, identified, stopping, faults, exits, unnumbered>>
  BY DEF RetryEnds, diskVars, bounds
<1>2. Adds({})
  BY <1>1, NothingAdded
<1>3. DurabilityTypeOK' /\ HasOwner'
  BY <1>1, <1>2 DEF DurabilityTypeOK, Adds, Histories, HasOwner
<1>4. MessageLeft' /\ Files' /\ KeptOnce'
  BY <1>1, <1>2 DEF MessageLeft, Files, KeptOnce, Adds, DurabilityTypeOK
<1> QED BY <1>1, <1>2, <1>3, <1>4, Idle DEF Adds

-----------------------------------------------------------------------------
(* /stop.                                                                   *)

LEMMA StopBeginsKeeps ==
  ASSUME DurabilityAssumption, DurabilityIInv, NEW s \in Sessions, StopBegins(s)
  PROVE  DurabilityIInv'
<1> USE DEF DurabilityIInv
<1>1. /\ task = NoPass /\ task' = NoPass /\ mode' \in {"up", "closing"} /\ mode' = mode
      /\ stopping' = stopping \cup {s}
      /\ UNCHANGED <<history, marked, journal, life, kept, identified, retry, faults, exits, unnumbered>>
  BY DEF StopBegins, diskVars, bounds
<1>2. Adds({})
  BY <1>1, NothingAdded
<1>3. DurabilityTypeOK' /\ HasOwner'
  BY <1>1, <1>2 DEF DurabilityTypeOK, Adds, Histories, HasOwner
<1>4. MessageLeft' /\ Files'
  BY <1>1, <1>2 DEF MessageLeft, Files, Adds, DurabilityTypeOK
<1>5. KeptOnce'
  BY <1>1, <1>2, NoneSaved DEF KeptOnce, Adds
<1> QED BY <1>1, <1>2, <1>3, <1>4, <1>5, Idle DEF Adds

\* It takes what the tasks of its session had, and what was kept.
LEMMA StopTakesKeeps ==
  ASSUME DurabilityAssumption, DurabilityIInv, NEW s \in Sessions, StopTakes(s)
  PROVE  DurabilityIInv'
<1> USE DEF DurabilityIInv
<1>1. PICK aside \in SUBSET Live(s) :
        /\ faults' \in 0..MaxFaults /\ exits' = exits
        /\ kept' = [t \in Turns |-> IF t \in Live(s) \ aside THEN "stopped" ELSE kept[t]]
        /\ life' = [t \in Turns |-> IF t \in Live(s) \ aside THEN "over"
                                    ELSE IF t \in aside THEN "buffered" ELSE life[t]]
        /\ task' = Pass("stop", KeptAs("stopped", s) \cup (Live(s) \ aside), {s})
  <2>1. PICK aside \in SUBSET Live(s) :
          /\ IF aside = {} THEN NoFault ELSE Cardinality(aside) = 1 /\ Fault
          /\ kept' = [t \in Turns |-> IF t \in Live(s) \ aside THEN "stopped" ELSE kept[t]]
          /\ life' = [t \in Turns |-> IF t \in Live(s) \ aside THEN "over"
                                      ELSE IF t \in aside THEN "buffered" ELSE life[t]]
          /\ task' = Pass("stop", KeptAs("stopped", s) \cup (Live(s) \ aside), {s})
    BY DEF StopTakes
  <2>2. faults' \in 0..MaxFaults /\ exits' = exits
    BY <2>1 DEF NoFault, Fault, bounds, DurabilityTypeOK, DurabilityAssumption
  <2> QED BY <2>1, <2>2
<1>2. /\ UNCHANGED <<history, marked, journal, unnumbered, mode, identified, stopping, retry>>
      /\ mode \in {"up", "closing"} /\ task = NoPass /\ s \in stopping
  BY DEF StopTakes, diskVars
<1> DEFINE claimed == Live(s) \ aside
<1>3. /\ claimed \subseteq Turns
      /\ \A t \in claimed \cup aside : SessionOf[t] = s /\ life[t] = "live" /\ kept[t] = "no"
                                       /\ journal[t] = "no" /\ ~Recorded(t)
  BY DEF Live, InSession, MessageLeft
<1>4. /\ \A t \in claimed : kept'[t] = "stopped" /\ life'[t] = "over"
      /\ \A t \in Turns \ claimed : kept'[t] = kept[t]
      /\ \A t \in Turns \ (claimed \cup aside) : life'[t] = life[t]
      /\ kept' \in [Turns -> Kinds]
      /\ life' \in [Turns -> {"unsent", "requeued", "live", "buffered", "over"}]
  BY <1>1, <1>3 DEF DurabilityTypeOK, Kinds
<1> HIDE DEF claimed
<1>5. Adds({})
  BY <1>2, NothingAdded
<1>6. KeptAs("stopped", s) \cup claimed \subseteq KeptAs("stopped", s)'
  BY <1>3, <1>4 DEF KeptAs, InSession
<1>7. DurabilityTypeOK'
  <2>1. KeptAs("stopped", s) \cup claimed \in SUBSET Turns /\ {s} \in SUBSET Sessions
    BY <1>3 DEF KeptAs, InSession
  <2>2. task' \in [pass : Passes, todo : SUBSET Turns, saved : SUBSET Turns, at : SUBSET Sessions]
    BY <1>1, <2>1, PassType DEF Passes, claimed
  <2> QED BY <1>1, <1>2, <1>4, <1>5, <2>2 DEF DurabilityTypeOK, Adds, Histories
<1>8. HasOwner'
  BY <1>2, <1>3, <1>4 DEF HasOwner
<1>9. MessageLeft' /\ Files'
  BY <1>2, <1>3, <1>4, <1>5 DEF MessageLeft, Files, Adds, DurabilityTypeOK
<1>10. KeptOnce'
  BY <1>2, <1>3, <1>4, <1>5, NoneSaved DEF KeptOnce, Adds
<1>11. Saved' /\ Retries' /\ Stops' /\ Flushes' /\ Replays' /\ Down'
  <2>1. task' = Pass("stop", KeptAs("stopped", s) \cup claimed, {s})
    BY <1>1 DEF claimed
  <2> QED BY <1>2, <1>6, <2>1 DEF Pass, Saved, Unlinks, Retries, Stops, Flushes, Replays, Down, NoPass
<1> QED BY <1>5, <1>7, <1>8, <1>9, <1>10, <1>11 DEF Adds

\* Its session cannot be read.
LEMMA StopLosesKeeps ==
  ASSUME DurabilityAssumption, DurabilityIInv, NEW s \in Sessions, StopLoses(s)
  PROVE  DurabilityIInv'
<1> USE DEF DurabilityIInv
<1> DEFINE taken == KeptAs("stopped", s) \cup Live(s)
<1>1. /\ task = NoPass /\ task' = NoPass /\ mode' \in {"up", "closing"} /\ mode' = mode
      /\ faults' \in 0..MaxFaults /\ exits' = exits
      /\ kept' = [t \in Turns |-> IF t \in taken THEN "no" ELSE kept[t]]
      /\ identified' = identified \ taken
      /\ life' = [t \in Turns |-> IF t \in Live(s) THEN "over" ELSE life[t]]
      /\ stopping' = stopping \ {s}
      /\ retry' = (retry \/ (mode = "up" /\ KeptAs("pending", s) # {}))
      /\ UNCHANGED <<history, marked, journal, unnumbered>>
  BY DEF StopLoses, diskVars, Fault, DurabilityTypeOK, DurabilityAssumption
<1>2. /\ \A t \in taken : kept'[t] = "no"
      /\ \A t \in Turns \ taken : kept'[t] = kept[t] /\ (t \in identified' <=> t \in identified)
      /\ kept' \in [Turns -> Kinds]
      /\ life' \in [Turns -> {"unsent", "requeued", "live", "buffered", "over"}]
      /\ \A t \in Turns : life[t] = "over" => life'[t] = "over"
      /\ KeptAs("stopped", s) \subseteq taken
  <2>1. kept' \in [Turns -> Kinds]
    <3> HIDE DEF taken
    <3> QED BY <1>1 DEF DurabilityTypeOK, Kinds
  <2>2. /\ life' \in [Turns -> {"unsent", "requeued", "live", "buffered", "over"}]
        /\ \A t \in Turns : life[t] = "over" => life'[t] = "over"
    BY <1>1 DEF DurabilityTypeOK
  <2>3. taken \subseteq Turns
    BY DEF KeptAs, Live, InSession
  <2>4. /\ \A t \in taken : kept'[t] = "no"
        /\ \A t \in Turns \ taken : kept'[t] = kept[t] /\ (t \in identified' <=> t \in identified)
    <3> HIDE DEF taken
    <3> QED BY <1>1, <2>3
  <2> QED BY <2>1, <2>2, <2>4
<1> HIDE DEF taken
<1>3. Adds({})
  BY <1>1, NothingAdded
<1>4. retry' \in BOOLEAN /\ (retry => retry') /\ (mode = "up" /\ KeptAs("pending", s) # {} => retry')
  BY <1>1 DEF DurabilityTypeOK
<1>5. DurabilityTypeOK'
  BY <1>1, <1>2, <1>3, <1>4 DEF DurabilityTypeOK, Adds, Histories
<1>6. HasOwner'
  <2> SUFFICES ASSUME mode' = "up", ~retry', NEW t \in Turns, kept'[t] # "no"
               PROVE  SessionOf[t] \in stopping' \/ (kept'[t] = "pending" /\ t \in identified')
    BY DEF HasOwner
  <2>1. t \notin taken /\ kept[t] = kept'[t] /\ kept[t] \in Kinds
    BY <1>2
  <2>2. SessionOf[t] # s
    BY <1>1, <1>2, <1>4, <2>1 DEF KeptAs, InSession, Kinds
  <2> QED BY <1>1, <1>2, <1>4, <2>1, <2>2 DEF HasOwner
<1>7. MessageLeft' /\ Files'
  BY <1>1, <1>2, <1>3 DEF MessageLeft, Files, Adds, DurabilityTypeOK
<1>8. KeptOnce'
  BY <1>1, <1>2, <1>3, NoneSaved DEF KeptOnce, Adds
<1> QED BY <1>1, <1>3, <1>5, <1>6, <1>7, <1>8, Idle DEF Adds

\* The oldest turn it has taken is saved, or stays.
LEMMA StopStepKeeps ==
  ASSUME DurabilityAssumption, DurabilityIInv, StopStep
  PROVE  DurabilityIInv'
<1> USE DEF DurabilityIInv
<1>1. PICK s \in stopping : task.at = {s} /\ task.todo \subseteq KeptAs("stopped", s)
  BY DEF StopStep, Stops
<1>2. PICK t \in Due :
        /\ \/ NoFault /\ Save(t)
              /\ kept' = [kept EXCEPT ![t] = "no"] /\ identified' = identified \ {t}
           \/ Fault /\ UNCHANGED <<history, marked, kept, identified>>
        /\ task' = [task EXCEPT !.todo = @ \ {t}]
  BY DEF StopStep
<1>10. t \in Turns /\ t \in task.todo /\ kept[t] = "stopped"
  <2>1. t \in Turns /\ t \in task.todo
    BY DueIs DEF StopStep
  <2> QED BY <1>1, <2>1 DEF KeptAs
<1>3. /\ UNCHANGED <<journal, unnumbered, mode, life, stopping, retry>>
      /\ faults' \in 0..MaxFaults /\ exits' = exits
      /\ task.pass = "stop" /\ task.saved = {} /\ mode \in {"up", "closing"}
      /\ task' = [task EXCEPT !.todo = @ \ {t}]
      /\ \/ Save(t) /\ kept' = [kept EXCEPT ![t] = "no"] /\ identified' = identified \ {t}
         \/ UNCHANGED <<history, marked, kept, identified>>
  <2>1. faults' \in 0..MaxFaults /\ exits' = exits
    BY <1>2 DEF NoFault, Fault, bounds, DurabilityTypeOK, DurabilityAssumption
  <2>2. task.pass = "stop" /\ task.saved = {} /\ mode \in {"up", "closing"}
    BY DEF StopStep, Stops, Saved
  <2> QED BY <1>2, <2>1, <2>2 DEF StopStep
<1>4. /\ task'.pass = "stop" /\ task'.saved = {} /\ task'.at = {s} /\ task'.todo = task.todo \ {t}
      /\ task' \in [pass : Passes, todo : SUBSET Turns, saved : SUBSET Turns, at : SUBSET Sessions]
  BY <1>1, <1>3 DEF DurabilityTypeOK
<1>5. \A u \in Turns : ~Unlinks(u) /\ ~Unlinks(u)'
  BY <1>3, <1>4 DEF Unlinks
<1>6. /\ Histories' /\ marked' \subseteq Turns
      /\ kept' \in [Turns -> Kinds] /\ identified' \subseteq Turns
      /\ \A u \in Turns \ {t} : kept'[u] = kept[u] /\ (u \in identified' <=> u \in identified)
      /\ HasOwner' /\ MessageLeft' /\ Files' /\ KeptOnce'
  <2>1. CASE Save(t) /\ kept' = [kept EXCEPT ![t] = "no"] /\ identified' = identified \ {t}
    <3>1. Recorded(t) => t \in identified \cap marked
      BY <1>10, <1>5 DEF KeptOnce
    <3>2. /\ Adds({t}) /\ marked' \in SUBSET Turns /\ marked \subseteq marked' /\ marked' \subseteq marked \cup {t}
          /\ (t \in identified => t \in marked')
          /\ \A u \in marked' : Recorded(u)'
      BY <1>10, <2>1, <3>1, SaveAdds
    <3>3. HasOwner'
      BY <1>3, <2>1 DEF HasOwner, DurabilityTypeOK
    <3>4. MessageLeft'
      BY <1>10, <1>3, <2>1, <3>2 DEF MessageLeft, DurabilityTypeOK, Adds
    <3>5. Files'
      BY <1>10, <1>3, <2>1, <3>2 DEF Files, DurabilityTypeOK, Adds
    <3>6. KeptOnce'
      BY <1>5, <2>1, <3>2 DEF KeptOnce, DurabilityTypeOK, Adds
    <3> QED BY <2>1, <3>2, <3>3, <3>4, <3>5, <3>6 DEF DurabilityTypeOK, Kinds, Adds
  <2>2. CASE UNCHANGED <<history, marked, kept, identified>>
    <3>1. Adds({})
      BY <2>2, NothingAdded
    <3>2. HasOwner' /\ MessageLeft' /\ Files'
      BY <1>3, <2>2, <3>1 DEF HasOwner, MessageLeft, Files, DurabilityTypeOK, Adds
    <3>3. KeptOnce'
      BY <1>5, <2>2, <3>1 DEF KeptOnce, Adds
    <3> QED BY <2>2, <3>1, <3>2, <3>3 DEF DurabilityTypeOK, Adds
  <2> QED BY <1>3, <2>1, <2>2
<1>7. DurabilityTypeOK'
  BY <1>3, <1>4, <1>6 DEF DurabilityTypeOK, Histories
<1>8. Stops'
  <2>1. task'.todo \subseteq KeptAs("stopped", s)'
    BY <1>1, <1>4, <1>6 DEF KeptAs, InSession
  <2> QED BY <1>1, <1>3, <1>4, <2>1 DEF Stops
<1>9. Saved' /\ Retries' /\ Flushes' /\ Replays' /\ Down'
  BY <1>3, <1>4, <1>5 DEF Saved, Retries, Flushes, Replays, Down
<1> QED BY <1>6, <1>7, <1>8, <1>9

\* What was put aside meanwhile is recorded or kept, or goes back to the bus.
LEMMA StopReturnsKeeps ==
  ASSUME DurabilityAssumption, DurabilityIInv, NEW s \in Sessions, StopReturns(s)
  PROVE  DurabilityIInv'
<1> USE DEF DurabilityIInv
<1> DEFINE aside == {t \in InSession(s) : life[t] = "buffered"}
<1>1. PICK mine \in SUBSET aside, unsaved \in SUBSET aside :
        /\ unsaved \subseteq mine
        /\ faults' \in 0..MaxFaults /\ exits' = exits
        /\ history' = [history EXCEPT ![s] = @ \o Ascending(mine \ unsaved)]
        /\ kept' = [t \in Turns |-> IF t \in unsaved THEN "stopped" ELSE kept[t]]
        /\ life' = [t \in Turns |-> IF t \in mine THEN "over"
                                    ELSE IF t \in aside THEN "requeued" ELSE life[t]]
  <2>1. PICK mine \in SUBSET aside :
          \E unsaved \in {{}} \cup {{u \in mine : u >= t} : t \in mine} :
            /\ IF unsaved = {} THEN NoFault ELSE Fault
            /\ history' = [history EXCEPT ![s] = @ \o Ascending(mine \ unsaved)]
            /\ kept' = [t \in Turns |-> IF t \in unsaved THEN "stopped" ELSE kept[t]]
            /\ life' = [t \in Turns |-> IF t \in mine THEN "over"
                                        ELSE IF t \in aside THEN "requeued" ELSE life[t]]
    BY DEF StopReturns
  <2>2. PICK unsaved \in {{}} \cup {{u \in mine : u >= t} : t \in mine} :
            /\ IF unsaved = {} THEN NoFault ELSE Fault
            /\ history' = [history EXCEPT ![s] = @ \o Ascending(mine \ unsaved)]
            /\ kept' = [t \in Turns |-> IF t \in unsaved THEN "stopped" ELSE kept[t]]
            /\ life' = [t \in Turns |-> IF t \in mine THEN "over"
                                        ELSE IF t \in aside THEN "requeued" ELSE life[t]]
    BY <2>1
  <2>3. unsaved \subseteq mine /\ unsaved \in SUBSET aside
    OBVIOUS
  <2>4. faults' \in 0..MaxFaults /\ exits' = exits
    BY <2>2 DEF NoFault, Fault, bounds, DurabilityTypeOK, DurabilityAssumption
  <2> HIDE DEF aside
  <2> QED BY <2>2, <2>3, <2>4
<1>2. /\ task.pass = "stop" /\ task' = NoPass /\ task.saved = {}
      /\ stopping' = stopping \ {s} /\ UNCHANGED <<marked, journal, unnumbered, mode, identified>>
      /\ retry' = (retry \/ (mode = "up" /\ \E t \in InSession(s) : kept'[t] # "no"))
      /\ mode \in {"up", "closing"}
  BY DEF StopReturns, Stops, Saved
<1>3. \A t \in aside : t \in Turns /\ SessionOf[t] = s /\ life[t] = "buffered" /\ kept[t] = "no"
                       /\ journal[t] = "no" /\ ~Recorded(t)
  BY DEF InSession, MessageLeft
<1>4. Adds(mine \ unsaved)
  <2>1. mine \ unsaved \in SUBSET InSession(s) /\ \A t \in mine \ unsaved : ~Recorded(t)
    BY <1>3
  <2> QED BY <1>1, <2>1, AscendingAdds
<1>5. /\ \A t \in unsaved : kept'[t] = "stopped" /\ life'[t] = "over"
      /\ \A t \in Turns \ unsaved : kept'[t] = kept[t]
      /\ \A t \in mine : life'[t] = "over"
      /\ \A t \in Turns \ aside : life'[t] = life[t]
      /\ kept' \in [Turns -> Kinds]
      /\ life' \in [Turns -> {"unsent", "requeued", "live", "buffered", "over"}]
  BY <1>1, <1>3 DEF DurabilityTypeOK, Kinds
<1>6. mine \subseteq aside /\ unsaved \subseteq mine
  BY <1>1
<1> HIDE DEF aside
<1>7. retry' \in BOOLEAN /\ (retry => retry')
      /\ (mode = "up" /\ (\E t \in InSession(s) : kept'[t] # "no") => retry')
  BY <1>2 DEF DurabilityTypeOK
<1>8. DurabilityTypeOK'
  BY <1>1, <1>2, <1>4, <1>5, <1>7, PassType DEF DurabilityTypeOK, Adds, Histories
<1>9. HasOwner'
  BY <1>2, <1>3, <1>5, <1>6, <1>7 DEF HasOwner, InSession
<1>10. MessageLeft'
  BY <1>2, <1>3, <1>4, <1>5, <1>6 DEF MessageLeft, Adds
<1>11. Files'
  BY <1>2, <1>3, <1>4, <1>5, <1>6 DEF Files, Adds, DurabilityTypeOK
<1>12. KeptOnce'
  BY <1>2, <1>3, <1>4, <1>5, <1>6 DEF KeptOnce, Adds, Unlinks
<1> QED BY <1>2, <1>4, <1>8, <1>9, <1>10, <1>11, <1>12, Idle DEF Adds

-----------------------------------------------------------------------------
(* Shutdown and exit.                                                       *)

LEMMA ShutdownBeginsKeeps ==
  ASSUME DurabilityAssumption, DurabilityIInv, ShutdownBegins
  PROVE  DurabilityIInv'
<1> USE DEF DurabilityIInv
<1>1. /\ task = NoPass /\ task' = NoPass /\ mode' = "closing" /\ retry' = FALSE
      /\ UNCHANGED <<history, marked, journal, life, kept, identified, stopping, faults, exits, unnumbered>>
  BY DEF ShutdownBegins, diskVars, bounds
<1>2. Adds({})
  BY <1>1, NothingAdded
<1>3. DurabilityTypeOK' /\ HasOwner'
  BY <1>1, <1>2 DEF DurabilityTypeOK, Adds, Histories, HasOwner
<1>4. MessageLeft' /\ Files'
  BY <1>1, <1>2 DEF MessageLeft, Files, Adds, DurabilityTypeOK
<1>5. KeptOnce'
  BY <1>1, <1>2, NoneSaved DEF KeptOnce, Adds
<1> QED BY <1>1, <1>2, <1>3, <1>4, <1>5, Idle DEF Adds

\* What is kept is to be flushed.
LEMMA FlushBeginsKeeps ==
  ASSUME DurabilityAssumption, DurabilityIInv, FlushBegins
  PROVE  DurabilityIInv'
<1> USE DEF DurabilityIInv
<1>1. /\ task = NoPass /\ mode' = mode /\ mode = "closing"
      /\ task' = Pass("flush", {t \in Turns : kept[t] # "no"}, {})
      /\ UNCHANGED <<history, marked, journal, life, kept, identified, stopping, retry, faults, exits, unnumbered>>
  BY DEF FlushBegins, diskVars, memoryVars, bounds
<1>2. Adds({})
  BY <1>1, NothingAdded
<1>3. DurabilityTypeOK'
  <2>1. {t \in Turns : kept[t] # "no"} \in SUBSET Turns
    OBVIOUS
  <2>2. task' \in [pass : Passes, todo : SUBSET Turns, saved : SUBSET Turns, at : SUBSET Sessions]
    BY <1>1, <2>1, PassType DEF Passes
  <2> QED BY <1>1, <1>2, <2>2 DEF DurabilityTypeOK, Adds, Histories
<1>4. HasOwner' /\ MessageLeft' /\ Files'
  BY <1>1, <1>2 DEF HasOwner, MessageLeft, Files, Adds, DurabilityTypeOK
<1>5. KeptOnce'
  BY <1>1, <1>2, NoneSaved DEF KeptOnce, Adds
<1>6. Saved' /\ Retries' /\ Stops' /\ Flushes' /\ Replays' /\ Down'
  BY <1>1 DEF Pass, Saved, Unlinks, Retries, Stops, Flushes, Replays, Down
<1> QED BY <1>2, <1>3, <1>4, <1>5, <1>6 DEF Adds

\* A turn is saved, written to a recovery file, or stays.
LEMMA FlushStepKeeps ==
  ASSUME DurabilityAssumption, DurabilityIInv, FlushStep
  PROVE  DurabilityIInv'
<1> USE DEF DurabilityIInv
<1>1. PICK t \in task.todo :
        /\ \/ /\ \/ kept[t] = "stopped" /\ NoFault /\ Save(t) /\ UNCHANGED journal
                 \/ kept[t] = "stopped" /\ Fault /\ Journal(t)
                 \/ kept[t] = "pending" /\ NoFault /\ Journal(t)
              /\ kept' = [kept EXCEPT ![t] = "no"] /\ identified' = identified \ {t}
           \/ Fault /\ UNCHANGED <<diskVars, kept, identified>>
        /\ task' = [task EXCEPT !.todo = @ \ {t}]
  BY DEF FlushStep
<1>2. t \in Turns /\ kept[t] # "no" /\ life[t] = "over"
      /\ task.pass = "flush" /\ mode = "closing" /\ task.saved = {}
      /\ UNCHANGED <<unnumbered, mode, life, stopping, retry>>
  BY DEF FlushStep, Flushes, Saved, DurabilityTypeOK, MessageLeft
<1>3. faults' \in 0..MaxFaults /\ exits' = exits
  BY <1>1 DEF NoFault, Fault, bounds, DurabilityTypeOK, DurabilityAssumption
<1>4. /\ task'.pass = "flush" /\ task'.saved = {} /\ task'.todo = task.todo \ {t}
      /\ task' \in [pass : Passes, todo : SUBSET Turns, saved : SUBSET Turns, at : SUBSET Sessions]
  BY <1>1, <1>2 DEF DurabilityTypeOK
<1>5. \A u \in Turns : ~Unlinks(u) /\ ~Unlinks(u)'
  BY <1>2, <1>4 DEF Unlinks
<1>6. Recorded(t) => t \in identified \cap marked
  BY <1>2, <1>5 DEF KeptOnce
<1>7. /\ Histories' /\ marked' \subseteq Turns /\ journal' \in [Turns -> Kinds]
      /\ kept' \in [Turns -> Kinds] /\ identified' \subseteq Turns
      /\ \A u \in Turns \ {t} : kept'[u] = kept[u]
      /\ MessageLeft' /\ Files' /\ KeptOnce'
  <2>1. CASE Save(t) /\ UNCHANGED journal /\ kept' = [kept EXCEPT ![t] = "no"]
             /\ identified' = identified \ {t}
    <3>1. /\ Adds({t}) /\ marked' \in SUBSET Turns /\ marked \subseteq marked' /\ marked' \subseteq marked \cup {t}
          /\ (t \in identified => t \in marked')
          /\ \A u \in marked' : Recorded(u)'
      BY <1>2, <1>6, <2>1, SaveAdds
    <3>2. MessageLeft'
      BY <1>2, <2>1, <3>1 DEF MessageLeft, DurabilityTypeOK, Adds
    <3>3. Files'
      BY <1>2, <2>1, <3>1 DEF Files, DurabilityTypeOK, Adds
    <3>4. KeptOnce'
      BY <1>5, <2>1, <3>1 DEF KeptOnce, DurabilityTypeOK, Adds
    <3> QED BY <2>1, <3>1, <3>2, <3>3, <3>4 DEF DurabilityTypeOK, Kinds, Adds
  <2>2. CASE Journal(t) /\ kept' = [kept EXCEPT ![t] = "no"] /\ identified' = identified \ {t}
    <3>1. Adds({}) /\ UNCHANGED <<history, marked>>
      BY <2>2, NothingAdded DEF Journal
    <3>2. journal' = [journal EXCEPT ![t] = kept[t]]
      BY <2>2 DEF Journal
    <3>3. MessageLeft'
      BY <1>2, <2>2, <3>1, <3>2 DEF MessageLeft, DurabilityTypeOK, Adds
    <3>4. Files'
      BY <1>2, <1>6, <2>2, <3>1, <3>2 DEF Files, DurabilityTypeOK, Adds
    <3>5. KeptOnce'
      BY <1>5, <2>2, <3>1 DEF KeptOnce, DurabilityTypeOK, Adds
    <3> QED BY <1>2, <2>2, <3>1, <3>2, <3>3, <3>4, <3>5 DEF DurabilityTypeOK, Kinds, Adds
  <2>3. CASE UNCHANGED <<history, marked, journal, kept, identified>>
    <3>1. Adds({})
      BY <2>3, NothingAdded
    <3>2. MessageLeft' /\ Files'
      BY <1>2, <2>3, <3>1 DEF MessageLeft, Files, DurabilityTypeOK, Adds
    <3>3. KeptOnce'
      BY <1>5, <2>3, <3>1 DEF KeptOnce, Adds
    <3> QED BY <2>3, <3>1, <3>2, <3>3 DEF DurabilityTypeOK, Adds
  <2> QED BY <1>1, <2>1, <2>2, <2>3 DEF diskVars
<1>8. DurabilityTypeOK'
  BY <1>2, <1>3, <1>4, <1>7 DEF DurabilityTypeOK, Histories
<1>9. HasOwner'
  BY <1>2 DEF HasOwner
<1>10. Flushes'
  <2>1. \A u \in task'.todo : u \in Turns \ {t} /\ kept[u] # "no"
    BY <1>2, <1>4 DEF Flushes, DurabilityTypeOK
  <2> QED BY <1>2, <1>7, <2>1 DEF Flushes
<1>11. Saved' /\ Retries' /\ Stops' /\ Replays' /\ Down'
  BY <1>2, <1>4, <1>5 DEF Saved, Retries, Stops, Replays, Down
<1> QED BY <1>7, <1>8, <1>9, <1>10, <1>11

\* The files stay, and what memory has is lost.
LEMMA ExitKeeps ==
  ASSUME DurabilityAssumption, DurabilityIInv, ProcessExit
  PROVE  DurabilityIInv'
<1> USE DEF DurabilityIInv
<1>1. /\ task' = NoPass /\ mode' = "down" /\ identified' = {} /\ stopping' = {} /\ retry' = FALSE
      /\ kept' = [t \in Turns |-> "no"]
      /\ life' = [t \in Turns |-> IF life[t] = "unsent" THEN "unsent" ELSE "over"]
      /\ faults' = faults /\ exits' \in 0..MaxExits /\ UNCHANGED <<history, marked, journal, unnumbered>>
  BY DEF ProcessExit, diskVars, DurabilityTypeOK, DurabilityAssumption
<1>2. Adds({})
  BY <1>1, NothingAdded
<1>3. DurabilityTypeOK'
  BY <1>1, <1>2, PassType DEF DurabilityTypeOK, Adds, Histories, Kinds
<1>4. MessageLeft'
  <2>1. \A t \in Turns : life[t] = "over" => life'[t] = "over"
    BY <1>1
  <2>2. \A t \in Turns : kept'[t] = "no"
    BY <1>1
  <2> QED BY <1>1, <1>2, <2>1, <2>2 DEF MessageLeft, Adds
<1>5. HasOwner' /\ Files' /\ KeptOnce'
  BY <1>1, <1>2 DEF HasOwner, Files, KeptOnce, Adds, DurabilityTypeOK
<1>6. Saved' /\ Retries' /\ Stops' /\ Flushes' /\ Replays' /\ Down'
  BY <1>1 DEF NoPass, Pass, Saved, Unlinks, Retries, Stops, Flushes, Replays, Down
<1> QED BY <1>2, <1>3, <1>4, <1>5, <1>6 DEF Adds

-----------------------------------------------------------------------------
(* Start.                                                                   *)

\* The recovery files are to be replayed.
LEMMA ReplayBeginsKeeps ==
  ASSUME DurabilityAssumption, DurabilityIInv, Start
  PROVE  DurabilityIInv'
<1> USE DEF DurabilityIInv
<1> DEFINE found == {t \in Turns : journal[t] # "no"}
<1>1. /\ mode = "down" /\ mode' = "starting" /\ task' = Pass("replay", found, {})
      /\ identified' = found /\ task = NoPass /\ (\A t \in Turns : kept[t] = "no")
      /\ UNCHANGED <<history, marked, journal, life, kept, stopping, retry, faults, exits, unnumbered>>
  BY DEF Start, diskVars, bounds, Down
<1>2. found \in SUBSET Turns /\ \A t \in found : journal[t] # "no"
  OBVIOUS
<1> HIDE DEF found
<1>3. Adds({})
  BY <1>1, NothingAdded
<1>4. DurabilityTypeOK'
  <2>1. task' \in [pass : Passes, todo : SUBSET Turns, saved : SUBSET Turns, at : SUBSET Sessions]
    BY <1>1, <1>2, PassType DEF Passes
  <2> QED BY <1>1, <1>2, <1>3, <2>1 DEF DurabilityTypeOK, Adds, Histories
<1>5. HasOwner' /\ MessageLeft' /\ Files' /\ KeptOnce'
  BY <1>1, <1>3 DEF HasOwner, MessageLeft, Files, KeptOnce, Adds, DurabilityTypeOK
<1>6. Saved' /\ Retries' /\ Stops' /\ Flushes' /\ Replays' /\ Down'
  BY <1>1, <1>2 DEF Pass, Saved, Unlinks, Retries, Stops, Flushes, Replays, Down
<1> QED BY <1>3, <1>4, <1>5, <1>6 DEF Adds

\* The oldest recovery file is replayed, kept or put into quarantine.
LEMMA ReplayStepKeeps ==
  ASSUME DurabilityAssumption, DurabilityIInv, ReplayStep
  PROVE  DurabilityIInv'
<1> USE DEF DurabilityIInv
<1>1. PICK t \in Turns : /\ t \in task.todo /\ (task.saved # {} => t \in task.saved)
                         /\ ReplaySaves(t) \/ ReplayUnlinks(t) \/ ReplayKeeps(t) \/ Quarantine(t)
  BY DueIs DEF ReplayStep
<1>3. ReplaySaves(t) \/ ReplayUnlinks(t) \/ ReplayKeeps(t) \/ Quarantine(t)
  BY <1>1
<1>2. /\ kept[t] = "no" /\ journal[t] # "no" /\ t \in identified /\ life[t] = "over"
      /\ task.pass = "replay" /\ mode = "starting"
      /\ UNCHANGED <<unnumbered, mode, life, stopping, retry>>
      /\ Recorded(t) => t \in marked
  BY <1>1 DEF ReplayStep, Replays, Files, MessageLeft
<1>4. faults' \in 0..MaxFaults /\ exits' = exits
  <2>1. NoFault \/ Fault
    BY <1>3 DEF ReplaySaves, ReplayUnlinks, ReplayKeeps, Quarantine
  <2> QED BY <2>1 DEF NoFault, Fault, bounds, DurabilityTypeOK, DurabilityAssumption
<1>5. HasOwner'
  BY <1>2 DEF HasOwner
<1>6. SessionOf[t] \in Sessions
  BY DEF DurabilityAssumption
<1>7. CASE ReplaySaves(t)
  <2>1. /\ task.saved = {} /\ Save(t) /\ task' = [task EXCEPT !.saved = {t}]
        /\ UNCHANGED <<journal, kept, identified>>
    BY <1>7 DEF ReplaySaves
  <2>2. /\ Adds({t}) /\ marked' \in SUBSET Turns /\ marked \subseteq marked' /\ marked' \subseteq marked \cup {t}
        /\ t \in marked' /\ \A u \in marked' : Recorded(u)'
    BY <1>2, <2>1, SaveAdds
  <2>3. /\ task'.pass = "replay" /\ task'.todo = task.todo /\ task'.saved = {t} /\ task'.at = task.at
        /\ task' \in [pass : Passes, todo : SUBSET Turns, saved : SUBSET Turns, at : SUBSET Sessions]
    BY <1>1, <1>2, <2>1 DEF DurabilityTypeOK
  <2>4. \A u \in Turns : ~Unlinks(u) /\ (Unlinks(u)' <=> u = t)
    BY <2>1, <2>3 DEF Unlinks
  <2>5. DurabilityTypeOK'
    BY <1>2, <1>4, <2>1, <2>2, <2>3 DEF DurabilityTypeOK, Adds, Histories
  <2>6. MessageLeft' /\ Files'
    BY <1>2, <2>1, <2>2 DEF MessageLeft, Files, Adds
  <2>7. KeptOnce'
    BY <1>2, <2>1, <2>2, <2>4 DEF KeptOnce, Adds
  <2>8. Saved'
    BY <1>1, <2>2, <2>3, <2>4 DEF Saved, Adds
  <2>9. Retries' /\ Stops' /\ Flushes' /\ Replays' /\ Down'
    BY <1>2, <2>1, <2>3 DEF Retries, Stops, Flushes, Replays, Down
  <2> QED BY <1>5, <2>2, <2>5, <2>6, <2>7, <2>8, <2>9 DEF Adds
<1>8. CASE ReplayUnlinks(t) \/ Quarantine(t)
  <2>1. /\ journal' = [journal EXCEPT ![t] = "no"] /\ identified' = identified \ {t}
        /\ task' = [task EXCEPT !.todo = @ \ {t}, !.saved = {}]
        /\ UNCHANGED <<history, marked, kept>>
    BY <1>2, <1>8 DEF ReplayUnlinks, Unlink, Quarantine, Replayed
  <2>2. Adds({})
    BY <2>1, NothingAdded
  <2>3. /\ task'.pass = "replay" /\ task'.todo = task.todo \ {t} /\ task'.saved = {} /\ task'.at = task.at
        /\ task' \in [pass : Passes, todo : SUBSET Turns, saved : SUBSET Turns, at : SUBSET Sessions]
    BY <1>2, <2>1 DEF DurabilityTypeOK
  <2>4. \A u \in Turns : ~Unlinks(u)' /\ (Unlinks(u) => u = t)
    BY <1>1, <2>3 DEF Unlinks, Saved
  <2>5. DurabilityTypeOK'
    BY <1>2, <1>4, <2>1, <2>2, <2>3 DEF DurabilityTypeOK, Adds, Histories, Kinds
  <2>6. MessageLeft' /\ Files'
    BY <1>2, <2>1, <2>2 DEF MessageLeft, Files, Adds, DurabilityTypeOK
  <2>7. KeptOnce'
    BY <1>2, <2>1, <2>2, <2>4 DEF KeptOnce, Adds
  <2>8. Replays'
    <3>1. \A u \in task'.todo : u \in Turns \ {t} /\ kept[u] = "no" /\ journal[u] # "no" /\ u \in identified
      BY <1>2, <2>3 DEF Replays, DurabilityTypeOK
    <3>2. \A u \in task'.todo : kept'[u] = "no" /\ journal'[u] # "no" /\ u \in identified'
      BY <2>1, <3>1 DEF DurabilityTypeOK
    <3>3. \A u \in Turns : kept'[u] # "no" => SessionOf[u] \in task'.at /\ u \in identified'
      BY <1>2, <2>1, <2>3 DEF Replays
    <3> QED BY <1>2, <2>3, <3>2, <3>3 DEF Replays
  <2>9. Saved' /\ Retries' /\ Stops' /\ Flushes' /\ Down'
    BY <1>2, <2>3, <2>4 DEF Saved, Retries, Stops, Flushes, Down
  <2> QED BY <1>5, <2>2, <2>5, <2>6, <2>7, <2>8, <2>9 DEF Adds
<1>9. CASE ReplayKeeps(t)
  <2>1. PICK kind \in {"stopped", "pending"} : Retain(t, kind) /\ UNCHANGED <<diskVars, identified>>
    BY <1>9 DEF ReplayKeeps
  <2>2. /\ kept' = [kept EXCEPT ![t] = kind]
        /\ task' = [task EXCEPT !.todo = @ \ {t}, !.saved = {}, !.at = @ \cup {SessionOf[t]}]
        /\ UNCHANGED <<history, marked, journal, identified>>
    BY <2>1 DEF Retain, diskVars
  <2>3. Adds({})
    BY <2>2, NothingAdded
  <2>4. /\ task'.pass = "replay" /\ task'.todo = task.todo \ {t} /\ task'.saved = {}
        /\ task'.at = task.at \cup {SessionOf[t]}
        /\ task' \in [pass : Passes, todo : SUBSET Turns, saved : SUBSET Turns, at : SUBSET Sessions]
    BY <1>2, <1>6, <2>2 DEF DurabilityTypeOK
  <2>5. \A u \in Turns : ~Unlinks(u)' /\ (Unlinks(u) => u = t)
    BY <1>1, <2>4 DEF Unlinks, Saved
  <2>6. DurabilityTypeOK'
    BY <1>2, <1>4, <2>2, <2>3, <2>4 DEF DurabilityTypeOK, Adds, Histories, Kinds
  <2>7. MessageLeft' /\ Files'
    BY <1>2, <2>2, <2>3 DEF MessageLeft, Files, Adds, DurabilityTypeOK
  <2>8. KeptOnce'
    BY <1>2, <2>2, <2>3, <2>5 DEF KeptOnce, Adds, DurabilityTypeOK
  <2>9. Replays'
    <3>1. \A u \in task'.todo : u \in Turns \ {t} /\ kept[u] = "no" /\ journal[u] # "no" /\ u \in identified
      BY <1>2, <2>4 DEF Replays, DurabilityTypeOK
    <3>2. \A u \in task'.todo : kept'[u] = "no" /\ journal'[u] # "no" /\ u \in identified'
      BY <2>2, <3>1 DEF DurabilityTypeOK
    <3>3. \A u \in Turns : kept'[u] # "no" => SessionOf[u] \in task'.at /\ u \in identified'
      BY <1>2, <2>2, <2>4 DEF Replays, DurabilityTypeOK
    <3> QED BY <1>2, <2>4, <3>2, <3>3 DEF Replays
  <2>10. Saved' /\ Retries' /\ Stops' /\ Flushes' /\ Down'
    BY <1>2, <2>4, <2>5 DEF Saved, Retries, Stops, Flushes, Down
  <2> QED BY <1>5, <2>3, <2>6, <2>7, <2>8, <2>9, <2>10 DEF Adds
<1> QED BY <1>3, <1>7, <1>8, <1>9

\* What the replay could not even prepare waits for a message; the rest has a
\* retry task.
LEMMA ReplayEndsKeeps ==
  ASSUME DurabilityAssumption, DurabilityIInv, ReplayEnds
  PROVE  DurabilityIInv'
<1> USE DEF DurabilityIInv
<1>1. /\ task.pass = "replay" /\ task.todo = {} /\ task' = NoPass /\ mode' = "up"
      /\ retry' = \E t \in Turns : kept[t] = "stopped"
      /\ UNCHANGED <<history, marked, journal, life, kept, identified, stopping, faults, exits, unnumbered>>
  BY DEF ReplayEnds, diskVars, bounds
<1>2. \A t \in Turns : ~Unlinks(t)
  BY <1>1 DEF Saved, Unlinks
<1>3. retry' \in BOOLEAN /\ (\A t \in Turns : kept[t] = "stopped" => retry')
  BY <1>1
<1>4. Adds({})
  BY <1>1, NothingAdded
<1>5. DurabilityTypeOK'
  BY <1>1, <1>3, <1>4, PassType DEF DurabilityTypeOK, Adds, Histories
<1>6. HasOwner'
  <2> SUFFICES ASSUME ~retry', NEW t \in Turns, kept'[t] # "no"
               PROVE  kept'[t] = "pending" /\ t \in identified'
    BY DEF HasOwner
  <2>1. kept[t] \in Kinds /\ kept[t] # "no" /\ kept[t] # "stopped"
    BY <1>1, <1>3 DEF DurabilityTypeOK
  <2> QED BY <1>1, <2>1 DEF Kinds, Replays
<1>7. MessageLeft' /\ Files'
  BY <1>1, <1>4 DEF MessageLeft, Files, Adds, DurabilityTypeOK
<1>8. KeptOnce'
  BY <1>1, <1>2, <1>4 DEF KeptOnce, Adds
<1> QED BY <1>1, <1>4, <1>5, <1>6, <1>7, <1>8, Idle DEF Adds

-----------------------------------------------------------------------------
(* What is in a file stays there.                                           *)

LEMMA AppendRecords ==
  ASSUME DurabilityAssumption, Histories, NEW t \in Turns,
         history' = [history EXCEPT ![SessionOf[t]] = Append(@, t)]
  PROVE  Recorded(t)' /\ \A u \in Turns : Recorded(u) => Recorded(u)'
<1> DEFINE s == SessionOf[t]   h == history[s]   g == Append(h, t)
<1>1. s \in Sessions /\ h \in Seq(Turns)
  BY DEF DurabilityAssumption, Histories
<1>2. DOMAIN g = 1..(Len(h) + 1) /\ DOMAIN h = 1..Len(h) /\ Len(h) \in Nat
      /\ g[Len(h) + 1] = t /\ \A i \in 1..Len(h) : g[i] = h[i]
  BY <1>1
<1>3. history'[s] = g /\ \A r \in Sessions \ {s} : history'[r] = history[r]
  BY <1>1 DEF Histories
<1>4. t \in Range(g) /\ Range(h) \subseteq Range(g)
  <2> HIDE DEF g, h
  <2> QED BY <1>2 DEF Range
<1>5. \A u \in Turns : SessionOf[u] \in Sessions
  BY DEF DurabilityAssumption
<1> HIDE DEF g
<1> QED BY <1>3, <1>4, <1>5 DEF Recorded

LEMMA SaveRecords ==
  ASSUME DurabilityAssumption, Histories, Files, NEW t \in Turns, Save(t)
  PROVE  Recorded(t)' /\ \A u \in Turns : Recorded(u) => Recorded(u)'
<1>1. CASE t \in identified \cap marked
  <2>1. Recorded(t) /\ history' = history
    BY <1>1 DEF Save, Files
  <2> QED BY <2>1 DEF Recorded
<1>2. CASE t \notin identified \cap marked
  BY <1>2, AppendRecords DEF Save
<1> QED BY <1>1, <1>2

LEMMA ReturnsRecord ==
  ASSUME DurabilityAssumption, DurabilityIInv, NEW s \in Sessions, StopReturns(s)
  PROVE  /\ \A t \in Turns : Recorded(t) => Recorded(t)'
         /\ \A t \in Turns : Held(t) => Held(t)'
<1> DEFINE aside == {t \in InSession(s) : life[t] = "buffered"}
<1>1. PICK mine \in SUBSET aside, unsaved \in SUBSET aside :
        /\ unsaved \subseteq mine
        /\ history' = [history EXCEPT ![s] = @ \o Ascending(mine \ unsaved)]
        /\ kept' = [t \in Turns |-> IF t \in unsaved THEN "stopped" ELSE kept[t]]
        /\ life' = [t \in Turns |-> IF t \in mine THEN "over"
                                    ELSE IF t \in aside THEN "requeued" ELSE life[t]]
  <2>1. PICK mine \in SUBSET aside :
          \E unsaved \in {{}} \cup {{u \in mine : u >= t} : t \in mine} :
            /\ history' = [history EXCEPT ![s] = @ \o Ascending(mine \ unsaved)]
            /\ kept' = [t \in Turns |-> IF t \in unsaved THEN "stopped" ELSE kept[t]]
            /\ life' = [t \in Turns |-> IF t \in mine THEN "over"
                                        ELSE IF t \in aside THEN "requeued" ELSE life[t]]
    BY DEF StopReturns
  <2>2. PICK unsaved \in {{}} \cup {{u \in mine : u >= t} : t \in mine} :
            /\ history' = [history EXCEPT ![s] = @ \o Ascending(mine \ unsaved)]
            /\ kept' = [t \in Turns |-> IF t \in unsaved THEN "stopped" ELSE kept[t]]
            /\ life' = [t \in Turns |-> IF t \in mine THEN "over"
                                        ELSE IF t \in aside THEN "requeued" ELSE life[t]]
    BY <2>1
  <2>3. unsaved \subseteq mine /\ unsaved \in SUBSET aside
    OBVIOUS
  <2> HIDE DEF aside
  <2> QED BY <2>2, <2>3
<1>2. \A t \in aside : t \in InSession(s) /\ t \in Turns /\ ~Recorded(t)
  BY DEF InSession, MessageLeft, DurabilityIInv
<1> HIDE DEF aside
<1>3. Adds(mine \ unsaved)
  <2>1. mine \ unsaved \in SUBSET InSession(s) /\ \A t \in mine \ unsaved : ~Recorded(t)
    BY <1>2
  <2> QED BY <1>1, <2>1, AscendingAdds DEF DurabilityIInv
<1>4. \A t \in Turns : Recorded(t) => Recorded(t)'
  BY <1>3 DEF Adds
<1>5. ASSUME NEW t \in Turns, Held(t) PROVE Held(t)'
  <2>1. journal' = journal
    BY DEF StopReturns
  <2>2. CASE t \in unsaved
    BY <1>1, <2>2 DEF Held
  <2>3. CASE t \in mine \ unsaved
    BY <1>3, <2>3 DEF Adds, Held
  <2>4. CASE t \in aside \ mine
    BY <1>1, <2>4 DEF Held
  <2>5. CASE t \notin aside
    <3>1. life'[t] = life[t] /\ kept'[t] = kept[t]
      BY <1>1, <2>5
    <3> QED BY <1>4, <1>5, <2>1, <3>1 DEF Held
  <2> QED BY <1>1, <2>2, <2>3, <2>4, <2>5
<1> QED BY <1>4, <1>5

\* A turn of which nothing changes is held as before.
LEMMA StaysHeld ==
  ASSUME NEW t \in Turns, Recorded(t) => Recorded(t)', Held(t),
         life'[t] = life[t], kept'[t] = kept[t], journal'[t] = journal[t]
  PROVE  Held(t)'
BY DEF Held

\* A turn that leaves its message is recorded or kept.
LEMMA EndHolds ==
  ASSUME DurabilityAssumption, DurabilityIInv, NEW u \in Turns, NEW t \in Turns, Held(t),
         UNCHANGED journal,
         \/ Record(u) \/ FailToRecord(u)
         \/ history' = history /\ \E kind \in {"stopped", "pending"} : Keep(u, kind)
  PROVE  Held(t)'
<1>1. CASE Record(u)
  <2>1. Recorded(u)' /\ \A v \in Turns : Recorded(v) => Recorded(v)'
    BY <1>1, AppendRecords DEF Record, DurabilityIInv
  <2>2. kept' = kept /\ life' = [life EXCEPT ![u] = "over"]
    BY <1>1 DEF Record
  <2>3. CASE t = u
    BY <2>1, <2>3 DEF Held
  <2>4. CASE t # u
    BY <2>1, <2>2, <2>4, StaysHeld DEF DurabilityIInv, DurabilityTypeOK
  <2> QED BY <2>3, <2>4
<1>2. CASE FailToRecord(u) \/ (history' = history /\ \E kind \in {"stopped", "pending"} : Keep(u, kind))
  <2>1. PICK kind \in {"stopped", "pending"} : history' = history /\ Keep(u, kind)
    BY <1>2 DEF FailToRecord
  <2>2. kept' = [kept EXCEPT ![u] = kind] /\ life' = [life EXCEPT ![u] = "over"]
    BY <2>1 DEF Keep
  <2>3. CASE t = u
    BY <2>2, <2>3 DEF Held, DurabilityIInv, DurabilityTypeOK
  <2>4. CASE t # u
    <3>1. Recorded(t) => Recorded(t)'
      BY <2>1 DEF Recorded
    <3> QED BY <2>2, <2>4, <3>1, StaysHeld DEF DurabilityIInv, DurabilityTypeOK
  <2> QED BY <2>3, <2>4
<1> QED BY <1>1, <1>2

\* No step drops a turn, except the three that the property names.
LEMMA StepHolds ==
  ASSUME DurabilityAssumption, DurabilityIInv, [DurabilityNext]_durabilityVars, NEW t \in Turns, Held(t)
  PROVE  \/ Held(t)'
         \/ mode' = "down"
         \/ faults' > faults /\ (SessionOf[t] \in stopping \/ mode = "starting")
<1> USE DEF DurabilityIInv
<1>0. history' = history => (Recorded(t) => Recorded(t)')
  BY DEF Recorded
<1>1. CASE UNCHANGED <<history, life, kept, journal>>
  BY <1>0, <1>1, StaysHeld
<1>2. CASE \E u \in Turns : Arrive(u)
  <2>1. PICK u \in Turns : Arrive(u)
    BY <1>2
  <2>2. /\ UNCHANGED <<history, kept, journal>>
        /\ \E to \in {"live", "buffered"} : life' = [life EXCEPT ![u] = to]
    BY <2>1 DEF Arrive, diskVars
  <2>3. CASE t = u
    BY <2>2, <2>3 DEF Held, DurabilityTypeOK
  <2>4. CASE t # u
    BY <1>0, <2>2, <2>4, StaysHeld DEF DurabilityTypeOK
  <2> QED BY <2>3, <2>4
<1>3. CASE \E u \in Turns : TurnEnds(u) \/ CancelledAtLock(u) \/ CloseTurn(u)
  <2>1. PICK u \in Turns : TurnEnds(u) \/ CancelledAtLock(u) \/ CloseTurn(u)
    BY <1>3
  <2>2. /\ UNCHANGED journal
        /\ \/ Record(u) \/ FailToRecord(u)
           \/ history' = history /\ \E kind \in {"stopped", "pending"} : Keep(u, kind)
    BY <2>1 DEF TurnEnds, CancelledAtLock, CloseTurn, FailToRecordRunning, diskVars
  <2> QED BY <2>2, EndHolds
<1>4. CASE \E u \in Turns : CancelSaves(u)
  <2>1. PICK u \in Turns : CancelSaves(u)
    BY <1>4
  <2>2. /\ Save(u) /\ kept' = [kept EXCEPT ![u] = "no"] /\ UNCHANGED <<journal, life>>
    BY <2>1 DEF CancelSaves
  <2>3. Recorded(u)' /\ \A v \in Turns : Recorded(v) => Recorded(v)'
    BY <2>2, SaveRecords
  <2>4. CASE t = u
    BY <2>3, <2>4 DEF Held
  <2>5. CASE t # u
    BY <2>2, <2>3, <2>5, StaysHeld DEF DurabilityTypeOK
  <2> QED BY <2>4, <2>5
<1>5. CASE \/ \E s \in Sessions : RetryBegins(s) \/ StopBegins(s)
           \/ RetryEnds \/ ShutdownBegins \/ FlushBegins \/ Start \/ ReplayEnds
  BY <1>1, <1>5 DEF RetryBegins, StopBegins, RetryEnds, ShutdownBegins, FlushBegins, Start, ReplayEnds,
                    diskVars, memoryVars
<1>6. CASE RetryStep
  <2>1. task.todo # {}
    BY <1>6 DEF RetryStep, Retries
  <2>2. Recorded(t) => Recorded(t)'
    <3>1. CASE \E d \in Due : Save(d)
      BY <2>1, <3>1, DueIs, SaveRecords
    <3> QED BY <1>0, <1>6, <3>1 DEF RetryStep
  <2> QED BY <1>6, <2>2, StaysHeld DEF RetryStep, memoryVars
<1>7. CASE \E u \in Turns : RetryUnlinks(u)
  <2>1. PICK u \in Turns : RetryUnlinks(u) /\ Recorded(u)
    BY <1>7 DEF RetryUnlinks, Saved, Unlinks
  <2>2. /\ UNCHANGED <<history, life>>
        /\ \/ /\ journal' = [journal EXCEPT ![u] = IF u \in identified THEN "no" ELSE @]
              /\ kept' = [kept EXCEPT ![u] = "no"]
           \/ UNCHANGED <<journal, kept>>
    BY <2>1 DEF RetryUnlinks, Unlink
  <2>3. CASE t = u
    BY <2>1, <2>2, <2>3 DEF Held, Recorded
  <2>4. CASE t # u
    BY <1>0, <2>2, <2>4, StaysHeld DEF DurabilityTypeOK
  <2> QED BY <2>3, <2>4
<1>8. CASE \E s \in Sessions : StopTakes(s)
  <2>1. PICK s \in Sessions : StopTakes(s)
    BY <1>8
  <2>2. PICK aside \in SUBSET Live(s) :
          /\ kept' = [u \in Turns |-> IF u \in Live(s) \ aside THEN "stopped" ELSE kept[u]]
          /\ life' = [u \in Turns |-> IF u \in Live(s) \ aside THEN "over"
                                      ELSE IF u \in aside THEN "buffered" ELSE life[u]]
    BY <2>1 DEF StopTakes
  <2>3. UNCHANGED <<history, journal>>
    BY <2>1 DEF StopTakes, diskVars
  <2>4. CASE t \in Live(s) \ aside
    BY <2>2, <2>4 DEF Held
  <2>5. CASE t \in aside
    BY <2>2, <2>5 DEF Held
  <2>6. CASE t \notin Live(s)
    BY <1>0, <2>2, <2>3, <2>6, StaysHeld
  <2> QED BY <2>2, <2>4, <2>5, <2>6
<1>9. CASE \E s \in Sessions : StopLoses(s)
  <2>1. PICK s \in Sessions : StopLoses(s)
    BY <1>9
  <2> DEFINE taken == KeptAs("stopped", s) \cup Live(s)
  <2>2. /\ kept' = [u \in Turns |-> IF u \in taken THEN "no" ELSE kept[u]]
        /\ life' = [u \in Turns |-> IF u \in Live(s) THEN "over" ELSE life[u]]
        /\ UNCHANGED <<history, journal>> /\ faults' = faults + 1 /\ s \in stopping
    BY <2>1 DEF StopLoses, diskVars, Fault
  <2>3. \A u \in taken : SessionOf[u] = s
    BY DEF KeptAs, Live, InSession
  <2>4. CASE t \in taken
    BY <2>2, <2>3, <2>4 DEF DurabilityTypeOK
  <2>5. CASE t \notin taken
    <3>1. life'[t] = life[t] /\ kept'[t] = kept[t]
      BY <2>2, <2>5
    <3> QED BY <1>0, <2>2, <3>1, StaysHeld
  <2> QED BY <2>4, <2>5
<1>10. CASE StopStep
  <2>1. PICK u \in Turns : \/ Save(u) /\ kept' = [kept EXCEPT ![u] = "no"]
                          \/ UNCHANGED <<history, kept>>
    BY <1>10, DueIs DEF StopStep
  <2>2. /\ UNCHANGED <<journal, life>>
        /\ \/ Save(u) /\ kept' = [kept EXCEPT ![u] = "no"]
           \/ UNCHANGED <<history, kept>>
    BY <1>10, <2>1 DEF StopStep
  <2>3. CASE Save(u) /\ kept' = [kept EXCEPT ![u] = "no"]
    <3>1. Recorded(u)' /\ \A v \in Turns : Recorded(v) => Recorded(v)'
      BY <2>3, SaveRecords
    <3>2. CASE t = u
      BY <3>1, <3>2 DEF Held
    <3>3. CASE t # u
      BY <2>2, <2>3, <3>1, <3>3, StaysHeld DEF DurabilityTypeOK
    <3> QED BY <3>2, <3>3
  <2> QED BY <1>1, <2>2, <2>3
<1>11. CASE \E s \in Sessions : StopReturns(s)
  BY <1>11, ReturnsRecord
<1>12. CASE FlushStep
  <2>1. PICK u \in task.todo :
          /\ \/ /\ \/ kept[u] = "stopped" /\ NoFault /\ Save(u) /\ UNCHANGED journal
                   \/ kept[u] = "stopped" /\ Fault /\ Journal(u)
                   \/ kept[u] = "pending" /\ NoFault /\ Journal(u)
                /\ kept' = [kept EXCEPT ![u] = "no"] /\ identified' = identified \ {u}
             \/ Fault /\ UNCHANGED <<diskVars, kept, identified>>
    BY <1>12 DEF FlushStep
  <2>2. u \in Turns /\ kept[u] # "no" /\ life' = life
    BY <1>12 DEF FlushStep, Flushes, DurabilityTypeOK
  <2>3. CASE Save(u) /\ UNCHANGED journal /\ kept' = [kept EXCEPT ![u] = "no"]
    <3>1. Recorded(u)' /\ \A v \in Turns : Recorded(v) => Recorded(v)'
      BY <2>2, <2>3, SaveRecords
    <3>2. CASE t = u
      BY <3>1, <3>2 DEF Held
    <3>3. CASE t # u
      BY <2>2, <2>3, <3>1, <3>3, StaysHeld DEF DurabilityTypeOK
    <3> QED BY <3>2, <3>3
  <2>4. CASE Journal(u) /\ kept' = [kept EXCEPT ![u] = "no"]
    <3>1. journal' = [journal EXCEPT ![u] = kept[u]] /\ history' = history
      BY <2>4 DEF Journal
    <3>2. CASE t = u
      BY <2>2, <3>1, <3>2 DEF Held, DurabilityTypeOK
    <3>3. CASE t # u
      BY <1>0, <2>2, <2>4, <3>1, <3>3, StaysHeld DEF DurabilityTypeOK
    <3> QED BY <3>2, <3>3
  <2>5. CASE UNCHANGED <<history, journal, kept>>
    BY <1>1, <2>2, <2>5
  <2> QED BY <2>1, <2>3, <2>4, <2>5 DEF diskVars
<1>13. CASE Closed \/ Crash
  BY <1>13 DEF Closed, Crash, ProcessExit
<1>14. CASE ReplayStep
  <2>1. PICK u \in Turns : ReplaySaves(u) \/ ReplayUnlinks(u) \/ ReplayKeeps(u) \/ Quarantine(u)
    BY <1>14, DueIs DEF ReplayStep
  <2>2. life' = life /\ mode = "starting"
    BY <1>14 DEF ReplayStep, Replays
  <2>3. CASE ReplaySaves(u)
    <3>1. Save(u) /\ UNCHANGED <<journal, kept>>
      BY <2>3 DEF ReplaySaves
    <3> QED BY <2>2, <3>1, SaveRecords, StaysHeld
  <2>4. CASE ReplayUnlinks(u)
    <3>1. /\ Recorded(u) /\ UNCHANGED <<history, kept>>
          /\ journal' = [journal EXCEPT ![u] = IF u \in identified THEN "no" ELSE @]
      BY <2>1, <2>4 DEF ReplayUnlinks, Unlink, Saved, Unlinks
    <3>2. CASE t = u
      BY <3>1, <3>2 DEF Held, Recorded
    <3>3. CASE t # u
      BY <1>0, <2>2, <3>1, <3>3, StaysHeld DEF DurabilityTypeOK
    <3> QED BY <3>2, <3>3
  <2>5. CASE ReplayKeeps(u)
    <3>1. PICK kind \in {"stopped", "pending"} :
            kept' = [kept EXCEPT ![u] = kind] /\ UNCHANGED <<history, journal>>
      BY <2>5 DEF ReplayKeeps, Retain, diskVars
    <3>2. CASE t = u
      BY <3>1, <3>2 DEF Held, DurabilityTypeOK
    <3>3. CASE t # u
      BY <1>0, <2>2, <3>1, <3>3, StaysHeld DEF DurabilityTypeOK
    <3> QED BY <3>2, <3>3
  <2>6. CASE Quarantine(u)
    BY <2>2, <2>6 DEF Quarantine, Fault, DurabilityTypeOK
  <2> QED BY <2>1, <2>3, <2>4, <2>5, <2>6
<1> QED
  BY <1>1, <1>2, <1>3, <1>4, <1>5, <1>6, <1>7, <1>8, <1>9, <1>10, <1>11, <1>12, <1>13, <1>14
     DEF DurabilityNext, PassStep, durabilityVars, diskVars, memoryVars

\* A retry and a replay record a turn with a number only when it is the oldest
\* they have and none without a number is left, of a session of which nothing
\* else is kept.
LEMMA StepInOrder ==
  ASSUME DurabilityAssumption, DurabilityIInv, [DurabilityNext]_durabilityVars,
         task.pass \in {"retry", "replay"},
         NEW t \in Turns \ unnumbered, ~Recorded(t), Recorded(t)',
         NEW u \in InSession(SessionOf[t]) \ {t}, u < t \/ u \in unnumbered
  PROVE  u \notin task.todo /\ kept[u] = "no"
<1> USE DEF DurabilityIInv
<1>1. history' # history
  BY DEF Recorded
<1>2. task # NoPass
  BY DEF NoPass, Pass
<1>3. RetryStep \/ ReplayStep
  BY <1>1, <1>2 DEF DurabilityNext, PassStep, durabilityVars, diskVars, memoryVars,
       Arrive, TurnEnds, CancelledAtLock, CancelSaves, CloseTurn, RetryBegins, StopBegins, StopTakes,
       StopLoses, RetryEnds, RetryUnlinks, StopStep, FlushStep, ReplayEnds, StopReturns,
       ShutdownBegins, FlushBegins, Closed, Crash, ProcessExit, Start
<1>4. PICK d \in Due : Save(d) /\ task.saved = {} /\ (task.pass = "replay" => ~Blocked(d))
  <2>1. CASE RetryStep
    BY <1>1, <2>1 DEF RetryStep
  <2>2. CASE ReplayStep
    BY <1>1, <2>2 DEF ReplayStep, ReplaySaves, ReplayUnlinks, ReplayKeeps, Quarantine, diskVars
  <2> QED BY <1>3, <2>1, <2>2
<1>5. /\ d \in task.todo /\ d \in Turns
      /\ d \notin unnumbered => \A v \in task.todo : d <= v /\ v \notin unnumbered
  <2>1. task.todo # {}
    BY <1>3 DEF RetryStep, ReplayStep, Retries
  <2> QED BY <1>4, <2>1, DueIs
<1>6. t = d
  <2>1. ~Unlinks(d)
    BY <1>4 DEF Unlinks
  <2>2. Recorded(d) => d \in identified \cap marked
    BY <1>5, <2>1 DEF KeptOnce, Retries, KeptIn, Replays, Files
  <2>3. Adds({d})
    BY <1>4, <1>5, <2>2, SaveAdds
  <2> QED BY <2>3 DEF Adds
<1>7. u \in Nat /\ d \in Nat /\ u \in Turns /\ SessionOf[u] = SessionOf[d]
  BY <1>5, <1>6 DEF InSession, DurabilityAssumption
<1>8. u \notin task.todo
  <2>1. ~(d <= u) \/ u \in unnumbered
    BY <1>6, <1>7
  <2> QED BY <1>5, <1>6, <2>1
<1>9. kept[u] = "no"
  <2>1. CASE task.pass = "retry"
    <3>1. PICK s \in Sessions : task.todo = KeptIn(s)
      BY <2>1 DEF Retries
    <3> QED BY <1>5, <1>7, <1>8, <3>1 DEF KeptIn, InSession
  <2>2. CASE task.pass = "replay"
    BY <1>4, <1>7, <2>2 DEF Replays, Blocked
  <2> QED BY <2>1, <2>2
<1> QED BY <1>8, <1>9

-----------------------------------------------------------------------------
(* The theorems.                                                            *)

LEMMA DurabilityBegins == ASSUME DurabilityAssumption, DurabilityInit PROVE DurabilityIInv
<1> USE DEF DurabilityInit
<1>1. DurabilityTypeOK
  <2>1. faults \in 0..MaxFaults /\ exits \in 0..MaxExits
    BY DEF DurabilityAssumption
  <2>2. history \in [Sessions -> Seq(Turns)]
    OBVIOUS
  <2>3. /\ journal \in [Turns -> Kinds] /\ kept \in [Turns -> Kinds]
        /\ life \in [Turns -> {"unsent", "requeued", "live", "buffered", "over"}]
    BY DEF Kinds
  <2> QED BY <2>1, <2>2, <2>3, PassType DEF DurabilityTypeOK
<1>2. Histories
  BY DEF Histories, RecordedOnce, IsInjective
<1>3. \A t \in Turns : ~Recorded(t)
  BY DEF Recorded, Range, DurabilityAssumption
<1>4. HasOwner /\ MessageLeft /\ Files /\ KeptOnce
  BY <1>3 DEF HasOwner, MessageLeft, Files, KeptOnce
<1>5. Saved /\ Retries /\ Stops /\ Flushes /\ Replays /\ Down
  BY DEF NoPass, Pass, Saved, Unlinks, Retries, Stops, Flushes, Replays, Down
<1> QED BY <1>1, <1>2, <1>4, <1>5 DEF DurabilityIInv

LEMMA DurabilityStays ==
  ASSUME DurabilityAssumption, DurabilityIInv, [DurabilityNext]_durabilityVars
  PROVE  DurabilityIInv'
<1>1. CASE UNCHANGED durabilityVars
  <2>1. UNCHANGED <<history, marked, journal, unnumbered, mode, life, kept, identified, stopping, retry, task,
                   faults, exits>>
    BY <1>1 DEF durabilityVars, diskVars, memoryVars, bounds
  <2> QED BY <2>1 DEF DurabilityIInv, DurabilityTypeOK, Histories, RecordedOnce, HasOwner, MessageLeft, Files,
             Recorded, Saved, Unlinks, KeptOnce, Retries, KeptIn, InSession, Stops, KeptAs, Flushes,
             Replays, Down
<1>2. CASE DurabilityNext
  BY <1>2, ArriveKeeps, TurnKeeps, CancelSavesKeeps, RetryBeginsKeeps, RetryStepKeeps, RetryUnlinksKeeps,
     RetryEndsKeeps, StopBeginsKeeps, StopTakesKeeps, StopLosesKeeps, StopStepKeeps, StopReturnsKeeps,
     ShutdownBeginsKeeps, FlushBeginsKeeps, FlushStepKeeps, ExitKeeps, ReplayBeginsKeeps, ReplayStepKeeps,
     ReplayEndsKeeps
     DEF DurabilityNext, PassStep, Closed, Crash
<1> QED BY <1>1, <1>2

LEMMA DurabilityInvariant == DurabilitySpec => []DurabilityIInv
<1>1. DurabilityInit => DurabilityIInv
  BY DurabilityAssumption, DurabilityBegins
<1>2. DurabilityIInv /\ [DurabilityNext]_durabilityVars => DurabilityIInv'
  BY DurabilityAssumption, DurabilityStays
<1> QED BY <1>1, <1>2, PTL DEF DurabilitySpec

LEMMA DurabilityIsEnough == DurabilityIInv => DurabilityInv
BY DEF DurabilityIInv, DurabilityInv, Histories

\* A turn is in its session's file once, however often it is saved again after a
\* crash, a unsaved unlink or a /stop; one that is kept has a retry task or a
\* /stop that will wake it.
THEOREM TurnsAreRecordedOnce == DurabilitySpec => []DurabilityInv
BY DurabilityIsEnough, DurabilityInvariant, PTL

\* A turn that has come is lost only when the process ends with it in memory,
\* when /stop meets an unreadable session, or when its file goes to quarantine.
THEOREM TurnsAreNotDropped == DurabilitySpec => NothingIsDropped
<1>1. DurabilityIInv /\ [DurabilityNext]_durabilityVars
      => [\A t \in Turns : Held(t) /\ ~Held(t)' =>
            \/ mode' = "down"
            \/ faults' > faults /\ (SessionOf[t] \in stopping \/ mode = "starting")]_durabilityVars
  BY DurabilityAssumption, StepHolds
<1> QED BY <1>1, DurabilityInvariant, PTL DEF DurabilitySpec, NothingIsDropped

\* What is saved later and has its number is saved in the order in which it came,
\* and after what was kept without one.
THEOREM TurnsAreSavedInOrder == DurabilitySpec => OldestFirst
<1>1. DurabilityIInv /\ [DurabilityNext]_durabilityVars
      => [task.pass \in {"retry", "replay"} =>
            \A t \in Turns \ unnumbered : ~Recorded(t) /\ Recorded(t)' =>
              \A u \in InSession(SessionOf[t]) \ {t} : u < t \/ u \in unnumbered =>
                u \notin task.todo /\ kept[u] = "no"]_durabilityVars
  BY DurabilityAssumption, StepInOrder
<1> QED BY <1>1, DurabilityInvariant, PTL DEF DurabilitySpec, OldestFirst

-----------------------------------------------------------------------------
(* The process.                                                             *)

LEMMA ProcessInvariant == MCSpec => [](IInv /\ DurabilityIInv)
<1>1. MCInit => IInv /\ DurabilityIInv
  <2> SUFFICES ASSUME MCInit PROVE IInv /\ DurabilityIInv
    OBVIOUS
  <2>1. DurabilityIInv
    BY DurabilityAssumption, DurabilityBegins DEF MCInit
  <2>2. CASE Init
    BY <2>1, <2>2, InitIInv
  <2>3. CASE /\ main = "gone" /\ started = "yes" /\ step = Steps /\ tasks = {}
             /\ stop = "done" /\ walker = "none" /\ at = 0 /\ closers = {} /\ cleanups = {}
             /\ closed = Components /\ failed = {} /\ detached = 0 /\ owed = FALSE
             /\ restart = "none" /\ tried = Components /\ slow = {} /\ cut = FALSE
    <3>1. TypeOK
      <4>1. Steps \in 0..Steps /\ 0 \in 0..Last
        BY RuntimeAssumption DEF RuntimeAssumption
      <4> QED BY <2>3, <4>1 DEF TypeOK
    <3>2. BeforeStop /\ Walks /\ Passed /\ Reports /\ Exceeded /\ Cut /\ Cancelled
      BY <2>3 DEF BeforeStop, Walks, Passed, Reports, Exceeded, Cut, Cancelled
    <3>3. Ends /\ AtRest
      BY <2>3 DEF Ends, AtRest, RestartIsClean
    <3> QED BY <2>1, <3>1, <3>2, <3>3 DEF IInv
  <2> QED BY <2>1, <2>2, <2>3 DEF MCInit
<1>2. IInv /\ DurabilityIInv /\ [ProcessStep \/ TurnsStep]_allVars => (IInv /\ DurabilityIInv)'
  <2> SUFFICES ASSUME IInv, DurabilityIInv, [ProcessStep \/ TurnsStep]_allVars
               PROVE  IInv' /\ DurabilityIInv'
    OBVIOUS
  <2>1. [Next]_vars /\ [DurabilityNext]_durabilityVars
    BY DEF ProcessStep, TurnsStep, allVars
  <2> QED BY <2>1, RuntimeAssumption, DurabilityAssumption, NextKeeps, DurabilityStays
<1> QED BY <1>1, <1>2, PTL DEF MCSpec

\* In a process that starts, stops and is restarted, and in one whose turns
\* cannot always be saved, closing is sequential and complete, a turn that is
\* kept is recorded once, and somebody will save it.
THEOREM ProcessIsCorrect == MCSpec => []ProcessInv
<1>1. IInv /\ DurabilityIInv => ProcessInv
  BY InvariantIsEnough, DurabilityIsEnough DEF ProcessInv
<1> QED BY <1>1, ProcessInvariant, PTL

=============================================================================
