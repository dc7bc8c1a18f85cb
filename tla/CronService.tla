---------------------------- MODULE CronService ----------------------------
(***************************************************************************)
(* The scheduler of cron/service.py: jobs in memory and in jobs.json, one   *)
(* timer task, one batch of due jobs at a time in a detached task, a lock   *)
(* per job, runs by hand, close and restart.                                *)
(*                                                                         *)
(* Code between two awaits is one action; the only long await is on_job(),  *)
(* the agent turn of a job.  Times are abstract ticks.  A job's identifier  *)
(* is used once (uuid4).  jobs.json may be edited by hand while the service *)
(* runs: changed is "the file's mtime differs from _last_mtime".  A reload  *)
(* replaces the job objects, so an object captured earlier is detached.     *)
(*                                                                         *)
(* jobs.json may be unreadable (unread): the store is empty then, and the   *)
(* next save makes the file so.  A save may raise (fails): what the         *)
(* operation did stays in memory and the timer is not armed, except by the  *)
(* batch, which arms it whatever happens.                                   *)
(***************************************************************************)
EXTENDS Integers, Sequences, FiniteSets, FiniteSetsExt, SequencesExt

CONSTANTS
  Jobs,        \* identifiers of jobs
  Kinds,       \* Jobs -> kinds of schedule it may be added with
  At,          \* Jobs -> due time of an "at" or "once" job
  Period,      \* Jobs -> interval of an "every" or "cron" job
  MaxTime,     \* bound: last tick of the clock
  Horizon,     \* bound: a job due after it is not run by hand (each run adds an interval)
  MaxMishaps,  \* bound: edits of jobs.json by hand and saves of it that fail, taken together
  MaxStops     \* bound: exits of the process

\* Kinds of schedule; "once" is "at" with delete_after_run.
Kind     == {"at", "once", "every", "cron"}
OneShot  == {"at", "once"}

CronAssumption ==
  /\ IsFiniteSet(Jobs) /\ "idle" \notin Jobs
  /\ \A j \in Jobs :
       /\ Kinds[j] \subseteq Kind
       /\ At[j] \in Nat \ {0}
       /\ Period[j] \in Nat \ {0}
  /\ MaxTime \in Nat \ {0} /\ Horizon \in Nat
  /\ MaxMishaps \in Nat /\ MaxStops \in Nat
ASSUME CronAssumption

VARIABLES
  now,         \* the clock
  phase,       \* "down", "up" (_running), "closing" (close() waits), "closed"
  file,        \* jobs.json
  mem,         \* _store
  changed,     \* jobs.json was modified behind the service's back
  timer,       \* when the sleeping tick wakes, or None
  ticked,      \* a tick has created its _on_timer task, which has not begun
  batch,       \* the batch under way: its due jobs not yet tried, or NoBatch
  stale,       \* the batch holds job objects of a replaced store
  runs,        \* executions under way: who holds the lock of which job
  detached,    \* running jobs whose object is not in the store any more
  fresh,       \* history: identifiers not used yet
  over,        \* history: one-shots that ran, jobs that a user removed, disabled or
               \* failed to add or enable, jobs of a file that could not be read
  consumed,    \* history: latest due time whose run ended and was not forgotten by a
               \* reload, in this process
  anchor,      \* history: the phase of the grid on which add or enable put an "every" job
  unsaved,     \* history: the last save raised before it replaced the file
  unarmed,     \* history: jobs changed in memory since the timer was armed
  mishaps, stops    \* counters of the bounds

store   == <<file, mem, changed, unsaved>>
task    == <<timer, ticked, batch, stale, runs, detached>>
bounds  == <<mishaps, stops>>
history == <<fresh, over, consumed, anchor>>
vars    == <<now, phase, store, task, unarmed, history, bounds>>

None    == 0                              \* next_run_at_ms is None
NoBatch == <<"idle">>                     \* _timer_running is False
Absent  == [kind |-> "none", on |-> FALSE, next |-> -1]    \* no such job in the store
Empty   == [j \in Jobs |-> Absent]       \* a new CronStore()

Job == [kind : Kind, on : BOOLEAN, next : Nat]

TypeOK ==
  /\ now \in 1..MaxTime
  /\ phase \in {"down", "up", "closing", "closed"}
  /\ file \in [Jobs -> Job \cup {Absent}]
  /\ mem \in [Jobs -> Job \cup {Absent}]
  /\ changed \in BOOLEAN
  /\ timer \in Nat
  /\ ticked \in BOOLEAN
  /\ batch = NoBatch \/ batch \in Seq(Jobs)
  /\ stale \in BOOLEAN
  /\ runs \in SUBSET [job : Jobs, by : {"timer", "hand"}]
  /\ detached \in SUBSET Jobs
  /\ fresh \in SUBSET Jobs
  /\ over \in SUBSET Jobs
  /\ consumed \in [Jobs -> Nat]
  /\ anchor \in [Jobs -> Nat]
  /\ unsaved \in BOOLEAN
  /\ unarmed \in SUBSET Jobs
  /\ mishaps \in 0..MaxMishaps
  /\ stops \in 0..MaxStops

Init ==
  /\ now = 1
  /\ phase = "down"
  /\ file = Empty
  /\ mem = Empty
  /\ changed = FALSE
  /\ timer = None
  /\ ticked = FALSE
  /\ batch = NoBatch
  /\ stale = FALSE
  /\ runs = {}
  /\ detached = {}
  /\ fresh = Jobs
  /\ over = {}
  /\ consumed = [j \in Jobs |-> None]
  /\ anchor = [j \in Jobs |-> None]
  /\ unsaved = FALSE
  /\ unarmed = {}
  /\ mishaps = 0
  /\ stops = 0

-----------------------------------------------------------------------------
(* Schedules. *)

\* The first run of a job scheduled now; a one-shot in the past stays due.
FirstRun(j, kind) ==
  CASE kind \in OneShot -> At[j]
    [] kind = "every" -> now + Period[j]
    [] kind = "cron"  -> (now \div Period[j] + 1) * Period[j]

BadCatchUp(j, kind, due) ==              \* missed intervals are not skipped
  IF kind = "every" /\ due # None THEN due + Period[j] * ((now - due) \div Period[j])
  ELSE FirstRun(j, kind)

\* The run after one that was due at "due": intervals missed meanwhile are
\* skipped and the cadence is kept.
NextRepeat(j, kind, due) ==
  IF kind = "every"
  THEN LET base   == IF due = None THEN now ELSE due
           missed == IF now > base THEN (now - base) \div Period[j] ELSE 0
       IN  base + (missed + 1) * Period[j]
  ELSE FirstRun(j, kind)

Phase(j, kind, due) == IF kind = "every" THEN due % Period[j] ELSE 0

Scheduled(m) == {j \in Jobs : m[j] # Absent /\ m[j].on /\ m[j].next # None}
DueJobs(m) == {j \in Scheduled(m) : m[j].next <= now}
NextWake(m) == IF Scheduled(m) = {} THEN None ELSE Min({m[j].next : j \in Scheduled(m)})

-----------------------------------------------------------------------------
(* Loading, saving, arming. *)

\* Something that is bounded happens, or not.
Mishap(happens) ==
  /\ happens => mishaps < MaxMishaps
  /\ mishaps' = IF happens THEN mishaps + 1 ELSE mishaps

\* _load_store(): the store every operation starts from.  The objects of a
\* replaced store are detached.  The time of the file is noted by a save only:
\* until then every operation reads it again.
Loaded(unread) ==
  CASE unread              -> Empty
    [] ~unread /\ changed  -> file
    [] ~unread /\ ~changed -> mem
BatchIsStale == (stale \/ changed) /\ batch # NoBatch
DetachedNow == IF changed THEN {r.job : r \in runs} ELSE detached

\* What the history makes of a store that replaces the memory: no job of a file
\* that could not be read is promised any more, and a due time is not consumed
\* where the store does not know of it.
Owed(unread) == IF unread THEN over \cup {j \in Jobs : file[j] # Absent} ELSE over
Recalled(m) == [j \in Jobs |-> IF m[j] = mem[j] THEN consumed[j] ELSE None]
Moved(m) == IF phase = "up" THEN unarmed \cup {j \in Jobs : m[j] # mem[j]} ELSE {}

\* An operation that reads the store and saves nothing.
Reload(unread) ==
  /\ unread => changed
  /\ mem' = Loaded(unread)
  /\ stale' = BatchIsStale
  /\ detached' = DetachedNow
  /\ over' = Owed(unread)
  /\ consumed' = Recalled(mem')
  /\ unarmed' = Moved(mem')
  /\ UNCHANGED <<file, changed, unsaved, fresh, anchor>>

\* _save_store() of the store m, which is the one in memory by now.  It raises
\* before it has replaced the file, or after, when it notes the file's time.
Save(m, fails) ==
  /\ mem' = m
  /\ \/ ~fails /\ file' = m /\ changed' = FALSE /\ unsaved' = FALSE
     \/ fails /\ file' = file /\ changed' = changed /\ unsaved' = TRUE
     \/ fails /\ file' = m /\ changed' = TRUE /\ unsaved' = FALSE

BadArmTimer(m) ==            \* a sleeping tick is kept
  timer' = IF phase = "up" /\ timer = None THEN NextWake(m) ELSE timer

BadArmDuringBatch(m) ==      \* not armed while a batch is under way
  timer' = IF phase = "up" /\ batch = NoBatch THEN NextWake(m) ELSE timer

\* _arm_timer(): a sleeping tick is replaced, a detached batch is not touched.
ArmTimer(m) == timer' = IF phase = "up" THEN NextWake(m) ELSE timer

\* A user's operation saves and arms the timer, or raises in between.
SaveAndArm(m, fails) ==
  /\ Save(m, fails)
  /\ IF fails THEN timer' = timer /\ unarmed' = Moved(m)
     ELSE ArmTimer(m) /\ unarmed' = {}

\* _recompute_next_runs()
Recomputed(f) ==
  [j \in Jobs |->
     IF f[j] = Absent \/ ~f[j].on \/ (f[j].kind = "every" /\ f[j].next # None) THEN f[j]
     ELSE [f[j] EXCEPT !.next = FirstRun(j, f[j].kind)]]

\* start() reads the file, schedules its jobs anew and writes it.
Rewrite(unread) ==
  LET f == IF unread THEN Empty ELSE file
      m == Recomputed(f)
  IN  /\ file' = m
      /\ over' = Owed(unread)
      /\ anchor' = [j \in Jobs |-> IF f[j] # m[j] THEN Phase(j, m[j].kind, m[j].next) ELSE anchor[j]]

Start ==
  \E unread \in BOOLEAN :
    /\ phase = "down"
    /\ phase' = "up"
    /\ Rewrite(unread)
    /\ mem' = file'
    /\ timer' = NextWake(file')
    /\ unsaved' = FALSE
    /\ unarmed' = {}
    /\ changed' = FALSE
    /\ UNCHANGED <<now, ticked, batch, stale, runs, detached, fresh, consumed, bounds>>

\* The save of start() raises: the supervisor gives up.  (A save that raises
\* before it replaces the file leaves everything as it was.)
StartFails ==
  \E unread \in BOOLEAN :
    /\ phase = "down"
    /\ Mishap(TRUE)
    /\ Rewrite(unread)
    /\ UNCHANGED <<now, phase, mem, changed, unsaved, task, unarmed, fresh, consumed, stops>>

-----------------------------------------------------------------------------
(* The timer and its batch. *)

Fire ==
  /\ timer # None /\ timer <= now /\ ~ticked
  /\ timer' = None
  /\ ticked' = TRUE
  /\ UNCHANGED <<now, phase, store, batch, stale, runs, detached, unarmed, history, bounds>>

IsLocked(j, held) == \E r \in held : r.job = j

\* The jobs of a queue from the first whose lock is free.
FromFree(queue, held) ==
  LET free == {i \in DOMAIN queue : ~IsLocked(queue[i], held)}
  IN  IF free = {} THEN <<>> ELSE SubSeq(queue, Min(free), Len(queue))

\* The batch goes on with its queue: it runs the first job whose lock is
\* free, or saves, ends and arms the timer again, even if the save raises.  A
\* job is not looked at again: it may have been removed, disabled or run since
\* the batch began.
GoOn(queue, m, held, isStale, isDetached, fails) ==
  IF queue = <<>>
  THEN /\ Save(m, fails)
       /\ batch' = NoBatch
       /\ stale' = FALSE
       /\ ArmTimer(m)
       /\ unarmed' = {}
       /\ runs' = held
       /\ detached' = isDetached
  ELSE /\ ~fails
       /\ mem' = m
       /\ batch' = Tail(queue)
       /\ stale' = isStale
       /\ runs' = held \cup {[job |-> Head(queue), by |-> "timer"]}
       /\ detached' = IF isStale THEN isDetached \cup {Head(queue)} ELSE isDetached
       /\ UNCHANGED <<file, changed, unsaved, timer, unarmed>>

\* _on_timer() begins a batch.
OnTimer ==
  /\ ticked /\ phase = "up" /\ batch = NoBatch
  /\ ticked' = FALSE
  /\ UNCHANGED <<now, phase, fresh, anchor, stops>>
  /\ \E unread, fails \in BOOLEAN :
       /\ unread => changed
       /\ Mishap(fails)
       /\ over' = Owed(unread)
       /\ consumed' = Recalled(Loaded(unread))
       /\ \E due \in SetToSeqs(DueJobs(Loaded(unread))) :
            GoOn(FromFree(due, runs), Loaded(unread), runs, FALSE, DetachedNow, fails)

\* A tick that meets a batch under way leaves at once: the batch arms the timer
\* when it ends.
TickMeetsBatch ==
  /\ ticked /\ phase = "up" /\ batch # NoBatch
  /\ ticked' = FALSE
  /\ UNCHANGED <<now, phase, store, timer, batch, stale, runs, detached, unarmed, history, bounds>>

\* What the end of job j's execution makes of the store m: a job deleted
\* after its run goes by identifier, everything else is written into the job's
\* object.
Executed(j, m, isDetached) ==
  CASE m[j].kind \in {"none", "once"} -> [m EXCEPT ![j] = Absent]
    [] m[j].kind \in {"at", "every", "cron"} /\ isDetached -> m
    [] m[j].kind = "at" /\ ~isDetached -> [m EXCEPT ![j].on = FALSE, ![j].next = None]
    [] m[j].kind \in {"every", "cron"} /\ ~isDetached ->
         [m EXCEPT ![j].next = NextRepeat(j, m[j].kind, m[j].next)]

Consume(j) ==
  /\ consumed' = IF mem[j] = Absent \/ j \in detached \/ mem[j].next > now THEN consumed
                 ELSE [consumed EXCEPT ![j] = mem[j].next]
  /\ over' = IF mem[j].kind \in OneShot THEN over \cup {j} ELSE over
  /\ UNCHANGED <<fresh, anchor>>

\* on_job() of a timed run returns or raises, and the batch goes on.
TimedRunEnds(j) ==
  LET r == [job |-> j, by |-> "timer"]
      held == runs \ {r}
      queue == FromFree(batch, held)
  IN /\ r \in runs
     /\ phase = "up"
     /\ UNCHANGED <<now, phase, ticked, stops>>
     /\ Consume(j)
     /\ \E fails \in BOOLEAN :
          /\ Mishap(fails)
          /\ GoOn(queue, Executed(j, mem, j \in detached), held, stale, detached \ {j}, fails)

-----------------------------------------------------------------------------
(* The operations of users and of the agent's tool.  One that finds jobs.json *)
(* unreadable knows no job: it does what List does and says so.             *)

\* The agent can still serve a command while the scheduler closes.
Alive == phase # "down"

AddJob(j, kind) ==
  \E unread, fails \in BOOLEAN :
    /\ Alive
    /\ j \in fresh
    /\ unread => changed
    /\ Mishap(fails)
    /\ SaveAndArm([Loaded(unread) EXCEPT ![j] = [kind |-> kind, on |-> TRUE, next |-> FirstRun(j, kind)]], fails)
    /\ stale' = BatchIsStale
    /\ detached' = DetachedNow
    /\ fresh' = fresh \ {j}
    /\ over' = IF fails THEN Owed(unread) \cup {j} ELSE Owed(unread)
    /\ consumed' = Recalled(Loaded(unread))
    /\ anchor' = [anchor EXCEPT ![j] = Phase(j, kind, FirstRun(j, kind))]
    /\ UNCHANGED <<now, phase, ticked, batch, runs, stops>>

RemoveJob(j) ==
  \E fails \in BOOLEAN :
    /\ Alive
    /\ Loaded(FALSE)[j] # Absent
    /\ Mishap(fails)
    /\ SaveAndArm([Loaded(FALSE) EXCEPT ![j] = Absent], fails)
    /\ stale' = BatchIsStale
    /\ detached' = DetachedNow
    /\ over' = over \cup {j}
    /\ consumed' = Recalled(Loaded(FALSE))
    /\ UNCHANGED <<now, phase, ticked, batch, runs, fresh, anchor, stops>>

\* enable_job(): enabling computes a new due time, disabling forgets it.
Enable(j, on) ==
  \E fails \in BOOLEAN :
    /\ Alive
    /\ Loaded(FALSE)[j] # Absent
    /\ Mishap(fails)
    /\ LET kind == Loaded(FALSE)[j].kind
           next == IF on THEN FirstRun(j, kind) ELSE None
       IN /\ SaveAndArm([Loaded(FALSE) EXCEPT ![j].on = on, ![j].next = next], fails)
          /\ anchor' = [anchor EXCEPT ![j] = Phase(j, kind, next)]
    /\ stale' = BatchIsStale
    /\ detached' = DetachedNow
    /\ over' = IF on /\ ~fails THEN over \ {j} ELSE over \cup {j}
    /\ consumed' = [Recalled(Loaded(FALSE)) EXCEPT ![j] = None]
    /\ UNCHANGED <<now, phase, ticked, batch, runs, fresh, stops>>

\* run_job(force=True), as /cron run calls it.  close() forgets the locks: runs
\* that begin after it are left out.
RunByHand(j) ==
  /\ phase \in {"up", "closing"}
  /\ Loaded(FALSE)[j] # Absent
  /\ ~IsLocked(j, runs)
  /\ Loaded(FALSE)[j].next <= Horizon
  /\ Reload(FALSE)
  /\ runs' = runs \cup {[job |-> j, by |-> "hand"]}
  /\ UNCHANGED <<now, phase, timer, ticked, batch, bounds>>

HandRunEnds(j) ==
  LET r == [job |-> j, by |-> "hand"]
  IN \E fails \in BOOLEAN :
       /\ r \in runs
       /\ runs' = runs \ {r}
       /\ detached' = detached \ {j}
       /\ Mishap(fails)
       /\ SaveAndArm(Executed(j, mem, j \in detached), fails)
       /\ Consume(j)
       /\ UNCHANGED <<now, phase, ticked, batch, stale, stops>>

\* The command that runs the job is cancelled: the lock is all that changes.
HandRunCancelled(j) ==
  LET r == [job |-> j, by |-> "hand"]
  IN /\ r \in runs
     /\ runs' = runs \ {r}
     /\ detached' = detached \ {j}
     /\ UNCHANGED <<now, phase, store, timer, ticked, batch, stale, unarmed, history, bounds>>

\* list_jobs() and status() load the store and change nothing else.
List ==
  \E unread \in BOOLEAN :
    /\ Alive /\ changed
    /\ Reload(unread)
    /\ UNCHANGED <<now, phase, timer, ticked, batch, runs, bounds>>

-----------------------------------------------------------------------------
(* Close, exit, the clock, and the person who edits jobs.json. *)

\* close(): stop() and the cancellation of the tick and of the batch.
Close ==
  /\ phase = "up"
  /\ phase' = IF batch = NoBatch /\ ~ticked THEN "closed" ELSE "closing"
  /\ timer' = None
  /\ unarmed' = {}
  /\ UNCHANGED <<now, store, ticked, batch, stale, runs, detached, history, bounds>>

\* The cancelled batch ends: its job keeps its due time and nothing is saved.
BatchCancelled ==
  /\ phase = "closing"
  /\ phase' = "closed"
  /\ ticked' = FALSE
  /\ batch' = NoBatch
  /\ stale' = FALSE
  /\ runs' = {r \in runs : r.by = "hand"}
  /\ detached' = detached \cap {r.job : r \in {q \in runs : q.by = "hand"}}
  /\ UNCHANGED <<now, store, timer, unarmed, history, bounds>>

\* The process ends, orderly or not.
Exit ==
  /\ phase # "down"
  /\ stops < MaxStops
  /\ stops' = stops + 1
  /\ phase' = "down"
  /\ mem' = Empty
  /\ changed' = FALSE
  /\ unsaved' = FALSE
  /\ unarmed' = {}
  /\ timer' = None
  /\ ticked' = FALSE
  /\ batch' = NoBatch
  /\ stale' = FALSE
  /\ runs' = {}
  /\ detached' = {}
  /\ consumed' = [j \in Jobs |-> None]
  /\ UNCHANGED <<now, file, fresh, over, anchor, mishaps>>

Tick ==
  /\ now < MaxTime
  /\ now' = now + 1
  /\ UNCHANGED <<phase, store, task, unarmed, history, bounds>>

\* A person switches a job on or off in jobs.json.
Edit(j) ==
  /\ Alive
  /\ file[j] # Absent
  /\ Mishap(TRUE)
  /\ file' = [file EXCEPT ![j].on = ~@]
  /\ changed' = TRUE
  /\ over' = over \cup {j}
  /\ UNCHANGED <<now, phase, mem, unsaved, task, unarmed, fresh, consumed, anchor, stops>>

Next ==
  \/ Start \/ StartFails \/ Fire \/ OnTimer \/ TickMeetsBatch \/ List \/ Close \/ BatchCancelled \/ Exit \/ Tick
  \/ \E j \in Jobs :
       \/ TimedRunEnds(j) \/ HandRunEnds(j) \/ HandRunCancelled(j)
       \/ RemoveJob(j) \/ RunByHand(j) \/ Edit(j)
       \/ \E kind \in Kinds[j] : AddJob(j, kind)
       \/ \E on \in BOOLEAN : Enable(j, on)

\* Tasks that are ready run; the turn of a job ends at some time (the batch has one
\* at a time).
Fairness ==
  /\ WF_vars(Fire)
  /\ WF_vars(OnTimer \/ TickMeetsBatch)
  /\ WF_vars(\E j \in Jobs : TimedRunEnds(j))

Spec == Init /\ [][Next]_vars
FairSpec == Spec /\ Fairness

-----------------------------------------------------------------------------
(* Properties. *)

\* While the scheduler runs, something will look at each job in time: a
\* sleeping tick that wakes for it, a tick about to begin its batch, or a batch
\* that arms the timer when it ends.  Additions, removals, runs by hand and late
\* ticks all replace the timer while a batch may be under way.  Only a job that
\* an operation changed and did not arm the timer for (its save raised, or it
\* only read a new jobs.json) waits for the next one that does.
AlarmIsSet ==
  phase = "up" => \A j \in Scheduled(mem) \ unarmed :
    \/ batch # NoBatch
    \/ ticked
    \/ timer # None /\ timer <= mem[j].next

\* Outside a batch, and unless the last save raised or the file was modified
\* behind the service's back, jobs.json holds what the scheduler has in memory:
\* an exit repeats no run but those of the batch under way.
FileFollows ==
  phase = "up" /\ batch = NoBatch /\ ~unsaved /\ ~changed => file = mem

\* A repeating job that nobody took away stays on the grid it was given when it
\* was added or enabled, over slow runs, runs by hand, missed intervals, failing
\* saves, reloads and restarts.
CadenceKept ==
  \A j \in Scheduled(file) \ over :
    Phase(j, file[j].kind, file[j].next) = anchor[j]

\* A due time whose run has ended is not scheduled again in this process, unless
\* a reload of jobs.json forgets the run.
ConsumedDuesAreOver ==
  \A j \in Scheduled(mem) : mem[j].next > consumed[j]

\* A job that was acknowledged stays in jobs.json, enabled, a one-shot with
\* its time, until it has run (a one-shot), a user has removed or disabled it, or
\* jobs.json could not be read: whatever saves fail, and whatever exits, restarts
\* and edits of other jobs come in between.
JobsAreKept ==
  \A j \in Jobs \ (fresh \cup over) :
    /\ file[j] # Absent /\ file[j].on
    /\ file[j].kind \in OneShot => file[j].next = At[j]

Waits(j) == phase = "up" /\ j \in DueJobs(mem) \ unarmed /\ ~IsLocked(j, runs)

\* A job that is due does not wait for ever while the scheduler runs: its
\* execution begins, or a user (or a jobs.json that cannot be read) takes it away,
\* or it is changed by an operation that does not arm the timer.  (A user who runs
\* the job by hand and cancels the run each time a tick finds it locked keeps it
\* due.)
DueJobsRun == \A j \in Jobs : []<>~Waits(j)

\* Timer, memory and file agree whatever meets a batch under way.
CronInv == TypeOK /\ AlarmIsSet /\ FileFollows

\* No job is lost, no due time lost, moved or used twice.
DuesAreKept == CadenceKept /\ ConsumedDuesAreOver /\ JobsAreKept

=============================================================================
