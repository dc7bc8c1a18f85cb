--------------------------- MODULE TurnDurability ---------------------------
(***************************************************************************)
(* nanocat/agent/loop.py: what becomes of a turn that could not be saved.   *)
(*                                                                         *)
(* A turn whose history cannot be saved is kept in memory, in               *)
(* _stopped_turns when its session was read and in _pending_durability      *)
(* when it was not.  A retry task saves what is kept, by order key; /stop   *)
(* and an exact cancellation save what they find; the shutdown tries once   *)
(* more and then writes a recovery file for each, which the next start      *)
(* replays.  A recovery file is removed after the session is saved: the     *)
(* session's metadata, written in the same save, remembers its identifier.  *)
(*                                                                         *)
(* The order key is the number the message got on arrival, but a turn that  *)
(* was interrupted or aborted while it ran is kept with the default key     *)
(* (0, 0.0), and so comes before every turn with a number (loop.py:119,     *)
(* 5264-5272, 5308-5316).                                                  *)
(*                                                                         *)
(* A pass of the retry task, a replay or a flush has no await, so only an   *)
(* exit of the process comes between its steps: "task" is the pass.  Any    *)
(* read or write of a file may fail, MaxFaults times.  Saving one session   *)
(* file is atomic (SessionStore).                                           *)
(***************************************************************************)
EXTENDS Ordering, Functions

CONSTANTS
  Turns,        \* numbered in the order in which they arrive
  Sessions,
  SessionOf,    \* [Turns -> Sessions]
  MaxFaults,    \* bound: failing reads and writes
  MaxExits      \* bound: ends of the process

ASSUME DurabilityAssumption ==
  /\ Turns \subseteq Nat /\ IsFiniteSet(Turns)
  /\ SessionOf \in [Turns -> Sessions]
  /\ MaxFaults \in Nat /\ MaxExits \in Nat

VARIABLES
  history,    \* the turns of each session's file
  marked,     \* _stopped_recovery_ids of the sessions' files
  journal,    \* recovery files, by kind
  mode,       \* the process
  life,       \* where the turn's message is in memory
  kept,       \* _stopped_turns and _pending_durability
  identified, \* kept turns that have the identifier of a recovery file
  unnumbered, \* turns kept, in memory or a file, with the order key (0, 0.0)
  stopping,   \* _stop_requested
  retry,      \* the retry task lives
  task,       \* the pass that runs
  faults, exits

diskVars == <<history, marked, journal>>
memoryVars == <<life, kept, identified, stopping, retry>>
bounds == <<faults, exits>>
durabilityVars == <<diskVars, unnumbered, mode, memoryVars, task, bounds>>

Kinds == {"no", "stopped", "pending"}
Passes == {"none", "retry", "stop", "flush", "replay"}

DurabilityTypeOK ==
  /\ history \in [Sessions -> Seq(Turns)]
  /\ marked \subseteq Turns /\ identified \subseteq Turns /\ unnumbered \subseteq Turns
  /\ journal \in [Turns -> Kinds] /\ kept \in [Turns -> Kinds]
  /\ mode \in {"starting", "up", "closing", "down"}
  /\ life \in [Turns -> {"unsent", "requeued", "live", "buffered", "over"}]
  /\ stopping \subseteq Sessions /\ retry \in BOOLEAN
  /\ task \in [pass : Passes, todo : SUBSET Turns, saved : SUBSET Turns, at : SUBSET Sessions]
  /\ faults \in 0..MaxFaults /\ exits \in 0..MaxExits

\* "saved": the turn that is saved and not yet unlinked; "at": the session of a
\* /stop, the sessions that a replay has blocked.
Pass(name, todo, at) == [pass |-> name, todo |-> todo, saved |-> {}, at |-> at]
NoPass == Pass("none", {}, {})

DurabilityInit ==
  /\ history = [s \in Sessions |-> <<>>] /\ marked = {}
  /\ journal = [t \in Turns |-> "no"]
  /\ mode = "up"
  /\ life = [t \in Turns |-> "unsent"]
  /\ kept = [t \in Turns |-> "no"] /\ identified = {} /\ unnumbered = {}
  /\ stopping = {} /\ retry = FALSE /\ task = NoPass
  /\ faults = 0 /\ exits = 0

-----------------------------------------------------------------------------
(* Files.                                                                  *)

Fault == faults < MaxFaults /\ faults' = faults + 1 /\ UNCHANGED exits
NoFault == UNCHANGED bounds

InSession(s) == {t \in Turns : SessionOf[t] = s}
KeptAs(kind, s) == {t \in InSession(s) : kept[t] = kind}
KeptIn(s) == {t \in InSession(s) : kept[t] # "no"}
Oldest(S) == CHOOSE t \in S : \A u \in S : t <= u

\* The turn's entries and the identifier of its recovery file are in one save.
BadMarks(t) == marked
Marks(t) == IF t \in identified THEN marked \cup {t} ELSE marked

\* _persist_stopped_turn() succeeds; a marked turn has been saved before.
Save(t) ==
  IF t \in identified \cap marked THEN UNCHANGED <<history, marked>>
  ELSE /\ history' = [history EXCEPT ![SessionOf[t]] = Append(@, t)]
       /\ marked' = Marks(t)

Unlink(t) == journal' = [journal EXCEPT ![t] = IF t \in identified THEN "no" ELSE @]

-----------------------------------------------------------------------------
(* Turns.                                                                  *)

Live(s) == {t \in InSession(s) : life[t] = "live"}
Woken(s) == retry \/ (mode = "up" /\ s \notin stopping)

\* The turn leaves its message and is kept.
Keep(t, kind) ==
  /\ kept' = [kept EXCEPT ![t] = kind]
  /\ life' = [life EXCEPT ![t] = "over"]
  /\ retry' = Woken(SessionOf[t])

\* run() takes a message: during /stop and while earlier turns of its session
\* are kept it is put aside.
Arrive(t) ==
  LET s == SessionOf[t] IN
  /\ mode = "up" /\ task = NoPass
  /\ \/ life[t] = "unsent" /\ \A u \in Turns : u < t => life[u] # "unsent"
     \/ life[t] = "requeued"
  /\ IF s \in stopping \/ KeptIn(s) # {}
     THEN life' = [life EXCEPT ![t] = "buffered"] /\ retry' = (retry \/ s \notin stopping)
     ELSE life' = [life EXCEPT ![t] = "live"] /\ UNCHANGED retry
  /\ UNCHANGED <<diskVars, mode, kept, identified, stopping, task, bounds, unnumbered>>

\* A turn ends under the session lock and is recorded, or is kept: its session
\* cannot be saved, or not even be read.
Record(t) ==
  /\ history' = [history EXCEPT ![SessionOf[t]] = Append(@, t)]
  /\ life' = [life EXCEPT ![t] = "over"]
  /\ NoFault /\ UNCHANGED <<kept, retry, unnumbered>>
FailToRecord(t) ==
  /\ Fault /\ \E kind \in {"stopped", "pending"} : Keep(t, kind)
  /\ UNCHANGED <<history, unnumbered>>
\* One that was interrupted or aborted while it ran is kept without its number.
FailToRecordRunning(t) ==
  /\ Fault /\ Keep(t, "stopped")
  /\ unnumbered' = unnumbered \cup {t}
  /\ UNCHANGED history

TurnEnds(t) ==
  /\ mode \in {"up", "closing"} /\ task = NoPass
  /\ life[t] = "live" /\ t = Oldest(Live(SessionOf[t]))
  /\ Record(t) \/ FailToRecord(t) \/ FailToRecordRunning(t)
  /\ UNCHANGED <<marked, journal, mode, identified, stopping, task>>

\* A turn is cancelled, and cancelled again while it waits for the lock to
\* record it.
CancelledAtLock(t) ==
  /\ mode \in {"up", "closing"} /\ task = NoPass
  /\ life[t] = "live" /\ t # Oldest(Live(SessionOf[t]))
  /\ (NoFault /\ Keep(t, "stopped")) \/ (Fault /\ Keep(t, "pending"))
  /\ UNCHANGED <<diskVars, mode, identified, stopping, task, unnumbered>>

\* Exact cancellation saves the record that its turn has just left.
CancelSaves(t) ==
  /\ mode = "up" /\ task = NoPass
  /\ kept[t] = "stopped" /\ t \notin identified
  /\ Save(t) /\ kept' = [kept EXCEPT ![t] = "no"]
  /\ UNCHANGED <<journal, mode, life, identified, stopping, retry, task, bounds, unnumbered>>

-----------------------------------------------------------------------------
(* The retry task.                                                         *)

\* retry_session_durability(), unless a session cannot be read.
RetryBegins(s) ==
  /\ mode = "up" /\ task = NoPass /\ retry
  /\ KeptIn(s) # {} /\ s \notin stopping
  /\ (NoFault /\ task' = Pass("retry", KeptIn(s), {})) \/ (Fault /\ UNCHANGED task)
  /\ UNCHANGED <<diskVars, mode, memoryVars, unnumbered>>

\* The next of a pass by order key.  Turns without a number have equal keys: a
\* retry takes them as they were kept, a replay by random identifiers, this
\* model in any order.
First(S) == IF S \cap unnumbered # {} THEN S \cap unnumbered ELSE {Oldest(S)}

\* The two lists of a session are merged.
BadDue ==
  LET read == {t \in task.todo : kept[t] = "stopped"}
  IN  IF task.saved # {} THEN task.saved ELSE First(IF read = {} THEN task.todo ELSE read)
Due == IF task.saved # {} THEN task.saved ELSE First(task.todo)

RetryStep ==
  /\ task.pass = "retry" /\ task.saved = {}
  /\ \/ NoFault /\ \E t \in Due : Save(t) /\ task' = [task EXCEPT !.saved = {t}]
     \/ Fault /\ task' = NoPass /\ UNCHANGED <<history, marked>>
  /\ UNCHANGED <<journal, mode, memoryVars, unnumbered>>

\* A turn that was saved but not unlinked is kept too.
RetryUnlinks(t) ==
  LET rest == task.todo \ {t} IN
  /\ task.pass = "retry" /\ t \in task.saved
  /\ \/ /\ NoFault /\ Unlink(t)
        /\ kept' = [kept EXCEPT ![t] = "no"] /\ identified' = identified \ {t}
        /\ task' = IF rest = {} THEN NoPass ELSE Pass("retry", rest, {})
     \/ /\ t \in identified /\ Fault /\ task' = NoPass
        /\ UNCHANGED <<journal, kept, identified>>
  /\ UNCHANGED <<history, marked, mode, life, stopping, retry, unnumbered>>

RetryEnds ==
  /\ mode = "up" /\ task = NoPass /\ retry /\ \A t \in Turns : kept[t] = "no"
  /\ retry' = FALSE
  /\ UNCHANGED <<diskVars, mode, life, kept, identified, stopping, task, bounds, unnumbered>>

-----------------------------------------------------------------------------
(* /stop.                                                                  *)

StopBegins(s) ==
  /\ mode = "up" /\ task = NoPass /\ s \notin stopping
  /\ stopping' = stopping \cup {s}
  /\ UNCHANGED <<diskVars, mode, life, kept, identified, retry, task, bounds, unnumbered>>

\* The tasks of the session have ended: their turns join those kept; one that
\* cannot be prepared is put aside.  A session that cannot be read ends the
\* command: what it had taken is lost.
StopTakes(s) ==
  /\ mode \in {"up", "closing"} /\ task = NoPass /\ s \in stopping
  /\ \E aside \in SUBSET Live(s) :
       LET claimed == Live(s) \ aside
           taken == KeptAs("stopped", s) \cup claimed
       IN
       /\ IF aside = {} THEN NoFault ELSE Cardinality(aside) = 1 /\ Fault
       /\ kept' = [t \in Turns |-> IF t \in claimed THEN "stopped" ELSE kept[t]]
       /\ life' = [t \in Turns |-> IF t \in claimed THEN "over"
                                   ELSE IF t \in aside THEN "buffered" ELSE life[t]]
       /\ task' = Pass("stop", taken, {s})
  /\ UNCHANGED <<diskVars, mode, identified, stopping, retry, unnumbered>>

StopLoses(s) ==
  LET taken == KeptAs("stopped", s) \cup Live(s) IN
  /\ mode \in {"up", "closing"} /\ task = NoPass /\ s \in stopping
  /\ taken # {} /\ Fault
  /\ kept' = [t \in Turns |-> IF t \in taken THEN "no" ELSE kept[t]]
  /\ identified' = identified \ taken
  /\ life' = [t \in Turns |-> IF t \in Live(s) THEN "over" ELSE life[t]]
  /\ stopping' = stopping \ {s}
  /\ retry' = (retry \/ (mode = "up" /\ KeptAs("pending", s) # {}))
  /\ UNCHANGED <<diskVars, mode, task, unnumbered>>

\* A turn that /stop saves keeps its recovery file; one that it cannot save
\* stays.
StopStep ==
  /\ task.pass = "stop" /\ task.todo # {}
  /\ \E t \in Due :
       /\ \/ NoFault /\ Save(t)
             /\ kept' = [kept EXCEPT ![t] = "no"] /\ identified' = identified \ {t}
          \/ Fault /\ UNCHANGED <<history, marked, kept, identified>>
       /\ task' = [task EXCEPT !.todo = @ \ {t}]
  /\ UNCHANGED <<journal, mode, life, stopping, retry, unnumbered>>

\* What was put aside meanwhile is saved too if its turn was there when /stop
\* came, up to a failure; the rest goes back to the bus.
StopReturns(s) ==
  LET aside == {t \in InSession(s) : life[t] = "buffered"} IN
  /\ task.pass = "stop" /\ task.todo = {} /\ task.at = {s}
  /\ \E mine \in SUBSET aside :
     \E failed \in {{}} \cup {{u \in mine : u >= t} : t \in mine} :
       /\ IF failed = {} THEN NoFault ELSE Fault
       /\ history' = [history EXCEPT ![s] = @ \o Ascending(mine \ failed)]
       /\ kept' = [t \in Turns |-> IF t \in failed THEN "stopped" ELSE kept[t]]
       /\ life' = [t \in Turns |-> IF t \in mine THEN "over"
                                   ELSE IF t \in aside THEN "requeued" ELSE life[t]]
  /\ stopping' = stopping \ {s}
  /\ retry' = (retry \/ (mode = "up" /\ \E t \in InSession(s) : kept'[t] # "no"))
  /\ task' = NoPass
  /\ UNCHANGED <<marked, journal, mode, identified, unnumbered>>

-----------------------------------------------------------------------------
(* Shutdown and exit.                                                      *)

\* close_mcp() cancels the retry task, and the turns, which end as above.
ShutdownBegins ==
  /\ mode = "up" /\ task = NoPass /\ exits < MaxExits
  /\ mode' = "closing" /\ retry' = FALSE
  /\ UNCHANGED <<diskVars, life, kept, identified, stopping, task, bounds, unnumbered>>

Settled == stopping = {} /\ \A t \in Turns : life[t] # "live"

\* Then it records the messages that have no task.
CloseTurn(t) ==
  /\ mode = "closing" /\ task = NoPass /\ Settled
  /\ life[t] \in {"buffered", "requeued"}
  /\ Record(t) \/ FailToRecord(t)
  /\ UNCHANGED <<marked, journal, mode, identified, stopping, task>>

FlushBegins ==
  /\ mode = "closing" /\ task = NoPass /\ Settled
  /\ \A t \in Turns : life[t] \notin {"buffered", "requeued"}
  /\ task' = Pass("flush", {t \in Turns : kept[t] # "no"}, {})
  /\ UNCHANGED <<diskVars, mode, memoryVars, bounds, unnumbered>>

Journal(t) == journal' = [journal EXCEPT ![t] = kept[t]] /\ UNCHANGED <<history, marked>>

\* _flush_stopped_turn_retries(), then _journal_pending_turn(): saved, written
\* to a recovery file, or neither.
FlushStep ==
  /\ task.pass = "flush" /\ task.todo # {}
  /\ \E t \in task.todo :
       /\ kept[t] = "pending" => \A u \in task.todo : kept[u] = "pending"
       /\ \/ /\ \/ kept[t] = "stopped" /\ NoFault /\ Save(t) /\ UNCHANGED journal
                \/ kept[t] = "stopped" /\ Fault /\ Journal(t)
                \/ kept[t] = "pending" /\ NoFault /\ Journal(t)
             /\ kept' = [kept EXCEPT ![t] = "no"] /\ identified' = identified \ {t}
          \/ Fault /\ UNCHANGED <<diskVars, kept, identified>>
       /\ task' = [task EXCEPT !.todo = @ \ {t}]
  /\ UNCHANGED <<mode, life, stopping, retry, unnumbered>>

ProcessExit ==
  /\ exits < MaxExits /\ exits' = exits + 1 /\ UNCHANGED faults
  /\ mode' = "down" /\ task' = NoPass
  /\ life' = [t \in Turns |-> IF life[t] = "unsent" THEN "unsent" ELSE "over"]
  /\ kept' = [t \in Turns |-> "no"] /\ identified' = {}
  /\ stopping' = {} /\ retry' = FALSE
  /\ UNCHANGED <<diskVars, unnumbered>>
Closed == task.pass = "flush" /\ task.todo = {} /\ ProcessExit
Crash == mode # "down" /\ ProcessExit

-----------------------------------------------------------------------------
(* Start.                                                                  *)

Start ==
  LET found == {t \in Turns : journal[t] # "no"} IN
  /\ mode = "down"
  /\ mode' = "starting" /\ task' = Pass("replay", found, {}) /\ identified' = found
  /\ UNCHANGED <<diskVars, life, kept, stopping, retry, bounds, unnumbered>>

Replayed(t) == task' = [task EXCEPT !.todo = @ \ {t}, !.saved = {}]
Retain(t, kind) ==
  /\ kept' = [kept EXCEPT ![t] = kind]
  /\ task' = [task EXCEPT !.todo = @ \ {t}, !.saved = {}, !.at = @ \cup {SessionOf[t]}]

\* A turn of a session whose earlier turn could not be replayed is kept.
Blocked(t) == SessionOf[t] \in task.at
ReplaySaves(t) ==
  /\ task.saved = {} /\ ~Blocked(t)
  /\ NoFault /\ Save(t) /\ task' = [task EXCEPT !.saved = {t}]
  /\ UNCHANGED <<journal, kept, identified>>
ReplayUnlinks(t) ==
  /\ t \in task.saved /\ NoFault /\ Unlink(t)
  /\ Replayed(t) /\ identified' = identified \ {t}
  /\ UNCHANGED <<history, marked, kept>>
\* Blocked, or the file or the session fails; the session of a "pending" turn
\* may be readable or not.
ReplayKeeps(t) ==
  /\ \/ task.saved = {} /\ Blocked(t) /\ NoFault /\ Retain(t, "stopped")
     \/ ~Blocked(t) /\ Fault /\ Retain(t, "stopped")
     \/ task.saved = {} /\ journal[t] = "pending" /\ Fault /\ Retain(t, "pending")
  /\ UNCHANGED <<diskVars, identified>>
\* The session of a "stopped" turn cannot be read or is gone.
Quarantine(t) ==
  /\ task.saved = {} /\ journal[t] = "stopped" /\ Fault
  /\ journal' = [journal EXCEPT ![t] = "no"]
  /\ Replayed(t) /\ identified' = identified \ {t}
  /\ UNCHANGED <<history, marked, kept>>

ReplayStep ==
  /\ task.pass = "replay" /\ task.todo # {}
  /\ \E t \in Due : ReplaySaves(t) \/ ReplayUnlinks(t) \/ ReplayKeeps(t) \/ Quarantine(t)
  /\ UNCHANGED <<mode, life, stopping, retry, unnumbered>>

\* run() wakes the retry task for _stopped_turns only.
ReplayEnds ==
  /\ task.pass = "replay" /\ task.todo = {}
  /\ mode' = "up" /\ task' = NoPass
  /\ retry' = \E t \in Turns : kept[t] = "stopped"
  /\ UNCHANGED <<diskVars, life, kept, identified, stopping, bounds, unnumbered>>

-----------------------------------------------------------------------------

PassStep ==
  \/ RetryStep \/ StopStep \/ FlushStep \/ ReplayStep \/ ReplayEnds
  \/ \E t \in Turns : RetryUnlinks(t)
  \/ \E s \in Sessions : StopReturns(s)

DurabilityNext ==
  \/ \E t \in Turns : \/ Arrive(t) \/ TurnEnds(t) \/ CancelledAtLock(t)
                      \/ CancelSaves(t) \/ CloseTurn(t)
  \/ \E s \in Sessions : RetryBegins(s) \/ StopBegins(s) \/ StopTakes(s) \/ StopLoses(s)
  \/ RetryEnds \/ PassStep
  \/ ShutdownBegins \/ FlushBegins \/ Closed \/ Crash \/ Start

DurabilitySpec == DurabilityInit /\ [][DurabilityNext]_durabilityVars

\* Passes run to their end, and do not keep others from running; /stop waits for
\* tasks that it has cancelled; the retry task comes back to a session that is
\* not always being stopped.
FairDurabilitySpec ==
  /\ DurabilitySpec
  /\ WF_durabilityVars(PassStep)
  /\ \A s \in Sessions : SF_durabilityVars(StopTakes(s)) /\ SF_durabilityVars(RetryBegins(s))

-----------------------------------------------------------------------------
(* Properties.                                                             *)

\* A turn is in the history once, however often it is saved again after a
\* crash, a failed unlink or a /stop that leaves its recovery file.
RecordedOnce == \A s \in Sessions : IsInjective(history[s])

\* A turn that is kept is somebody's: the retry task lives, or /stop will wake
\* it.  A turn that a start could not even prepare waits for the next message
\* (loop.py:2067).
HasOwner ==
  mode = "up" /\ ~retry =>
    \A t \in Turns : \/ kept[t] = "no" \/ SessionOf[t] \in stopping
                     \/ (kept[t] = "pending" /\ t \in identified)

\* No turn is recorded twice, none that is kept is forgotten.
DurabilityInv == DurabilityTypeOK /\ RecordedOnce /\ HasOwner

Recorded(t) == t \in Range(history[SessionOf[t]])
Held(t) ==
  \/ life[t] \in {"live", "buffered", "requeued"} \/ kept[t] # "no"
  \/ journal[t] # "no" \/ Recorded(t)

\* A turn is lost only if the process ends while memory alone has it (a crash,
\* or a shutdown that reports it), if /stop meets an unreadable session, or if
\* its recovery file is put into quarantine.
NothingIsDropped ==
  [][\A t \in Turns : Held(t) /\ ~Held(t)' =>
       \/ mode' = "down"
       \/ faults' > faults /\ (SessionOf[t] \in stopping \/ mode = "starting")]_durabilityVars

\* The retry task and the replay record no turn that has its number before an
\* older one of its session that waits to be recorded, or before one that was
\* kept without a number.  (Those come first, also before older turns.)
OldestFirst ==
  [][task.pass \in {"retry", "replay"} =>
       \A t \in Turns \ unnumbered : ~Recorded(t) /\ Recorded(t)' =>
         \A u \in InSession(SessionOf[t]) \ {t} : u < t \/ u \in unnumbered =>
           u \notin task.todo /\ kept[u] = "no"]_durabilityVars

\* While the process runs, what the retry task has to save is saved.
BacklogSettles == \A s \in Sessions : []<>(mode # "up" \/ ~retry \/ KeptIn(s) = {})

\* Together: what could not be saved is not lost, is saved in the order of its
\* keys, and is saved in the end.
TurnsAreKept == NothingIsDropped /\ OldestFirst /\ BacklogSettles

=============================================================================
