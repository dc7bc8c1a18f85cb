--------------------------- MODULE SessionWriters ---------------------------
(***************************************************************************)
(* The writers of a session file: turns (agent/loop.py), memory compaction *)
(* and Nowledge Thread synchronisation (agent/memory.py), over the cache   *)
(* and the revision check of session/manager.py.                           *)
(*                                                                         *)
(* A writer works on a Session object in memory, waits for a model or a    *)
(* service, and saves the whole object if the file still has the revision  *)
(* it expects.  The cache refers to one object per chat, weakly, and a     *)
(* switch of the active session empties it, so one session may have        *)
(* several objects in memory at once: identity matters here, which is why  *)
(* objects live in a heap.  Saves themselves are atomic (SessionStore has  *)
(* their steps and failures); one chat with all its sessions created.      *)
(***************************************************************************)
EXTENDS Integers, FiniteSets

CONSTANTS
  Ids,        \* sessions of the chat
  Objects,    \* heap slots for Session objects
  Turns,      \* turns of the conversation
  None,
  ThreadSync, \* whether a Nowledge thread manager is configured
  MaxSwitches \* bound: switches of the active session

ASSUME WritersAssumption ==
  /\ Ids # {}
  /\ IsFiniteSet(Turns)
  /\ None \notin Ids \cup Objects
  /\ ThreadSync \in BOOLEAN
  /\ MaxSwitches \in Nat

VARIABLES
  disk,     \* the session files
  heap,     \* the Session objects
  active,   \* the active session in the index
  cache,    \* _cache[chat]
  agent,    \* the object of the running turn
  compact,  \* the compaction of each session
  sync,     \* the thread synchronisation of each session
  nextCompact, \* _background_pending: the compaction and
  nextSync,    \* the synchronisation that follow
  done,     \* history: turns whose save returned
  refused,  \* history: turns whose save raised a conflict
  switches,
  recovered \* history: whether _save_metadata has resolved a conflict

jobs == <<compact, sync, nextCompact, nextSync>>
writersVars == <<disk, heap, active, cache, agent, jobs, done, refused, switches, recovered>>

\* _save_turn adds the turn's entries to the revision, the other writers one;
\* a turn counts one entry here.
Content == [rev : Nat, turns : SUBSET Turns]
Object == [id : Ids, rev : Nat, turns : SUBSET Turns]
NoJob == [phase |-> "none", obj |-> None, before |-> 0]
Jobs == [phase : {"none", "compact", "append", "distill"}, obj : Objects \cup {None}, before : Nat]

WritersTypeOK ==
  /\ disk \in [Ids -> Content]
  /\ heap \in [Objects -> Object]
  /\ active \in Ids
  /\ cache \in Objects \cup {None}
  /\ agent \in Objects \cup {None}
  /\ compact \in [Ids -> Jobs]
  /\ sync \in [Ids -> Jobs]
  /\ nextCompact \in [Ids -> Jobs]
  /\ nextSync \in [Ids -> Objects \cup {None}]
  /\ done \subseteq Turns
  /\ refused \subseteq Turns
  /\ switches \in Nat
  /\ recovered \in BOOLEAN

WritersInit ==
  /\ disk = [i \in Ids |-> [rev |-> 0, turns |-> {}]]
  /\ heap \in [Objects -> {[id |-> i, rev |-> 0, turns |-> {}] : i \in {CHOOSE i \in Ids : TRUE}}]
  /\ active \in Ids
  /\ cache = None
  /\ agent = None
  /\ compact = [i \in Ids |-> NoJob]
  /\ sync = [i \in Ids |-> NoJob]
  /\ nextCompact = [i \in Ids |-> NoJob]
  /\ nextSync = [i \in Ids |-> None]
  /\ done = {}
  /\ refused = {}
  /\ switches = 0
  /\ recovered = FALSE

\* The objects somebody refers to: every other one has been collected, and a
\* weak cache entry with it.
Held == {agent} \cup {compact[i].obj : i \in Ids} \cup {nextCompact[i].obj : i \in Ids}
        \cup {sync[i].obj : i \in Ids} \cup {nextSync[i] : i \in Ids}

-----------------------------------------------------------------------------
(* SessionManager.                                                         *)

\* get_or_create(): the cached object while it is alive and of the active
\* session, else a new object read from the file.
BadCached(o) == FALSE
Cached(o) == o = cache /\ o \in Held /\ heap[o].id = active
Loaded(i) == [id |-> i, rev |-> disk[i].rev, turns |-> disk[i].turns]

\* _validate_save_revision() with the revision the writer expects.
BadMatches(i, expected) == disk[i].rev <= expected + 1
Matches(i, expected) == disk[i].rev = expected

\* A successful save of object o as `new`: the file, the object, the cache.
Store(o, new) ==
  /\ disk' = [disk EXCEPT ![new.id] = [rev |-> new.rev, turns |-> new.turns]]
  /\ heap' = [heap EXCEPT ![o] = new]
  /\ cache' = o

\* set_active() by a session operation, which needs an idle conversation.
Switch(i) ==
  /\ agent = None /\ i # active /\ switches < MaxSwitches
  /\ active' = i
  /\ cache' = None
  /\ switches' = switches + 1
  /\ UNCHANGED <<disk, heap, agent, jobs, done, refused, recovered>>

-----------------------------------------------------------------------------
(* Turns.                                                                  *)

\* The turn gets the session's object and calls the model.
StartTurn(o) ==
  /\ agent = None
  /\ \/ Cached(o) /\ UNCHANGED <<heap, cache>>
     \/ /\ \A p \in Objects : ~Cached(p)
        /\ o \notin Held
        /\ heap' = [heap EXCEPT ![o] = Loaded(active)]
        /\ cache' = o
  /\ agent' = o
  /\ UNCHANGED <<disk, active, jobs, done, refused, switches, recovered>>

\* _schedule_background(): one job of a kind runs per session and the latest
\* request waits.  A compaction may find the history short enough.
StartCompaction(o) ==
  LET i == heap[o].id
      job == [phase |-> "compact", obj |-> o, before |-> heap'[o].rev]
  IN
  IF compact[i].phase = "none"
  THEN compact' \in {compact, [compact EXCEPT ![i] = job]} /\ UNCHANGED nextCompact
  ELSE nextCompact' = [nextCompact EXCEPT ![i] = job] /\ UNCHANGED compact

StartSync(o) ==
  LET i == heap[o].id IN
  \/ ~ThreadSync /\ UNCHANGED <<sync, nextSync>>
  \/ /\ ThreadSync /\ sync[i].phase = "none"
     /\ sync' = [sync EXCEPT ![i] = [phase |-> "append", obj |-> o, before |-> 0]]
     /\ UNCHANGED nextSync
  \/ /\ ThreadSync /\ sync[i].phase # "none"
     /\ nextSync' = [nextSync EXCEPT ![i] = o]
     /\ UNCHANGED sync

\* _save_turn(): the object with one more turn.
BadExtended(s, t) == [s EXCEPT !.turns = @ \cup {t}]
Extended(s, t) == [id |-> s.id, rev |-> s.rev + 1, turns |-> s.turns \cup {t}]

\* _persist_turn_entries() and the post-turn work; the object is rolled back
\* when the file has moved on.
FinishTurn(t) ==
  LET o == agent
      s == heap[o]
  IN
  /\ agent # None /\ t \notin done \cup refused
  /\ agent' = None
  /\ \/ /\ Matches(s.id, s.rev)
        /\ Store(o, Extended(s, t))
        /\ StartCompaction(o)
        /\ StartSync(o)
        /\ done' = done \cup {t}
        /\ UNCHANGED refused
     \/ /\ ~Matches(s.id, s.rev)
        /\ refused' = refused \cup {t}
        /\ UNCHANGED <<disk, heap, cache, jobs, done>>
  /\ UNCHANGED <<active, switches, recovered>>

-----------------------------------------------------------------------------
(* Memory compaction.                                                      *)

\* compact_messages() after the model answered: a result made from an older
\* revision of the object is discarded, and a save that meets a newer file
\* restores the object.
Unchanged(i) == heap[compact[i].obj].rev = compact[i].before
FinishCompaction(i) ==
  LET o == compact[i].obj
      before == compact[i].before
  IN
  /\ compact[i].phase = "compact"
  /\ IF Unchanged(i) /\ Matches(i, before)
     THEN Store(o, [heap[o] EXCEPT !.rev = before + 1])
     ELSE UNCHANGED <<disk, heap, cache>>
  /\ nextCompact' = [nextCompact EXCEPT ![i] = NoJob]
  /\ \/ compact' = [compact EXCEPT ![i] = NoJob]
     \/ /\ nextCompact[i].phase = "compact"
        /\ heap'[nextCompact[i].obj].rev = nextCompact[i].before
        /\ compact' = [compact EXCEPT ![i] = nextCompact[i]]
  /\ UNCHANGED <<active, agent, sync, nextSync, done, refused, switches, recovered>>

-----------------------------------------------------------------------------
(* Thread synchronisation.                                                 *)

\* _save_metadata(): on a conflict the cursors are merged into the file's
\* current session, and the writer's object takes over its revision.
SaveMetadata(o) ==
  LET i == heap[o].id IN
  IF Matches(i, heap[o].rev)
  THEN Store(o, [heap[o] EXCEPT !.rev = @ + 1]) /\ UNCHANGED recovered
  ELSE /\ recovered' = TRUE
       /\ disk' = [disk EXCEPT ![i].rev = @ + 1]
       /\ heap' = [heap EXCEPT ![o].rev = disk[i].rev + 1]
       /\ cache' = None

\* The synchronisation of session i is over; the one that waits starts.
EndSync(i) ==
  /\ sync' = [sync EXCEPT ![i] = IF nextSync[i] = None THEN NoJob
                                 ELSE [phase |-> "append", obj |-> nextSync[i], before |-> 0]]
  /\ nextSync' = [nextSync EXCEPT ![i] = None]

\* The service answered create_thread() or append_messages(); distillation of
\* the same object follows when enough messages have accumulated.
AppendTurn(i) ==
  /\ sync[i].phase = "append"
  /\ SaveMetadata(sync[i].obj)
  /\ \/ sync' = [sync EXCEPT ![i].phase = "distill"] /\ UNCHANGED nextSync
     \/ EndSync(i)
  /\ UNCHANGED <<active, agent, compact, nextCompact, done, refused, switches>>

Distill(i) ==
  /\ sync[i].phase = "distill"
  /\ SaveMetadata(sync[i].obj)
  /\ EndSync(i)
  /\ UNCHANGED <<active, agent, compact, nextCompact, done, refused, switches>>

WritersNext ==
  \/ \E i \in Ids : Switch(i) \/ FinishCompaction(i) \/ AppendTurn(i) \/ Distill(i)
  \/ \E o \in Objects : StartTurn(o)
  \/ \E t \in Turns : FinishTurn(t)

WritersSpec == WritersInit /\ [][WritersNext]_writersVars

-----------------------------------------------------------------------------
(* Properties.                                                             *)

\* A turn whose save returned stays in its session's file whatever the other
\* writers do with objects they loaded earlier (SessionRevisionConflictError:
\* "Raised when a save no longer targets the persisted session revision").
StoredTurnsStay == done = UNION {disk[i].turns : i \in Ids}

\* All three writers keep this promise until the conflict recovery of
\* _save_metadata() first runs.
StoredUntilRecovery == recovered \/ StoredTurnsStay

\* Until then the revision identifies the content: an object of the file's
\* revision has the file's turns.  This is what makes comparing revisions a
\* sufficient check.
RevisionsAgree ==
  \A o \in Held \ {None} :
    /\ heap[o].rev <= disk[heap[o].id].rev
    /\ heap[o].rev = disk[heap[o].id].rev => heap[o].turns = disk[heap[o].id].turns
RevisionIdentifiesContent == recovered \/ RevisionsAgree

\* While the user stays in one session all writers share one object, so a turn
\* is never refused because of the background work of an earlier one.
RefusedOnlyAfterSwitch == refused # {} => switches > 0

\* Writers conflict only over objects that a switch has separated.
WritersInv == WritersTypeOK /\ RefusedOnlyAfterSwitch

=============================================================================
