---------------------------- MODULE SessionStore ----------------------------
(***************************************************************************)
(* nanocat/session/manager.py: the sessions of one chat on disk.           *)
(*                                                                         *)
(* The channel's metadata.json is the index (which sessions exist, which   *)
(* one is active); every session has one JSONL file; a deletion first      *)
(* renames that file to a tombstone.  Every write replaces one file        *)
(* atomically, but an operation makes several of them, so it is a sequence *)
(* of steps: each may fail, and the process may end between two of them.   *)
(* The operations are synchronous calls of one event loop, so only one is  *)
(* under way at a time.                                                    *)
(*                                                                         *)
(* A file's content is the number of turns in it, which is also its        *)
(* revision.  Names, timestamps and compacted memory are left out.  What   *)
(* happens to the page cache in a power failure is not modelled.           *)
(***************************************************************************)
EXTENDS Integers, FiniteSets

CONSTANTS
  Ids,       \* session ids that _generate_id may draw
  None,      \* no id, no file, no object
  MaxTurns,  \* bound: turns saved per session
  MaxFaults, \* bound: I/O errors
  MaxCrashes \* bound: process exits

StoreAssumption ==
  /\ IsFiniteSet(Ids)
  /\ None \notin Ids \cup Nat /\ "incomplete" \notin Ids
  /\ MaxTurns \in Nat
  /\ MaxFaults \in Nat
  /\ MaxCrashes \in Nat
ASSUME StoreAssumption

VARIABLES
  index,    \* the "sessions" section of metadata.json
  active,   \* the chat's entry in it: an id, None (no entry) or "incomplete"
  file,     \* the session files
  tomb,     \* the tombstones of each session (their names are unique)
  memory,   \* the Session object that a turn or a background task holds
  deleted,  \* _deleted_keys
  op,       \* the operation under way
  up,       \* whether the process runs
  faults,
  crashes,
  born,     \* history: ids drawn so far
  acked,    \* history: turns whose save returned
  gone,     \* history: sessions whose deletion was reported
  stuck,    \* history: sessions whose file could not be moved back
  doubled   \* history: sessions that have had two tombstones

disk == <<index, active, file, tomb>>
history == <<born, acked, gone, stuck, doubled>>
storeVars == <<disk, memory, deleted, op, up, faults, crashes, history>>

Kinds == {"none", "new", "save", "delete", "replace", "recover"}
Steps == {"idle", "file", "move", "index", "undo", "unlink", "trash", "recover"}

\* `id` is the session saved or deleted, `fresh` the one created, `moved` the
\* operation's own tombstone, `todo` the tombstones a recovery has yet to treat.
Operation == [kind : Kinds, step : Steps, id : Ids \cup {None}, fresh : Ids \cup {None},
              moved : Nat \cup {None}, todo : SUBSET (Ids \X Nat)]
Idle == [kind |-> "none", step |-> "idle", id |-> None, fresh |-> None,
         moved |-> None, todo |-> {}]

StoreTypeOK ==
  /\ index \subseteq Ids
  /\ active \in Ids \cup {None, "incomplete"}
  /\ file \in [Ids -> Nat \cup {None}]
  /\ tomb \in [Ids -> SUBSET Nat]
  /\ memory \in [Ids -> Nat \cup {None}]
  /\ deleted \subseteq Ids
  /\ op \in Operation
  /\ up \in BOOLEAN
  /\ faults \in Nat
  /\ crashes \in Nat
  /\ born \subseteq Ids
  /\ acked \in [Ids -> Nat]
  /\ gone \subseteq Ids
  /\ stuck \subseteq Ids
  /\ doubled \subseteq Ids

StoreInit ==
  /\ index = {}
  /\ active = None
  /\ file = [i \in Ids |-> None]
  /\ tomb = [i \in Ids |-> {}]
  /\ memory = [i \in Ids |-> None]
  /\ deleted = {}
  /\ op = Idle
  /\ up = TRUE
  /\ faults = 0
  /\ crashes = 0
  /\ born = {}
  /\ acked = [i \in Ids |-> 0]
  /\ gone = {}
  /\ stuck = {}
  /\ doubled = {}

-----------------------------------------------------------------------------
(* Starting an operation.                                                  *)

Ready == up /\ op = Idle

\* _read_session_revision(): what the file holds, 0 when there is none.
DiskRevision(i) == IF file[i] = None THEN 0 ELSE file[i]

StartOperation(kind, step, i, j) ==
  /\ op' = [Idle EXCEPT !.kind = kind, !.step = step, !.id = i, !.fresh = j]
  /\ born' = IF j = None THEN born ELSE born \cup {j}
  /\ UNCHANGED <<disk, memory, deleted, up, faults, crashes, acked, gone, stuck, doubled>>

\* A new session: for a chat without one, or because the user asked for one.
BeginNew(j) == Ready /\ j \notin born /\ StartOperation("new", "file", None, j)

\* get_or_create() or get_session() hands out the object of a readable session.
Open(i) ==
  /\ Ready
  /\ i \in index /\ file[i] # None /\ memory[i] = None
  /\ memory' = [memory EXCEPT ![i] = file[i]]
  /\ UNCHANGED <<disk, deleted, op, up, faults, crashes, history>>

\* Nobody holds the object any more; the cache refers to it weakly.
Release(i) ==
  /\ Ready
  /\ memory[i] # None
  /\ memory' = [memory EXCEPT ![i] = None]
  /\ UNCHANGED <<disk, deleted, op, up, faults, crashes, history>>

\* save() of one more turn: not for a deleted session, and only on top of the
\* revision the object was loaded with.
BadMaySave(i) == memory[i] # None /\ DiskRevision(i) = memory[i]
MaySave(i) == memory[i] # None /\ i \notin deleted /\ DiskRevision(i) = memory[i]
BeginSave(i) ==
  Ready /\ MaySave(i) /\ memory[i] < MaxTurns /\ StartOperation("save", "file", i, None)

\* delete_session(); the caller allows the active session.
BeginDelete(i) == Ready /\ i \in index /\ StartOperation("delete", "move", i, None)

\* delete_active_and_replace()
BeginReplace(i, j) ==
  Ready /\ i \in index /\ active = i /\ j \notin born /\ StartOperation("replace", "file", i, j)

\* set_active(): one write of the index.
SetActive(i) ==
  /\ Ready
  /\ i \in index /\ file[i] # None
  /\ active' = i
  /\ UNCHANGED <<index, file, tomb, memory, deleted, op, up, faults, crashes, history>>

-----------------------------------------------------------------------------
(* The steps of an operation.                                              *)

At(kinds, step) == up /\ op.kind \in kinds /\ op.step = step

GoTo(step) == op' = [op EXCEPT !.step = step]

\* The session file of a save, the empty one of a new session or replacement.
WriteFile ==
  /\ At({"new", "save", "replace"}, "file")
  /\ IF op.kind = "save"
     THEN /\ file' = [file EXCEPT ![op.id] = memory[op.id] + 1]
          /\ memory' = [memory EXCEPT ![op.id] = @ + 1]
     ELSE /\ file' = [file EXCEPT ![op.fresh] = 0]
          /\ UNCHANGED memory
  /\ GoTo(IF op.kind = "replace" THEN "move" ELSE "index")
  /\ UNCHANGED <<index, active, tomb, deleted, up, faults, crashes, history>>

\* os.replace(path, tombstone)
MoveAway == tomb' = [tomb EXCEPT ![op.id] = IF file[op.id] = None THEN @ ELSE @ \cup {file[op.id]}]
MoveFile ==
  /\ At({"delete", "replace"}, "move")
  /\ MoveAway
  /\ file' = [file EXCEPT ![op.id] = None]
  /\ op' = [op EXCEPT !.step = "index", !.moved = file[op.id]]
  /\ doubled' = IF tomb[op.id] # {} /\ file[op.id] # None THEN doubled \cup {op.id} ELSE doubled
  /\ UNCHANGED <<index, active, memory, deleted, up, faults, crashes, born, acked, gone, stuck>>

\* The index each operation writes.
NewIndex ==
  CASE op.kind = "new"     -> index \cup {op.fresh}
    [] op.kind = "save"    -> index \cup {op.id}
    [] op.kind = "delete"  -> index \ {op.id}
    [] op.kind = "replace" -> (index \ {op.id}) \cup {op.fresh}

\* The chat's entry each operation writes: a save creates an entry that has
\* only a timestamp when there is none.
NewActive ==
  CASE op.kind \in {"new", "replace"} -> op.fresh
    [] op.kind = "save"   -> IF active = None THEN "incomplete" ELSE active
    [] op.kind = "delete" -> IF active = op.id THEN None ELSE active

\* The write that commits: from here on a deletion is final (_mark_deleted).
WriteIndex ==
  /\ At({"new", "save", "delete", "replace"}, "index")
  /\ index' = NewIndex
  /\ active' = NewActive
  /\ IF op.kind \in {"delete", "replace"}
     THEN /\ deleted' = deleted \cup {op.id}
          /\ gone' = gone \cup {op.id}
          /\ GoTo("trash")
     ELSE op' = Idle /\ UNCHANGED <<deleted, gone>>
  /\ acked' = IF op.kind = "save" THEN [acked EXCEPT ![op.id] = file[op.id]] ELSE acked
  /\ memory' = IF op.kind = "new" THEN [memory EXCEPT ![op.fresh] = 0] ELSE memory
  /\ UNCHANGED <<file, tomb, up, faults, crashes, born, stuck, doubled>>

\* The rollback of a deletion: the tombstone is renamed back.
BadRestored == file
Restored == [file EXCEPT ![op.id] = op.moved]
Undo ==
  /\ At({"delete", "replace"}, "undo")
  /\ file' = Restored
  /\ tomb' = [tomb EXCEPT ![op.id] = @ \ {op.moved}]
  /\ IF op.kind = "replace" THEN GoTo("unlink") ELSE op' = Idle
  /\ stuck' = stuck \ {op.id}
  /\ UNCHANGED <<index, active, memory, deleted, up, faults, crashes, born, acked, gone, doubled>>

\* The file of a session that the index never named is removed.
Unlink ==
  /\ At({"new", "replace"}, "unlink")
  /\ file' = [file EXCEPT ![op.fresh] = None]
  /\ op' = Idle
  /\ UNCHANGED <<index, active, tomb, memory, deleted, up, faults, crashes, history>>

\* send2trash(): a failure only leaves the tombstone behind.
Trash ==
  /\ At({"delete", "replace"}, "trash")
  /\ \/ tomb' = [tomb EXCEPT ![op.id] = @ \ {op.moved}]
     \/ UNCHANGED tomb
  /\ op' = Idle
  /\ UNCHANGED <<index, active, file, memory, deleted, up, faults, crashes, history>>

\* What follows an I/O error in each step.
AfterFault ==
  CASE op.step = "file"   -> Idle
    [] op.step = "move"   -> IF op.kind = "replace" THEN [op EXCEPT !.step = "unlink"] ELSE Idle
    [] op.step = "index"  -> CASE op.kind = "new"  -> [op EXCEPT !.step = "unlink"]
                               [] op.kind = "save" -> Idle
                               [] OTHER            ->
                                    IF op.moved # None
                                    THEN [op EXCEPT !.step = "undo"]
                                    ELSE IF op.kind = "replace"
                                    THEN [op EXCEPT !.step = "unlink"] ELSE Idle
    [] op.step = "undo"   -> IF op.kind = "replace" THEN [op EXCEPT !.step = "unlink"] ELSE Idle
    [] op.step = "unlink" -> Idle

\* A failed index write of a save is only logged: the turn is durable.
Fault ==
  /\ up /\ op.kind \in {"new", "save", "delete", "replace"}
  /\ op.step \in {"file", "move", "index", "undo", "unlink"}
  /\ faults < MaxFaults
  /\ faults' = faults + 1
  /\ op' = AfterFault
  /\ acked' = IF op.kind = "save" /\ op.step = "index"
              THEN [acked EXCEPT ![op.id] = file[op.id]] ELSE acked
  /\ stuck' = IF op.step = "undo" THEN stuck \cup {op.id} ELSE stuck
  /\ UNCHANGED <<disk, memory, deleted, up, crashes, born, gone, doubled>>

-----------------------------------------------------------------------------
(* Process exit and _recover_delete_tombstones() at the next start.        *)

Crash ==
  /\ up /\ crashes < MaxCrashes
  /\ crashes' = crashes + 1
  /\ up' = FALSE
  /\ op' = Idle
  /\ memory' = [i \in Ids |-> None]
  /\ deleted' = {}
  /\ stuck' = stuck \cup {i \in index : file[i] = None}
  /\ UNCHANGED <<disk, faults, born, acked, gone, doubled>>

Restart ==
  /\ ~up
  /\ up' = TRUE
  /\ op' = [Idle EXCEPT !.kind = "recover", !.step = "recover",
                        !.todo = {t \in Ids \X (0 .. MaxTurns) : t[2] \in tomb[t[1]]}]
  /\ UNCHANGED <<disk, memory, deleted, faults, crashes, history>>

\* An indexed session without a file gets it back, any other tombstone goes
\* to the trash.
BadIsInterrupted(i) == file[i] = None
IsInterrupted(i) == i \in index /\ file[i] = None
RecoverTombstone(i, c) ==
  /\ At({"recover"}, "recover")
  /\ <<i, c>> \in op.todo
  /\ op' = [op EXCEPT !.todo = @ \ {<<i, c>>}]
  /\ \/ /\ tomb' = [tomb EXCEPT ![i] = @ \ {c}]
        /\ file' = IF IsInterrupted(i) THEN [file EXCEPT ![i] = c] ELSE file
        /\ stuck' = IF IsInterrupted(i) THEN stuck \ {i} ELSE stuck
        /\ UNCHANGED faults
     \/ /\ faults < MaxFaults
        /\ faults' = faults + 1
        /\ UNCHANGED <<tomb, file, stuck>>
  /\ UNCHANGED <<index, active, memory, deleted, up, crashes, born, acked, gone, doubled>>

Recovered ==
  /\ At({"recover"}, "recover")
  /\ op.todo = {}
  /\ op' = Idle
  /\ UNCHANGED <<disk, memory, deleted, up, faults, crashes, history>>

StoreNext ==
  \/ \E i \in Ids : \/ BeginNew(i) \/ Open(i) \/ Release(i) \/ BeginSave(i)
                    \/ BeginDelete(i) \/ SetActive(i)
  \/ \E i, j \in Ids : BeginReplace(i, j)
  \/ WriteFile \/ MoveFile \/ WriteIndex \/ Undo \/ Unlink \/ Trash \/ Fault
  \/ Crash \/ Restart \/ Recovered
  \/ \E i \in Ids, c \in 0 .. MaxTurns : RecoverTombstone(i, c)

StoreSpec == StoreInit /\ [][StoreNext]_storeVars

-----------------------------------------------------------------------------
(* Properties.                                                             *)

Contents(i) == tomb[i] \cup ({file[i]} \ {None})

\* A turn whose save returned is on disk, in the file or in a tombstone, and
\* the index still names its session, whatever failed and wherever the
\* process ended; only a reported deletion ends that.  The exception is a
\* session that was moved away again while a tombstone of an earlier deletion
\* was still there: recovery restores whichever of the two it meets first.
AcknowledgedSurvives ==
  \A i \in Ids \ (gone \cup doubled) : acked[i] > 0 =>
    i \in index /\ \E c \in Contents(i) : c >= acked[i]

\* A deletion that was reported is final: neither a late save, nor a second
\* deletion, nor the recovery of tombstones brings the session back.
DeletedStaysDeleted ==
  \A i \in gone : i \notin index /\ file[i] = None /\ active # i

\* The active session is in the index, and its payload can be recovered even
\* in the middle of an operation that replaces it.
ActiveIsRecoverable ==
  active \in Ids => active \in index /\ Contents(active) # {}

\* Between operations every indexed session has its file: an operation that
\* failed, wherever it did, was rolled back.  A rollback whose own rename
\* failed is the exception, and only until the next successful recovery.
IndexedIsReadable ==
  up /\ op = Idle => \A i \in index \ stuck : file[i] # None

\* Unindexed files are empty: no turn is ever stored where no listing, switch
\* or recovery can reach it.
OrphansAreEmpty ==
  \A i \in Ids \ index : file[i] # None => file[i] = 0

\* The index, the files and the tombstones agree wherever an operation fails
\* or the process ends; no acknowledged turn is lost, no deleted session comes
\* back.
StoreInv ==
  /\ StoreTypeOK
  /\ AcknowledgedSurvives
  /\ DeletedStaysDeleted
  /\ ActiveIsRecoverable
  /\ IndexedIsReadable
  /\ OrphansAreEmpty

=============================================================================
