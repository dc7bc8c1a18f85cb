------------------------- MODULE TurnsAndStoreProofs -------------------------
(***************************************************************************)
(* Proofs about the two components that everything else is built on.       *)
(*                                                                         *)
(* SessionStore: however many sessions, faults and process exits there     *)
(* are, the index, the files and the tombstones of the session store agree.*)
(* What the operations preserve between their steps is stated per kind of  *)
(* operation (Progress).  The rest relates the disk to the memory: which   *)
(* sessions exist at all (Drawn), which payload stands for a session that  *)
(* has none in place (Recoverable), which file may be missing (Missing),   *)
(* and that neither a file, nor an object, nor the only tombstone of a     *)
(* session is older than the last save that returned (UpToDate).           *)
(*                                                                         *)
(* TurnCoordinator, for every set of turns, every finite set of steers and *)
(* every retention: TurnsInv is inductive, each of its parts needs the     *)
(* others when a steer leaves or a turn ends.  What it says of the steers  *)
(* of a turn is weaker once a steer without a token has taken a join of it *)
(* (overdrawn), and so is the promise to the guests of the lifecycle.      *)
(***************************************************************************)
EXTENDS TurnCoordinator, SessionStore, FiniteSetTheorems, TLAPS

-----------------------------------------------------------------------------
(* The session store.                                                       *)

\* Where each operation is, and what it has done to get there.
Creating ==
  op.kind = "new" =>
    /\ op.step \in {"file", "index", "unlink"}
    /\ op.fresh \in born \ (index \cup gone)
    /\ op.step = "index" => file[op.fresh] = 0

Saving ==
  op.kind = "save" =>
    /\ op.step \in {"file", "index"}
    /\ op.id \in index \ deleted
    /\ memory[op.id] # None /\ op.fresh = None
    /\ op.step = "file" => memory[op.id] = DiskRevision(op.id)
    /\ op.step = "index" => memory[op.id] = file[op.id]

Deleting ==
  op.kind \in {"delete", "replace"} =>
    /\ op.step \in {"file", "move", "index", "undo", "unlink", "trash"}
    /\ op.kind = "delete" => op.step \notin {"file", "unlink"} /\ op.fresh = None
    /\ op.id \in Ids
    /\ op.step \in {"file", "move", "index", "undo"} => op.id \in index
    /\ op.step \in {"index", "undo"} => file[op.id] = None
    /\ op.step \in {"index", "undo"} /\ op.moved # None => op.moved \in tomb[op.id]
    /\ op.step = "undo" => op.moved # None
    /\ op.step = "trash" => op.id \in gone

Replacing ==
  op.kind = "replace" =>
    /\ op.fresh \in born \ gone /\ op.fresh # op.id
    /\ op.step # "trash" => op.fresh \notin index
    /\ op.step \in {"move", "index"} => file[op.fresh] = 0

Recovering ==
  /\ op.kind = "none" => op = Idle
  /\ op.kind = "recover" => op.step = "recover"
  /\ \A t \in op.todo : op.kind = "recover" /\ t[2] \in tomb[t[1]]

Progress == Creating /\ Saving /\ Deleting /\ Replacing /\ Recovering

\* A process that has ended holds nothing.
Ended == ~up => op = Idle /\ deleted = {} /\ \A i \in Ids : memory[i] = None

\* Only ids that were drawn leave a trace.
Drawn ==
  /\ index \cup gone \subseteq born
  /\ \A i \in Ids : memory[i] # None => i \in index \cup deleted
  /\ \A i \in Ids : acked[i] > 0 => i \in index \cup gone
  /\ \A i \in Ids : tomb[i] # {} => i \in index \cup gone
  /\ \A i \in Ids \ born : file[i] = None
  /\ deleted \subseteq gone

\* An indexed session has a payload, in place or in a tombstone.
Recoverable ==
  /\ \A i \in index : Contents(i) # {}
  /\ active \in Ids => active \in index

\* A file is only missing while a deletion is about to commit or to roll back.
Missing ==
  \A i \in index \ stuck : file[i] = None =>
    /\ op.kind \in {"delete", "replace"} /\ op.id = i
    /\ op.step \in {"index", "undo"} /\ op.moved # None

\* Nothing that may take the place of a session's file is older than what
\* was acknowledged.
UpToDate ==
  \A i \in Ids \ (gone \cup doubled) :
    /\ acked[i] > 0 => \E c \in Contents(i) : c >= acked[i]
    /\ file[i] # None => file[i] >= acked[i]
    /\ memory[i] # None => memory[i] >= acked[i]
    /\ file[i] = None => \A c, d \in tomb[i] : c = d

IInv ==
  /\ StoreTypeOK
  /\ Progress
  /\ Ended
  /\ Drawn
  /\ Recoverable
  /\ Missing
  /\ UpToDate
  /\ DeletedStaysDeleted
  /\ OrphansAreEmpty

\* An operation starts with a fresh record.
LEMMA StartForms ==
  ASSUME NEW kind \in Kinds, NEW step \in Steps,
         NEW i \in Ids \cup {None}, NEW j \in Ids \cup {None}, StartOperation(kind, step, i, j)
  PROVE  /\ op' = [kind |-> kind, step |-> step, id |-> i, fresh |-> j,
                   moved |-> None, todo |-> {}]
         /\ op' \in Operation
BY DEF StartOperation, Idle, Operation

\* Creating a session draws its id and leaves the disk alone.
LEMMA BeginNewKeeps ==
  ASSUME StoreAssumption, IInv, NEW i \in Ids, BeginNew(i)
  PROVE  IInv'
<1> USE DEF IInv, StoreAssumption, StoreTypeOK
<1>1. /\ up /\ op = Idle
      /\ i \notin born
      /\ op' = [kind |-> "new", step |-> "file", id |-> None, fresh |-> i,
                moved |-> None, todo |-> {}]
      /\ op' \in Operation
      /\ born' = born \cup {i}
      /\ UNCHANGED <<index, active, file, tomb, memory, deleted, up, faults, crashes,
                     acked, gone, stuck, doubled>>
  <2>1. StartOperation("new", "file", None, i)
    BY DEF BeginNew, Ready
  <2>2. /\ op' = [kind |-> "new", step |-> "file", id |-> None, fresh |-> i,
                  moved |-> None, todo |-> {}]
        /\ op' \in Operation
    BY <2>1, StartForms DEF Kinds, Steps
  <2> QED
    BY <2>1, <2>2 DEF BeginNew, Ready, StartOperation, disk, history
<1>2. StoreTypeOK'
  BY <1>1
<1>3. Progress'
  BY <1>1 DEF Progress, Creating, Saving, Deleting, Replacing, Recovering, Drawn
<1>4. Ended'
  BY <1>1 DEF Ended
<1>5. Drawn'
  BY <1>1 DEF Drawn
<1>6. Recoverable'
  BY <1>1 DEF Recoverable, Contents
<1>7. Missing'
  BY <1>1 DEF Missing, Idle
<1>8. UpToDate'
  BY <1>1 DEF UpToDate, Contents
<1>9. DeletedStaysDeleted'
  BY <1>1 DEF DeletedStaysDeleted
<1>10. OrphansAreEmpty'
  BY <1>1 DEF OrphansAreEmpty
<1> QED BY <1>2, <1>3, <1>4, <1>5, <1>6, <1>7, <1>8, <1>9, <1>10

\* An object that is handed out holds what the file holds.
LEMMA OpenKeeps ==
  ASSUME StoreAssumption, IInv, NEW i \in Ids, Open(i)
  PROVE  IInv'
<1> USE DEF IInv, StoreAssumption, StoreTypeOK
<1>1. /\ up /\ op = Idle
      /\ i \in index /\ file[i] # None
      /\ memory' \in [Ids -> Nat \cup {None}]
      /\ \A k \in Ids : memory'[k] = IF k = i THEN file[i] ELSE memory[k]
      /\ UNCHANGED <<index, active, file, tomb, deleted, op, up, faults, crashes, born,
                     acked, gone, stuck, doubled>>
  BY DEF Open, Ready, disk, history
<1>2. StoreTypeOK'
  BY <1>1
<1>3. Progress'
  BY <1>1 DEF Progress, Creating, Saving, Deleting, Replacing, Recovering, DiskRevision
<1>4. Ended'
  BY <1>1 DEF Ended
<1>5. Drawn'
  BY <1>1 DEF Drawn
<1>6. Recoverable'
  BY <1>1 DEF Recoverable, Contents
<1>7. Missing'
  BY <1>1 DEF Missing
<1>8. UpToDate'
  BY <1>1 DEF UpToDate, Contents
<1>9. DeletedStaysDeleted'
  BY <1>1 DEF DeletedStaysDeleted
<1>10. OrphansAreEmpty'
  BY <1>1 DEF OrphansAreEmpty
<1> QED BY <1>2, <1>3, <1>4, <1>5, <1>6, <1>7, <1>8, <1>9, <1>10

\* Dropping an object loses nothing that is on disk.
LEMMA ReleaseKeeps ==
  ASSUME StoreAssumption, IInv, NEW i \in Ids, Release(i)
  PROVE  IInv'
<1> USE DEF IInv, StoreAssumption, StoreTypeOK
<1>1. /\ up /\ op = Idle
      /\ memory' \in [Ids -> Nat \cup {None}]
      /\ \A k \in Ids : memory'[k] = IF k = i THEN None ELSE memory[k]
      /\ UNCHANGED <<index, active, file, tomb, deleted, op, up, faults, crashes, born,
                     acked, gone, stuck, doubled>>
  BY DEF Release, Ready, disk, history
<1>2. StoreTypeOK'
  BY <1>1
<1>3. Progress'
  BY <1>1 DEF Progress, Creating, Saving, Deleting, Replacing, Recovering, Idle
<1>4. Ended'
  BY <1>1 DEF Ended
<1>5. Drawn'
  BY <1>1 DEF Drawn
<1>6. Recoverable'
  BY <1>1 DEF Recoverable, Contents
<1>7. Missing'
  BY <1>1 DEF Missing
<1>8. UpToDate'
  BY <1>1 DEF UpToDate, Contents
<1>9. DeletedStaysDeleted'
  BY <1>1 DEF DeletedStaysDeleted
<1>10. OrphansAreEmpty'
  BY <1>1 DEF OrphansAreEmpty
<1> QED BY <1>2, <1>3, <1>4, <1>5, <1>6, <1>7, <1>8, <1>9, <1>10

\* A save starts from an object that is not older than the file.
LEMMA BeginSaveKeeps ==
  ASSUME StoreAssumption, IInv, NEW i \in Ids, BeginSave(i)
  PROVE  IInv'
<1> USE DEF IInv, StoreAssumption, StoreTypeOK
<1>1. /\ up /\ op = Idle
      /\ i \notin deleted /\ memory[i] # None /\ DiskRevision(i) = memory[i]
      /\ op' = [kind |-> "save", step |-> "file", id |-> i, fresh |-> None,
                moved |-> None, todo |-> {}]
      /\ op' \in Operation
      /\ born' = born
      /\ UNCHANGED <<index, active, file, tomb, memory, deleted, up, faults, crashes,
                     acked, gone, stuck, doubled>>
  <2>1. StartOperation("save", "file", i, None)
    BY DEF BeginSave, Ready, MaySave
  <2>2. /\ op' = [kind |-> "save", step |-> "file", id |-> i, fresh |-> None,
                  moved |-> None, todo |-> {}]
        /\ op' \in Operation
    BY <2>1, StartForms DEF Kinds, Steps
  <2> QED
    BY <2>1, <2>2 DEF BeginSave, Ready, MaySave, StartOperation, disk, history
<1>2. StoreTypeOK'
  BY <1>1
<1>3. Progress'
  BY <1>1 DEF Progress, Creating, Saving, Deleting, Replacing, Recovering, DiskRevision,
         Drawn
<1>4. Ended'
  BY <1>1 DEF Ended
<1>5. Drawn'
  BY <1>1 DEF Drawn
<1>6. Recoverable'
  BY <1>1 DEF Recoverable, Contents
<1>7. Missing'
  BY <1>1 DEF Missing, Idle
<1>8. UpToDate'
  BY <1>1 DEF UpToDate, Contents
<1>9. DeletedStaysDeleted'
  BY <1>1 DEF DeletedStaysDeleted
<1>10. OrphansAreEmpty'
  BY <1>1 DEF OrphansAreEmpty
<1> QED BY <1>2, <1>3, <1>4, <1>5, <1>6, <1>7, <1>8, <1>9, <1>10

\* A deletion starts with the payload where it was.
LEMMA BeginDeleteKeeps ==
  ASSUME StoreAssumption, IInv, NEW i \in Ids, BeginDelete(i)
  PROVE  IInv'
<1> USE DEF IInv, StoreAssumption, StoreTypeOK
<1>1. /\ up /\ op = Idle
      /\ i \in index
      /\ op' = [kind |-> "delete", step |-> "move", id |-> i, fresh |-> None,
                moved |-> None, todo |-> {}]
      /\ op' \in Operation
      /\ born' = born
      /\ UNCHANGED <<index, active, file, tomb, memory, deleted, up, faults, crashes,
                     acked, gone, stuck, doubled>>
  <2>1. StartOperation("delete", "move", i, None)
    BY DEF BeginDelete, Ready
  <2>2. /\ op' = [kind |-> "delete", step |-> "move", id |-> i, fresh |-> None,
                  moved |-> None, todo |-> {}]
        /\ op' \in Operation
    BY <2>1, StartForms DEF Kinds, Steps
  <2> QED
    BY <2>1, <2>2 DEF BeginDelete, Ready, StartOperation, disk, history
<1>2. StoreTypeOK'
  BY <1>1
<1>3. Progress'
  BY <1>1 DEF Progress, Creating, Saving, Deleting, Replacing, Recovering
<1>4. Ended'
  BY <1>1 DEF Ended
<1>5. Drawn'
  BY <1>1 DEF Drawn
<1>6. Recoverable'
  BY <1>1 DEF Recoverable, Contents
<1>7. Missing'
  BY <1>1 DEF Missing, Idle
<1>8. UpToDate'
  BY <1>1 DEF UpToDate, Contents
<1>9. DeletedStaysDeleted'
  BY <1>1 DEF DeletedStaysDeleted
<1>10. OrphansAreEmpty'
  BY <1>1 DEF OrphansAreEmpty
<1> QED BY <1>2, <1>3, <1>4, <1>5, <1>6, <1>7, <1>8, <1>9, <1>10

\* Only an indexed session becomes active.
LEMMA SetActiveKeeps ==
  ASSUME StoreAssumption, IInv, NEW i \in Ids, SetActive(i)
  PROVE  IInv'
<1> USE DEF IInv, StoreAssumption, StoreTypeOK
<1>1. /\ up /\ op = Idle
      /\ i \in index
      /\ active' = i
      /\ UNCHANGED <<index, file, tomb, memory, deleted, op, up, faults, crashes, born,
                     acked, gone, stuck, doubled>>
  BY DEF SetActive, Ready, disk, history
<1>2. StoreTypeOK'
  BY <1>1
<1>3. Progress'
  BY <1>1 DEF Progress, Creating, Saving, Deleting, Replacing, Recovering, DiskRevision
<1>4. Ended'
  BY <1>1 DEF Ended
<1>5. Drawn'
  BY <1>1 DEF Drawn
<1>6. Recoverable'
  BY <1>1 DEF Recoverable, Contents
<1>7. Missing'
  BY <1>1 DEF Missing
<1>8. UpToDate'
  BY <1>1 DEF UpToDate, Contents
<1>9. DeletedStaysDeleted'
  BY <1>1 DEF DeletedStaysDeleted
<1>10. OrphansAreEmpty'
  BY <1>1 DEF OrphansAreEmpty
<1> QED BY <1>2, <1>3, <1>4, <1>5, <1>6, <1>7, <1>8, <1>9, <1>10

\* A replacement starts with the payload where it was and a fresh id.
LEMMA BeginReplaceKeeps ==
  ASSUME StoreAssumption, IInv, NEW i \in Ids, NEW j \in Ids, BeginReplace(i, j)
  PROVE  IInv'
<1> USE DEF IInv, StoreAssumption, StoreTypeOK
<1>1. /\ up /\ op = Idle
      /\ i \in index /\ j \notin born
      /\ op' = [kind |-> "replace", step |-> "file", id |-> i, fresh |-> j,
                moved |-> None, todo |-> {}]
      /\ op' \in Operation
      /\ born' = born \cup {j}
      /\ UNCHANGED <<index, active, file, tomb, memory, deleted, up, faults, crashes,
                     acked, gone, stuck, doubled>>
  <2>1. StartOperation("replace", "file", i, j)
    BY DEF BeginReplace, Ready
  <2>2. /\ op' = [kind |-> "replace", step |-> "file", id |-> i, fresh |-> j,
                  moved |-> None, todo |-> {}]
        /\ op' \in Operation
    BY <2>1, StartForms DEF Kinds, Steps
  <2> QED
    BY <2>1, <2>2 DEF BeginReplace, Ready, StartOperation, disk, history
<1>2. StoreTypeOK'
  BY <1>1
<1>3. Progress'
  BY <1>1 DEF Progress, Creating, Saving, Deleting, Replacing, Recovering, Drawn
<1>4. Ended'
  BY <1>1 DEF Ended
<1>5. Drawn'
  BY <1>1 DEF Drawn
<1>6. Recoverable'
  BY <1>1 DEF Recoverable, Contents
<1>7. Missing'
  BY <1>1 DEF Missing, Idle
<1>8. UpToDate'
  BY <1>1 DEF UpToDate, Contents
<1>9. DeletedStaysDeleted'
  BY <1>1 DEF DeletedStaysDeleted
<1>10. OrphansAreEmpty'
  BY <1>1 DEF OrphansAreEmpty
<1> QED BY <1>2, <1>3, <1>4, <1>5, <1>6, <1>7, <1>8, <1>9, <1>10

\* The file a save writes is newer than everything acknowledged.
LEMMA SaveFileKeeps ==
  ASSUME StoreAssumption, IInv, WriteFile, op.kind = "save"
  PROVE  IInv'
<1> USE DEF IInv, StoreAssumption, StoreTypeOK
<1>0. op.id \in Ids /\ memory[op.id] \in Nat /\ op.id \in index /\ op.id \notin gone
  BY DEF Operation, Progress, Saving, Drawn, DeletedStaysDeleted
<1>1. /\ up /\ op.step = "file"
      /\ op' \in Operation /\ op'.step = "index"
      /\ op'.kind = op.kind /\ op'.id = op.id /\ op'.fresh = op.fresh
      /\ op'.moved = op.moved /\ op'.todo = op.todo
      /\ file' \in [Ids -> Nat \cup {None}]
      /\ \A k \in Ids : file'[k] = IF k = op.id THEN memory[op.id] + 1 ELSE file[k]
      /\ memory' \in [Ids -> Nat \cup {None}]
      /\ \A k \in Ids : memory'[k] = IF k = op.id THEN memory[op.id] + 1 ELSE memory[k]
      /\ UNCHANGED <<index, active, tomb, deleted, up, faults, crashes, born, acked,
                     gone, stuck, doubled>>
  BY <1>0 DEF WriteFile, At, GoTo, Operation, Steps, disk, history
<1>2. StoreTypeOK'
  BY <1>0, <1>1
<1>3. Progress'
  BY <1>0, <1>1 DEF Progress, Creating, Saving, Deleting, Replacing, Recovering
<1>4. Ended'
  BY <1>0, <1>1 DEF Ended
<1>5. Drawn'
  BY <1>0, <1>1 DEF Drawn
<1>6. Recoverable'
  BY <1>0, <1>1 DEF Recoverable, Contents
<1>7. Missing'
  BY <1>0, <1>1 DEF Missing
<1>8. UpToDate'
  BY <1>0, <1>1 DEF UpToDate, Contents
<1>9. DeletedStaysDeleted'
  BY <1>0, <1>1 DEF DeletedStaysDeleted
<1>10. OrphansAreEmpty'
  BY <1>0, <1>1 DEF OrphansAreEmpty
<1> QED BY <1>2, <1>3, <1>4, <1>5, <1>6, <1>7, <1>8, <1>9, <1>10

\* The first file of a session is empty and belongs to no deleted session.
LEMMA CreateFileKeeps ==
  ASSUME StoreAssumption, IInv, WriteFile, op.kind # "save"
  PROVE  IInv'
<1> USE DEF IInv, StoreAssumption, StoreTypeOK
<1>0. op.fresh \in Ids /\ op.fresh \in born \ (index \cup gone)
  BY DEF Operation, WriteFile, At, Progress, Creating, Replacing
<1>1. /\ up /\ op.kind \in {"new", "replace"} /\ op.step = "file"
      /\ op' \in Operation /\ op'.step = IF op.kind = "replace" THEN "move" ELSE "index"
      /\ op'.kind = op.kind /\ op'.id = op.id /\ op'.fresh = op.fresh
      /\ op'.moved = op.moved /\ op'.todo = op.todo
      /\ file' \in [Ids -> Nat \cup {None}]
      /\ \A k \in Ids : file'[k] = IF k = op.fresh THEN 0 ELSE file[k]
      /\ UNCHANGED <<index, active, tomb, memory, deleted, up, faults, crashes, born,
                     acked, gone, stuck, doubled>>
  BY <1>0 DEF WriteFile, At, GoTo, Operation, Steps, disk, history
<1>2. StoreTypeOK'
  BY <1>0, <1>1
<1>3. Progress'
  BY <1>0, <1>1 DEF Progress, Creating, Saving, Deleting, Replacing, Recovering
<1>4. Ended'
  BY <1>0, <1>1 DEF Ended
<1>5. Drawn'
  BY <1>0, <1>1 DEF Drawn
<1>6. Recoverable'
  BY <1>0, <1>1 DEF Recoverable, Contents
<1>7. Missing'
  BY <1>0, <1>1 DEF Missing
<1>8. UpToDate'
  BY <1>0, <1>1 DEF UpToDate, Contents, Drawn
<1>9. DeletedStaysDeleted'
  BY <1>0, <1>1 DEF DeletedStaysDeleted
<1>10. OrphansAreEmpty'
  BY <1>0, <1>1 DEF OrphansAreEmpty
<1> QED BY <1>2, <1>3, <1>4, <1>5, <1>6, <1>7, <1>8, <1>9, <1>10

\* Moving the file away keeps its content in a tombstone; it is the only
\* one, or the session counts as doubled.
LEMMA MoveKeeps ==
  ASSUME StoreAssumption, IInv, MoveFile
  PROVE  IInv'
<1> USE DEF IInv, StoreAssumption, StoreTypeOK
<1>0. op.id \in Ids /\ op.id \in index \ gone
  BY DEF Operation, MoveFile, At, Progress, Deleting, DeletedStaysDeleted, Drawn
<1>1. /\ up /\ op.kind \in {"delete", "replace"} /\ op.step = "move"
      /\ op' \in Operation /\ op'.step = "index"
      /\ op'.kind = op.kind /\ op'.id = op.id /\ op'.fresh = op.fresh
      /\ op'.moved = file[op.id] /\ op'.todo = op.todo
      /\ file' \in [Ids -> Nat \cup {None}]
      /\ \A k \in Ids : file'[k] = IF k = op.id THEN None ELSE file[k]
      /\ tomb' \in [Ids -> SUBSET Nat]
      /\ \A k \in Ids : tomb'[k] =
             IF k = op.id THEN tomb[op.id] \cup ({file[op.id]} \ {None}) ELSE tomb[k]
      /\ doubled' =
          IF tomb[op.id] # {} /\ file[op.id] # None THEN doubled \cup {op.id} ELSE doubled
      /\ UNCHANGED <<index, active, memory, deleted, up, faults, crashes, born, acked,
                     gone, stuck>>
  <2>1. file[op.id] \in Nat \cup {None}
    BY <1>0
  <2>2. tomb' = [tomb EXCEPT ![op.id] = tomb[op.id] \cup ({file[op.id]} \ {None})]
    BY <1>0 DEF MoveFile, MoveAway
  <2>3. /\ tomb' \in [Ids -> SUBSET Nat]
        /\ \A k \in Ids : tomb'[k] =
               IF k = op.id THEN tomb[op.id] \cup ({file[op.id]} \ {None}) ELSE tomb[k]
    BY <1>0, <2>1, <2>2
  <2> QED BY <1>0, <2>1, <2>3 DEF MoveFile, At, Operation, Steps
<1>2. StoreTypeOK'
  BY <1>0, <1>1
<1>3. Progress'
  BY <1>0, <1>1 DEF Progress, Creating, Saving, Deleting, Replacing, Recovering
<1>4. Ended'
  BY <1>0, <1>1 DEF Ended
<1>5. Drawn'
  BY <1>0, <1>1 DEF Drawn
<1>6. Recoverable'
  BY <1>0, <1>1 DEF Recoverable, Contents
<1>7. Missing'
  BY <1>0, <1>1 DEF Missing
<1>8. UpToDate'
  BY <1>0, <1>1 DEF UpToDate, Contents
<1>9. DeletedStaysDeleted'
  BY <1>0, <1>1 DEF DeletedStaysDeleted
<1>10. OrphansAreEmpty'
  BY <1>0, <1>1 DEF OrphansAreEmpty
<1> QED BY <1>2, <1>3, <1>4, <1>5, <1>6, <1>7, <1>8, <1>9, <1>10

\* The index names a new session only after its file was written.
LEMMA CommitNewKeeps ==
  ASSUME StoreAssumption, IInv, WriteIndex, op.kind = "new"
  PROVE  IInv'
<1> USE DEF IInv, StoreAssumption, StoreTypeOK
<1>0. op.fresh \in Ids /\ op.fresh \in born \ (index \cup gone)
  BY DEF Operation, Progress, Creating
<1>1. /\ up /\ op.step = "index"
      /\ op' = Idle /\ op' \in Operation
      /\ op'.kind = "none" /\ op'.step = "idle" /\ op'.id = None
      /\ op'.fresh = None /\ op'.todo = {}
      /\ index' = index \cup {op.fresh}
      /\ active' = op.fresh
      /\ memory' \in [Ids -> Nat \cup {None}]
      /\ \A k \in Ids : memory'[k] = IF k = op.fresh THEN 0 ELSE memory[k]
      /\ UNCHANGED <<file, tomb, deleted, up, faults, crashes, born, acked, gone, stuck,
                     doubled>>
  BY <1>0 DEF WriteIndex, At, NewIndex, NewActive, Operation, Idle, Kinds, Steps, disk,
         history
<1>2. StoreTypeOK'
  BY <1>0, <1>1
<1>3. Progress'
  BY <1>0, <1>1 DEF Progress, Creating, Saving, Deleting, Replacing, Recovering
<1>4. Ended'
  BY <1>0, <1>1 DEF Ended
<1>5. Drawn'
  BY <1>0, <1>1 DEF Drawn
<1>6. Recoverable'
  BY <1>0, <1>1 DEF Recoverable, Contents, Progress, Creating
<1>7. Missing'
  BY <1>0, <1>1 DEF Missing, Progress, Creating
<1>8. UpToDate'
  BY <1>0, <1>1 DEF UpToDate, Contents, Drawn
<1>9. DeletedStaysDeleted'
  BY <1>0, <1>1 DEF DeletedStaysDeleted
<1>10. OrphansAreEmpty'
  BY <1>0, <1>1 DEF OrphansAreEmpty
<1> QED BY <1>2, <1>3, <1>4, <1>5, <1>6, <1>7, <1>8, <1>9, <1>10

\* What a save acknowledges is what its file holds.
LEMMA CommitSaveKeeps ==
  ASSUME StoreAssumption, IInv, WriteIndex, op.kind = "save"
  PROVE  IInv'
<1> USE DEF IInv, StoreAssumption, StoreTypeOK
<1>0. op.id \in Ids /\ op.id \in index \ gone
      /\ (op.step = "index" => file[op.id] \in Nat)
  BY DEF Operation, Progress, Saving, Drawn, DeletedStaysDeleted
<1>1. /\ up /\ op.step = "index"
      /\ op' = Idle /\ op' \in Operation
      /\ op'.kind = "none" /\ op'.step = "idle" /\ op'.id = None
      /\ op'.fresh = None /\ op'.todo = {}
      /\ index' = index
      /\ active' \in {active, "incomplete"}
      /\ acked' \in [Ids -> Nat]
      /\ \A k \in Ids : acked'[k] = IF k = op.id THEN file[op.id] ELSE acked[k]
      /\ UNCHANGED <<file, tomb, memory, deleted, up, faults, crashes, born, gone, stuck,
                     doubled>>
  BY <1>0 DEF WriteIndex, At, NewIndex, NewActive, Operation, Idle, Kinds, Steps, disk,
         history
<1>2. StoreTypeOK'
  BY <1>0, <1>1
<1>3. Progress'
  BY <1>0, <1>1 DEF Progress, Creating, Saving, Deleting, Replacing, Recovering
<1>4. Ended'
  BY <1>0, <1>1 DEF Ended
<1>5. Drawn'
  BY <1>0, <1>1 DEF Drawn
<1>6. Recoverable'
  BY <1>0, <1>1 DEF Recoverable, Contents
<1>7. Missing'
  BY <1>0, <1>1 DEF Missing
<1>8. UpToDate'
  BY <1>0, <1>1 DEF UpToDate, Contents, Progress, Saving, DiskRevision
<1>9. DeletedStaysDeleted'
  BY <1>0, <1>1 DEF DeletedStaysDeleted
<1>10. OrphansAreEmpty'
  BY <1>0, <1>1 DEF OrphansAreEmpty
<1> QED BY <1>2, <1>3, <1>4, <1>5, <1>6, <1>7, <1>8, <1>9, <1>10

\* A committed deletion leaves no file and no entry of the session.
LEMMA CommitDeleteKeeps ==
  ASSUME StoreAssumption, IInv, WriteIndex, op.kind = "delete"
  PROVE  IInv'
<1> USE DEF IInv, StoreAssumption, StoreTypeOK
<1>0. op.id \in Ids
  BY DEF Operation, Progress, Deleting, DeletedStaysDeleted, Drawn, Replacing, WriteIndex,
         At
<1>1. /\ up /\ op.step = "index"
      /\ op' \in Operation /\ op'.step = "trash"
      /\ op'.kind = op.kind /\ op'.id = op.id /\ op'.fresh = op.fresh
      /\ op'.moved = op.moved /\ op'.todo = op.todo
      /\ index' = index \ {op.id}
      /\ active' = IF active = op.id THEN None ELSE active
      /\ deleted' = deleted \cup {op.id}
      /\ gone' = gone \cup {op.id}
      /\ UNCHANGED <<file, tomb, memory, up, faults, crashes, born, acked, stuck, doubled>>
  BY <1>0 DEF WriteIndex, At, NewIndex, NewActive, GoTo, Operation, Steps, disk, history
<1>2. StoreTypeOK'
  BY <1>0, <1>1
<1>3. Progress'
  BY <1>0, <1>1 DEF Progress, Creating, Saving, Deleting, Replacing, Recovering
<1>4. Ended'
  BY <1>0, <1>1 DEF Ended
<1>5. Drawn'
  BY <1>0, <1>1 DEF Drawn, Progress, Deleting
<1>6. Recoverable'
  BY <1>0, <1>1 DEF Recoverable, Contents
<1>7. Missing'
  BY <1>0, <1>1 DEF Missing
<1>8. UpToDate'
  BY <1>0, <1>1 DEF UpToDate, Contents
<1>9. DeletedStaysDeleted'
  BY <1>0, <1>1 DEF DeletedStaysDeleted, Progress, Deleting
<1>10. OrphansAreEmpty'
  BY <1>0, <1>1 DEF OrphansAreEmpty, Progress, Deleting
<1> QED BY <1>2, <1>3, <1>4, <1>5, <1>6, <1>7, <1>8, <1>9, <1>10

\* A committed replacement makes the new session the active one and leaves
\* no file of the old one.
LEMMA CommitReplaceKeeps ==
  ASSUME StoreAssumption, IInv, WriteIndex, op.kind = "replace"
  PROVE  IInv'
<1> USE DEF IInv, StoreAssumption, StoreTypeOK
<1>0. op.id \in Ids /\ op.fresh \in Ids \ index /\ op.fresh \in born
  BY DEF Operation, Progress, Deleting, DeletedStaysDeleted, Drawn, Replacing, WriteIndex,
         At
<1>1. /\ up /\ op.step = "index"
      /\ op' \in Operation /\ op'.step = "trash"
      /\ op'.kind = op.kind /\ op'.id = op.id /\ op'.fresh = op.fresh
      /\ op'.moved = op.moved /\ op'.todo = op.todo
      /\ index' = (index \ {op.id}) \cup {op.fresh}
      /\ active' = op.fresh
      /\ deleted' = deleted \cup {op.id}
      /\ gone' = gone \cup {op.id}
      /\ UNCHANGED <<file, tomb, memory, up, faults, crashes, born, acked, stuck, doubled>>
  BY <1>0 DEF WriteIndex, At, NewIndex, NewActive, GoTo, Operation, Steps, disk, history
<1>2. StoreTypeOK'
  BY <1>0, <1>1
<1>3. Progress'
  BY <1>0, <1>1 DEF Progress, Creating, Saving, Deleting, Replacing, Recovering
<1>4. Ended'
  BY <1>0, <1>1 DEF Ended
<1>5. Drawn'
  BY <1>0, <1>1 DEF Drawn, Progress, Deleting
<1>6. Recoverable'
  BY <1>0, <1>1 DEF Recoverable, Contents, Progress, Replacing
<1>7. Missing'
  BY <1>0, <1>1 DEF Missing, Progress, Replacing
<1>8. UpToDate'
  BY <1>0, <1>1 DEF UpToDate, Contents
<1>9. DeletedStaysDeleted'
  BY <1>0, <1>1 DEF DeletedStaysDeleted, Progress, Deleting, Replacing
<1>10. OrphansAreEmpty'
  BY <1>0, <1>1 DEF OrphansAreEmpty, Progress, Deleting
<1> QED BY <1>2, <1>3, <1>4, <1>5, <1>6, <1>7, <1>8, <1>9, <1>10

\* A rollback puts the content back that the move took away.
LEMMA UndoKeeps ==
  ASSUME StoreAssumption, IInv, Undo
  PROVE  IInv'
<1> USE DEF IInv, StoreAssumption, StoreTypeOK
<1>0. op.id \in Ids /\ op.id \in index \ gone /\ op.moved \in Nat
      /\ op.moved \in tomb[op.id] /\ op.todo = {} /\ file[op.id] = None
  BY DEF Operation, Undo, At, Recovering, Progress, Deleting, DeletedStaysDeleted, Drawn
<1>1. /\ up /\ op.kind \in {"delete", "replace"} /\ op.step = "undo"
      /\ op' \in Operation /\ op'.todo = {}
      /\ \/ op' = Idle /\ op'.kind = "none"
         \/ op.kind = "replace" /\ op'.kind = "replace" /\ op'.step = "unlink"
              /\ op'.id = op.id /\ op'.fresh = op.fresh
      /\ file' \in [Ids -> Nat \cup {None}]
      /\ \A k \in Ids : file'[k] = IF k = op.id THEN op.moved ELSE file[k]
      /\ tomb' \in [Ids -> SUBSET Nat]
      /\ \A k \in Ids : tomb'[k] = IF k = op.id THEN tomb[op.id] \ {op.moved} ELSE tomb[k]
      /\ stuck' = stuck \ {op.id}
      /\ UNCHANGED <<index, active, memory, deleted, up, faults, crashes, born, acked,
                     gone, doubled>>
  BY <1>0 DEF Undo, At, GoTo, Restored, Operation, Idle, Kinds, Steps, disk, history
<1>2. StoreTypeOK'
  BY <1>0, <1>1
<1>3. Progress'
  BY <1>0, <1>1 DEF Progress, Creating, Saving, Deleting, Replacing, Recovering
<1>4. Ended'
  BY <1>0, <1>1 DEF Ended
<1>5. Drawn'
  BY <1>0, <1>1 DEF Drawn
<1>6. Recoverable'
  BY <1>0, <1>1 DEF Recoverable, Contents
<1>7. Missing'
  BY <1>0, <1>1 DEF Missing
<1>8. UpToDate'
  BY <1>0, <1>1 DEF UpToDate, Contents
<1>9. DeletedStaysDeleted'
  BY <1>0, <1>1 DEF DeletedStaysDeleted
<1>10. OrphansAreEmpty'
  BY <1>0, <1>1 DEF OrphansAreEmpty
<1> QED BY <1>2, <1>3, <1>4, <1>5, <1>6, <1>7, <1>8, <1>9, <1>10

\* The file that is removed is of a session that the index does not name.
LEMMA UnlinkKeeps ==
  ASSUME StoreAssumption, IInv, Unlink
  PROVE  IInv'
<1> USE DEF IInv, StoreAssumption, StoreTypeOK
<1>0. op.fresh \in Ids /\ op.fresh \in born \ (index \cup gone)
  BY DEF Operation, Unlink, At, Progress, Creating, Replacing
<1>1. /\ up /\ op.kind \in {"new", "replace"} /\ op.step = "unlink"
      /\ op' = Idle /\ op' \in Operation
      /\ op'.kind = "none" /\ op'.step = "idle" /\ op'.id = None
      /\ op'.fresh = None /\ op'.todo = {}
      /\ file' \in [Ids -> Nat \cup {None}]
      /\ \A k \in Ids : file'[k] = IF k = op.fresh THEN None ELSE file[k]
      /\ UNCHANGED <<index, active, tomb, memory, deleted, up, faults, crashes, born,
                     acked, gone, stuck, doubled>>
  BY <1>0 DEF Unlink, At, Operation, Idle, Kinds, Steps, disk, history
<1>2. StoreTypeOK'
  BY <1>0, <1>1
<1>3. Progress'
  BY <1>0, <1>1 DEF Progress, Creating, Saving, Deleting, Replacing, Recovering
<1>4. Ended'
  BY <1>0, <1>1 DEF Ended
<1>5. Drawn'
  BY <1>0, <1>1 DEF Drawn
<1>6. Recoverable'
  BY <1>0, <1>1 DEF Recoverable, Contents
<1>7. Missing'
  BY <1>0, <1>1 DEF Missing
<1>8. UpToDate'
  BY <1>0, <1>1 DEF UpToDate, Contents, Drawn
<1>9. DeletedStaysDeleted'
  BY <1>0, <1>1 DEF DeletedStaysDeleted
<1>10. OrphansAreEmpty'
  BY <1>0, <1>1 DEF OrphansAreEmpty
<1> QED BY <1>2, <1>3, <1>4, <1>5, <1>6, <1>7, <1>8, <1>9, <1>10

\* The trash takes a payload of a deleted session only.
LEMMA TrashKeeps ==
  ASSUME StoreAssumption, IInv, Trash
  PROVE  IInv'
<1> USE DEF IInv, StoreAssumption, StoreTypeOK
<1>0. op.id \in Ids /\ op.id \in gone
  BY DEF Operation, Trash, At, Progress, Deleting, DeletedStaysDeleted, Drawn
<1>1. /\ up /\ op.kind \in {"delete", "replace"} /\ op.step = "trash"
      /\ op' = Idle /\ op' \in Operation
      /\ op'.kind = "none" /\ op'.step = "idle" /\ op'.id = None
      /\ op'.fresh = None /\ op'.todo = {}
      /\ tomb' \in [Ids -> SUBSET Nat]
      /\ \A k \in Ids : tomb'[k] \subseteq tomb[k] /\ (k # op.id => tomb'[k] = tomb[k])
      /\ UNCHANGED <<index, active, file, memory, deleted, up, faults, crashes, born,
                     acked, gone, stuck, doubled>>
  BY <1>0 DEF Trash, At, Operation, Idle, Kinds, Steps, disk, history
<1>2. StoreTypeOK'
  BY <1>0, <1>1
<1>3. Progress'
  BY <1>0, <1>1 DEF Progress, Creating, Saving, Deleting, Replacing, Recovering
<1>4. Ended'
  BY <1>0, <1>1 DEF Ended
<1>5. Drawn'
  BY <1>0, <1>1 DEF Drawn
<1>6. Recoverable'
  BY <1>0, <1>1 DEF Recoverable, Contents, DeletedStaysDeleted
<1>7. Missing'
  BY <1>0, <1>1 DEF Missing
<1>8. UpToDate'
  BY <1>0, <1>1 DEF UpToDate, Contents
<1>9. DeletedStaysDeleted'
  BY <1>0, <1>1 DEF DeletedStaysDeleted
<1>10. OrphansAreEmpty'
  BY <1>0, <1>1 DEF OrphansAreEmpty
<1> QED BY <1>2, <1>3, <1>4, <1>5, <1>6, <1>7, <1>8, <1>9, <1>10

\* A save that fails at its file acknowledges nothing; one that fails at the
\* index has its turn on disk.
LEMMA FailSaveKeeps ==
  ASSUME StoreAssumption, IInv, Fault, op.kind = "save"
  PROVE  IInv'
<1> USE DEF IInv, StoreAssumption, StoreTypeOK
<1>0. op.id \in Ids /\ op.id \in index \ gone
      /\ (op.step = "index" => file[op.id] \in Nat /\ memory[op.id] = file[op.id])
      /\ op.step \in {"file", "index"}
  BY DEF Operation, Progress, Saving, Drawn, DeletedStaysDeleted
<1>1. /\ up
      /\ op' = Idle /\ op' \in Operation
      /\ op'.kind = "none" /\ op'.step = "idle" /\ op'.id = None
      /\ op'.fresh = None /\ op'.todo = {}
      /\ faults' \in Nat
      /\ acked' \in [Ids -> Nat]
      /\ \A k \in Ids : acked'[k] = acked[k]
            \/ (k = op.id /\ acked'[k] = file[k] /\ memory[k] = file[k])
      /\ UNCHANGED <<index, active, file, tomb, memory, deleted, up, crashes, born, gone,
                     stuck, doubled>>
  <2>1. acked' \in [Ids -> Nat]
        /\ \A k \in Ids : acked'[k] = acked[k]
                                      \/ (k = op.id /\ acked'[k] = file[k] /\ memory[k] = file[k])
    <3>1. acked' = IF op.step = "index" THEN [acked EXCEPT ![op.id] = file[op.id]] ELSE acked
      BY DEF Fault
    <3>2. CASE op.step = "index"
      <4>1. acked' = [acked EXCEPT ![op.id] = file[op.id]]
        BY <3>1, <3>2
      <4> QED BY <1>0, <3>2, <4>1
    <3>3. CASE op.step = "file"
      BY <3>1, <3>3
    <3> QED BY <1>0, <3>2, <3>3
  <2>2. op' = Idle
    BY <1>0 DEF Fault, AfterFault
  <2>3. UNCHANGED stuck
    BY <1>0 DEF Fault
  <2> QED BY <1>0, <2>1, <2>2, <2>3 DEF Fault, Operation, Idle, Kinds, Steps, disk
<1>2. StoreTypeOK'
  BY <1>0, <1>1
<1>3. Progress'
  BY <1>0, <1>1 DEF Progress, Creating, Saving, Deleting, Replacing, Recovering
<1>4. Ended'
  BY <1>0, <1>1 DEF Ended
<1>5. Drawn'
  BY <1>0, <1>1 DEF Drawn
<1>6. Recoverable'
  BY <1>0, <1>1 DEF Recoverable, Contents
<1>7. Missing'
  BY <1>0, <1>1 DEF Missing
<1>8. UpToDate'
  BY <1>0, <1>1 DEF UpToDate, Contents
<1>9. DeletedStaysDeleted'
  BY <1>0, <1>1 DEF DeletedStaysDeleted
<1>10. OrphansAreEmpty'
  BY <1>0, <1>1 DEF OrphansAreEmpty
<1> QED BY <1>2, <1>3, <1>4, <1>5, <1>6, <1>7, <1>8, <1>9, <1>10

\* A rollback that fails leaves the payload in its tombstone.
LEMMA FailUndoKeeps ==
  ASSUME StoreAssumption, IInv, Fault, op.step = "undo"
  PROVE  IInv'
<1> USE DEF IInv, StoreAssumption, StoreTypeOK
<1>0. op.id \in index /\ op.kind \in {"delete", "replace"} /\ op.todo = {}
  BY DEF Operation, Fault, Recovering, Creating, Saving, Progress, Deleting,
         DeletedStaysDeleted, Drawn
<1>1. /\ up /\ op.kind \in {"delete", "replace"} /\ op.id \in Ids
      /\ faults' \in Nat
      /\ op' \in Operation /\ op'.todo = {}
      /\ \/ op' = Idle /\ op'.kind = "none"
         \/ op.kind = "replace" /\ op'.kind = "replace" /\ op'.step = "unlink"
              /\ op'.id = op.id /\ op'.fresh = op.fresh
      /\ stuck' = stuck \cup {op.id}
      /\ UNCHANGED <<index, active, file, tomb, memory, deleted, up, crashes, born,
                     acked, gone, doubled>>
  BY <1>0 DEF Fault, AfterFault, Operation, Idle, Kinds, Steps, disk, history
<1>2. StoreTypeOK'
  BY <1>0, <1>1
<1>3. Progress'
  BY <1>0, <1>1 DEF Progress, Creating, Saving, Deleting, Replacing, Recovering
<1>4. Ended'
  BY <1>0, <1>1 DEF Ended
<1>5. Drawn'
  BY <1>0, <1>1 DEF Drawn
<1>6. Recoverable'
  BY <1>0, <1>1 DEF Recoverable, Contents
<1>7. Missing'
  BY <1>0, <1>1 DEF Missing
<1>8. UpToDate'
  BY <1>0, <1>1 DEF UpToDate, Contents
<1>9. DeletedStaysDeleted'
  BY <1>0, <1>1 DEF DeletedStaysDeleted
<1>10. OrphansAreEmpty'
  BY <1>0, <1>1 DEF OrphansAreEmpty
<1> QED BY <1>2, <1>3, <1>4, <1>5, <1>6, <1>7, <1>8, <1>9, <1>10

\* Any other step that fails is followed by the rollback of the steps before it.
LEMMA FailOtherKeeps ==
  ASSUME StoreAssumption, IInv, Fault, op.kind # "save", op.step # "undo"
  PROVE  IInv'
<1> USE DEF IInv, StoreAssumption, StoreTypeOK
<1>0. op.todo = {} /\ op.step # "trash" /\ op.kind \in {"new", "delete", "replace"}
  BY DEF Operation, Fault, Progress, Recovering
<1>1. /\ up /\ op.kind \in {"new", "delete", "replace"}
      /\ faults' \in Nat
      /\ op' \in Operation /\ op'.todo = {}
      /\ \/ op' = Idle /\ op'.kind = "none" /\ ~(op.step = "index" /\ op.moved # None)
         \/ /\ op.kind \in {"new", "replace"} /\ op'.kind = op.kind /\ op'.step = "unlink"
              /\ op'.id = op.id /\ op'.fresh = op.fresh
            /\ op.kind = "replace" => ~(op.step = "index" /\ op.moved # None)
         \/ /\ op.kind \in {"delete", "replace"} /\ op.step = "index" /\ op.moved # None
            /\ op'.kind = op.kind /\ op'.step = "undo"
                 /\ op'.id = op.id /\ op'.fresh = op.fresh /\ op'.moved = op.moved
      /\ UNCHANGED <<index, active, file, tomb, memory, deleted, up, crashes, born,
                     acked, gone, stuck, doubled>>
  BY <1>0 DEF Fault, AfterFault, Operation, Idle, Kinds, Steps, disk, history
<1>2. StoreTypeOK'
  BY <1>0, <1>1
<1>3. Progress'
  <2>1. Creating'
    BY <1>0, <1>1 DEF Progress, Creating
  <2>2. Saving' /\ Recovering'
    BY <1>0, <1>1 DEF Saving, Recovering
  <2>3. Deleting'
    BY <1>0, <1>1 DEF Progress, Deleting, Creating
  <2>4. Replacing'
    BY <1>0, <1>1 DEF Progress, Replacing
  <2> QED BY <2>1, <2>2, <2>3, <2>4 DEF Progress
<1>4. Ended'
  BY <1>0, <1>1 DEF Ended
<1>5. Drawn'
  BY <1>0, <1>1 DEF Drawn
<1>6. Recoverable'
  BY <1>0, <1>1 DEF Recoverable, Contents
<1>7. Missing'
  BY <1>0, <1>1 DEF Missing
<1>8. UpToDate'
  BY <1>0, <1>1 DEF UpToDate, Contents
<1>9. DeletedStaysDeleted'
  BY <1>0, <1>1 DEF DeletedStaysDeleted
<1>10. OrphansAreEmpty'
  BY <1>0, <1>1 DEF OrphansAreEmpty
<1> QED BY <1>2, <1>3, <1>4, <1>5, <1>6, <1>7, <1>8, <1>9, <1>10

\* The end of the process loses what was in memory, never what was on disk.
LEMMA CrashKeeps ==
  ASSUME StoreAssumption, IInv, Crash
  PROVE  IInv'
<1> USE DEF IInv, StoreAssumption, StoreTypeOK
<1>1. /\ up' = FALSE /\ crashes' \in Nat
      /\ op' = Idle /\ op' \in Operation
      /\ op'.kind = "none" /\ op'.step = "idle" /\ op'.id = None
      /\ op'.fresh = None /\ op'.todo = {}
      /\ memory' \in [Ids -> Nat \cup {None}] /\ \A k \in Ids : memory'[k] = None
      /\ deleted' = {}
      /\ stuck' = stuck \cup {k \in index : file[k] = None}
      /\ UNCHANGED <<index, active, file, tomb, faults, born, acked, gone, doubled>>
  BY DEF Crash, Operation, Idle, Kinds, Steps, disk, history
<1>2. StoreTypeOK'
  BY <1>1
<1>3. Progress'
  BY <1>1 DEF Progress, Creating, Saving, Deleting, Replacing, Recovering
<1>4. Ended'
  BY <1>1 DEF Ended
<1>5. Drawn'
  BY <1>1 DEF Drawn
<1>6. Recoverable'
  BY <1>1 DEF Recoverable, Contents
<1>7. Missing'
  BY <1>1 DEF Missing
<1>8. UpToDate'
  BY <1>1 DEF UpToDate, Contents
<1>9. DeletedStaysDeleted'
  BY <1>1 DEF DeletedStaysDeleted
<1>10. OrphansAreEmpty'
  BY <1>1 DEF OrphansAreEmpty
<1> QED BY <1>2, <1>3, <1>4, <1>5, <1>6, <1>7, <1>8, <1>9, <1>10

\* The recovery starts with the tombstones that are there.
LEMMA RestartKeeps ==
  ASSUME StoreAssumption, IInv, Restart
  PROVE  IInv'
<1> USE DEF IInv, StoreAssumption, StoreTypeOK
<1>1. /\ ~up /\ up'
      /\ op' \in Operation
      /\ op'.kind = "recover" /\ op'.step = "recover"
      /\ op'.id = None /\ op'.fresh = None /\ op'.moved = None
      /\ \A t \in op'.todo : t[2] \in tomb[t[1]]
      /\ UNCHANGED <<index, active, file, tomb, memory, deleted, faults, crashes, born,
                     acked, gone, stuck, doubled>>
  <2> DEFINE todo == {t \in Ids \X (0 .. MaxTurns) : t[2] \in tomb[t[1]]}
  <2>1. todo \in SUBSET (Ids \X Nat)
    OBVIOUS
  <2>2. \A t \in todo : t[2] \in tomb[t[1]]
    OBVIOUS
  <2>3. ~up /\ up' /\ UNCHANGED <<index, active, file, tomb, memory, deleted, faults,
                                  crashes, born, acked, gone, stuck, doubled>>
    BY DEF Restart, disk, history
  <2>4. op' = [kind |-> "recover", step |-> "recover", id |-> None, fresh |-> None,
               moved |-> None, todo |-> todo]
    BY DEF Restart, Idle
  <2> HIDE DEF todo
  <2>5. op' \in Operation
    BY <2>1, <2>4 DEF Operation, Kinds, Steps
  <2> QED BY <2>2, <2>3, <2>4, <2>5
<1>2. StoreTypeOK'
  BY <1>1
<1>3. Progress'
  BY <1>1 DEF Progress, Creating, Saving, Deleting, Replacing, Recovering
<1>4. Ended'
  BY <1>1 DEF Ended
<1>5. Drawn'
  BY <1>1 DEF Drawn
<1>6. Recoverable'
  BY <1>1 DEF Recoverable, Contents
<1>7. Missing'
  BY <1>1 DEF Missing, Idle, Ended
<1>8. UpToDate'
  BY <1>1 DEF UpToDate, Contents
<1>9. DeletedStaysDeleted'
  BY <1>1 DEF DeletedStaysDeleted
<1>10. OrphansAreEmpty'
  BY <1>1 DEF OrphansAreEmpty
<1> QED BY <1>2, <1>3, <1>4, <1>5, <1>6, <1>7, <1>8, <1>9, <1>10

\* The recovery puts back the one payload of an indexed session that has no
\* file, and trashes only what has a file or no entry.
LEMMA RecoverTombstoneKeeps ==
  ASSUME StoreAssumption, IInv, NEW i \in Ids, NEW c \in 0 .. MaxTurns, RecoverTombstone(i, c)
  PROVE  IInv'
<1> USE DEF IInv, StoreAssumption, StoreTypeOK
<1>0. c \in Nat /\ op.todo \in SUBSET (Ids \X Nat)
  BY DEF Operation
<1>1. /\ up /\ op.kind = "recover"
      /\ op' \in Operation /\ op'.step = "recover"
      /\ op'.kind = op.kind /\ op'.id = op.id /\ op'.fresh = op.fresh
      /\ op'.todo = op.todo \ {<<i, c>>} /\ <<i, c>> \in op.todo
      /\ faults' \in Nat
      /\ \/ /\ \A k \in Ids : tomb'[k] = IF k = i THEN tomb[i] \ {c} ELSE tomb[k]
            /\ \A k \in Ids : file'[k] = IF k = i /\ i \in index /\ file[i] = None 
                     THEN c ELSE file[k]
            /\ stuck' = IF i \in index /\ file[i] = None THEN stuck \ {i} ELSE stuck
         \/ UNCHANGED <<tomb, file, stuck>>
      /\ tomb' \in [Ids -> SUBSET Nat] /\ file' \in [Ids -> Nat \cup {None}]
      /\ UNCHANGED <<index, active, memory, deleted, up, crashes, born, acked, gone,
                     doubled>>
  <2>1. c \in Nat /\ op' \in Operation /\ <<i, c>> \in op.todo /\ up /\ op.step = "recover"
        /\ op.kind = "recover" /\ op'.kind = op.kind
             /\ op'.id = op.id /\ op'.fresh = op.fresh
        /\ op'.step = "recover" /\ op'.todo = op.todo \ {<<i, c>>}
    <3>1. op' = [op EXCEPT !.todo = @ \ {<<i, c>>}]
      BY DEF RecoverTombstone
    <3>2. up /\ op.kind = "recover" /\ op.step = "recover" /\ <<i, c>> \in op.todo
      BY DEF RecoverTombstone, At
    <3> QED BY <1>0, <3>1, <3>2 DEF Operation
  <2>0. UNCHANGED <<index, active, memory, deleted, up, crashes, born, acked, gone,
                    doubled>>
    BY DEF RecoverTombstone
  <2>2. CASE UNCHANGED <<tomb, file, stuck>> /\ faults' = faults + 1
    BY <2>0, <2>1, <2>2
  <2>3. CASE /\ UNCHANGED faults
             /\ tomb' = [tomb EXCEPT ![i] = tomb[i] \ {c}]
             /\ file' = IF i \in index /\ file[i] = None THEN [file EXCEPT ![i] = c] ELSE file
             /\ stuck' = IF i \in index /\ file[i] = None THEN stuck \ {i} ELSE stuck
    <3>1. tomb' \in [Ids -> SUBSET Nat]
          /\ \A k \in Ids : tomb'[k] = IF k = i THEN tomb[i] \ {c} ELSE tomb[k]
      BY <2>3
    <3>2. file' \in [Ids -> Nat \cup {None}]
          /\ \A k \in Ids : file'[k] = IF k = i /\ i \in index /\ file[i] = None 
                                                      THEN c ELSE file[k]
      <4>1. CASE i \in index /\ file[i] = None
        <5>1. file' = [file EXCEPT ![i] = c]
          BY <2>3, <4>1
        <5> QED BY <2>1, <4>1, <5>1
      <4>2. CASE ~(i \in index /\ file[i] = None)
        <5>1. file' = file
          BY <2>3, <4>2
        <5> QED BY <4>2, <5>1
      <4> QED BY <4>1, <4>2
    <3> QED BY <2>0, <2>1, <2>3, <3>1, <3>2
  <2> QED BY <2>2, <2>3 DEF RecoverTombstone, IsInterrupted, At
<1>2. StoreTypeOK'
  BY <1>0, <1>1
<1>3. Progress'
  BY <1>0, <1>1 DEF Progress, Creating, Saving, Deleting, Replacing, Recovering
<1>4. Ended'
  BY <1>0, <1>1 DEF Ended
<1>5. Drawn'
  BY <1>0, <1>1 DEF Drawn
<1>6. Recoverable'
  BY <1>0, <1>1 DEF Recoverable, Contents
<1>7. Missing'
  BY <1>0, <1>1 DEF Missing
<1>8. UpToDate'
  BY <1>0, <1>1 DEF UpToDate, Contents, Progress, Recovering, Drawn
<1>9. DeletedStaysDeleted'
  BY <1>0, <1>1 DEF DeletedStaysDeleted
<1>10. OrphansAreEmpty'
  BY <1>0, <1>1 DEF OrphansAreEmpty
<1> QED BY <1>2, <1>3, <1>4, <1>5, <1>6, <1>7, <1>8, <1>9, <1>10

\* After the recovery no operation is under way.
LEMMA RecoveredKeeps ==
  ASSUME StoreAssumption, IInv, Recovered
  PROVE  IInv'
<1> USE DEF IInv, StoreAssumption, StoreTypeOK
<1>1. /\ up /\ op.kind = "recover"
      /\ op' = Idle /\ op' \in Operation
      /\ op'.kind = "none" /\ op'.step = "idle" /\ op'.id = None
      /\ op'.fresh = None /\ op'.todo = {}
      /\ UNCHANGED <<index, active, file, tomb, memory, deleted, up, faults, crashes,
                     born, acked, gone, stuck, doubled>>
  BY DEF Recovered, At, Operation, Idle, Kinds, Steps, disk, history
<1>2. StoreTypeOK'
  BY <1>1
<1>3. Progress'
  BY <1>1 DEF Progress, Creating, Saving, Deleting, Replacing, Recovering
<1>4. Ended'
  BY <1>1 DEF Ended
<1>5. Drawn'
  BY <1>1 DEF Drawn
<1>6. Recoverable'
  BY <1>1 DEF Recoverable, Contents
<1>7. Missing'
  BY <1>1 DEF Missing
<1>8. UpToDate'
  BY <1>1 DEF UpToDate, Contents
<1>9. DeletedStaysDeleted'
  BY <1>1 DEF DeletedStaysDeleted
<1>10. OrphansAreEmpty'
  BY <1>1 DEF OrphansAreEmpty
<1> QED BY <1>2, <1>3, <1>4, <1>5, <1>6, <1>7, <1>8, <1>9, <1>10

\* The empty directory satisfies the invariant.
LEMMA InitIInv == ASSUME StoreAssumption, StoreInit PROVE IInv
<1>1. StoreTypeOK
  BY DEF StoreInit, StoreAssumption, StoreTypeOK, Idle, Operation, Kinds, Steps
<1>2. op.kind = "none" /\ op = Idle /\ op.todo = {}
  BY DEF StoreInit, Idle
<1>3. Progress
  BY <1>2 DEF Progress, Creating, Saving, Deleting, Replacing, Recovering
<1>4. Ended /\ Drawn /\ Recoverable /\ Missing
  BY StoreAssumption DEF StoreInit, Ended, Drawn, Recoverable, Missing, StoreAssumption
<1>5. UpToDate /\ DeletedStaysDeleted /\ OrphansAreEmpty
  BY DEF StoreInit, UpToDate, DeletedStaysDeleted, OrphansAreEmpty
<1> QED BY <1>1, <1>3, <1>4, <1>5 DEF IInv

\* Every step preserves the invariant: one lemma per action, and one per kind
\* of operation where an action's effect depends on it.
LEMMA NextIInv == ASSUME StoreAssumption, IInv, [StoreNext]_storeVars PROVE IInv'
<1>1. ASSUME NEW i \in Ids, BeginNew(i) \/ Open(i) \/ Release(i)
                          \/ BeginSave(i) \/ BeginDelete(i) \/ SetActive(i)
      PROVE  IInv'
  BY <1>1, BeginNewKeeps, OpenKeeps, ReleaseKeeps, BeginSaveKeeps, BeginDeleteKeeps,
     SetActiveKeeps
<1>2. ASSUME NEW i \in Ids, NEW j \in Ids, BeginReplace(i, j)
      PROVE  IInv'
  BY <1>2, BeginReplaceKeeps
<1>3. CASE WriteFile
  BY <1>3, SaveFileKeeps, CreateFileKeeps
<1>4. CASE WriteIndex
  <2>1. op.kind \in {"new", "save", "delete", "replace"}
    BY <1>4 DEF WriteIndex, At
  <2> QED BY <1>4, <2>1, CommitNewKeeps, CommitSaveKeeps, CommitDeleteKeeps,
             CommitReplaceKeeps
<1>5. CASE Fault
  BY <1>5, FailSaveKeeps, FailUndoKeeps, FailOtherKeeps
    DEF Fault, IInv, Progress, Saving
<1>6. CASE MoveFile \/ Undo \/ Unlink \/ Trash
  BY <1>6, MoveKeeps, UndoKeeps, UnlinkKeeps, TrashKeeps
<1>7. CASE Crash \/ Restart \/ Recovered
  BY <1>7, CrashKeeps, RestartKeeps, RecoveredKeeps
<1>8. ASSUME NEW i \in Ids, NEW c \in 0 .. MaxTurns, RecoverTombstone(i, c)
      PROVE  IInv'
  BY <1>8, RecoverTombstoneKeeps
<1>9. CASE UNCHANGED storeVars
  BY <1>9 DEF storeVars, disk, history, IInv, StoreTypeOK, Progress, Creating, Saving, Deleting,
              Replacing, Recovering, DiskRevision, Ended, Drawn, Recoverable, Contents,
              Missing, UpToDate, DeletedStaysDeleted, OrphansAreEmpty
<1> QED BY <1>1, <1>2, <1>3, <1>4, <1>5, <1>6, <1>7, <1>8, <1>9 DEF StoreNext

\* The invariant says what the runs check.
LEMMA IInvImplies == ASSUME StoreAssumption, IInv PROVE StoreInv
<1> USE DEF IInv, StoreTypeOK, StoreAssumption
<1>1. AcknowledgedSurvives
  BY DEF AcknowledgedSurvives, Drawn, UpToDate
<1>2. ActiveIsRecoverable
  BY DEF ActiveIsRecoverable, Recoverable
<1>3. IndexedIsReadable
  BY DEF IndexedIsReadable, Missing, Idle
<1> QED BY <1>1, <1>2, <1>3 DEF StoreInv

\* However many sessions there are, wherever an operation of
\* session/manager.py fails and wherever the process ends in it, the index, the
\* files and the tombstones agree: no acknowledged turn of a session that was
\* moved away once is lost, and no deleted session comes back.
THEOREM StoreIsCorrect == StoreSpec => []StoreInv
<1>1. StoreInit => IInv
  BY InitIInv, StoreAssumption
<1>2. IInv /\ [StoreNext]_storeVars => IInv'
  BY NextIInv, StoreAssumption
<1>3. IInv => StoreInv
  BY IInvImplies, StoreAssumption
<1> QED BY <1>1, <1>2, <1>3, PTL DEF StoreSpec

-----------------------------------------------------------------------------
(* The turn coordinator.                                                    *)

USE DEF Terminal, Live, Joinable, Admits, Movable, HeldOpen, DropToken,
        ForgetDeferred, CountActivated

\* The steers of a turn are a finite set, so they can be counted.
LEMMA HoldersFinite ==
  ASSUME NEW t
  PROVE  IsFiniteSet(Holders(t))
<1>1. Holders(t) \subseteq Steers BY DEF Holders
<1> QED BY <1>1, TurnAssumption, FS_Subset

\* A sequence that grows by one element at the end.
LEMMA AppendFacts ==
  ASSUME NEW ids \in Seq(Turns), NEW t \in Turns
  PROVE  /\ Append(ids, t) \in Seq(Turns)
         /\ Len(Append(ids, t)) = Len(ids) + 1
         /\ \A i \in 1 .. Len(ids) : Append(ids, t)[i] = ids[i]
         /\ Append(ids, t)[Len(ids) + 1] = t
OBVIOUS

\* A sequence that loses its oldest element.
LEMMA TailFacts ==
  ASSUME NEW ids \in Seq(Turns), ids # <<>>
  PROVE  /\ Tail(ids) \in Seq(Turns)
         /\ Len(Tail(ids)) = Len(ids) - 1
         /\ \A i \in 1 .. (Len(ids) - 1) : Tail(ids)[i] = ids[i + 1]
         /\ Head(ids) = ids[1]
         /\ Head(ids) \in Turns
OBVIOUS

\* When a live turn closes, its outcome is recorded, the only other record
\* that changes is the oldest ended one when the retention is full, and the
\* retention queue stays exact.
LEMMA CloseFacts ==
  ASSUME TypeOK, RetentionIsExact,
         NEW t \in Turns, state[t] \in Live,
         NEW outcome \in Terminal, Close(t, outcome)
  PROVE  /\ state' \in [Turns -> Live \union Terminal \union {"absent"}]
         /\ finalizers' = [finalizers EXCEPT ![t] = 0]
         /\ terminalIds' \in Seq(Turns)
         /\ state'[t] = outcome
         /\ \A u \in Turns : u # t =>
              \/ state'[u] = state[u]
              \/ /\ state'[u] = "absent" /\ state[u] \in Terminal
                 /\ u = Head(terminalIds) /\ Len(terminalIds) = Retention
         /\ RetentionIsExact'
<1> DEFINE ids == Append(terminalIds, t)
           over == Len(ids) > Retention
           N == Len(terminalIds)
<1>1. /\ terminalIds \in Seq(Turns) /\ N \in Nat /\ Retention \in Nat
      /\ Retention > 0 /\ N <= Retention
  BY TurnAssumption DEF TypeOK, RetentionIsExact
<1>2. /\ ids \in Seq(Turns) /\ Len(ids) = N + 1
      /\ \A i \in 1 .. N : ids[i] = terminalIds[i]
      /\ ids[N + 1] = t
  BY <1>1, AppendFacts
<1>3. \A i \in 1 .. N : terminalIds[i] \in Turns /\ state[terminalIds[i]] \in Terminal
                        /\ terminalIds[i] # t
  BY <1>1 DEF RetentionIsExact
<1>4. \A i, j \in 1 .. (N + 1) : ids[i] = ids[j] => i = j
  BY <1>1, <1>2, <1>3 DEF RetentionIsExact
<1>5. \A u \in Turns : state[u] \in Terminal \/ u = t
                       <=> \E i \in 1 .. (N + 1) : ids[i] = u
  BY <1>1, <1>2, <1>3 DEF RetentionIsExact
<1>6. /\ state' = [u \in Turns |-> IF over /\ u = Head(ids) THEN "absent"
                                   ELSE IF u = t THEN outcome ELSE state[u]]
      /\ terminalIds' = IF over THEN Tail(ids) ELSE ids
      /\ finalizers' = [finalizers EXCEPT ![t] = 0]
  BY DEF Close, OverRetained, Expired, RunFinalizers
<1> HIDE DEF ids
<1>7. CASE over
  <2>1. /\ Tail(ids) \in Seq(Turns) /\ Len(Tail(ids)) = N
        /\ \A i \in 1 .. N : Tail(ids)[i] = ids[i + 1]
        /\ Head(ids) = ids[1] /\ Head(ids) \in Turns
    BY <1>1, <1>2, TailFacts
  <2>2. N = Retention /\ terminalIds # <<>> /\ Head(ids) = Head(terminalIds)
    BY <1>1, <1>2, <1>7, <2>1
  <2>3. Head(ids) # t /\ state[Head(ids)] \in Terminal
    BY <1>1, <1>2, <1>3, <2>1, <2>2
  <2>4. /\ state'[t] = outcome
        /\ \A u \in Turns : state'[u] = IF u = Head(ids) THEN "absent"
                                        ELSE IF u = t THEN outcome ELSE state[u]
    BY <1>6, <1>7, <2>3
  <2>5. state' \in [Turns -> Live \union Terminal \union {"absent"}]
    BY <1>6 DEF TypeOK
  <2>6. \A u \in Turns : state'[u] \in Terminal
                         <=> \E i \in 1 .. N : Tail(ids)[i] = u
    <3> SUFFICES ASSUME NEW u \in Turns
                 PROVE  state'[u] \in Terminal <=> \E i \in 1 .. N : Tail(ids)[i] = u
      OBVIOUS
    <3>1. state'[u] \in Terminal
            <=> u # ids[1] /\ \E i \in 1 .. (N + 1) : ids[i] = u
      BY <1>5, <2>1, <2>3, <2>4
    <3>2. (u # ids[1] /\ \E i \in 1 .. (N + 1) : ids[i] = u)
            <=> \E i \in 1 .. N : ids[i + 1] = u
      <4>1. ASSUME u # ids[1], NEW i \in 1 .. (N + 1), ids[i] = u
            PROVE  \E k \in 1 .. N : ids[k + 1] = u
        <5>1. i - 1 \in 1 .. N /\ ids[(i - 1) + 1] = u
          BY <1>1, <4>1
        <5> QED BY <5>1
      <4>2. ASSUME NEW i \in 1 .. N, ids[i + 1] = u
            PROVE  u # ids[1] /\ \E k \in 1 .. (N + 1) : ids[k] = u
        <5>1. i + 1 \in 1 .. (N + 1) /\ 1 \in 1 .. (N + 1) /\ i + 1 # 1
          BY <1>1, <4>2
        <5> QED BY <4>2, <5>1, <1>4
      <4> QED BY <4>1, <4>2
    <3> QED BY <3>1, <3>2, <2>1
  <2>7. \A i, j \in 1 .. N : Tail(ids)[i] = Tail(ids)[j] => i = j
    <3> SUFFICES ASSUME NEW i \in 1 .. N, NEW j \in 1 .. N,
                        Tail(ids)[i] = Tail(ids)[j]
                 PROVE  i = j
      OBVIOUS
    <3>1. i + 1 \in 1 .. (N + 1) /\ j + 1 \in 1 .. (N + 1) /\ ids[i + 1] = ids[j + 1]
      BY <1>1, <2>1
    <3>2. i + 1 = j + 1
      BY <3>1, <1>4
    <3> QED BY <3>2, <1>1
  <2>8. terminalIds' = Tail(ids) /\ DOMAIN terminalIds' = 1 .. N
        /\ Len(terminalIds') = N
    BY <1>6, <1>7, <2>1
  <2>9. RetentionIsExact'
    <3>1. Len(terminalIds') <= Retention
      BY <1>1, <2>8
    <3>2. \A i, j \in DOMAIN terminalIds' : terminalIds'[i] = terminalIds'[j] => i = j
      BY <2>7, <2>8
    <3>3. \A u \in Turns : state'[u] \in Terminal
                           <=> \E i \in DOMAIN terminalIds' : terminalIds'[i] = u
      BY <2>6, <2>8
    <3> QED BY <3>1, <3>2, <3>3 DEF RetentionIsExact
  <2> QED BY <1>6, <2>1, <2>2, <2>3, <2>4, <2>5, <2>8, <2>9
<1>8. CASE ~over
  <2>1. terminalIds' = ids /\ N + 1 <= Retention /\ DOMAIN ids = 1 .. (N + 1)
        /\ Len(ids) = N + 1
    BY <1>1, <1>2, <1>6, <1>8
  <2>2. /\ state'[t] = outcome
        /\ \A u \in Turns : state'[u] = IF u = t THEN outcome ELSE state[u]
        /\ state' \in [Turns -> Live \union Terminal \union {"absent"}]
    BY <1>6, <1>8 DEF TypeOK
  <2>3. RetentionIsExact'
    <3>1. \A u \in Turns : state'[u] \in Terminal
                           <=> \E i \in 1 .. (N + 1) : ids[i] = u
      BY <1>5, <2>2
    <3>2. DOMAIN terminalIds' = 1 .. (N + 1) /\ Len(terminalIds') = N + 1
      BY <2>1
    <3> QED BY <1>1, <1>4, <2>1, <3>1, <3>2 DEF RetentionIsExact
  <2> QED BY <1>2, <1>6, <2>1, <2>2, <2>3
<1> QED BY <1>7, <1>8

\* A step that moves no steer, keeps the counts, and neither ends nor drops a
\* turn keeps the parts of the invariant that are about them.
LEMMA QuietStep ==
  ASSUME TurnsInv, UNCHANGED <<joins, held, terminalIds, overdrawn>>, TypeOK',
         \A u \in Turns : state'[u] \in Terminal <=> state[u] \in Terminal,
         \A u \in Turns : state[u] \in Live => state'[u] \in Live
  PROVE  JoinsAreHeld' /\ HeldTurnIsOpen' /\ RetentionIsExact'
<1>1. \A u : Holders(u)' = Holders(u)
  BY DEF Holders
<1>2. JoinsAreHeld'
  BY <1>1 DEF TurnsInv, JoinsAreHeld
<1>3. HeldTurnIsOpen'
  BY TurnAssumption DEF TurnsInv, HeldTurnIsOpen, TypeOK
<1>4. RetentionIsExact'
  BY DEF TurnsInv, RetentionIsExact
<1> QED BY <1>2, <1>3, <1>4

\* complete, cancel, fail and the two finalizers: the outcome is held back
\* by a queued steer or it closes the turn.
LEMMA SettleStep ==
  ASSUME TurnsInv, NEW t \in Turns, state[t] \in Live,
         NEW current \in Joinable, NEW outcome \in Terminal,
         Settle(t, current, outcome),
         UNCHANGED <<joins, held, announced, overdrawn>>
  PROVE  TurnsInv'
<1>1. CASE HeldOpen(t)
  <2>1. /\ deferred' = [deferred EXCEPT ![t] = outcome]
        /\ state' = [state EXCEPT ![t] = current]
        /\ UNCHANGED <<finalizers, terminalIds>>
    BY <1>1 DEF Settle
  <2>2. TypeOK'
    BY <2>1 DEF TurnsInv, TypeOK
  <2>3. \A u \in Turns : /\ state'[u] \in Terminal <=> state[u] \in Terminal
                         /\ state[u] \in Live => state'[u] \in Live
    BY <2>1 DEF TurnsInv, TypeOK
  <2>4. JoinsAreHeld' /\ HeldTurnIsOpen' /\ RetentionIsExact'
    BY <2>1, <2>2, <2>3, QuietStep
  <2>5. DeferredIsHeld'
    BY <1>1, <2>1 DEF TurnsInv, TypeOK, DeferredIsHeld
  <2>6. EndedIsSettled'
    BY <2>1 DEF TurnsInv, TypeOK, EndedIsSettled
  <2> QED BY <2>2, <2>4, <2>5, <2>6 DEF TurnsInv
<1>2. CASE ~HeldOpen(t)
  <2>1. Close(t, outcome) /\ UNCHANGED deferred
    BY <1>2 DEF Settle
  <2>2. /\ state' \in [Turns -> Live \union Terminal \union {"absent"}]
        /\ finalizers' = [finalizers EXCEPT ![t] = 0]
        /\ terminalIds' \in Seq(Turns)
        /\ state'[t] = outcome
        /\ \A u \in Turns : u # t =>
             \/ state'[u] = state[u]
             \/ state'[u] = "absent" /\ state[u] \in Terminal
        /\ RetentionIsExact'
    BY <2>1, CloseFacts DEF TurnsInv
  <2>3. TypeOK'
    BY <2>1, <2>2 DEF TurnsInv, TypeOK
  <2>4. JoinsAreHeld'
    <3>1. \A u : Holders(u)' = Holders(u)
      BY DEF Holders
    <3> QED BY <3>1 DEF TurnsInv, JoinsAreHeld
  <2>5. joins[t] = 0
    BY <1>2 DEF HeldOpen, TurnsInv, TypeOK
  <2>6. t \notin overdrawn => \A s \in Steers : held[s] # t
    <3>1. t \notin overdrawn => Cardinality(Holders(t)) = 0
      BY <2>5 DEF TurnsInv, JoinsAreHeld
    <3>2. t \notin overdrawn => Holders(t) = {}
      BY <3>1, HoldersFinite, FS_EmptySet
    <3> QED BY <3>2 DEF Holders
  <2>7. HeldTurnIsOpen'
    <3> SUFFICES ASSUME NEW s \in Steers, held[s] # NoTurn, held[s] \notin overdrawn
                 PROVE  state'[held[s]] \in Live
      BY DEF HeldTurnIsOpen
    <3>1. held[s] \in Turns /\ held[s] # t /\ state[held[s]] \in Live
      BY <2>6 DEF TurnsInv, TypeOK, HeldTurnIsOpen
    <3> QED BY <2>2, <3>1
  <2>8. DeferredIsHeld'
    BY <2>1 DEF TurnsInv, DeferredIsHeld
  <2>9. EndedIsSettled'
    <3> SUFFICES ASSUME NEW u \in Turns, state'[u] \notin Live
                 PROVE  joins'[u] = 0 /\ deferred'[u] = "none" /\ finalizers'[u] = 0
      BY DEF EndedIsSettled
    <3>1. CASE u = t
      BY <2>1, <2>2, <2>5, <3>1 DEF TurnsInv, TypeOK, DeferredIsHeld
    <3>2. CASE u # t
      <4>1. state[u] \notin Live
        BY <2>2, <3>2 DEF TurnsInv, TypeOK
      <4>2. joins[u] = 0 /\ deferred[u] = "none" /\ finalizers[u] = 0
        BY <4>1 DEF TurnsInv, EndedIsSettled
      <4> QED BY <2>1, <2>2, <3>2, <4>2 DEF TurnsInv, TypeOK
    <3> QED BY <3>1, <3>2
  <2> QED BY <2>2, <2>3, <2>4, <2>7, <2>8, <2>9 DEF TurnsInv
<1> QED BY <1>1, <1>2

\* A steer that takes a join adds one holder to its turn and to no other.
LEMMA TakeFacts ==
  ASSUME TypeOK, NEW s \in Steers, NEW t \in Turns, held[s] = NoTurn,
         held' = [held EXCEPT ![s] = t]
  PROVE  /\ Cardinality(Holders(t)') = Cardinality(Holders(t)) + 1
         /\ \A u \in Turns \ {t} : Holders(u)' = Holders(u)
<1>1. Holders(t)' = Holders(t) \union {s} /\ s \notin Holders(t)
  BY TurnAssumption DEF TypeOK, Holders
<1>2. Cardinality(Holders(t) \union {s}) = Cardinality(Holders(t)) + 1
  BY <1>1, HoldersFinite, FS_AddElement
<1>3. \A u \in Turns \ {t} : Holders(u)' = Holders(u)
  BY TurnAssumption DEF TypeOK, Holders
<1> QED BY <1>1, <1>2, <1>3

\* A steer that gives its join up removes one holder from its turn only.
LEMMA DropFacts ==
  ASSUME TypeOK, NEW s \in Steers, NEW t \in Turns, held[s] = t, DropToken(s)
  PROVE  /\ Cardinality(Holders(t)') = Cardinality(Holders(t)) - 1
         /\ Cardinality(Holders(t)) \in Nat \ {0}
         /\ \A u \in Turns \ {t} : Holders(u)' = Holders(u)
         /\ \A r \in Steers : held'[r] # NoTurn => r # s /\ held'[r] = held[r]
<1>1. s \in Holders(t)
  BY DEF TypeOK, Holders
<1>2. Holders(t)' = Holders(t) \ {s}
  BY <1>1, TurnAssumption DEF TypeOK, Holders
<1>3. Cardinality(Holders(t) \ {s}) = Cardinality(Holders(t)) - 1
  BY <1>1, HoldersFinite, FS_RemoveElement
<1>4. Cardinality(Holders(t)) \in Nat /\ Cardinality(Holders(t)) # 0
  BY <1>1, HoldersFinite, FS_CardinalityType, FS_EmptySet
<1>5. \A u \in Turns \ {t} : Holders(u)' = Holders(u)
  BY <1>1, TurnAssumption DEF TypeOK, Holders
<1>6. \A r \in Steers : held'[r] # NoTurn => r # s /\ held'[r] = held[r]
  BY DEF TypeOK
<1> QED BY <1>2, <1>3, <1>4, <1>5, <1>6

LEMMA ReserveJoinStep ==
  ASSUME TurnsInv, NEW s \in Steers, NEW t \in Turns, ReserveJoin(s, t)
  PROVE  TurnsInv'
<1> USE DEF ReserveJoin
<1>1. TypeOK'
  BY DEF TurnsInv, TypeOK
<1>2. JoinsAreHeld'
  <2>1. \A u \in Turns : joins'[u] = IF u = t THEN joins[u] + 1 ELSE joins[u]
    BY DEF TurnsInv, TypeOK
  <2>2. \A u \in Turns : Cardinality(Holders(u)) \in Nat /\ joins[u] \in Nat
    BY HoldersFinite, FS_CardinalityType DEF TurnsInv, TypeOK
  <2>3. /\ Cardinality(Holders(t)') = Cardinality(Holders(t)) + 1
        /\ \A u \in Turns \ {t} : Holders(u)' = Holders(u)
    BY TakeFacts DEF TurnsInv
  <2>4. \A u \in Turns : /\ joins[u] <= Cardinality(Holders(u))
                         /\ u \notin overdrawn => joins[u] = Cardinality(Holders(u))
    BY DEF TurnsInv, JoinsAreHeld
  <2>5. /\ joins'[t] <= Cardinality(Holders(t)')
        /\ t \notin overdrawn => joins'[t] = Cardinality(Holders(t)')
    BY <2>1, <2>2, <2>3, <2>4
  <2>6. \A u \in Turns \ {t} : Cardinality(Holders(u)') = Cardinality(Holders(u))
    BY <2>3
  <2> QED BY <2>1, <2>4, <2>5, <2>6 DEF JoinsAreHeld
<1>3. HeldTurnIsOpen'
  BY TurnAssumption DEF TurnsInv, TypeOK, HeldTurnIsOpen
<1>4. DeferredIsHeld'
  BY DEF TurnsInv, TypeOK, DeferredIsHeld
<1>5. EndedIsSettled'
  BY DEF TurnsInv, TypeOK, EndedIsSettled
<1>6. RetentionIsExact'
  BY DEF TurnsInv, RetentionIsExact
<1> QED BY <1>1, <1>2, <1>3, <1>4, <1>5, <1>6 DEF TurnsInv

LEMMA ReleaseOneStep ==
  ASSUME TurnsInv, NEW s \in Steers, NEW t \in Turns, held[s] = t, ReleaseOne(s)
  PROVE  TurnsInv'
<1>1. /\ t \in Turns /\ t # NoTurn /\ joins[t] > 1
      /\ joins' = [joins EXCEPT ![t] = joins[t] - 1] /\ DropToken(s)
      /\ UNCHANGED <<state, deferred, finalizers, terminalIds, announced, overdrawn>>
  BY DEF ReleaseOne, TurnsInv, TypeOK
<1>2. TypeOK'
  BY <1>1 DEF TurnsInv, TypeOK
<1>3. JoinsAreHeld'
  <2>1. \A u \in Turns : joins'[u] = IF u = t THEN joins[u] - 1 ELSE joins[u]
    BY <1>1 DEF TurnsInv, TypeOK
  <2>2. /\ Cardinality(Holders(t)') = Cardinality(Holders(t)) - 1
        /\ Cardinality(Holders(t)) \in Nat \ {0}
        /\ \A u \in Turns \ {t} : Holders(u)' = Holders(u)
    BY <1>1, DropFacts DEF TurnsInv
  <2>3. \A u \in Turns : /\ joins[u] <= Cardinality(Holders(u))
                         /\ u \notin overdrawn => joins[u] = Cardinality(Holders(u))
    BY DEF TurnsInv, JoinsAreHeld
  <2>4. /\ joins'[t] <= Cardinality(Holders(t)')
        /\ t \notin overdrawn => joins'[t] = Cardinality(Holders(t)')
    <3>1. joins[t] \in Nat
      BY <1>1 DEF TurnsInv, TypeOK
    <3> QED BY <1>1, <2>1, <2>2, <2>3, <3>1
  <2>5. \A u \in Turns \ {t} : Cardinality(Holders(u)') = Cardinality(Holders(u))
    BY <2>2
  <2> QED BY <1>1, <2>1, <2>3, <2>4, <2>5 DEF JoinsAreHeld
<1>4. HeldTurnIsOpen'
  BY <1>1, DropFacts DEF TurnsInv, HeldTurnIsOpen
<1>5. DeferredIsHeld'
  BY <1>1 DEF TurnsInv, TypeOK, DeferredIsHeld
<1>6. EndedIsSettled'
  BY <1>1 DEF TurnsInv, TypeOK, EndedIsSettled
<1>7. RetentionIsExact'
  BY <1>1 DEF TurnsInv, RetentionIsExact
<1> QED BY <1>2, <1>3, <1>4, <1>5, <1>6, <1>7 DEF TurnsInv

\* Activation never ends a turn; it takes back one join and the outcome.
LEMMA ActivateJoinStep ==
  ASSUME TurnsInv, NEW s \in Steers, NEW t \in Turns, ActivateJoin(s, t)
  PROVE  TurnsInv'
<1>1. /\ t \in Turns /\ t # NoTurn /\ joins[t] > 0 /\ state[t] \in Joinable
      /\ joins' = [joins EXCEPT ![t] = joins[t] - 1]
      /\ held' = [held EXCEPT ![s] = NoTurn]
      /\ deferred' = [deferred EXCEPT ![t] = "none"]
      /\ overdrawn' \subseteq Turns /\ overdrawn \subseteq overdrawn'
      /\ overdrawn' \subseteq overdrawn \union {t}
      /\ UNCHANGED <<state, finalizers, terminalIds, announced>>
  BY TurnAssumption DEF ActivateJoin, CountActivated, ForgetDeferred, DropToken, TurnsInv, TypeOK
<1>2. TypeOK'
  BY <1>1 DEF TurnsInv, TypeOK
<1>3. JoinsAreHeld'
  <2>1. \A u \in Turns : joins'[u] = IF u = t THEN joins[u] - 1 ELSE joins[u]
    BY <1>1 DEF TurnsInv, TypeOK
  <2>2. joins[t] \in Nat /\ Cardinality(Holders(t)) \in Nat
    BY <1>1, HoldersFinite, FS_CardinalityType DEF TurnsInv, TypeOK
  <2>3. \A u \in Turns : /\ joins[u] <= Cardinality(Holders(u))
                         /\ u \notin overdrawn => joins[u] = Cardinality(Holders(u))
    BY DEF TurnsInv, JoinsAreHeld
  <2>4. CASE held[s] = t
    <3>1. /\ Cardinality(Holders(t)') = Cardinality(Holders(t)) - 1
          /\ \A u \in Turns \ {t} : Holders(u)' = Holders(u)
      BY <1>1, <2>4, DropFacts DEF TurnsInv, DropToken
    <3>2. /\ joins'[t] <= Cardinality(Holders(t)')
          /\ t \notin overdrawn => joins'[t] = Cardinality(Holders(t)')
      BY <1>1, <2>1, <2>2, <2>3, <3>1
    <3>3. \A u \in Turns \ {t} : Cardinality(Holders(u)') = Cardinality(Holders(u))
      BY <3>1
    <3>4. overdrawn' = overdrawn
      BY <2>4 DEF ActivateJoin
    <3> QED BY <2>1, <2>3, <3>2, <3>3, <3>4 DEF JoinsAreHeld
  <2>5. CASE held[s] = NoTurn
    <3>1. \A u \in Turns : Holders(u)' = Holders(u)
      BY <1>1, <2>5, TurnAssumption DEF TurnsInv, TypeOK, Holders
    <3>2. t \in overdrawn'
      BY <1>1, <2>5 DEF ActivateJoin
    <3>3. joins'[t] <= Cardinality(Holders(t))
      BY <2>1, <2>2, <2>3
    <3> QED BY <1>1, <2>1, <2>3, <3>1, <3>2, <3>3 DEF JoinsAreHeld
  <2> QED BY <2>4, <2>5 DEF ActivateJoin
<1>4. HeldTurnIsOpen'
  BY <1>1 DEF TurnsInv, TypeOK, HeldTurnIsOpen
<1>5. DeferredIsHeld'
  BY <1>1 DEF TurnsInv, TypeOK, DeferredIsHeld
<1>6. EndedIsSettled'
  BY <1>1 DEF TurnsInv, TypeOK, EndedIsSettled
<1>7. RetentionIsExact'
  BY <1>1 DEF TurnsInv, RetentionIsExact
<1> QED BY <1>2, <1>3, <1>4, <1>5, <1>6, <1>7 DEF TurnsInv

\* What the release of the last join does, before the invariant is used.  Other
\* steers may still hold a join of an overdrawn turn.
LEMMA ReleaseLastFacts ==
  ASSUME TurnsInv, NEW s \in Steers, NEW t \in Turns, held[s] = t, ReleaseLast(s)
  PROVE  /\ deferred[t] # "none" \/ t \notin overdrawn => state[t] \in Live
         /\ t \notin overdrawn => Holders(t)' = {}
         /\ joins' = [joins EXCEPT ![t] = 0]
         /\ deferred' = [deferred EXCEPT ![t] = "none"]
         /\ DropToken(s) /\ overdrawn' = overdrawn
         /\ \A r \in Steers : held'[r] # NoTurn =>
              held'[r] = held[r] /\ (t \notin overdrawn => held[r] # t)
<1>1. /\ t \in Turns /\ t # NoTurn /\ joins[t] <= 1 /\ DropToken(s)
      /\ joins' = [joins EXCEPT ![t] = 0]
      /\ deferred' = [deferred EXCEPT ![t] = "none"]
      /\ overdrawn' = overdrawn
  BY DEF ReleaseLast, ForgetDeferred, TurnsInv, TypeOK
<1>2. t \notin overdrawn => Cardinality(Holders(t)') = 0
  <2>1. /\ Cardinality(Holders(t)') = Cardinality(Holders(t)) - 1
        /\ Cardinality(Holders(t)) \in Nat \ {0}
    BY <1>1, DropFacts DEF TurnsInv
  <2>2. t \notin overdrawn => joins[t] = Cardinality(Holders(t))
    BY DEF TurnsInv, JoinsAreHeld
  <2> QED BY <1>1, <2>1, <2>2
<1>3. t \notin overdrawn => Holders(t)' = {}
  <2>1. IsFiniteSet(Holders(t)')
    <3>1. Holders(t)' \subseteq Steers BY DEF Holders
    <3> QED BY <3>1, TurnAssumption, FS_Subset
  <2> QED BY <1>2, <2>1, FS_EmptySet
<1>4. t \notin overdrawn => \A r \in Steers : held'[r] # t
  BY <1>3 DEF Holders
<1>5. \A r \in Steers : held'[r] # NoTurn =>
        held'[r] = held[r] /\ (t \notin overdrawn => held[r] # t)
  BY <1>1, <1>4, DropFacts DEF TurnsInv
<1>6. t \notin overdrawn => state[t] \in Live
  BY <1>1 DEF TurnsInv, HeldTurnIsOpen
<1>7. deferred[t] # "none" => state[t] \in Live
  BY DEF TurnsInv, EndedIsSettled
<1> QED BY <1>1, <1>3, <1>5, <1>6, <1>7

LEMMA ReleaseLastStep ==
  ASSUME TurnsInv, NEW s \in Steers, NEW t \in Turns, held[s] = t, ReleaseLast(s)
  PROVE  TurnsInv'
<1>1. /\ t \in Turns /\ t # NoTurn /\ DropToken(s)
      /\ deferred[t] # "none" => state[t] \in Live
      /\ t \notin overdrawn => Holders(t)' = {}
      /\ joins' = [joins EXCEPT ![t] = 0]
      /\ deferred' = [deferred EXCEPT ![t] = "none"]
      /\ overdrawn' = overdrawn
      /\ \A r \in Steers : held'[r] # NoTurn =>
           held'[r] = held[r] /\ (t \notin overdrawn => held[r] # t)
  BY TurnAssumption, ReleaseLastFacts
<1>2. JoinsAreHeld'
  <2>1. \A u \in Turns : joins'[u] = IF u = t THEN 0 ELSE joins[u]
    BY <1>1 DEF TurnsInv, TypeOK
  <2>2. t \notin overdrawn => Cardinality(Holders(t)') = 0
    BY <1>1, FS_EmptySet
  <2>3. Cardinality(Holders(t)') >= 0
    <3>1. /\ Cardinality(Holders(t)') = Cardinality(Holders(t)) - 1
          /\ Cardinality(Holders(t)) \in Nat \ {0}
      BY <1>1, DropFacts DEF TurnsInv
    <3> QED BY <3>1
  <2>4. \A u \in Turns \ {t} : Cardinality(Holders(u)') = Cardinality(Holders(u))
    BY <1>1, DropFacts DEF TurnsInv
  <2>5. \A u \in Turns : /\ joins[u] <= Cardinality(Holders(u))
                         /\ u \notin overdrawn => joins[u] = Cardinality(Holders(u))
    BY DEF TurnsInv, JoinsAreHeld
  <2>6. /\ joins'[t] <= Cardinality(Holders(t)')
        /\ t \notin overdrawn => joins'[t] = Cardinality(Holders(t)')
    BY <2>1, <2>2, <2>3
  <2> QED BY <1>1, <2>1, <2>4, <2>5, <2>6 DEF JoinsAreHeld
<1>3. DeferredIsHeld'
  BY <1>1 DEF TurnsInv, TypeOK, DeferredIsHeld
<1>4. announced' \in [Turns -> SUBSET Terminal]
  BY <1>1 DEF ReleaseLast, TurnsInv, TypeOK
<1>5. CASE deferred[t] # "none" /\ state[t] \in Joinable
  <2>1. Close(t, deferred[t]) /\ deferred[t] \in Terminal /\ state[t] \in Live
    BY <1>1, <1>5 DEF ReleaseLast, TurnsInv, TypeOK
  <2>2. /\ state' \in [Turns -> Live \union Terminal \union {"absent"}]
        /\ finalizers' = [finalizers EXCEPT ![t] = 0]
        /\ terminalIds' \in Seq(Turns)
        /\ state'[t] = deferred[t]
        /\ \A u \in Turns : u # t =>
             \/ state'[u] = state[u]
             \/ state'[u] = "absent" /\ state[u] \in Terminal
        /\ RetentionIsExact'
    BY <1>1, <2>1, CloseFacts DEF TurnsInv
  <2>3. TypeOK'
    BY <1>1, <1>4, <2>2 DEF TurnsInv, TypeOK
  <2>4. HeldTurnIsOpen'
    <3> SUFFICES ASSUME NEW r \in Steers, held'[r] # NoTurn, held'[r] \notin overdrawn
                 PROVE  state'[held'[r]] \in Live
      BY <1>1 DEF HeldTurnIsOpen
    <3>1. held[r] \in Turns /\ held'[r] = held[r] /\ held[r] # t
          /\ state[held[r]] \in Live
      BY <1>1 DEF TurnsInv, TypeOK, HeldTurnIsOpen
    <3> QED BY <2>2, <3>1
  <2>5. EndedIsSettled'
    <3> SUFFICES ASSUME NEW u \in Turns, state'[u] \notin Live
                 PROVE  joins'[u] = 0 /\ deferred'[u] = "none" /\ finalizers'[u] = 0
      BY DEF EndedIsSettled
    <3>1. CASE u = t
      BY <1>1, <2>2, <3>1 DEF TurnsInv, TypeOK
    <3>2. CASE u # t
      <4>1. state[u] \notin Live
        BY <2>2, <3>2 DEF TurnsInv, TypeOK
      <4>2. joins[u] = 0 /\ deferred[u] = "none" /\ finalizers[u] = 0
        BY <4>1 DEF TurnsInv, EndedIsSettled
      <4> QED BY <1>1, <2>2, <3>2, <4>2 DEF TurnsInv, TypeOK
    <3> QED BY <3>1, <3>2
  <2> QED BY <1>2, <1>3, <2>2, <2>3, <2>4, <2>5 DEF TurnsInv
<1>6. CASE ~(deferred[t] # "none" /\ state[t] \in Joinable)
  <2>1. UNCHANGED <<state, finalizers, terminalIds>>
    BY <1>6 DEF ReleaseLast
  <2>2. TypeOK'
    BY <1>1, <1>4, <2>1 DEF TurnsInv, TypeOK
  <2>3. HeldTurnIsOpen'
    BY <1>1, <2>1 DEF TurnsInv, HeldTurnIsOpen
  <2>4. EndedIsSettled'
    BY <1>1, <2>1 DEF TurnsInv, TypeOK, EndedIsSettled
  <2>5. RetentionIsExact'
    BY <2>1 DEF TurnsInv, RetentionIsExact
  <2> QED BY <1>2, <1>3, <2>2, <2>3, <2>4, <2>5 DEF TurnsInv
<1> QED BY <1>5, <1>6

\* Registration, start, the moves between live states and a new finalizer:
\* no steer moves, and a record only goes from absent or live to live.
LEMMA MoveStep ==
  ASSUME TurnsInv, NEW t \in Turns,
         \/ Register(t)
         \/ Start(t)
         \/ \E to \in {"running", "waiting_for_user", "cancelling"} : Move(t, to)
         \/ AddFinalizer(t)
  PROVE  TurnsInv'
<1>1. TypeOK'
  <2>1. CASE Register(t) \/ Start(t)
    BY <2>1 DEF TurnsInv, TypeOK, Register, Start
  <2>2. CASE \E to \in {"running", "waiting_for_user", "cancelling"} : Move(t, to)
    BY <2>2 DEF TurnsInv, TypeOK, Move
  <2>3. CASE AddFinalizer(t)
    BY <2>3 DEF TurnsInv, TypeOK, AddFinalizer
  <2> QED BY <2>1, <2>2, <2>3
<1>2. /\ UNCHANGED <<joins, held, terminalIds, deferred, overdrawn>>
      /\ \A u \in Turns : /\ state'[u] \in Terminal <=> state[u] \in Terminal
                          /\ state[u] \in Live => state'[u] \in Live
  BY DEF TurnsInv, TypeOK, Register, Start, Move, AddFinalizer
<1>3. JoinsAreHeld' /\ HeldTurnIsOpen' /\ RetentionIsExact'
  BY <1>1, <1>2, QuietStep
<1>4. DeferredIsHeld'
  BY <1>2 DEF TurnsInv, DeferredIsHeld
<1>5. EndedIsSettled'
  BY <1>2 DEF TurnsInv, TypeOK, EndedIsSettled, Register, Start, Move, AddFinalizer
<1> QED BY <1>1, <1>3, <1>4, <1>5 DEF TurnsInv

LEMMA InitInv == Init => TurnsInv
<1> SUFFICES ASSUME Init PROVE TurnsInv
  OBVIOUS
<1> USE DEF Init
<1>1. TypeOK
  BY DEF TypeOK
<1>2. JoinsAreHeld
  <2>1. \A t \in Turns : Holders(t) = {}
    BY TurnAssumption DEF Holders
  <2>2. \A t \in Turns : Cardinality(Holders(t)) = 0
    BY <2>1, FS_EmptySet
  <2>3. \A t \in Turns : joins[t] = 0
    OBVIOUS
  <2>4. 0 <= 0
    OBVIOUS
  <2> HIDE DEF Init
  <2> QED BY <2>2, <2>3, <2>4 DEF JoinsAreHeld
<1>3. HeldTurnIsOpen /\ DeferredIsHeld /\ EndedIsSettled
  BY DEF HeldTurnIsOpen, DeferredIsHeld, EndedIsSettled
<1>4. RetentionIsExact
  <2>1. Len(terminalIds) = 0 /\ DOMAIN terminalIds = {}
    OBVIOUS
  <2>2. \A t \in Turns : state[t] \notin Terminal
    OBVIOUS
  <2>3. 0 <= Retention
    BY TurnAssumption
  <2> HIDE DEF Init
  <2> QED BY <2>1, <2>2, <2>3 DEF RetentionIsExact
<1> QED BY <1>1, <1>2, <1>3, <1>4 DEF TurnsInv

LEMMA NextInv == TurnsInv /\ [Next]_vars => TurnsInv'
<1> SUFFICES ASSUME TurnsInv, [Next]_vars PROVE TurnsInv'
  OBVIOUS
<1>1. ASSUME NEW t \in Turns, Register(t) \/ Start(t) \/ AddFinalizer(t)
      PROVE  TurnsInv'
  BY <1>1, MoveStep
<1>2. ASSUME NEW t \in Turns,
             NEW to \in {"running", "waiting_for_user", "cancelling"}, Move(t, to)
      PROVE  TurnsInv'
  BY <1>2, MoveStep
<1>3. ASSUME NEW t \in Turns, NEW o \in Terminal, Finish(t, o)
      PROVE  TurnsInv'
  BY <1>3, SettleStep DEF Finish
<1>4. ASSUME NEW t \in Turns, NEW o \in {"cancelled", "failed"}, Finalize(t, o)
      PROVE  TurnsInv'
  BY <1>4, SettleStep DEF Finalize
<1>5. ASSUME NEW s \in Steers, NEW t \in Turns, ReserveJoin(s, t) \/ ActivateJoin(s, t)
      PROVE  TurnsInv'
  BY <1>5, ReserveJoinStep, ActivateJoinStep
<1>6. ASSUME NEW s \in Steers, ReleaseOne(s) \/ ReleaseLast(s)
      PROVE  TurnsInv'
  <2>1. held[s] \in Turns
    BY <1>6 DEF TurnsInv, TypeOK, ReleaseOne, ReleaseLast
  <2> QED BY <1>6, <2>1, ReleaseOneStep, ReleaseLastStep
<1>7. CASE UNCHANGED vars
  <2>1. TypeOK' /\ UNCHANGED <<joins, held, terminalIds, overdrawn>>
    BY <1>7 DEF vars, TurnsInv, TypeOK
  <2>2. JoinsAreHeld' /\ HeldTurnIsOpen' /\ RetentionIsExact'
    BY <1>7, <2>1, QuietStep DEF vars
  <2> QED BY <1>7, <2>1, <2>2 DEF vars, TurnsInv, DeferredIsHeld, EndedIsSettled
<1> QED BY <1>1, <1>2, <1>3, <1>4, <1>5, <1>6, <1>7 DEF Next

\* The inductive invariant holds in every reachable state.
THEOREM Invariance == Spec => []TurnsInv
<1> QED BY InitInv, NextInv, PTL DEF Spec

\* Every variable keeps the type the code gives it.
THEOREM TypeCorrect == Spec => []TypeOK
<1>1. TurnsInv => TypeOK BY DEF TurnsInv
<1> QED BY <1>1, Invariance, PTL

\* A join count is the number of steers that will give a join back, and less
\* only in a turn of which a steer without a token took one.
THEOREM JoinCountsAreExact == Spec => []JoinsAreHeld
<1>1. TurnsInv => JoinsAreHeld BY DEF TurnsInv
<1> QED BY <1>1, Invariance, PTL

\* No turn ends or is forgotten while an admitted steer waits for it, except one
\* of which a steer without a token took a join.
THEOREM SteersKeepTurnsOpen == Spec => []HeldTurnIsOpen
<1>1. TurnsInv => HeldTurnIsOpen BY DEF TurnsInv
<1> QED BY <1>1, Invariance, PTL

\* No outcome is held back without a steer that can let it take effect.
THEOREM DeferredOutcomesAreHeld == Spec => []DeferredIsHeld
<1>1. TurnsInv => DeferredIsHeld BY DEF TurnsInv
<1> QED BY <1>1, Invariance, PTL

\* An ended turn has no join, no other outcome and no callback pending.
THEOREM EndedTurnsAreSettled == Spec => []EndedIsSettled
<1>1. TurnsInv => EndedIsSettled BY DEF TurnsInv
<1> QED BY <1>1, Invariance, PTL

\* The retention queue is exactly the ended turns in memory, within its limit.
THEOREM RetentionQueueIsExact == Spec => []RetentionIsExact
<1>1. TurnsInv => RetentionIsExact BY DEF TurnsInv
<1> QED BY <1>1, Invariance, PTL

-----------------------------------------------------------------------------
(* Action properties and refinement.                                       *)

\* The terminal transitions of a live record, seen from the other records: an
\* ended one keeps its outcome unless it is the oldest of a full retention.
LEMMA SettleKeepsOthers ==
  ASSUME TurnsInv, NEW t \in Turns, state[t] \in Live,
         NEW outcome \in Terminal, NEW current \in Joinable,
         Settle(t, current, outcome)
  PROVE  /\ state'[t] \in {current, outcome}
         /\ state'[t] = current => deferred'[t] = outcome
         /\ \A u \in Turns : u # t =>
              \/ state'[u] = state[u]
              \/ /\ state'[u] = "absent" /\ state[u] \in Terminal
                 /\ u = Head(terminalIds) /\ Len(terminalIds) = Retention
<1>1. CASE HeldOpen(t)
  BY <1>1 DEF Settle, TurnsInv, TypeOK
<1>2. CASE ~HeldOpen(t)
  <2>1. Close(t, outcome)
    BY <1>2 DEF Settle
  <2> QED BY <2>1, CloseFacts DEF TurnsInv
<1> QED BY <1>1, <1>2

\* What one step may do to the state of a record, action by action.
LEMMA StateStep ==
  ASSUME TurnsInv, Next, NEW u \in Turns
  PROVE  /\ state[u] \in Terminal =>
              \/ state'[u] = state[u]
              \/ /\ state'[u] = "absent"
                 /\ u = Head(terminalIds)
                 /\ Len(terminalIds) = Retention
         /\ state[u] = "cancelling" =>
              \/ state'[u] \in {"cancelling", "cancelled", "failed"}
              \/ state'[u] = "running" /\ deferred'[u] \in {"cancelled", "failed"}
<1>1. ASSUME NEW t \in Turns, Register(t) \/ Start(t) \/ AddFinalizer(t),
             state[u] \in Terminal \/ state[u] = "cancelling"
      PROVE  state'[u] = state[u]
  BY <1>1 DEF TurnsInv, TypeOK, Register, Start, AddFinalizer
<1>2. ASSUME NEW t \in Turns,
             NEW to \in {"running", "waiting_for_user", "cancelling"}, Move(t, to),
             state[u] \in Terminal \/ state[u] = "cancelling"
      PROVE  state'[u] = state[u]
  BY <1>2 DEF TurnsInv, TypeOK, Move
<1>3. ASSUME NEW t \in Turns, NEW o \in Terminal, Finish(t, o),
             state[u] \in Terminal \/ state[u] = "cancelling"
      PROVE  \/ state'[u] = state[u]
             \/ /\ state'[u] = "absent" /\ state[u] \in Terminal
                /\ u = Head(terminalIds) /\ Len(terminalIds) = Retention
  <2>1. state[t] \in Joinable /\ Settle(t, state[t], o) /\ u # t
    BY <1>3 DEF Finish
  <2> QED BY <1>3, <2>1, SettleKeepsOthers
<1>4. ASSUME NEW t \in Turns, NEW o \in {"cancelled", "failed"}, Finalize(t, o)
      PROVE  /\ u = t => \/ state'[u] \in {"cancelled", "failed"}
                         \/ state'[u] = "running" /\ deferred'[u] \in {"cancelled", "failed"}
             /\ u # t => \/ state'[u] = state[u]
                         \/ /\ state'[u] = "absent" /\ state[u] \in Terminal
                            /\ u = Head(terminalIds) /\ Len(terminalIds) = Retention
             /\ state[t] = "cancelling"
  <2>1. state[t] = "cancelling" /\ Settle(t, "running", o)
    BY <1>4 DEF Finalize
  <2> QED BY <2>1, SettleKeepsOthers
<1>5. ASSUME NEW s \in Steers, NEW t \in Turns, ReserveJoin(s, t) \/ ActivateJoin(s, t)
      PROVE  state' = state
  BY <1>5 DEF ReserveJoin, ActivateJoin
<1>6. ASSUME NEW s \in Steers, ReleaseOne(s)
      PROVE  state' = state
  BY <1>6 DEF ReleaseOne
<1>7. ASSUME NEW s \in Steers, ReleaseLast(s),
             state[u] \in Terminal \/ state[u] = "cancelling"
      PROVE  \/ state'[u] = state[u]
             \/ /\ state'[u] = "absent" /\ state[u] \in Terminal
                /\ u = Head(terminalIds) /\ Len(terminalIds) = Retention
  <2>1. held[s] \in Turns
    BY <1>7 DEF TurnsInv, TypeOK, ReleaseLast
  <2>2. CASE deferred[held[s]] # "none" /\ state[held[s]] \in Joinable
    <3>1. Close(held[s], deferred[held[s]]) /\ deferred[held[s]] \in Terminal
          /\ u # held[s] /\ state[held[s]] \in Live
      BY <1>7, <2>1, <2>2 DEF TurnsInv, TypeOK, ReleaseLast
    <3> QED BY <1>7, <2>1, <2>2, <3>1, CloseFacts DEF TurnsInv
  <2>3. CASE ~(deferred[held[s]] # "none" /\ state[held[s]] \in Joinable)
    BY <1>7, <2>3 DEF ReleaseLast
  <2> QED BY <2>2, <2>3
<1> QED BY <1>1, <1>2, <1>3, <1>4, <1>5, <1>6, <1>7 DEF Next

\* An outcome is never replaced, and only retention forgets it.
THEOREM OutcomesAreFinal == Spec => OutcomeIsFinal
<1>1. TurnsInv /\ [Next]_vars =>
        [\A t \in Turns : state[t] \in Terminal =>
           \/ state'[t] = state[t]
           \/ /\ state'[t] = "absent"
              /\ t = Head(terminalIds)
              /\ Len(terminalIds) = Retention]_vars
  BY StateStep
<1> QED BY <1>1, Invariance, PTL DEF Spec, OutcomeIsFinal

\* A cancellation ends only through its own cleanup.
THEOREM CancellationsAreNotOvertaken == Spec => CancellationIsNotOvertaken
<1>1. TurnsInv /\ [Next]_vars =>
        [\A t \in Turns : state[t] = "cancelling" =>
           \/ state'[t] \in {"cancelling", "cancelled", "failed"}
           \/ state'[t] = "running" /\ deferred'[t] \in {"cancelled", "failed"}]_vars
  BY StateStep
<1> QED BY <1>1, Invariance, PTL DEF Spec, CancellationIsNotOvertaken

\* What release_join() has reported about the present record of a turn.  An
\* open turn has nothing reported that would have to be taken back: a report
\* is made by the last of its steers, which leaves it ended or being cancelled.
ReportsFit(t) ==
  /\ state[t] \in Joinable => announced[t] = {}
  /\ state[t] = "cancelling" /\ joins[t] > 0 => announced[t] = {}
  /\ state[t] = "completed" => announced[t] \subseteq {"completed"}

\* A turn that comes to its outcome had nothing reported before.
LEMMA SettleReports ==
  ASSUME TurnsInv, NEW t \in Turns, state[t] \in Live,
         NEW outcome \in Terminal, NEW current \in Joinable, Settle(t, current, outcome),
         UNCHANGED <<joins, announced>>, NEW u \in Turns, ReportsFit(u),
         u = t => announced[u] = {} \/ (joins[u] = 0 /\ outcome # "completed")
  PROVE  ReportsFit(u)'
<1>1. CASE u # t
  <2>1. state'[u] \in {state[u], "absent"}
    BY <1>1, SettleKeepsOthers
  <2> QED BY <2>1 DEF ReportsFit
<1>2. CASE u = t /\ announced[u] = {}
  BY <1>2 DEF ReportsFit
<1>3. CASE u = t /\ joins[u] = 0 /\ outcome # "completed"
  <2>1. Close(t, outcome)
    BY <1>3 DEF Settle
  <2>2. state'[t] = outcome
    BY <2>1, CloseFacts DEF TurnsInv
  <2> QED BY <1>3, <2>2 DEF ReportsFit
<1> QED BY <1>1, <1>2, <1>3

\* Reports stay fitting, whatever is called next.
LEMMA ReportsStep ==
  ASSUME TurnsInv, Next, NEW u \in Turns, ReportsFit(u)
  PROVE  ReportsFit(u)'
<1>1. ASSUME NEW t \in Turns, Register(t) \/ Start(t) PROVE ReportsFit(u)'
  BY <1>1 DEF Register, Start, ReportsFit, TurnsInv, TypeOK
<1>2. ASSUME NEW t \in Turns, AddFinalizer(t) PROVE ReportsFit(u)'
  BY <1>2 DEF AddFinalizer, ReportsFit
<1>3. ASSUME NEW t \in Turns,
             NEW to \in {"running", "waiting_for_user", "cancelling"}, Move(t, to)
      PROVE  ReportsFit(u)'
  BY <1>3 DEF Move, ReportsFit, TurnsInv, TypeOK
<1>4. ASSUME NEW t \in Turns, NEW o \in Terminal, Finish(t, o) PROVE ReportsFit(u)'
  <2>1. /\ state[t] \in Joinable /\ Settle(t, state[t], o) /\ UNCHANGED <<joins, announced>>
        /\ u = t => announced[u] = {}
    BY <1>4 DEF Finish, ReportsFit
  <2> QED BY <2>1, SettleReports
<1>5. ASSUME NEW t \in Turns, NEW o \in {"cancelled", "failed"}, Finalize(t, o)
      PROVE  ReportsFit(u)'
  <2>1. state[t] = "cancelling" /\ Settle(t, "running", o) /\ UNCHANGED <<joins, announced>>
    BY <1>5 DEF Finalize
  <2>2. u = t => announced[u] = {} \/ joins[u] = 0
    BY <2>1 DEF ReportsFit, TurnsInv, TypeOK
  <2> QED BY <2>1, <2>2, SettleReports
<1>6. ASSUME NEW s \in Steers, NEW t \in Turns, ReserveJoin(s, t) PROVE ReportsFit(u)'
  BY <1>6 DEF ReserveJoin, ReportsFit, TurnsInv, TypeOK
<1>7. ASSUME NEW s \in Steers, ReleaseOne(s) PROVE ReportsFit(u)'
  <2>1. held[s] \in Turns /\ joins[held[s]] \in Nat /\ joins[held[s]] > 1
    BY <1>7 DEF ReleaseOne, TurnsInv, TypeOK
  <2> QED BY <1>7, <2>1 DEF ReleaseOne, ReportsFit, TurnsInv, TypeOK
<1>8. ASSUME NEW s \in Steers, NEW t \in Turns, ActivateJoin(s, t) PROVE ReportsFit(u)'
  BY <1>8 DEF ActivateJoin, CountActivated, ReportsFit, TurnsInv, TypeOK
<1>9. ASSUME NEW s \in Steers, ReleaseLast(s) PROVE ReportsFit(u)'
  <2> DEFINE t == held[s]
  <2>1. t \in Turns
    BY <1>9 DEF ReleaseLast, TurnsInv, TypeOK
  <2>2. /\ deferred[t] # "none" => state[t] \in Live
        /\ joins'[t] = 0
        /\ \A v \in Turns : v # t => joins'[v] = joins[v]
    BY <1>9, <2>1, ReleaseLastFacts DEF TurnsInv, TypeOK
  <2>3. /\ \A v \in Turns : v # t => announced'[v] = announced[v]
        /\ announced'[t] = IF deferred[t] = "none" THEN announced[t]
                           ELSE announced[t] \union {deferred[t]}
    BY <1>9, <2>1 DEF ReleaseLast, TurnsInv, TypeOK
  <2>4. u # t => ((state'[u] \in {state[u], "absent"}) => ReportsFit(u)')
    BY <2>2, <2>3 DEF ReportsFit
  <2>5. CASE deferred[t] # "none" /\ state[t] \in Joinable
    <3>1. Close(t, deferred[t]) /\ deferred[t] \in Terminal /\ state[t] \in Live
      BY <1>9, <2>1, <2>5 DEF ReleaseLast, TurnsInv, TypeOK
    <3>2. /\ state'[t] = deferred[t]
          /\ \A v \in Turns : v # t => state'[v] \in {state[v], "absent"}
      BY <2>1, <2>2, <3>1, CloseFacts DEF TurnsInv
    <3>3. u = t => ReportsFit(u)'
      <4>1. u = t => announced'[u] = {deferred[t]} /\ state'[u] = deferred[t]
        BY <2>5, <2>3, <3>2 DEF ReportsFit
      <4> QED BY <4>1, <3>1 DEF ReportsFit
    <3> QED BY <2>4, <3>2, <3>3
  <2>6. CASE ~(deferred[t] # "none" /\ state[t] \in Joinable)
    <3>1. state' = state
      BY <1>9, <2>6 DEF ReleaseLast
    <3>2. u = t => ReportsFit(u)'
      <4>1. u = t => \/ state'[u] = "cancelling" /\ joins'[u] = 0
                     \/ announced'[u] = announced[u] /\ joins'[u] = 0 /\ state[u] = state'[u]
        BY <2>2, <2>6, <2>3, <3>1
      <4> QED BY <4>1 DEF ReportsFit
    <3> QED BY <2>4, <3>1, <3>2
  <2> QED BY <2>5, <2>6
<1> QED BY <1>1, <1>2, <1>3, <1>4, <1>5, <1>6, <1>7, <1>8, <1>9 DEF Next

\* What a leaving steer was told is the outcome of its turn, or a cancellation
\* under way has overtaken it.
THEOREM ReportsAreOutcomes == Spec => []ReportedIsOvertakenByCancel
<1> DEFINE Fit == \A u \in Turns : ReportsFit(u)
<1>1. Init => Fit
  BY DEF Init, ReportsFit
<1>2. TurnsInv /\ Fit /\ [Next]_vars => Fit'
  <2>1. ASSUME TurnsInv, Fit, Next PROVE Fit'
    BY <2>1, ReportsStep
  <2>2. ASSUME Fit, UNCHANGED vars PROVE Fit'
    BY <2>2 DEF vars, ReportsFit
  <2> QED BY <2>1, <2>2
<1>3. TurnsInv /\ Fit => ReportedIsOvertakenByCancel
  BY DEF ReportedIsOvertakenByCancel, ReportsFit, TurnsInv, TypeOK
<1> QED BY <1>1, <1>2, <1>3, Invariance, PTL DEF Spec

\* The phase the coordinator presents of each turn.
Phase == [t \in Turns |-> IF state[t] \in Live THEN "open" ELSE state[t]]

\* The guests it presents: a steer counts as one as long as its turn is exact.
Guests == [s \in Steers |-> IF held[s] \in overdrawn THEN NoTurn ELSE held[s]]

\* A steer that gives its join up is a guest no more.
LEMMA DropIsLeave ==
  ASSUME TurnsInv, NEW s \in Steers, NEW t \in Turns, held[s] = t, DropToken(s),
         UNCHANGED <<state, terminalIds, overdrawn>>
  PROVE  UNCHANGED <<Phase, terminalIds, Guests>> \/ Lifecycle!Leave(s)
<1>1. Phase' = Phase
  BY DEF Phase
<1>2. held' = [held EXCEPT ![s] = NoTurn]
  BY DEF DropToken
<1>3. CASE t \in overdrawn
  <2>1. Guests' = Guests
    BY <1>2, <1>3 DEF Guests, TurnsInv, TypeOK
  <2> QED BY <1>1, <2>1
<1>4. CASE t \notin overdrawn
  <2>1. Guests[s] = t /\ t # NoTurn
    BY <1>4, TurnAssumption DEF Guests
  <2>2. Guests' = [Guests EXCEPT ![s] = NoTurn]
    BY <1>2 DEF Guests, TurnsInv, TypeOK
  <2> QED BY <1>1, <2>1, <2>2 DEF Lifecycle!Leave, Phase, Guests
<1> QED BY <1>3, <1>4

\* Closing a turn is the abstract Settle.
LEMMA CloseIsSettle ==
  ASSUME TurnsInv, NEW t \in Turns, state[t] \in Live,
         NEW outcome \in Terminal, Close(t, outcome)
  PROVE  Lifecycle!Settle(t, outcome)
<1> DEFINE ids == Append(terminalIds, t)
<1>1. /\ terminalIds \in Seq(Turns) /\ Len(terminalIds) \in Nat
      /\ Retention \in Nat /\ Len(ids) = Len(terminalIds) + 1
  BY TurnAssumption DEF TurnsInv, TypeOK
<1>2. (Len(ids) > Retention) <=> (Len(terminalIds) >= Retention)
  BY <1>1
<1>3. terminalIds' = IF Len(terminalIds) >= Retention THEN Tail(ids) ELSE ids
  BY <1>2 DEF Close, OverRetained
<1>4. state' = [u \in Turns |->
                  IF Len(terminalIds) >= Retention /\ u = Head(ids) THEN "absent"
                  ELSE IF u = t THEN outcome ELSE state[u]]
  BY <1>2 DEF Close, OverRetained, Expired
<1>5. Phase' = [u \in Turns |->
                  IF Len(terminalIds) >= Retention /\ u = Head(ids) THEN "absent"
                  ELSE IF u = t THEN outcome ELSE Phase[u]]
  BY <1>4 DEF Phase
<1>6. Phase[t] = "open"
  BY DEF Phase
<1> QED BY <1>3, <1>5, <1>6 DEF Lifecycle!Settle, Phase

\* A terminal transition is either hidden (the outcome is held back) or the
\* abstract end of a turn without guests.
LEMMA SettleIsEnd ==
  ASSUME TurnsInv, NEW t \in Turns, state[t] \in Live,
         NEW outcome \in Terminal, NEW current \in Joinable,
         Settle(t, current, outcome), UNCHANGED <<joins, held, overdrawn>>
  PROVE  \/ UNCHANGED <<Phase, terminalIds, Guests>>
         \/ Lifecycle!End(t, outcome)
<1>1. CASE HeldOpen(t)
  <2>1. state' = [state EXCEPT ![t] = current] /\ UNCHANGED terminalIds
    BY <1>1 DEF Settle
  <2>2. Phase' = Phase
    BY <2>1 DEF Phase, TurnsInv, TypeOK
  <2> QED BY <2>1, <2>2 DEF Guests
<1>2. CASE ~HeldOpen(t)
  <2>1. Lifecycle!Settle(t, outcome)
    BY <1>2, CloseIsSettle DEF Settle
  <2>2. t \notin overdrawn => Cardinality(Holders(t)) = 0
    BY <1>2 DEF HeldOpen, TurnsInv, TypeOK, JoinsAreHeld
  <2>3. \A s \in Steers : Guests[s] # t
    <3>1. t \notin overdrawn => Holders(t) = {}
      BY <2>2, HoldersFinite, FS_EmptySet
    <3>2. t # NoTurn
      BY TurnAssumption
    <3> QED BY <3>1, <3>2 DEF Holders, Guests
  <2>4. Guests' = Guests
    BY DEF Guests
  <2> QED BY <2>1, <2>3, <2>4 DEF Lifecycle!End, Guests
<1> QED BY <1>1, <1>2

\* A move between live states, or from absent to live, is hidden or is Open.
LEMMA MoveIsOpen ==
  ASSUME TurnsInv, NEW t \in Turns, UNCHANGED <<terminalIds, held, overdrawn>>,
         NEW to \in Live, state' = [state EXCEPT ![t] = to],
         state[t] \in Live \/ state[t] = "absent"
  PROVE  \/ UNCHANGED <<Phase, terminalIds, Guests>>
         \/ Lifecycle!Open(t)
<1>1. CASE state[t] \in Live
  <2>1. Phase' = Phase
    BY <1>1 DEF Phase, TurnsInv, TypeOK
  <2> QED BY <2>1 DEF Guests
<1>2. CASE state[t] = "absent"
  <2>1. Phase[t] = "absent" /\ Phase' = [Phase EXCEPT ![t] = "open"]
    BY <1>2 DEF Phase, TurnsInv, TypeOK
  <2> QED BY <2>1 DEF Lifecycle!Open, Phase, Guests
<1> QED BY <1>1, <1>2

LEMMA StepImplements ==
  ASSUME TurnsInv, [Next]_vars
  PROVE  [Lifecycle!LifecycleNext]_<<Phase, terminalIds, Guests>>
<1>1. ASSUME NEW t \in Turns, Register(t) \/ Start(t) \/ AddFinalizer(t)
      PROVE  UNCHANGED <<Phase, terminalIds, Guests>> \/ Lifecycle!Open(t)
  <2>1. CASE Register(t)
    BY <2>1, MoveIsOpen DEF Register
  <2>2. CASE Start(t)
    BY <2>2, MoveIsOpen DEF Start
  <2>3. CASE AddFinalizer(t)
    BY <2>3 DEF AddFinalizer, Phase, Guests
  <2> QED BY <1>1, <2>1, <2>2, <2>3
<1>2. ASSUME NEW t \in Turns,
             NEW to \in {"running", "waiting_for_user", "cancelling"}, Move(t, to)
      PROVE  UNCHANGED <<Phase, terminalIds, Guests>> \/ Lifecycle!Open(t)
  BY <1>2, MoveIsOpen DEF Move
<1>3. ASSUME NEW t \in Turns, NEW o \in Terminal, Finish(t, o)
      PROVE  UNCHANGED <<Phase, terminalIds, Guests>> \/ Lifecycle!End(t, o)
  BY <1>3, SettleIsEnd DEF Finish
<1>4. ASSUME NEW t \in Turns, NEW o \in {"cancelled", "failed"}, Finalize(t, o)
      PROVE  UNCHANGED <<Phase, terminalIds, Guests>> \/ Lifecycle!End(t, o)
  BY <1>4, SettleIsEnd DEF Finalize
<1>5. ASSUME NEW s \in Steers, NEW t \in Turns, ReserveJoin(s, t)
      PROVE  UNCHANGED <<Phase, terminalIds, Guests>> \/ Lifecycle!Join(s, t)
  <2>1. Phase' = Phase /\ Phase[t] = "open" /\ held[s] = NoTurn /\ NoTurn \notin overdrawn
        /\ held' = [held EXCEPT ![s] = t] /\ UNCHANGED <<terminalIds, overdrawn>>
    BY <1>5, TurnAssumption DEF ReserveJoin, Admits, Phase, TurnsInv, TypeOK
  <2>2. CASE t \in overdrawn
    <3>1. Guests' = Guests
      BY <2>1, <2>2 DEF Guests, TurnsInv, TypeOK
    <3> QED BY <2>1, <3>1
  <2>3. CASE t \notin overdrawn
    <3>1. Guests[s] = NoTurn /\ Guests' = [Guests EXCEPT ![s] = t]
      BY <2>1, <2>3 DEF Guests, TurnsInv, TypeOK
    <3> QED BY <2>1, <3>1 DEF Lifecycle!Join, Phase, Guests
  <2> QED BY <2>2, <2>3
<1>6. ASSUME NEW s \in Steers, ReleaseOne(s)
      PROVE  UNCHANGED <<Phase, terminalIds, Guests>> \/ Lifecycle!Leave(s)
  <2>1. held[s] \in Turns /\ DropToken(s) /\ UNCHANGED <<state, terminalIds, overdrawn>>
    BY <1>6 DEF ReleaseOne, TurnsInv, TypeOK
  <2> QED BY <2>1, DropIsLeave
<1>7. ASSUME NEW s \in Steers, ReleaseLast(s)
      PROVE  \/ UNCHANGED <<Phase, terminalIds, Guests>>
             \/ Lifecycle!Leave(s)
             \/ \E t \in Turns, o \in Terminal : Lifecycle!End(t, o)
             \/ \E o \in Terminal : Lifecycle!LeaveAndEnd(s, o)
  <2>1. PICK t \in Turns : t = held[s] /\ t # NoTurn
    BY <1>7 DEF TurnsInv, TypeOK, ReleaseLast
  <2>2. /\ DropToken(s) /\ overdrawn' = overdrawn
        /\ \A r \in Steers : held'[r] # NoTurn =>
             held'[r] = held[r] /\ (t \notin overdrawn => held[r] # t)
    BY <1>7, <2>1, ReleaseLastFacts
  <2>3. held' = [held EXCEPT ![s] = NoTurn] /\ held \in [Steers -> Turns \union {NoTurn}]
    BY <2>2 DEF DropToken, TurnsInv, TypeOK
  <2>4. CASE deferred[t] # "none" /\ state[t] \in Joinable
    <3>1. PICK o \in Terminal : o = deferred[t]
      BY <2>1, <2>4 DEF TurnsInv, TypeOK
    <3>2. Close(t, o)
      BY <1>7, <2>1, <2>4, <3>1 DEF ReleaseLast, Close, RunFinalizers
    <3>3. Lifecycle!Settle(t, o)
      BY <2>4, <3>2, CloseIsSettle
    <3>4. CASE t \in overdrawn
      <4>1. Guests' = Guests
        BY <2>1, <2>2, <2>3, <3>4 DEF Guests
      <4>2. \A r \in Steers : Guests[r] # t
        BY <2>1, <3>4 DEF Guests
      <4> QED BY <3>3, <4>1, <4>2 DEF Lifecycle!End, Guests
    <3>5. CASE t \notin overdrawn
      <4>1. \A r \in Steers \ {s} : held[r] # t
        BY <2>1, <2>2, <2>3, <3>5
      <4>2. /\ Guests[s] = t /\ \A r \in Steers \ {s} : Guests[r] # t
            /\ Guests' = [Guests EXCEPT ![s] = NoTurn]
        BY <2>1, <2>2, <2>3, <3>5, <4>1 DEF Guests
      <4> QED BY <2>1, <3>3, <4>2 DEF Lifecycle!LeaveAndEnd, Lifecycle!Settle, Guests
    <3> QED BY <3>4, <3>5
  <2>5. CASE ~(deferred[t] # "none" /\ state[t] \in Joinable)
    <3>1. UNCHANGED <<state, terminalIds>>
      BY <1>7, <2>1, <2>5 DEF ReleaseLast
    <3> QED BY <2>1, <2>2, <3>1, DropIsLeave
  <2> QED BY <2>4, <2>5
<1>11. ASSUME NEW s \in Steers, NEW t \in Turns, ActivateJoin(s, t)
      PROVE  \/ UNCHANGED <<Phase, terminalIds, Guests>>
             \/ Lifecycle!Leave(s)
             \/ Lifecycle!Displace(t)
  <2>1. /\ UNCHANGED <<state, terminalIds>> /\ DropToken(s)
        /\ overdrawn' = IF held[s] = t THEN overdrawn ELSE overdrawn \union {t}
        /\ held[s] \in {t, NoTurn} /\ state[t] \in Live
    BY <1>11 DEF ActivateJoin
  <2>2. CASE held[s] = t
    BY <2>1, <2>2, DropIsLeave
  <2>3. CASE held[s] = NoTurn
    <3>1. held' = held /\ overdrawn' = overdrawn \union {t} /\ t # NoTurn
      BY <2>1, <2>3, TurnAssumption DEF DropToken, TurnsInv, TypeOK
    <3>2. Guests' = [r \in Steers |-> IF Guests[r] = t THEN NoTurn ELSE Guests[r]]
      BY <3>1 DEF Guests
    <3>3. Phase' = Phase /\ Phase[t] = "open"
      BY <2>1 DEF Phase
    <3> QED BY <2>1, <3>2, <3>3 DEF Lifecycle!Displace, Phase, Guests
  <2> QED BY <2>1, <2>2, <2>3
<1>8. CASE UNCHANGED vars
  BY <1>8 DEF vars, Phase, Guests
<1>9. /\ \A t \in Turns : Lifecycle!Open(t) => Lifecycle!LifecycleNext
      /\ \A t \in Turns : Lifecycle!Displace(t) => Lifecycle!LifecycleNext
      /\ \A t \in Turns, o \in Terminal : Lifecycle!End(t, o) => Lifecycle!LifecycleNext
      /\ \A s \in Steers, t \in Turns : Lifecycle!Join(s, t) => Lifecycle!LifecycleNext
      /\ \A s \in Steers : Lifecycle!Leave(s) => Lifecycle!LifecycleNext
      /\ \A s \in Steers, o \in Terminal :
           Lifecycle!LeaveAndEnd(s, o) => Lifecycle!LifecycleNext
  BY DEF Lifecycle!LifecycleNext, Lifecycle!Outcomes
<1> HIDE DEF Terminal
<1> DEFINE Stutter == UNCHANGED <<Phase, terminalIds, Guests>>
<1>10. ASSUME Next PROVE Lifecycle!LifecycleNext \/ Stutter
  <2> HIDE DEF Stutter
  <2>1. CASE \E t \in Turns : Register(t) \/ Start(t) \/ AddFinalizer(t)
    BY <2>1, <1>1, <1>9 DEF Stutter
  <2>2. CASE \E t \in Turns, to \in {"running", "waiting_for_user", "cancelling"} :
               Move(t, to)
    BY <2>2, <1>2, <1>9 DEF Stutter
  <2>3. CASE \E t \in Turns, o \in Terminal : Finish(t, o)
    BY <2>3, <1>3, <1>9 DEF Stutter
  <2>4. CASE \E t \in Turns, o \in {"cancelled", "failed"} : Finalize(t, o)
    BY <2>4, <1>4, <1>9 DEF Stutter, Terminal
  <2>5. CASE \E s \in Steers, t \in Turns : ReserveJoin(s, t) \/ ActivateJoin(s, t)
    BY <2>5, <1>5, <1>11, <1>9 DEF Stutter
  <2>6. CASE \E s \in Steers : ReleaseOne(s) \/ ReleaseLast(s)
    BY <2>6, <1>6, <1>7, <1>9 DEF Stutter
  <2> QED BY <1>10, <2>1, <2>2, <2>3, <2>4, <2>5, <2>6 DEF Next
<1> QED BY <1>8, <1>10

\* The coordinator is an implementation of the turn lifecycle, with the
\* displacement of guests that the lifecycle admits.
THEOREM ImplementsLifecycle == Spec => Implements
<1>1. Init => Lifecycle!LifecycleInit
  BY DEF Init, Lifecycle!LifecycleInit
<1>2. TurnsInv /\ [Next]_vars => [Lifecycle!LifecycleNext]_(Lifecycle!lifecycleVars)
  BY StepImplements DEF Lifecycle!lifecycleVars, Phase, Guests
<1> QED BY <1>1, <1>2, Invariance, PTL DEF Spec, Implements, Lifecycle!LifecycleSpec
=============================================================================
