-------------------------- MODULE ArtifactRegistry --------------------------
(***************************************************************************)
(* ArtifactRegistry (api/artifacts.py): uploaded files, files of the runtime *)
(* that were registered, and who reads them (api/app.py, channels/web.py).   *)
(*                                                                         *)
(* Requests run on the event loop; everything that touches the disk runs in  *)
(* a thread of its own under one lock.  A request that is cancelled or runs   *)
(* into a limit leaves its thread behind: "threads" are those whose operation *)
(* has not run yet, whether or not somebody waits for the result.              *)
(*                                                                         *)
(* An operation under the lock is one action, except that the process may     *)
(* exit between the move of a published file and the manifest ("moving").     *)
(* A file is one chunk: bytes are counted in files.                            *)
(***************************************************************************)
EXTENDS Integers, FiniteSets, SequencesExt, Ordering

CONSTANTS
  Stored,        \* owned items of earlier runs
  Uploads,       \* upload requests, and the items they create
  Paths,         \* files of the runtime, registered once each
  Leases,        \* readers of a file and turns with an attachment
  MaxBytes,      \* max_total_bytes
  MaxEntries,    \* max_entries
  NoItem,
  Traffic        \* bound: what is stored, uploaded, registered and read in one behaviour, how
                 \* many writes of the manifest, moves and unlinks fail, and how often the
                 \* server is stopped

Owned == Stored \cup Uploads
Items == Owned \cup Paths
Ops   == {"write", "publish", "ack", "rollback", "abandon", "settle", "register", "discard",
          "lease", "close"}

ArtifactAssumption ==
  /\ MaxBytes \in Nat \ {0} /\ MaxEntries \in Nat \ {0}
  /\ NoItem \notin Items /\ IsFiniteSet(Items)
  /\ Stored \cap Uploads = {} /\ Paths \cap Owned = {} /\ Leases \cap Items = {}
  /\ Traffic \subseteq [stored : Seq(Stored), uploads : SUBSET Uploads, paths : SUBSET Paths,
                         leases : SUBSET Leases, faults : Nat, stops : BOOLEAN]
  /\ \A t \in Traffic :       \* what an earlier run has left respects the quota
       IsInjective(t.stored) /\ Len(t.stored) <= MaxEntries /\ Len(t.stored) <= MaxBytes
ASSUME ArtifactAssumption

VARIABLES
  file,        \* of every owned item: "none", "empty" or "temp" (staged), "bin"
  present,     \* files of the runtime that exist
  manifest,    \* registry.json
  entries,     \* _entries, least recently used first
  pending,     \* _pending_deletes
  pins,        \* _pins
  guards,      \* _protected_pending_files
  receipts,    \* _pending_publications
  victims,     \* of each receipt
  leases,      \* _leases
  degraded, registryClosed,
  request,     \* where each upload is
  cancelled,   \* uploads whose cancellation waits for the thread
  reader,      \* where each lease is
  wanted,      \* the item it is for
  registering, \* where the registration of each path is
  threads, moving,
  traffic, faults,
  evicted,     \* history: items given up for space
  kept         \* history: publications that were acknowledged, abandoned or met an exit

disk == <<file, present, manifest>>
registry == <<entries, pending, pins, guards, receipts, victims, leases, degraded, registryClosed>>
clients == <<request, cancelled, reader, wanted, registering>>
rest == <<traffic, faults>>
artifactVars == <<disk, registry, clients, threads, moving, rest, evicted, kept>>

ArtifactTypeOK ==
  /\ file \in [Owned -> {"none", "empty", "temp", "bin"}] /\ present \subseteq Paths
  /\ manifest \in [items : Seq(Items), pending : SUBSET Owned]
  /\ entries \in Seq(Items) /\ pending \subseteq Owned
  /\ pins \in [Items -> Int] /\ guards \in [Owned -> Int]
  /\ receipts \subseteq Uploads /\ victims \in [Uploads -> Seq(Items)]
  /\ leases \in [Leases -> Items \cup {NoItem}]
  /\ degraded \in BOOLEAN /\ registryClosed \in BOOLEAN
  /\ request \in [Uploads -> {"new", "write", "publish", "closing", "ack", "rollback",
                              "abandon", "done", "over"}]
  /\ cancelled \subseteq Uploads
  /\ reader \in [Leases -> {"idle", "asked", "held", "dropped", "detached"}]
  /\ wanted \in [Leases -> Items \cup {NoItem}]
  /\ registering \in [Paths -> {"no", "asked", "dropped", "done"}]
  /\ threads \subseteq Ops \X (Uploads \cup Paths \cup Leases \cup {NoItem})
  /\ moving \in Uploads \cup {NoItem}
  /\ traffic \in Traffic /\ faults \in 0..traffic.faults
  /\ evicted \subseteq Items /\ kept \subseteq Uploads

-----------------------------------------------------------------------------
(* Helpers of the operations under the lock. *)

Has(seq, i) == i \in ToSet(seq)
Without(seq, gone) == Only(seq, ToSet(seq) \ gone)
Physical(f) == Cardinality({i \in Owned : f[i] \in {"temp", "bin"}})
Erase(f, gone) == [i \in Owned |-> IF i \in gone THEN "none" ELSE f[i]]
Disk(es, ps) == [items |-> es, pending |-> ps]

\* _reap_pending_locked(): what it unlinks, unless the system refuses.
Reaped(ps, gs, unlinks) == IF unlinks THEN {i \in ps : gs[i] <= 0} ELSE {}

\* An operation meets at most one failing call.
Meets(fault) == IF fault = "none" THEN UNCHANGED faults
                ELSE faults < traffic.faults /\ faults' = faults + 1

\* The least recently used entries that nobody pins.
Unpinned == Only(entries, {i \in Items : pins[i] <= 0})
Prefix(n) == ToSet(SubSeq(Unpinned, 1, n))
Least(ns) == IF ns = {} THEN -1 ELSE CHOOSE n \in ns : \A m \in ns : n <= m

\* The victims of an entry more, and those of a chunk more, when "total" files
\* are on disk; -1 stands for "capacity is leased".
ForEntry == Least({n \in 0..Len(Unpinned) : Len(entries) - n < MaxEntries})
ForChunk(total) ==
  Least({n \in 0..Len(Unpinned) : total + 1 - Cardinality(Prefix(n) \cap Owned) <= MaxBytes})

Run(op, x) == <<op, x>> \in threads /\ moving = NoItem
Ended(op, x) == threads \ {<<op, x>>}
Writable == ~registryClosed /\ ~degraded

ArtifactInit ==
  /\ traffic \in Traffic
  /\ file = [i \in Owned |-> IF Has(traffic.stored, i) THEN "bin" ELSE "none"]
  /\ present = traffic.paths
  /\ manifest = Disk(traffic.stored, {})
  /\ entries = traffic.stored
  /\ pending = {}
  /\ pins = [i \in Items |-> 0]
  /\ guards = [i \in Owned |-> 0]
  /\ receipts = {}
  /\ victims = [u \in Uploads |-> <<>>]
  /\ leases = [l \in Leases |-> NoItem]
  /\ degraded = FALSE /\ registryClosed = FALSE
  /\ request = [u \in Uploads |-> "new"]
  /\ cancelled = {}
  /\ reader = [l \in Leases |-> "idle"]
  /\ wanted = [l \in Leases |-> NoItem]
  /\ registering = [p \in Paths |-> "no"]
  /\ threads = {} /\ moving = NoItem
  /\ faults = 0
  /\ evicted = {} /\ kept = {}

-----------------------------------------------------------------------------
(* The thread that writes a chunk of an upload. *)

BeginUpload(u) ==
  /\ u \in traffic.uploads /\ request[u] = "new" /\ ~registryClosed
  /\ file' = [file EXCEPT ![u] = "empty"]
  /\ request' = [request EXCEPT ![u] = "write"]
  /\ threads' = threads \cup {<<"write", u>>}
  /\ UNCHANGED <<present, manifest, registry, cancelled, reader, wanted, registering, moving,
                 rest, evicted, kept>>

\* The request goes on to the publication, unless the write failed, it was
\* cancelled, or it has gone.  Its temporary file goes with it.
Written(u, f, wrote) ==
  LET goes == wrote /\ request[u] = "write" /\ u \notin cancelled
  IN  /\ file' = [f EXCEPT ![u] = IF goes THEN "temp" ELSE "none"]
      /\ request' = [request EXCEPT ![u] = IF goes THEN "publish" ELSE "over"]
      /\ threads' = Ended("write", u) \cup (IF goes THEN {<<"publish", u>>} ELSE {})
      /\ cancelled' = cancelled \ {u}

\* _write_upload_chunk() with _reserve_staging_bytes_locked(): entries make room
\* for the chunk, and are gone also when the upload fails later.
WriteRuns(u, fault) ==
  /\ Run("write", u) /\ Meets(fault)
  /\ LET unlinks == fault # "unlink"
         gone == Reaped(pending, guards, unlinks)
         left == Erase(file, gone)
         total == Physical(left)
         n == ForChunk(total)
         out == Prefix(n)
         given == Without(entries, out)
         due == (pending \ gone) \cup (out \cap Owned)
         freed == Reaped(due, guards, unlinks)
         after == Erase(left, freed)
     IN  \/ /\ ~Writable
            /\ Written(u, file, FALSE)
            /\ UNCHANGED <<entries, pending, manifest, evicted>>
         \/ /\ Writable /\ (total > MaxBytes \/ n = -1 \/ (n > 0 /\ fault = "save"))
            /\ pending' = pending \ gone
            /\ Written(u, left, FALSE)
            /\ UNCHANGED <<entries, manifest, evicted>>
         \/ /\ Writable /\ total <= MaxBytes /\ n = 0
            /\ pending' = pending \ gone
            /\ Written(u, left, TRUE)
            /\ UNCHANGED <<entries, manifest, evicted>>
         \/ /\ Writable /\ total <= MaxBytes /\ n > 0 /\ fault # "save"
            /\ entries' = given
            /\ manifest' = Disk(given, due)
            /\ pending' = due \ freed
            /\ evicted' = evicted \cup out
            /\ Written(u, after, Physical(after) + 1 <= MaxBytes)
  /\ UNCHANGED <<present, pins, guards, receipts, victims, leases, degraded, registryClosed,
                 reader, wanted, registering, moving, traffic, kept>>

-----------------------------------------------------------------------------
(* The thread that publishes: _publish_upload(). *)

NotPublished(u) ==
  /\ request' = [request EXCEPT ![u] = "over"]
  /\ cancelled' = cancelled \ {u}
  /\ threads' = Ended("publish", u)

\* The plan is made and the file moved into place, under the lock.
PublishMoves(u, fault) ==
  /\ Run("publish", u) /\ Meets(fault)
  /\ LET gone == IF Writable THEN Reaped(pending, guards, fault # "unlink") ELSE {}
         left == Erase(file, gone)
         n == ForEntry
         moves == /\ Writable /\ Physical(left) <= MaxBytes /\ n # -1
                  /\ file[u] = "temp" /\ fault # "move"
     IN  /\ pending' = pending \ gone
         /\ \/ /\ moves
               /\ moving' = u
               /\ file' = [left EXCEPT ![u] = "bin"]
               /\ victims' = [victims EXCEPT ![u] = SubSeq(Unpinned, 1, n)]
               /\ UNCHANGED <<request, cancelled, threads>>
            \/ /\ ~moves
               /\ file' = [left EXCEPT ![u] = "none"]
               /\ NotPublished(u)
               /\ UNCHANGED <<moving, victims>>
  /\ UNCHANGED <<present, manifest, entries, pins, guards, receipts, leases, degraded,
                 registryClosed, reader, wanted, registering, traffic, evicted, kept>>

BadFollows(u) ==              \* the thread of a request that has gone leaves it at that
  IF u \in cancelled THEN {<<"rollback", u>>} ELSE {}

\* Who takes the receipt: the request, which withdraws the publication if it was
\* cancelled, or on_detached.
Follows(u) == IF request[u] = "over" THEN {<<"settle", u>>}
              ELSE IF u \in cancelled THEN {<<"rollback", u>>} ELSE {}

\* The entry is committed, and a receipt lets the publication be withdrawn: it
\* pins the entry and protects the files of the victims.
PublishSaves(u) ==
  /\ moving = u /\ moving' = NoItem
  /\ LET out == ToSet(victims[u])
     IN  /\ entries' = Append(Without(entries, out), u)
         /\ pending' = pending \cup (out \cap Owned)
         /\ guards' = [i \in Owned |-> guards[i] + (IF i \in out THEN 1 ELSE 0)]
         /\ evicted' = evicted \cup out
  /\ manifest' = Disk(entries', pending')
  /\ receipts' = receipts \cup {u}
  /\ pins' = [pins EXCEPT ![u] = @ + 1]
  /\ cancelled' = cancelled \ {u}
  /\ threads' = Ended("publish", u) \cup Follows(u)
  /\ request' = [request EXCEPT ![u] = IF @ = "over" THEN @
                                       ELSE IF u \in cancelled THEN "rollback" ELSE "closing"]
  /\ UNCHANGED <<file, present, victims, leases, degraded, registryClosed, reader, wanted,
                 registering, rest, kept>>

PublishFails(u) ==
  /\ moving = u /\ moving' = NoItem
  /\ Meets("save")
  /\ file' = [file EXCEPT ![u] = "none"]
  /\ victims' = [victims EXCEPT ![u] = <<>>]
  /\ NotPublished(u)
  /\ UNCHANGED <<present, manifest, entries, pending, pins, guards, receipts, leases, degraded,
                 registryClosed, reader, wanted, registering, traffic, evicted, kept>>

-----------------------------------------------------------------------------
(* The threads that end a publication.  Each looks at the receipt first. *)

\* _release_publication_guards_locked()
ReleaseGuards(u) ==
  /\ receipts' = receipts \ {u}
  /\ victims' = [victims EXCEPT ![u] = <<>>]
  /\ pins' = [pins EXCEPT ![u] = IF @ > 1 THEN @ - 1 ELSE 0]
  /\ guards' = [i \in Owned |-> IF Has(victims[u], i) /\ guards[i] > 0 THEN guards[i] - 1
                                ELSE guards[i]]

\* Guards are released, what they protected is reclaimed.
Concludes(u, fault) ==
  /\ ReleaseGuards(u)
  /\ LET gone == Reaped(pending, guards', fault # "unlink")
     IN  /\ pending' = pending \ gone
         /\ file' = Erase(file, gone)
  /\ manifest' = IF fault = "save" THEN manifest ELSE Disk(entries, pending')
  /\ kept' = kept \cup {u}

NothingToEnd == UNCHANGED <<file, manifest, pending, receipts, victims, pins, guards, kept>>

\* _ack_publish().  The result may come after the request's limit or its
\* cancellation.
AckRuns(u, fault) ==
  /\ Run("ack", u) /\ Meets(fault)
  /\ IF u \in receipts THEN Concludes(u, fault) ELSE NothingToEnd
  /\ \/ /\ request[u] = "ack"
        /\ request' = [request EXCEPT ![u] = "done"]
        /\ threads' = Ended("ack", u)
     \/ /\ request[u] = "ack"
        /\ request' = [request EXCEPT ![u] = "rollback"]
        /\ threads' = Ended("ack", u) \cup {<<"rollback", u>>}
     \/ /\ request[u] # "ack"
        /\ threads' = Ended("ack", u)
        /\ UNCHANGED request
  /\ UNCHANGED <<present, entries, leases, degraded, registryClosed, cancelled, reader,
                 wanted, registering, moving, traffic, evicted>>

\* _abandon_cancelled_publication()
AbandonRuns(u, fault) ==
  /\ Run("abandon", u) /\ Meets(fault)
  /\ IF u \in receipts THEN Concludes(u, fault) ELSE NothingToEnd
  /\ request' = [request EXCEPT ![u] = IF @ = "abandon" THEN "over" ELSE @]
  /\ threads' = Ended("abandon", u)
  /\ UNCHANGED <<present, entries, leases, degraded, registryClosed, cancelled, reader,
                 wanted, registering, moving, traffic, evicted>>

BadWithdraws(u, fault) ==     \* the victims do not come back
  /\ entries' = Without(entries, {u})
  /\ ReleaseGuards(u)
  /\ LET due == (pending \ ToSet(victims[u])) \cup {u}
         gone == Reaped(due, guards', fault # "unlink")
     IN  /\ pending' = due \ gone
         /\ file' = Erase(file, gone)
         /\ manifest' = Disk(entries', IF fault = "resave" THEN due ELSE due \ gone)
  /\ evicted' = evicted \ ToSet(victims[u])
  /\ UNCHANGED kept

\* _rollback_publish(): the victims come back, the entry goes.
Withdraws(u, fault) ==
  /\ entries' = victims[u] \o Without(entries, {u} \cup ToSet(victims[u]))
  /\ ReleaseGuards(u)
  /\ LET due == (pending \ ToSet(victims[u])) \cup {u}
         gone == Reaped(due, guards', fault # "unlink")
     IN  /\ pending' = due \ gone
         /\ file' = Erase(file, gone)
         /\ manifest' = Disk(entries', IF fault = "resave" THEN due ELSE due \ gone)
  /\ evicted' = evicted \ ToSet(victims[u])
  /\ UNCHANGED kept

\* Called by the request, or by a thread whose request had gone.  When the
\* manifest cannot be written the publication is abandoned.
RollbackRuns(op, u, fault) ==
  /\ Run(op, u) /\ Meets(fault)
  /\ IF u \in receipts /\ fault # "save" THEN Withdraws(u, fault)
     ELSE NothingToEnd /\ UNCHANGED <<entries, evicted>>
  /\ LET fails == u \in receipts /\ fault = "save"
         waits == op = "rollback" /\ request[u] = "rollback"
     IN  /\ threads' = Ended(op, u) \cup
                       (IF fails /\ (waits \/ op = "settle") THEN {<<"abandon", u>>} ELSE {})
         /\ request' = [request EXCEPT ![u] = IF ~waits THEN @
                                              ELSE IF fails THEN "abandon" ELSE "over"]
  /\ UNCHANGED <<present, leases, degraded, registryClosed, cancelled, reader, wanted,
                 registering, moving, traffic>>

-----------------------------------------------------------------------------
(* The upload request: _upload(). *)

\* upload.close() has returned.
CloseFile(u) ==
  /\ request[u] = "closing"
  /\ request' = [request EXCEPT ![u] = "ack"]
  /\ threads' = threads \cup {<<"ack", u>>}
  /\ UNCHANGED <<disk, registry, cancelled, reader, wanted, registering, moving, rest, evicted, kept>>

\* A cancellation, or the limit of what the request waits for.  It waits for a
\* write and a publication, and gives up everything else.
After(phase) == CASE phase \in {"closing", "ack"} -> "rollback"
                  [] phase = "rollback" -> "abandon"
                  [] OTHER -> "over"

InterruptUpload(u) ==
  /\ \/ /\ request[u] \in {"write", "publish"} /\ u \notin cancelled
        /\ cancelled' = cancelled \cup {u}
        /\ UNCHANGED <<request, threads>>
     \/ /\ request[u] \in {"closing", "ack", "rollback", "abandon"}
        /\ request' = [request EXCEPT ![u] = After(@)]
        /\ threads' = threads \cup
             (IF request[u] = "abandon" THEN {} ELSE {<<After(request[u]), u>>})
        /\ UNCHANGED cancelled
  /\ UNCHANGED <<disk, registry, reader, wanted, registering, moving, rest, evicted, kept>>

\* _OWNER_CANCEL_TIMEOUT_S after the cancellation the request ends, whatever its
\* thread does, and removes its temporary file.
DetachUpload(u) ==
  /\ u \in cancelled
  /\ cancelled' = cancelled \ {u}
  /\ request' = [request EXCEPT ![u] = "over"]
  /\ file' = [file EXCEPT ![u] = IF @ = "bin" THEN @ ELSE "none"]
  /\ UNCHANGED <<present, manifest, registry, reader, wanted, registering, threads, moving, rest,
                 evicted, kept>>

-----------------------------------------------------------------------------
(* Files of the runtime: register_path_async(). *)

AskRegistration(p) ==
  /\ p \in traffic.paths /\ registering[p] = "no" /\ ~registryClosed
  /\ registering' = [registering EXCEPT ![p] = "asked"]
  /\ threads' = threads \cup {<<"register", p>>}
  /\ UNCHANGED <<disk, registry, request, cancelled, reader, wanted, moving, rest, evicted, kept>>

DropRegistration(p) ==
  /\ registering[p] = "asked"
  /\ registering' = [registering EXCEPT ![p] = "dropped"]
  /\ UNCHANGED <<disk, registry, request, cancelled, reader, wanted, threads, moving, rest, evicted,
                 kept>>

RegisterRuns(p, fault) ==
  /\ Run("register", p) /\ Meets(fault)
  /\ LET unlinks == fault # "unlink"
         gone == IF Writable /\ p \in present THEN Reaped(pending, guards, unlinks) ELSE {}
         left == Erase(file, gone)
         n == ForEntry
         out == Prefix(n)
         due == (pending \ gone) \cup (out \cap Owned)
         freed == Reaped(due, guards, unlinks)
         enters == /\ p \in present /\ Writable /\ Physical(left) <= MaxBytes /\ n # -1
                   /\ fault # "save"
     IN  \/ /\ enters
            /\ entries' = Append(Without(entries, out), p)
            /\ pending' = due \ freed
            /\ file' = Erase(left, freed)
            /\ manifest' = Disk(entries', IF fault = "resave" THEN due ELSE due \ freed)
            /\ evicted' = evicted \cup out
            /\ threads' = Ended("register", p) \cup
                          (IF registering[p] = "dropped" THEN {<<"discard", p>>} ELSE {})
         \/ /\ ~enters
            /\ pending' = pending \ gone
            /\ file' = left
            /\ threads' = Ended("register", p)
            /\ UNCHANGED <<entries, manifest, evicted>>
  /\ registering' = [registering EXCEPT ![p] = "done"]
  /\ UNCHANGED <<present, pins, guards, receipts, victims, leases, degraded, registryClosed,
                 request, cancelled, reader, wanted, moving, traffic, kept>>

\* _discard_registered_path()
DiscardRuns(p, fault) ==
  /\ Run("discard", p) /\ Meets(fault)
  /\ IF Has(entries, p) /\ fault # "save"
     THEN /\ entries' = Without(entries, {p})
          /\ manifest' = Disk(entries', pending)
     ELSE UNCHANGED <<entries, manifest>>
  /\ threads' = Ended("discard", p)
  /\ UNCHANGED <<file, present, pending, pins, guards, receipts, victims, leases, degraded,
                 registryClosed, clients, moving, traffic, evicted, kept>>

\* Whoever made the file removes it.
Vanish(p) ==
  /\ p \in present
  /\ present' = present \ {p}
  /\ UNCHANGED <<file, manifest, registry, clients, threads, moving, rest, evicted, kept>>

-----------------------------------------------------------------------------
(* Readers and attachments: open_for_read_async() and lease_paths_async(). *)

Known == Stored \cup {u \in Uploads : request[u] = "done"}
         \cup {p \in Paths : registering[p] = "done"}

AskLease(l, i) ==
  /\ l \in traffic.leases /\ reader[l] = "idle" /\ <<"lease", l>> \notin threads
  /\ i \in Known /\ ~registryClosed
  /\ reader' = [reader EXCEPT ![l] = "asked"]
  /\ wanted' = [wanted EXCEPT ![l] = i]
  /\ threads' = threads \cup {<<"lease", l>>}
  /\ UNCHANGED <<disk, registry, request, cancelled, registering, moving, rest, evicted, kept>>

DropLease(l) ==
  /\ reader[l] = "asked"
  /\ reader' = [reader EXCEPT ![l] = "dropped"]
  /\ UNCHANGED <<disk, registry, request, cancelled, wanted, registering, threads, moving, rest,
                 evicted, kept>>

Valid(i) == IF i \in Owned THEN file[i] = "bin" ELSE i \in present

\* _resolve_locked(): an entry whose file has gone goes as well, in the manifest
\* only if it can be written.
LeaseRuns(l, fault) ==
  /\ Run("lease", l) /\ Meets(fault)
  /\ LET i == wanted[l]
         found == ~registryClosed /\ Has(entries, i)
         taken == found /\ Valid(i)
     IN  /\ entries' = CASE taken -> Append(Without(entries, {i}), i)
                         [] found /\ ~taken -> Without(entries, {i})
                         [] OTHER -> entries
         /\ manifest' = IF found /\ ~taken /\ fault # "save" THEN Disk(entries', pending)
                        ELSE manifest
         /\ leases' = IF taken THEN [leases EXCEPT ![l] = i] ELSE leases
         /\ pins' = IF taken THEN [pins EXCEPT ![i] = @ + 1] ELSE pins
         /\ reader' = [reader EXCEPT ![l] = IF ~taken THEN "idle"
                                            ELSE IF @ = "dropped" THEN "detached" ELSE "held"]
         /\ wanted' = IF taken THEN wanted ELSE [wanted EXCEPT ![l] = NoItem]
  /\ threads' = Ended("lease", l)
  /\ UNCHANGED <<file, present, pending, guards, receipts, victims, degraded, registryClosed,
                 request, cancelled, registering, moving, traffic, evicted, kept>>

\* release_lease(): by its owner, or for one that had gone.  It needs only the
\* lock of the leases.
ReleaseLease(l) ==
  /\ reader[l] \in {"held", "detached"}
  /\ reader' = [reader EXCEPT ![l] = "idle"]
  /\ wanted' = [wanted EXCEPT ![l] = NoItem]
  /\ leases' = [leases EXCEPT ![l] = NoItem]
  /\ pins' = IF leases[l] = NoItem THEN pins
             ELSE [pins EXCEPT ![leases[l]] = IF @ > 1 THEN @ - 1 ELSE 0]
  /\ UNCHANGED <<disk, entries, pending, guards, receipts, victims, degraded, registryClosed,
                 request, cancelled, registering, threads, moving, rest, evicted, kept>>

-----------------------------------------------------------------------------
(* close(), the exit of the process, and _load(). *)

CloseRegistry ==
  /\ ~registryClosed
  /\ registryClosed' = TRUE
  /\ threads' = threads \cup {<<"close", NoItem>>}
  /\ UNCHANGED <<disk, entries, pending, pins, guards, receipts, victims, leases, degraded, clients,
                 moving, rest, evicted, kept>>

\* _close_state(), which gives up after _CLOSE_LOCK_TIMEOUT_S without the lock.
CloseRuns(fault) ==
  /\ Run("close", NoItem) /\ Meets(fault)
  /\ threads' = Ended("close", NoItem)
  /\ leases' = [l \in Leases |-> NoItem]
  /\ pins' = [i \in Items |-> 0]
  /\ manifest' = IF degraded \/ fault = "save" THEN manifest ELSE Disk(entries, pending)
  /\ UNCHANGED <<file, present, entries, pending, guards, receipts, victims, degraded,
                 registryClosed, clients, moving, traffic, evicted, kept>>

CloseGivesUp ==
  /\ <<"close", NoItem>> \in threads /\ threads' = Ended("close", NoItem)
  /\ UNCHANGED <<disk, registry, clients, moving, rest, evicted, kept>>

\* The disk is all that stays.
ArtifactExit ==
  /\ kept' = kept \cup receipts
  /\ entries' = <<>> /\ pending' = {}
  /\ pins' = [i \in Items |-> 0] /\ guards' = [i \in Owned |-> 0]
  /\ receipts' = {} /\ victims' = [u \in Uploads |-> <<>>]
  /\ leases' = [l \in Leases |-> NoItem] /\ wanted' = leases'
  /\ degraded' = FALSE /\ registryClosed' = FALSE
  /\ request' = [u \in Uploads |-> IF request[u] \in {"new", "done"} THEN request[u] ELSE "over"]
  /\ cancelled' = {}
  /\ reader' = [l \in Leases |-> "idle"]
  /\ registering' = [p \in Paths |-> IF registering[p] = "no" THEN "no" ELSE "done"]
  /\ threads' = {} /\ moving' = NoItem
  /\ UNCHANGED <<disk, rest, evicted>>

\* Staged files go; files that no entry names are pending deletes; a manifest
\* that does not fit the files makes the registry read-only.
ArtifactStart(fault) ==
  /\ Meets(fault)
  /\ LET clean == [i \in Owned |-> IF file[i] = "bin" THEN "bin" ELSE "none"]
         items == manifest.items
         fits == /\ Len(items) <= MaxEntries
                 /\ \A i \in ToSet(items) : IF i \in Owned THEN clean[i] = "bin" ELSE i \in present
         due == manifest.pending \cup {i \in Owned : clean[i] = "bin" /\ ~Has(items, i)}
         gone == Reaped(due, guards, fault # "unlink")
     IN  \/ /\ fits
            /\ entries' = items
            /\ pending' = due \ gone
            /\ file' = Erase(clean, gone)
            /\ manifest' = IF fault = "save" THEN manifest ELSE Disk(items, due \ gone)
            /\ UNCHANGED degraded
         \/ /\ ~fits
            /\ degraded' = TRUE
            /\ file' = clean
            /\ UNCHANGED <<entries, pending, manifest>>
  /\ UNCHANGED <<present, pins, guards, receipts, victims, leases, registryClosed, clients, threads,
                 moving, traffic, evicted, kept>>

-----------------------------------------------------------------------------
\* A thread gets the lock.
UploadThread(u) ==
  \/ \E fault \in {"none", "save", "unlink"} : WriteRuns(u, fault)
  \/ \E fault \in {"none", "unlink", "move"} : PublishMoves(u, fault)
  \/ PublishSaves(u) \/ PublishFails(u)
  \/ \E fault \in {"none", "save", "unlink"} : AckRuns(u, fault)
  \/ \E fault \in {"none", "save", "unlink"} : AbandonRuns(u, fault)
  \/ \E op \in {"rollback", "settle"} : \E fault \in {"none", "save", "resave", "unlink"} :
       RollbackRuns(op, u, fault)
PathThread(p) ==
  \/ \E fault \in {"none", "save", "resave", "unlink"} : RegisterRuns(p, fault)
  \/ \E fault \in {"none", "save"} : DiscardRuns(p, fault)
LeaseThread(l) == \E fault \in {"none", "save"} : LeaseRuns(l, fault)
CloseThread == CloseGivesUp \/ \E fault \in {"none", "save"} : CloseRuns(fault)

UploadRequest(u) == BeginUpload(u) \/ CloseFile(u) \/ InterruptUpload(u) \/ DetachUpload(u)
Reader(l) == (\E i \in Items : AskLease(l, i)) \/ DropLease(l) \/ ReleaseLease(l)
Owner(p) == AskRegistration(p) \/ DropRegistration(p) \/ Vanish(p)

\* A step of the registry while the process runs.
ArtifactStep ==
  \/ \E u \in Uploads : UploadThread(u) \/ UploadRequest(u)
  \/ \E p \in Paths : PathThread(p) \/ Owner(p)
  \/ \E l \in Leases : LeaseThread(l) \/ Reader(l)
  \/ CloseThread

-----------------------------------------------------------------------------
(* Properties.  *)

\* The pins are those of leases and of publications, and the protected files
\* those of their victims, whoever ended what twice: nothing is unlinked too
\* early, and no capacity stays taken (artifacts.py:702-736, 970-978).
CountsAreExact ==
  ~registryClosed =>
    /\ \A i \in Items : pins[i] = Cardinality({l \in Leases : leases[l] = i})
                                  + (IF i \in receipts THEN 1 ELSE 0)
    /\ \A i \in Owned : guards[i] = Cardinality({u \in receipts : Has(victims[u], i)})

\* Staged, published and pending files together respect the quota at every
\* moment, as do the entries, also when roll-backs bring victims back.
QuotaHolds ==
  Physical(file) <= MaxBytes /\ Len(entries) <= MaxEntries /\ Len(manifest.items) <= MaxEntries

\* What memory or the manifest lists is on disk and not about to be deleted: an
\* exit at any moment leaves a registry that the next start accepts, unless a
\* file of the runtime has vanished (artifacts.py:272-286).
ListedIsStored ==
  \A i \in Owned :
    /\ Has(manifest.items, i) => file[i] = "bin"
    /\ Has(entries, i) => file[i] = "bin" /\ i \notin pending

\* Whoever reads a file finds it, however many publications, roll-backs and
\* restarts of the quota there are meanwhile.
LeasedStays ==
  \A l \in Leases : reader[l] = "held" /\ wanted[l] \in Owned => file[wanted[l]] = "bin"

\* Somebody ends every publication, also when its request has gone while the
\* thread was still to run, and whoever waits waits for a thread: no entry stays
\* pinned and no upload without an answer (artifacts.py:600-640, 738-750).
SomebodyEnds ==
  /\ \A u \in receipts : \/ request[u] = "closing"
                        \/ \E op \in {"ack", "rollback", "abandon", "settle"} : <<op, u>> \in threads
  /\ \A u \in Uploads : request[u] \in {"write", "publish", "ack", "rollback", "abandon"} =>
                         <<request[u], u>> \in threads

ArtifactInv ==
  ArtifactTypeOK /\ CountsAreExact /\ QuotaHolds /\ ListedIsStored /\ LeasedStays /\ SomebodyEnds

\* An upload that was answered with 201 can be read until room was needed.  One
\* that was not leaves nothing behind: no entry, and no victim that is missing.
\* The exceptions are a publication that could not be withdrawn and one that
\* was acknowledged too late.
Settled(u) == request[u] = "over" /\ \A op \in Ops \ {"ack"} : <<op, u>> \notin threads
AnsweredSurvives(up) ==
  up /\ ~degraded =>
    /\ \A i \in ToSet(traffic.stored) \cup {u \in Uploads : request[u] = "done"} :
         Has(entries, i) \/ i \in evicted
    /\ \A u \in Uploads \ kept : Settled(u) => ~Has(entries, u) /\ u \notin receipts
=============================================================================
