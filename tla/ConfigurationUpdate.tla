------------------------ MODULE ConfigurationUpdate ------------------------
(***************************************************************************)
(* ConfigurationService (application/configuration.py): the settings file,   *)
(* the effective configuration of the process and the owners that work with   *)
(* it.  Browsers update by compare-and-swap and have the change applied to     *)
(* the owners, or rolled back; commands of the agent merge a value of their   *)
(* own.  One lock serialises them, and every one may be cancelled.             *)
(*                                                                         *)
(* Paths are numbered in the order in which apply_runtime_configuration()    *)
(* (launcher.py) visits their owners.                                         *)
(***************************************************************************)
EXTENDS Integers, FiniteSets

CONSTANTS
  Browsers,      \* callers of update()
  Commands,      \* callers of update_runtime() and mutate_runtime()
  LastPath,
  Values,
  Default,       \* value of every path in the file at the start
  RestartPaths,  \* _RESTART_PATHS: the listeners
  Overridden,    \* environment_override_paths()
  Environment,   \* the value they have there
  Fallible,      \* paths whose owner may fail to take a value
  Down,          \* what an owner works with that failed
  Edits,         \* what a browser may ask for: paths with their values
  CommandEdits,  \* what a command may
  NoCaller

Paths == 1..LastPath
Callers == Browsers \cup Commands
Maps(ps) == UNION {[s -> Values] : s \in SUBSET ps}

\* Settings in which an edit takes the place of what it names.
Merged(e, settings) == [p \in Paths |-> IF p \in DOMAIN e THEN e[p] ELSE settings[p]]

ConfigurationAssumption ==
  /\ LastPath \in Nat
  /\ RestartPaths \subseteq Paths /\ Overridden \subseteq Paths /\ Fallible \subseteq Paths
  /\ Default \in Values /\ Environment \in Values /\ Down \notin Values
  /\ Edits \subseteq Maps(Paths)
  /\ CommandEdits \subseteq Maps(Paths \ RestartPaths)
  /\ Browsers \cap Commands = {} /\ NoCaller \notin Callers
ASSUME ConfigurationAssumption

VARIABLES
  file,       \* the persisted settings
  effective,  \* _effective_config
  inUse,      \* what the owner of each path works with
  holder,     \* who holds _lock
  pc,         \* where each caller is, or its answer
  edit,       \* the values it asks for
  base,       \* the settings a browser has loaded: their revision
  cancelled,  \* the caller is cancelled, and a worker has still to end
  saved,      \* previous and previous_effective of the holder, and what was in use
  todo,       \* paths whose owner the applier has not visited
  torn        \* history: paths on which an update was interrupted, or could not be undone

config == <<file, effective, inUse, holder, pc, edit, base, cancelled, saved, todo, torn>>

Answers == {"ok", "conflict", "error", "cancelled"}

ConfigurationTypeOK ==
  /\ file \in [Paths -> Values]
  /\ effective \in [Paths -> Values]
  /\ inUse \in [Paths -> Values \cup {Down}]
  /\ holder \in Callers \cup {NoCaller}
  /\ pc \in [Callers -> {"absent", "idle", "waiting", "writing", "applying", "restoring",
                         "reapplying"} \cup Answers]
  /\ edit \in [Callers -> Maps(Paths)]
  /\ base \in [Browsers -> [Paths -> Values]]
  /\ cancelled \in [Callers -> BOOLEAN]
  /\ saved \in [file : [Paths -> Values], effective : [Paths -> Values],
                inUse : [Paths -> Values \cup {Down}]]
  /\ todo \in SUBSET Paths
  /\ torn \in SUBSET Paths

Started == [p \in Paths |-> IF p \in Overridden THEN Environment ELSE Default]
Stored  == [p \in Paths |-> Default]
NothingSaved == [file |-> Stored, effective |-> Started, inUse |-> Started]

ConfigurationInit(callers) ==
  /\ file = Stored
  /\ effective = Started
  /\ inUse = Started
  /\ holder = NoCaller
  /\ pc = [c \in Callers |-> IF c \in callers THEN "idle" ELSE "absent"]
  /\ edit = [c \in Callers |-> <<>>]
  /\ base = [b \in Browsers |-> Stored]
  /\ cancelled = [c \in Callers |-> FALSE]
  /\ saved = NothingSaved
  /\ todo = {}
  /\ torn = {}

-----------------------------------------------------------------------------
(* Asking. *)

\* A command asks, or a browser with the settings of a snapshot() and their
\* revision.
Ask(c, e) ==
  /\ pc[c] = "idle"
  /\ \/ /\ c \in Browsers /\ e \in Edits /\ holder = NoCaller
        /\ base' = [base EXCEPT ![c] = file]
     \/ /\ c \in Commands /\ e \in CommandEdits
        /\ UNCHANGED base
  /\ edit' = [edit EXCEPT ![c] = e]
  /\ pc' = [pc EXCEPT ![c] = "waiting"]
  /\ UNCHANGED <<file, effective, inUse, holder, cancelled, saved, todo, torn>>

\* The caller has the lock: previous and previous_effective are taken, and the
\* worker that reads and writes the file starts.
Lock(c) ==
  /\ pc[c] = "waiting" /\ holder = NoCaller
  /\ holder' = c
  /\ pc' = [pc EXCEPT ![c] = "writing"]
  /\ saved' = [file |-> file, effective |-> effective, inUse |-> inUse]
  /\ UNCHANGED <<file, effective, inUse, edit, base, cancelled, todo, torn>>

\* The caller is cancelled: at once while it waits, after the worker or the
\* applier otherwise.
Cancel(c) ==
  /\ ~cancelled[c]
  /\ \/ /\ pc[c] = "waiting"
        /\ pc' = [pc EXCEPT ![c] = "cancelled"]
        /\ edit' = [edit EXCEPT ![c] = <<>>]
        /\ base' = IF c \in Browsers THEN [base EXCEPT ![c] = Stored] ELSE base
        /\ UNCHANGED cancelled
     \/ /\ pc[c] \in {"writing", "applying", "restoring"}
        /\ cancelled' = [cancelled EXCEPT ![c] = TRUE]
        /\ UNCHANGED <<pc, edit, base>>
  /\ UNCHANGED <<file, effective, inUse, holder, saved, todo, torn>>

\* The caller has its answer, the lock is free and its locals are gone.
Answer(c, answer) ==
  /\ pc' = [pc EXCEPT ![c] = answer]
  /\ holder' = NoCaller
  /\ edit' = [edit EXCEPT ![c] = <<>>]
  /\ base' = IF c \in Browsers THEN [base EXCEPT ![c] = Stored] ELSE base
  /\ cancelled' = [cancelled EXCEPT ![c] = FALSE]
  /\ saved' = NothingSaved
  /\ todo' = {}

-----------------------------------------------------------------------------
(* update(). *)

Live(e) == DOMAIN e \ (RestartPaths \cup Overridden)

\* The file has changed since the browser loaded it.
Conflict(b) ==
  /\ holder = b /\ pc[b] = "writing" /\ file # base[b]
  /\ Answer(b, "conflict")
  /\ UNCHANGED <<file, effective, inUse, torn>>

\* The values are invalid, or the file cannot be written.
WriteFails(c) ==
  /\ holder = c /\ pc[c] = "writing"
  /\ c \in Browsers => file = base[c]
  /\ Answer(c, "error")
  /\ UNCHANGED <<file, effective, inUse, torn>>

\* The file is replaced.  A caller cancelled meanwhile goes no further; neither
\* does one whose values are invalid together with those of the environment
\* (_apply_effective_paths is outside the roll-back).
Write(b) ==
  /\ holder = b /\ pc[b] = "writing" /\ file = base[b]
  /\ file' = Merged(edit[b], file)
  /\ \/ /\ ~cancelled[b]
        /\ effective' = [p \in Paths |-> IF p \in Live(edit[b]) THEN edit[b][p] ELSE effective[p]]
        /\ todo' = DOMAIN edit[b] \ RestartPaths
        /\ pc' = [pc EXCEPT ![b] = "applying"]
        /\ UNCHANGED <<holder, edit, base, cancelled, saved, torn>>
     \/ /\ \/ cancelled[b] /\ Answer(b, "cancelled")
           \/ ~cancelled[b] /\ Overridden # {} /\ Live(edit[b]) # {} /\ Answer(b, "error")
        /\ torn' = torn \cup DOMAIN edit[b]
        /\ UNCHANGED effective
  /\ UNCHANGED inUse

\* apply_runtime_configuration() visits the next owner.
Visited(p) == p \in todo /\ \A q \in todo : p <= q

Apply(b, p) ==
  /\ holder = b /\ pc[b] = "applying" /\ Visited(p)
  /\ inUse' = [inUse EXCEPT ![p] = effective[p]]
  /\ todo' = todo \ {p}
  /\ UNCHANGED <<file, effective, holder, pc, edit, base, cancelled, saved, torn>>

\* An owner refuses the value, or fails with it.
ApplyFails(b, p) ==
  /\ holder = b /\ pc[b] = "applying" /\ Visited(p) /\ p \in Fallible
  /\ inUse' = [inUse EXCEPT ![p] = Down] \/ UNCHANGED inUse
  /\ todo' = {}
  /\ pc' = [pc EXCEPT ![b] = "restoring"]
  /\ cancelled' = [cancelled EXCEPT ![b] = FALSE]
  /\ UNCHANGED <<file, effective, holder, edit, base, saved, torn>>

Applied(b) ==
  /\ holder = b /\ pc[b] = "applying" /\ todo = {}
  /\ Answer(b, IF cancelled[b] THEN "cancelled" ELSE "ok")
  /\ torn' = torn \ DOMAIN edit[b]
  /\ UNCHANGED <<file, effective, inUse>>

BadRestore(b) ==              \* the effective configuration keeps the new values
  /\ holder = b /\ pc[b] = "restoring"
  /\ file' = saved.file
  /\ todo' = DOMAIN edit[b] \ RestartPaths
  /\ pc' = [pc EXCEPT ![b] = "reapplying"]
  /\ UNCHANGED <<effective, inUse, holder, edit, base, cancelled, saved, torn>>

\* The file is put back, and the roots of the changed paths with it, unless the
\* caller is cancelled first.
Restore(b) ==
  /\ holder = b /\ pc[b] = "restoring"
  /\ file' = saved.file
  /\ IF cancelled[b]
     THEN /\ Answer(b, "cancelled")
          /\ torn' = torn \cup DOMAIN edit[b]
          /\ UNCHANGED effective
     ELSE /\ effective' = saved.effective
          /\ todo' = DOMAIN edit[b] \ RestartPaths
          /\ pc' = [pc EXCEPT ![b] = "reapplying"]
          /\ UNCHANGED <<holder, edit, base, cancelled, saved, torn>>
  /\ UNCHANGED inUse

RestoreFails(b) ==
  /\ holder = b /\ pc[b] = "restoring"
  /\ Answer(b, "error")
  /\ torn' = torn \cup DOMAIN edit[b]
  /\ UNCHANGED <<file, effective, inUse>>

\* The owners are given the previous values; a failure is swallowed.
Reapply(b, p) ==
  /\ holder = b /\ pc[b] = "reapplying" /\ Visited(p)
  /\ inUse' = [inUse EXCEPT ![p] = saved.effective[p]]
  /\ todo' = todo \ {p}
  /\ UNCHANGED <<file, effective, holder, pc, edit, base, cancelled, saved, torn>>

ReapplyFails(b, p) ==
  /\ holder = b /\ pc[b] = "reapplying" /\ Visited(p) /\ p \in Fallible
  /\ inUse' = [inUse EXCEPT ![p] = Down] \/ UNCHANGED inUse
  /\ torn' = torn \cup todo
  /\ Answer(b, "error")
  /\ UNCHANGED <<file, effective>>

Reapplied(b) ==
  /\ holder = b /\ pc[b] = "reapplying" /\ todo = {}
  /\ Answer(b, "error")
  /\ UNCHANGED <<file, effective, inUse, torn>>

-----------------------------------------------------------------------------
(* update_runtime() and mutate_runtime(). *)

\* Both views are checked before the file is written; the result is applied
\* before a cancellation is raised again.
CommandWrite(k) ==
  /\ holder = k /\ k \in Commands /\ pc[k] = "writing"
  /\ file' = Merged(edit[k], file)
  /\ effective' = Merged(edit[k], effective)
  /\ inUse' = Merged(edit[k], inUse)
  /\ torn' = torn \ DOMAIN edit[k]
  /\ Answer(k, IF cancelled[k] THEN "cancelled" ELSE "ok")

-----------------------------------------------------------------------------
\* The steps of the service, but for those in which an owner takes a value.
ServiceStep ==
  \/ \E b \in Browsers :
       \/ Conflict(b) \/ Write(b) \/ Applied(b)
       \/ Restore(b) \/ RestoreFails(b) \/ Reapplied(b)
  \/ \E c \in Callers :
       \/ \E e \in Edits \cup CommandEdits : Ask(c, e)
       \/ Lock(c) \/ Cancel(c) \/ WriteFails(c)
  \/ \E k \in Commands : CommandWrite(k)

OwnerStep(p) ==
  \E b \in Browsers : Apply(b, p) \/ ApplyFails(b, p) \/ Reapply(b, p) \/ ReapplyFails(b, p)
=============================================================================
