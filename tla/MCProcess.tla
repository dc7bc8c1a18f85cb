------------------------------ MODULE MCProcess ------------------------------
(* What outlives a turn, checked in one run: a behaviour is one of a process  *)
(* with four components, three of them critical, that starts, stops and is    *)
(* restarted; or one of the turns that could not be saved, two of one session  *)
(* and one of another, over two ends of the process.  They share no state:    *)
(* the shutdown of the second is one close of the first.                     *)
EXTENDS RuntimeShutdown, TurnDurability

CONSTANTS s1, s2

VARIABLE part

MCSessionOf == [t \in Turns |-> IF t = 3 THEN s2 ELSE s1]

allVars == <<part, vars, durabilityVars>>

\* In a behaviour of the turns the supervisor is one that is gone.
MCInit ==
  /\ DurabilityInit
  /\ \/ part = "process" /\ Init
     \/ /\ part = "turns"
        /\ main = "gone" /\ started = "yes" /\ step = Steps /\ tasks = {}
        /\ stop = "done" /\ walker = "none" /\ at = 0 /\ closers = {} /\ cleanups = {}
        /\ closed = Components /\ failed = {} /\ detached = 0 /\ owed = FALSE
        /\ restart = "none" /\ tried = Components /\ slow = {} /\ cut = FALSE

ProcessStep == part = "process" /\ Next /\ UNCHANGED <<part, durabilityVars>>
TurnsStep == part = "turns" /\ DurabilityNext /\ UNCHANGED <<part, vars>>
OfTurns(A) == part = "turns" /\ A /\ UNCHANGED <<part, vars>>

\* The fairness of both modules.
MCSpec ==
  /\ MCInit /\ [][ProcessStep \/ TurnsStep]_allVars
  /\ Fairness
  /\ WF_allVars(OfTurns(PassStep))
  /\ \A s \in Sessions :
       SF_allVars(OfTurns(StopTakes(s))) /\ SF_allVars(OfTurns(RetryBegins(s)))

-----------------------------------------------------------------------------
(* Properties. *)

\* Closing stays sequential and complete however often a limit is exceeded, a
\* restart replaces a process at rest (lifecycle.py, supervisor.py); a turn
\* that is kept is recorded once and has an owner (loop.py:1016-1176).
ProcessInv == ShutdownInv /\ DurabilityInv
=============================================================================
