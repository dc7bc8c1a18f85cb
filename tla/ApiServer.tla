----------------------------- MODULE ApiServer -----------------------------
(***************************************************************************)
(* The HTTP server of the process (api/server.py) with the two parts of it   *)
(* that keep state: the event stream and the artifact registry.  close()     *)
(* ends the streams and then closes the registry; an exit ends both, and the *)
(* next start reads what the registry has left on disk.                      *)
(***************************************************************************)
EXTENDS EventStream, ArtifactRegistry

serverVars == <<vars, artifactVars>>

ApiInit == Init /\ ArtifactInit

\* Bound: the tab is open in the behaviours without other traffic.
TabOpen == traffic.uploads = {} /\ traffic.leases = {}

\* A step of one part.
Stream(A) == TabOpen /\ A /\ UNCHANGED artifactVars
Artifacts(A) == server # "down" /\ A /\ UNCHANGED vars

\* close(): the broker, then the registry.
StopServer ==
  \/ traffic.stops /\ CloseBroker /\ UNCHANGED artifactVars
  \/ server = "closed" /\ Artifacts(CloseRegistry)

ExitServer  == traffic.stops /\ Crash /\ ArtifactExit
StartServer ==
  /\ Restart
  /\ \E fault \in {"none", "save", "unlink"} : ArtifactStart(fault)

ApiNext ==
  \/ Stream(Publish \/ Send) \/ Stream(Loop) \/ Stream(Recovery)
  \/ Stream(RecoveryTimer) \/ Stream(Suspend \/ Resume)
  \/ Artifacts(ArtifactStep)
  \/ StopServer \/ ExitServer \/ StartServer

\* Responses are written, the browser runs its tasks and its timers, and
\* requests end.
ApiFairness ==
  /\ WF_serverVars(Stream(Send)) /\ WF_serverVars(Stream(Loop))
  /\ WF_serverVars(Stream(Recovery)) /\ WF_serverVars(Stream(RecoveryTimer))

ApiSpec == ApiInit /\ [][ApiNext]_serverVars
FairApiSpec == ApiSpec /\ ApiFairness

-----------------------------------------------------------------------------
(* Properties. *)

UploadsAreHonest == AnsweredSurvives(server = "up")
=============================================================================
