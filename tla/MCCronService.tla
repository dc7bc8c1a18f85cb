--------------------------- MODULE MCCronService ---------------------------
(* A one-shot and a repeating job, each of either kind.                     *)
EXTENDS CronService, TLC

CONSTANTS shot, repeat

MCKinds  == shot :> {"at", "once"} @@ repeat :> {"every", "cron"}
MCAt     == shot :> 2 @@ repeat :> 1
MCPeriod == shot :> 1 @@ repeat :> 2
=============================================================================
