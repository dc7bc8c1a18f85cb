------------------------- MODULE MCRuntimeSettings -------------------------
(* Three settings: the agent's effort, overridden by the environment; the   *)
(* channel; a listener.  Two browsers ask, or a browser and a command, or    *)
(* one browser while a prompt is sent; or a prompt and a plain message are   *)
(* sent.                                                                    *)
EXTENDS RuntimeSettings, TLC

MCEdits == {2 :> "on", 1 :> "off" @@ 2 :> "off" @@ 3 :> "off"}
MCCommandEdits == {1 :> "off"}

CONSTANT b1
MCWorkloads ==
  {[callers |-> Browsers, output |-> {}], [callers |-> {b1} \cup Commands, output |-> {}],
   [callers |-> {b1}, output |-> Prompts], [callers |-> {}, output |-> Output]}
=============================================================================
