-------------------------- MODULE RuntimeSettings --------------------------
(***************************************************************************)
(* The settings service composed with the output of one channel:             *)
(* apply_runtime_configuration() (launcher.py) has the ChannelManager replace *)
(* the adapter while the dispatcher sends through it, and the update waits    *)
(* for the result.                                                            *)
(***************************************************************************)
EXTENDS ConfigurationUpdate, ChannelDelivery

CONSTANTS
  ChannelPath,  \* the setting of the channel
  Off,          \* its value when the channel is not enabled
  Workloads     \* bound: who asks and what is sent in one behaviour

SettingsAssumption ==
  /\ ChannelPath \in Fallible \ (RestartPaths \cup Overridden)
  /\ Off \in Values /\ Default # Off
  /\ \A e \in CommandEdits : ChannelPath \notin DOMAIN e
  /\ Workloads \subseteq [callers : SUBSET Callers, output : SUBSET Output]
ASSUME SettingsAssumption

vars == <<config, delivery>>

TypeOK == ConfigurationTypeOK /\ DeliveryTypeOK

Init == \E w \in Workloads : ConfigurationInit(w.callers) /\ DeliveryInit(w.output)

\* The value reconfigure() is called with.
Target == IF \E b \in Browsers : pc[b] = "reapplying"
          THEN saved.effective[ChannelPath] ELSE effective[ChannelPath]

BeginReconfigure(b) ==
  /\ holder = b /\ pc[b] \in {"applying", "reapplying"} /\ Visited(ChannelPath)
  /\ Begin(Target # Off)
  /\ UNCHANGED config

BadEndReconfigure(b) ==       \* the outcome is not looked at
  /\ End
  /\ Apply(b, ChannelPath) \/ Reapply(b, ChannelPath)

\* Its result is that of the owner.  Only a previous adapter that did not stop or
\* a replacement that did not start leaves the channel without an adapter that runs.
EndReconfigure(b) ==
  /\ End
  /\ IF reconf = "ok"
     THEN Apply(b, ChannelPath) \/ Reapply(b, ChannelPath)
     ELSE /\ ApplyFails(b, ChannelPath) \/ ReapplyFails(b, ChannelPath)
          /\ inUse'[ChannelPath] = IF reconf = "failed" THEN Down ELSE inUse[ChannelPath]

Next ==
  \/ ServiceStep /\ UNCHANGED delivery
  \/ \E p \in Paths \ {ChannelPath} : OwnerStep(p) /\ UNCHANGED delivery
  \/ DeliveryStep /\ UNCHANGED config
  \/ \E b \in Browsers : BeginReconfigure(b) \/ EndReconfigure(b)

Spec == Init /\ [][Next]_vars

\* What the holder of the lock, or the worker it waits for, does next.
HolderStep ==
  \/ /\ \/ \E b \in Browsers :
             Conflict(b) \/ Write(b) \/ Applied(b) \/ Restore(b) \/ RestoreFails(b) \/ Reapplied(b)
        \/ \E k \in Commands : CommandWrite(k)
        \/ \E p \in Paths \ {ChannelPath} : OwnerStep(p)
     /\ UNCHANGED delivery
  \/ \E b \in Browsers : BeginReconfigure(b) \/ EndReconfigure(b)
  \/ (StopRaises \/ Replace \/ Replaced) /\ UNCHANGED config

\* asyncio.Lock is first come, first served; workers, owners and adapters end,
\* or their time is over.  The dispatcher and stop_all() go on by themselves.
Fairness ==
  /\ \A c \in Callers : SF_vars(Lock(c) /\ UNCHANGED delivery)
  /\ WF_vars(HolderStep)
  /\ WF_vars(DispatcherStep /\ UNCHANGED config)
  /\ WF_vars(StopStep /\ UNCHANGED config)

FairSpec == Spec /\ Fairness

-----------------------------------------------------------------------------
(* Settings. *)

\* While no update is under way the process works with what the file says, but
\* for listeners, environment overrides and paths on which an update was
\* interrupted (configuration.py:401-420, 445-459).
StoredIsEffective ==
  holder = NoCaller =>
    \A p \in Paths \ (RestartPaths \cup torn) :
      /\ p \notin Overridden => effective[p] = file[p]
      /\ inUse[p] = effective[p]

\* The adapter in the manager is the one the settings ask for, whatever became
\* of updates before (channels/manager.py:301-342).
AdapterFollowsSettings ==
  holder = NoCaller /\ ChannelPath \notin torn =>
    (registered # 0 <=> effective[ChannelPath] # Off)

\* A setting changes in the file only under the lock, by a caller that names it:
\* neither a command nor a roll-back touches anybody else's
\* (configuration.py:476-481, test_web_runtime.py:3317).
OnlyNamedPathsChange ==
  [][\A p \in Paths : file'[p] # file[p] => holder # NoCaller /\ p \in DOMAIN edit[holder]]_vars

\* A browser whose values get into the file had loaded the settings they
\* replace (configuration.py:312-316).
ConflictIsSeen ==
  [][\A b \in Browsers : pc[b] = "writing" /\ file' # file /\ holder = b => file = base[b]]_vars

\* An update answered with an error or a conflict has left everything as it
\* was, unless it was torn.
RefusedChangesNothing ==
  [][\A c \in Callers : pc'[c] # pc[c] /\ pc'[c] \in {"conflict", "error"} =>
       \A p \in Paths \ torn' :
         /\ file'[p] = saved.file[p]
         /\ effective'[p] = saved.effective[p]
         /\ inUse'[p] \in {saved.inUse[p], saved.effective[p]}]_vars

\* Every caller gets an answer and gives the lock back.
CallersAnswered == \A c \in Callers : []<>(pc[c] \in Answers \cup {"absent", "idle"})

\* Through replacements, retries and stop_all() there is one adapter at a time,
\* nothing is left running or unsettled, reports are what the adapters answered;
\* file, process and adapter agree between updates.
SettingsInv ==
  /\ TypeOK
  /\ OneAdapter
  /\ StoppedIsQuiet
  /\ ToldTheTruth
  /\ DrainedIsSettled
  /\ StoredIsEffective
  /\ AdapterFollowsSettings

\* An update is made as a whole, on what its browser has seen, or not at all.
UpdatesAreIsolated == OnlyNamedPathsChange /\ ConflictIsSeen /\ RefusedChangesNothing

\* Callers, prompts and stop_all() get their end.
EveryoneIsAnswered == CallersAnswered /\ PromptIsTold /\ StopAllEnds

=============================================================================
