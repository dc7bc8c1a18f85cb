------------------------- MODULE RuntimeSettingsProofs -------------------------
(***************************************************************************)
(* Whatever browsers and commands change, whoever is cancelled and whatever *)
(* becomes of adapters and sends: between updates file, process, owners and *)
(* adapter agree and waiters are told what adapters answered (SettingsInv),  *)
(* an update is made as a whole or not at all (UpdatesAreIsolated), and no   *)
(* attempt begins without somebody who waits or an adapter that runs         *)
(* (NoStaleSend).                                                          *)
(*                                                                         *)
(* The two parts have invariants of their own, OutputInv and UpdateInv;      *)
(* Replacing and InPlace relate the adapter to the update that replaces it.  *)
(***************************************************************************)
EXTENDS RuntimeSettings, TLAPS

-----------------------------------------------------------------------------
(* The inductive invariant: the output.                                     *)

Fates == {"none", "pending", "delivered", "failed", "gone"}
States == {"starting", "running", "stopping", "broken", "stopped"}

\* Every adapter that has left the manager has ended or been given up.
OthersHaveEnded ==
  \A a \in Adapters \ {registered} :
    adapter[a] \in {"stopped", "broken"} \/ (stopping = "done" /\ adapter[a] = "stopping")

\* Nothing runs after the loop of stop_all() has come to the channel.
Quiet == stopping \in {"others", "done"} => \A a \in Adapters : ~Active(a)

\* What is sent is a message, and one that waits for its next attempt has one left.
HasAttempts ==
  IF sending THEN current # NoMessage ELSE current # NoMessage => attempt < Attempts

\* What stop_all() has to settle was published before.
DueIsPublished == due \cap unsent = {}

\* A message is not published, in the queue or in flight, once.
OnePlace ==
  /\ current \notin unsent
  /\ \A i \in DOMAIN queue : queue[i] \notin unsent \cup {current}
  /\ \A i, j \in DOMAIN queue : queue[i] = queue[j] => i = j

\* A prompt that was accepted or answered for is nowhere any more.
Settled == accepted \cup {m \in Prompts : waiter[m] \in {"delivered", "failed"}}
Unsettled ==
  /\ Settled \cap unsent = {}
  /\ current \notin Settled
  /\ \A i \in DOMAIN queue : queue[i] \notin Settled

OutputInv ==
  /\ DeliveryTypeOK
  /\ OthersHaveEnded
  /\ Quiet
  /\ HasAttempts
  /\ DueIsPublished
  /\ OnePlace
  /\ Unsettled
  /\ ToldTheTruth
  /\ DrainedIsSettled

-----------------------------------------------------------------------------
(* The inductive invariant: the settings.                                   *)

Working == {"writing", "applying", "restoring", "reapplying"}

\* The one who holds the lock works, nobody else does, and only browsers have an
\* update applied.
Locked ==
  /\ \A c \in Callers : pc[c] \in Working => holder = c
  /\ holder # NoCaller => pc[holder] \in Working
  /\ \A k \in Commands : pc[k] \notin Working \ {"writing"}

\* What a command may name.
Commanded == \A k \in Commands : DOMAIN edit[k] \cap (RestartPaths \cup {ChannelPath}) = {}

\* File, process and owners agree, but for listeners, overrides and torn paths.
Agree(f, e, u, t) ==
  \A p \in Paths \ (RestartPaths \cup t) : (p \notin Overridden => e[p] = f[p]) /\ u[p] = e[p]

\* They agree before an update and after it.
Between ==
  IF holder = NoCaller THEN Agree(file, effective, inUse, torn)
                       ELSE Agree(saved.file, saved.effective, saved.inUse, torn)

\* The settings an update in progress applies.
Named == DOMAIN edit[holder] \ RestartPaths

\* An update in progress changes what its caller names, and no listener.
OnlyNamed ==
  holder # NoCaller => \A p \in Paths :
    /\ p \notin DOMAIN edit[holder] => file[p] = saved.file[p]
    /\ p \notin Named => effective[p] = saved.effective[p] /\ inUse[p] = saved.inUse[p]

\* How far an update is.
Written ==
  holder # NoCaller /\ pc[holder] = "writing" =>
    file = saved.file /\ effective = saved.effective /\ inUse = saved.inUse
BeingApplied ==
  holder # NoCaller /\ pc[holder] = "applying" =>
    /\ todo \subseteq Named
    /\ \A p \in Named : /\ p \notin Overridden => effective[p] = file[p]
                        /\ p \notin todo => inUse[p] = effective[p]
BeingUndone ==
  holder # NoCaller /\ pc[holder] = "reapplying" =>
    /\ todo \subseteq Named
    /\ file = saved.file /\ effective = saved.effective
    /\ \A p \in Named \ todo : inUse[p] = effective[p]

UpdateInv ==
  /\ ConfigurationTypeOK
  /\ Locked
  /\ Commanded
  /\ Between
  /\ OnlyNamed
  /\ Written
  /\ BeingApplied
  /\ BeingUndone

-----------------------------------------------------------------------------
(* The inductive invariant: both.                                           *)

\* An adapter is replaced while its setting is the next to be applied, for the value
\* that the process then works with.
Replacing ==
  reconf # "none" =>
    /\ holder \in Browsers /\ pc[holder] \in {"applying", "reapplying"}
    /\ Visited(ChannelPath)
    /\ enabled <=> effective[ChannelPath] # Off

\* There is an adapter if the setting in use asks for one, from the end of a
\* replacement to the moment in which the next takes the old one out.
InPlace ==
  /\ reconf \in {"none", "refused", "stopping"} /\ inUse[ChannelPath] # Down =>
       (registered # 0 <=> inUse[ChannelPath] # Off)
  /\ reconf \in {"starting", "ok"} => (registered # 0 <=> enabled)

IInv == OutputInv /\ UpdateInv /\ Replacing /\ InPlace

-----------------------------------------------------------------------------
(* Values and paths.                                                        *)

\* What an edit is.
LEMMA MapFacts ==
  ASSUME NEW ps, NEW e \in Maps(ps)
  PROVE  DOMAIN e \subseteq ps /\ \A p \in DOMAIN e : e[p] \in Values
BY DEF Maps

LEMMA EmptyMap == <<>> \in Maps(Paths) /\ DOMAIN <<>> = {}
<1>1. DOMAIN <<>> = {}
  OBVIOUS
<1>2. <<>> \in [{} -> Values]
  OBVIOUS
<1> QED BY <1>1, <1>2 DEF Maps

\* An edit takes the place of what it names.
LEMMA MergeFacts ==
  ASSUME NEW V, NEW e \in Maps(Paths), NEW f \in [Paths -> V], Values \subseteq V
  PROVE  Merged(e, f) \in [Paths -> V]
BY MapFacts DEF Merged

-----------------------------------------------------------------------------
(* The output.                                                              *)

LEMMA NothingIsNoMessage ==
  ASSUME DeliveryAssumption
  PROVE  NoMessage \notin Output /\ NoMessage \notin Prompts
BY DEF DeliveryAssumption

\* The object for a replacement is one that nobody uses.
LEMMA FreshIsUnused ==
  ASSUME DeliveryAssumption, Unused # {}
  PROVE  Fresh \in Adapters /\ Fresh # registered /\ Fresh # 0
<1>1. Fresh \in Unused
  BY DEF Fresh
<1> QED BY <1>1 DEF Unused, Adapters

\* A message is published, a waiter leaves.
LEMMA PublishSteps ==
  ASSUME DeliveryAssumption, OutputInv,
         \/ \E m \in Output : PublishOutput(m)
         \/ \E m \in Prompts : WaiterLeaves(m)
  PROVE  OutputInv'
<1> USE DEF OutputInv, DeliveryTypeOK, flight, manager, ending
<1>1. ASSUME NEW m \in Output, PublishOutput(m) PROVE OutputInv'
  <2>1. /\ m \in unsent /\ m \notin due /\ queue' = Append(queue, m) /\ unsent' = unsent \ {m}
        /\ UNCHANGED <<current, attempt, sending, accepted, drained, due, adapter, registered, stopping>>
    BY <1>1 DEF PublishOutput, DueIsPublished
  <2>2. DeliveryTypeOK'
    BY <1>1 DEF PublishOutput, DeliveryAssumption
  <2>3. \A i \in DOMAIN queue' :
          \/ i = Len(queue) + 1 /\ queue'[i] = m
          \/ i \in DOMAIN queue /\ queue'[i] = queue[i]
    BY <2>1
  <2>4. m \notin Settled /\ Settled' \subseteq Settled
    BY <1>1, <2>1 DEF PublishOutput, Settled, Unsettled, DeliveryAssumption
  <2>5. DrainedIsSettled'
    BY <2>1, <2>3 DEF DrainedIsSettled
  <2>6. OnePlace'
    <3>1. m # current /\ \A i \in DOMAIN queue : queue[i] # m
      BY <2>1 DEF OnePlace
    <3>2. current' \notin unsent' /\ \A i \in DOMAIN queue' : queue'[i] \notin unsent' \cup {current'}
      BY <2>1, <2>3, <3>1 DEF OnePlace
    <3>3. ASSUME NEW i \in DOMAIN queue', NEW j \in DOMAIN queue', queue'[i] = queue'[j] PROVE i = j
      BY <2>3, <3>1, <3>3 DEF OnePlace
    <3> QED BY <3>2, <3>3 DEF OnePlace
  <2>7. Unsettled'
    BY <2>1, <2>3, <2>4 DEF Unsettled
  <2>8. ToldTheTruth'
    BY <1>1, <2>1, <2>4 DEF PublishOutput, ToldTheTruth, Settled
  <2> QED BY <2>1, <2>2, <2>5, <2>6, <2>7, <2>8
          DEF OthersHaveEnded, Quiet, Active, HasAttempts, DueIsPublished
<1>2. ASSUME NEW m \in Prompts, WaiterLeaves(m) PROVE OutputInv'
  <2>1. /\ waiter' = [waiter EXCEPT ![m] = "gone"] /\ waiter[m] = "pending"
        /\ UNCHANGED <<queue, unsent, flight, accepted, manager, ending>>
    BY <1>2 DEF WaiterLeaves
  <2>2. Settled' \subseteq Settled
    BY <2>1 DEF Settled
  <2>3. Unsettled'
    BY <2>1, <2>2 DEF Unsettled
  <2> QED BY <2>1, <2>3 DEF OthersHaveEnded, Quiet, Active, HasAttempts, DueIsPublished, OnePlace, ToldTheTruth,
                            DrainedIsSettled
<1> QED BY <1>1, <1>2

\* A report is what the adapter has answered, about a message that was not settled.
LEMMA ReportFacts ==
  ASSUME OutputInv, NEW m \in Output, NEW result \in {"delivered", "failed"}, Report(m, result),
         m \notin Settled,
         accepted' = IF result = "delivered" THEN accepted \cup ({m} \cap Prompts) ELSE accepted
  PROVE  /\ waiter' \in [Prompts -> Fates]
         /\ ToldTheTruth'
         /\ Settled' \subseteq Settled \cup {m}
<1> USE DEF OutputInv, DeliveryTypeOK, Fates
<1>1. waiter' \in [Prompts -> Fates]
  BY DEF Report
<1>2. \A q \in Prompts : waiter'[q] = waiter[q] \/ (q = m /\ waiter'[q] = result)
  BY DEF Report
<1>3. m \in Prompts => /\ waiter[m] \notin {"delivered", "failed"} /\ m \notin accepted
                       /\ waiter[m] = "pending" => waiter'[m] = result
  BY DEF Report, Settled
<1>4. Settled' \subseteq Settled \cup {m}
  BY <1>2 DEF Settled
<1>5. ASSUME NEW q \in Prompts
      PROVE  /\ waiter'[q] = "delivered" => q \in accepted'
             /\ waiter'[q] \in {"pending", "failed"} => q \notin accepted'
  <2>1. CASE q # m
    BY <1>2, <2>1 DEF ToldTheTruth
  <2>2. CASE q = m /\ result = "delivered"
    BY <1>2, <1>3, <2>2
  <2>3. CASE q = m /\ result = "failed"
    BY <1>2, <1>3, <2>3
  <2> QED BY <2>1, <2>2, <2>3
<1> QED BY <1>1, <1>4, <1>5 DEF ToldTheTruth

\* The dispatcher goes on with a message, or is done with it.
LEMMA AttemptFacts ==
  ASSUME DeliveryAssumption, OutputInv, NEW m \in Output, NEW a \in {0} \cup Adapters,
         NEW n \in 1 .. Attempts, NEW q \in Seq(Output),
         \/ Attempt(m, a, n, q)
         \/ Report(m, "failed") /\ Done(q),
         m \notin Settled, accepted' = accepted
  PROVE  /\ waiter' \in [Prompts -> Fates]
         /\ ToldTheTruth' /\ HasAttempts'
         /\ Settled' \subseteq Settled \cup {m}
         /\ (current' = m /\ Settled' = Settled) \/ current' = NoMessage
         /\ attempt' \in 0 .. Attempts
         /\ channel' \in {0} \cup Adapters /\ sending' \in BOOLEAN /\ idle' \in BOOLEAN
         /\ UNCHANGED <<stopping, resized, drained, due>>
<1>1. CASE Report(m, "failed") /\ Done(q)
  <2>1. /\ waiter' \in [Prompts -> Fates]
        /\ ToldTheTruth' /\ Settled' \subseteq Settled \cup {m}
    BY <1>1, ReportFacts
  <2>2. /\ current' = NoMessage /\ attempt' = 0 /\ channel' = 0 /\ sending' = FALSE
        /\ UNCHANGED <<stopping, resized, drained, due>>
    BY <1>1 DEF Done
  <2>3. idle' \in BOOLEAN
    BY <1>1 DEF Done
  <2>4. 0 \in 0 .. Attempts
    BY DEF DeliveryAssumption
  <2>5. HasAttempts'
    BY <2>2 DEF HasAttempts
  <2>6. sending' \in BOOLEAN
    BY <2>2
  <2> QED BY <2>1, <2>2, <2>3, <2>4, <2>5, <2>6
<1>2. CASE Attempt(m, a, n, q) /\ ~(Report(m, "failed") /\ Done(q))
  <2>1. /\ current' = m /\ attempt' = n /\ channel' = a /\ sending' = TRUE /\ idle' = FALSE
        /\ UNCHANGED <<waiter, stopping, resized, drained, due>>
    BY <1>2 DEF Attempt
  <2>2. n \in 0 .. Attempts
    BY DEF DeliveryAssumption
  <2>3. sending' \in BOOLEAN /\ idle' \in BOOLEAN
    BY <2>1
  <2>4. HasAttempts'
    BY <2>1 DEF HasAttempts, DeliveryAssumption
  <2>5. waiter' \in [Prompts -> Fates] /\ ToldTheTruth' /\ Settled' = Settled
    BY <2>1 DEF OutputInv, DeliveryTypeOK, ToldTheTruth, Settled, Fates
  <2> QED BY <2>1, <2>2, <2>3, <2>4, <2>5
<1> QED BY <1>1, <1>2

\* The dispatcher takes a message, or tries one again.
LEMMA AttemptSteps ==
  ASSUME DeliveryAssumption, OutputInv, TakeOutput \/ Retry
  PROVE  OutputInv'
<1> USE DEF OutputInv, DeliveryTypeOK, manager, Fates
<1>1. CASE TakeOutput
  <2>1. /\ queue # <<>> /\ queue' = Tail(queue)
        /\ UNCHANGED <<unsent, accepted, manager>>
    BY <1>1 DEF TakeOutput
  <2>2. Head(queue) \in Output /\ Tail(queue) \in Seq(Output)
    BY <2>1
  <2>3. PICK m \in Output, q \in Seq(Output) : m = Head(queue) /\ q = Tail(queue)
    BY <2>2
  <2>4. \/ Attempt(m, registered, 1, q)
        \/ Report(m, "failed") /\ Done(q)
    BY <1>1, <2>3 DEF TakeOutput
  <2>5. m = queue[1] /\ 1 \in DOMAIN queue
    BY <2>1, <2>3
  <2>6. \A i \in DOMAIN q : i \in Nat \ {0} /\ i + 1 \in DOMAIN queue /\ q[i] = queue[i + 1]
    BY <2>1, <2>3
  <2>7. m \notin Settled /\ m \notin unsent
    BY <2>5 DEF Unsettled, OnePlace
  <2>8. \A i \in DOMAIN q : q[i] # m /\ q[i] \notin Settled \cup unsent
    <3>1. ASSUME NEW i \in DOMAIN q PROVE q[i] # m
      <4>1. i + 1 # 1
        BY <2>6
      <4> QED BY <2>5, <2>6, <4>1 DEF OnePlace
    <3> QED BY <2>6, <3>1 DEF OnePlace, Unsettled
  <2>9. /\ waiter' \in [Prompts -> Fates]
        /\ ToldTheTruth' /\ HasAttempts'
        /\ Settled' \subseteq Settled \cup {m}
        /\ (current' = m /\ Settled' = Settled) \/ current' = NoMessage
        /\ attempt' \in 0 .. Attempts
        /\ channel' \in {0} \cup Adapters /\ sending' \in BOOLEAN /\ idle' \in BOOLEAN
        /\ UNCHANGED <<stopping, resized, drained, due>>
    <3>1. 1 \in 1 .. Attempts
      BY DEF DeliveryAssumption
    <3> QED BY <2>1, <2>4, <2>7, <3>1, AttemptFacts
  <2>10. DrainedIsSettled'
    <3>1. ASSUME drained PROVE m \notin due /\ \A i \in DOMAIN q : q[i] \notin due
      BY <2>5, <2>6, <3>1 DEF DrainedIsSettled
    <3>2. NoMessage \notin due
      BY DEF DeliveryAssumption
    <3> QED BY <2>1, <2>3, <2>9, <3>1, <3>2 DEF DrainedIsSettled
  <2>11. OnePlace'
    <3>1. \A i, j \in DOMAIN q : q[i] = q[j] => i = j
      BY <2>6 DEF OnePlace
    <3>2. \A i \in DOMAIN q : q[i] # NoMessage
      BY DEF DeliveryAssumption
    <3>3. NoMessage \notin unsent
      BY DEF DeliveryAssumption
    <3> QED BY <2>1, <2>3, <2>7, <2>8, <2>9, <3>1, <3>2, <3>3 DEF OnePlace
  <2>12. Unsettled'
    <3>1. current' \notin Settled'
      BY <2>7, <2>9, NothingIsNoMessage DEF Settled
    <3>2. \A i \in DOMAIN q : q[i] \notin Settled'
      BY <2>8, <2>9
    <3>3. Settled' \cap unsent = {}
      BY <2>7, <2>9 DEF Unsettled
    <3> QED BY <2>1, <2>3, <3>1, <3>2, <3>3 DEF Unsettled
  <2>13. DeliveryTypeOK'
    BY <2>1, <2>3, <2>9
  <2> QED BY <2>1, <2>9, <2>10, <2>11, <2>12, <2>13 DEF OthersHaveEnded, Quiet, Active, DueIsPublished
<1>2. CASE Retry
  <2>1. /\ current # NoMessage /\ ~sending /\ Attempt(current, channel, attempt + 1, queue)
        /\ UNCHANGED <<queue, unsent, accepted, manager>>
    BY <1>2 DEF Retry
  <2>2. PICK m \in Output, a \in {0} \cup Adapters, n \in 1 .. Attempts, q \in Seq(Output) :
          m = current /\ a = channel /\ n = attempt + 1 /\ q = queue
    BY <2>1 DEF HasAttempts, DeliveryAssumption
  <2>3. Attempt(m, a, n, q)
    BY <2>1, <2>2
  <2>4. m \notin Settled /\ m \notin unsent /\ \A i \in DOMAIN queue : queue[i] # m
    BY <2>2 DEF Unsettled, OnePlace
  <2>5. /\ waiter' \in [Prompts -> Fates]
        /\ ToldTheTruth' /\ HasAttempts'
        /\ Settled' \subseteq Settled \cup {m}
        /\ (current' = m /\ Settled' = Settled) \/ current' = NoMessage
        /\ attempt' \in 0 .. Attempts
        /\ channel' \in {0} \cup Adapters /\ sending' \in BOOLEAN /\ idle' \in BOOLEAN
        /\ UNCHANGED <<stopping, resized, drained, due>>
    BY <2>1, <2>3, <2>4, AttemptFacts
  <2>6. DrainedIsSettled'
    BY <2>1, <2>2, <2>5 DEF DrainedIsSettled, DeliveryAssumption
  <2>7. OnePlace' /\ Unsettled'
    <3>1. current' \notin Settled' /\ current' \notin unsent
      BY <2>4, <2>5, NothingIsNoMessage DEF Settled
    <3>2. \A i \in DOMAIN queue : queue[i] \notin Settled' /\ queue[i] \notin unsent \cup {current'}
      BY <2>4, <2>5, NothingIsNoMessage DEF Unsettled, OnePlace
    <3>3. Settled' \cap unsent = {}
      BY <2>4, <2>5 DEF Unsettled
    <3> QED BY <2>1, <3>1, <3>2, <3>3 DEF Unsettled, OnePlace
  <2>8. DeliveryTypeOK'
    BY <2>1, <2>2, <2>5
  <2> QED BY <2>1, <2>5, <2>6, <2>7, <2>8 DEF OthersHaveEnded, Quiet, Active, DueIsPublished
<1> QED BY <1>1, <1>2

\* A send returns or raises.
LEMMA SendSteps ==
  ASSUME DeliveryAssumption, OutputInv, SendReturns \/ SendRaises
  PROVE  OutputInv'
<1> USE DEF OutputInv, DeliveryTypeOK, manager, ending, Fates
<1>1. PICK m \in Output : m = current
  BY DEF SendReturns, SendRaises, HasAttempts
<1>2. m \notin Settled /\ m \notin unsent /\ \A i \in DOMAIN queue : queue[i] # m
  BY <1>1 DEF Unsettled, OnePlace
<1>3. /\ UNCHANGED <<queue, unsent, manager, stopping, resized, drained, due>>
      /\ \/ current' = NoMessage /\ attempt' = 0 /\ channel' = 0 /\ ~sending'
         \/ UNCHANGED <<current, attempt, channel, waiter, accepted>> /\ attempt # Attempts /\ ~sending'
  BY DEF SendReturns, SendRaises, Done
<1>4. sending' \in BOOLEAN /\ idle' \in BOOLEAN
  BY DEF SendReturns, SendRaises, Done
<1>5. /\ waiter' \in [Prompts -> Fates] /\ ToldTheTruth' /\ Settled' \subseteq Settled \cup {m}
      /\ accepted' \in SUBSET Prompts
  <2>1. CASE SendReturns
    <3>1. Report(m, "delivered") /\ accepted' = accepted \cup ({m} \cap Prompts)
      BY <1>1, <2>1 DEF SendReturns
    <3>2. waiter' \in [Prompts -> Fates] /\ ToldTheTruth' /\ Settled' \subseteq Settled \cup {m}
      BY <1>2, <3>1, ReportFacts
    <3> QED BY <3>1, <3>2
  <2>2. CASE SendRaises /\ attempt = Attempts
    <3>1. Report(m, "failed") /\ accepted' = accepted
      BY <1>1, <2>2 DEF SendRaises
    <3>2. waiter' \in [Prompts -> Fates] /\ ToldTheTruth' /\ Settled' \subseteq Settled \cup {m}
      BY <1>2, <3>1, ReportFacts
    <3> QED BY <3>1, <3>2
  <2>3. CASE SendRaises /\ attempt # Attempts
    <3>1. UNCHANGED <<waiter, accepted>>
      BY <2>3 DEF SendRaises
    <3> QED BY <3>1 DEF ToldTheTruth, Settled
  <2> QED BY <2>1, <2>2, <2>3
<1>6. current' \in Output \cup {NoMessage} /\ channel' \in {0} \cup Adapters
  BY <1>3
<1>7. attempt' \in 0 .. Attempts /\ HasAttempts'
  BY <1>3 DEF HasAttempts, DeliveryAssumption
<1>8. DeliveryTypeOK'
  BY <1>3, <1>4, <1>5, <1>6, <1>7
<1>9. DrainedIsSettled'
  BY <1>3 DEF DrainedIsSettled, DeliveryAssumption
<1>10. OnePlace' /\ Unsettled'
  <2>1. CASE current' = NoMessage
    <3>1. current' \notin Settled' /\ current' \notin unsent
      BY <1>5, <2>1, NothingIsNoMessage DEF Settled
    <3>2. \A i \in DOMAIN queue : queue[i] \notin Settled' /\ queue[i] \notin unsent \cup {current'}
      BY <1>2, <1>5, <2>1, NothingIsNoMessage DEF Unsettled, OnePlace
    <3>3. Settled' \cap unsent = {}
      BY <1>2, <1>5 DEF Unsettled
    <3> QED BY <1>3, <3>1, <3>2, <3>3 DEF Unsettled, OnePlace
  <2>2. CASE UNCHANGED <<current, waiter, accepted>>
    <3>1. Settled' = Settled
      BY <2>2 DEF Settled
    <3> QED BY <1>3, <2>2, <3>1 DEF Unsettled, OnePlace
  <2> QED BY <1>3, <2>1, <2>2
<1> QED BY <1>3, <1>5, <1>7, <1>8, <1>9, <1>10 DEF OthersHaveEnded, Quiet, Active, DueIsPublished

\* An adapter starts or ends, is replaced, or the loop of stop_all() comes to it.
LEMMA AdapterSteps ==
  ASSUME DeliveryAssumption, OutputInv,
         \/ \E a \in Adapters : AdapterRuns(a) \/ AdapterEnds(a)
         \/ \E on \in BOOLEAN : Begin(on)
         \/ End \/ StopRaises \/ Replace \/ Replaced \/ StopAdapter \/ LoopEnds \/ LoopRaises
  PROVE  OutputInv'
<1>1. /\ UNCHANGED <<queue, unsent, flight, waiter, accepted, idle, drained, due>>
      /\ stopping' \in {stopping, "others", "done", "raised"} /\ resized' \in BOOLEAN
  BY DEF AdapterRuns, AdapterEnds, Begin, End, StopRaises, Replace, Replaced, StopAdapter, LoopEnds,
         LoopRaises, ending, manager, OutputInv, DeliveryTypeOK
<1> DEFINE Goal == /\ adapter' \in [Adapters -> States]
                   /\ registered' \in {0} \cup Adapters
                   /\ OthersHaveEnded'
                   /\ Quiet'
<1>2. Goal
  <2> USE DEF OutputInv, DeliveryTypeOK, OthersHaveEnded, Quiet, States, ending, manager
  <2>1. ASSUME NEW a \in Adapters, AdapterRuns(a) PROVE Goal
    <3>1. adapter[a] = "starting" /\ adapter' = [adapter EXCEPT ![a] = "running"]
          /\ UNCHANGED <<registered, stopping>>
      BY <2>1 DEF AdapterRuns
    <3> QED BY <3>1 DEF Active
  <2>2. ASSUME NEW a \in Adapters, AdapterEnds(a) PROVE Goal
    <3>1. adapter' = [adapter EXCEPT ![a] = "stopped"] /\ UNCHANGED <<registered, stopping>>
      BY <2>2 DEF AdapterEnds
    <3> QED BY <3>1 DEF Active
  <2>3. CASE UNCHANGED <<adapter, registered>> /\ stopping # "done"
             /\ stopping' \in {stopping, "raised"}
    BY <2>3 DEF Active
  <2>4. CASE UNCHANGED <<adapter, registered>> /\ (stopping' = stopping \/ LoopEnds)
    BY <2>4 DEF LoopEnds, Active
  <2>5. ASSUME NEW state \in {"stopping", "broken"}, adapter' = Asked(state), UNCHANGED registered,
               stopping' = stopping \/ (stopping = "adapter" /\ stopping' = "others")
        PROVE  Goal
    <3>1. \A a \in Adapters :
            adapter'[a] = IF a = registered /\ Active(a) THEN state ELSE adapter[a]
      BY <2>5 DEF Asked
    <3>2. adapter' \in [Adapters -> States]
      BY <2>5 DEF Asked
    <3>3. \A a \in Adapters : adapter'[a] \notin {"starting", "running"}
      BY <3>1 DEF Active
    <3>4. OthersHaveEnded'
      BY <2>5, <3>1
    <3> QED BY <2>5, <3>2, <3>3, <3>4 DEF Active
  <2>6. CASE StopRaises
    <3>1. /\ adapter' = [a \in Adapters |->
                           IF a = registered /\ adapter[a] = "stopping" THEN "broken" ELSE adapter[a]]
          /\ UNCHANGED <<registered, stopping>>
      BY <2>6 DEF StopRaises
    <3> QED BY <3>1 DEF Active
  <2>7. CASE Replace
    <3>1. PICK fresh \in Adapters : fresh = Fresh
      BY <2>7, FreshIsUnused DEF Replace
    <3>2. PICK left \in Left :
            LET old == [a \in Adapters |-> IF a = registered THEN left ELSE adapter[a]]
            IN  \/ registered' = 0 /\ adapter' = old
                \/ registered' = fresh /\ adapter' = old
                \/ registered' = fresh /\ stopping = "no" /\ adapter' = [old EXCEPT ![fresh] = "starting"]
      BY <2>7, <3>1 DEF Replace
    <3>3. stopping' = stopping
      BY <2>7 DEF Replace
    <3>4. /\ left \in States
          /\ stopping # "done" => left \in {"stopped", "broken"}
          /\ stopping = "done" => left \in {"stopped", "broken", "stopping"}
      BY DEF Left, Active
    <3>5. PICK old \in [Adapters -> States] :
            /\ old = [a \in Adapters |-> IF a = registered THEN left ELSE adapter[a]]
            /\ \A a \in Adapters : old[a] \in {"stopped", "broken"} \/ (stopping = "done" /\ old[a] = "stopping")
      <4>1. [a \in Adapters |-> IF a = registered THEN left ELSE adapter[a]] \in [Adapters -> States]
        BY <3>4
      <4>2. \A a \in Adapters : a # registered =>
              adapter[a] \in {"stopped", "broken"} \/ (stopping = "done" /\ adapter[a] = "stopping")
        OBVIOUS
      <4> QED BY <3>4, <4>1, <4>2
    <3>6. \/ registered' = 0 /\ adapter' = old
          \/ registered' = fresh /\ adapter' = old
          \/ registered' = fresh /\ stopping = "no" /\ adapter' = [old EXCEPT ![fresh] = "starting"]
      BY <3>2, <3>5
    <3> QED BY <3>3, <3>5, <3>6 DEF Active
  <2>8. ASSUME NEW on \in BOOLEAN, Begin(on) PROVE Goal
    <3>1. UNCHANGED <<registered, stopping>> /\ (UNCHANGED adapter \/ adapter' = Asked("stopping"))
      BY <2>8 DEF Begin
    <3> QED BY <2>4, <2>5, <3>1
  <2>9. CASE StopAdapter
    <3>1. /\ stopping = "adapter" /\ stopping' = "others" /\ UNCHANGED registered
          /\ \E state \in {"stopping", "broken"} : adapter' = Asked(state)
      BY <2>9 DEF StopAdapter
    <3> QED BY <2>5, <3>1
  <2>10. CASE End \/ Replaced \/ LoopEnds \/ LoopRaises
    <3>1. UNCHANGED <<adapter, registered>>
      BY <2>10 DEF End, Replaced, LoopEnds, LoopRaises
    <3>2. \/ stopping' = stopping \/ LoopEnds
          \/ stopping # "done" /\ stopping' = "raised"
      BY <2>10 DEF End, Replaced, LoopRaises, Looping
    <3> QED BY <2>3, <2>4, <3>1, <3>2
  <2> QED BY <2>1, <2>2, <2>6, <2>7, <2>8, <2>9, <2>10
<1>3. reconf' \in {"none", "stopping", "starting", "refused", "failed", "ok"} /\ enabled' \in BOOLEAN
  BY DEF OutputInv, DeliveryTypeOK, AdapterRuns, AdapterEnds, Begin, End, StopRaises, Replace, Replaced,
         StopAdapter, LoopEnds, LoopRaises, manager
<1>4. DeliveryTypeOK'
  BY <1>1, <1>2, <1>3 DEF OutputInv, DeliveryTypeOK, flight, States
<1>5. Settled' = Settled
  BY <1>1 DEF Settled
<1> QED BY <1>1, <1>2, <1>4, <1>5
        DEF OutputInv, HasAttempts, DueIsPublished, OnePlace, Unsettled, ToldTheTruth, DrainedIsSettled,
            flight

\* stop_all() begins, waits and stops the dispatcher.
LEMMA StopSteps ==
  ASSUME DeliveryAssumption, OutputInv, StopAll \/ DrainLooks \/ DrainTimesOut \/ StopDispatcher
  PROVE  OutputInv'
<1> USE DEF OutputInv, DeliveryTypeOK, flight, manager
<1>1. /\ UNCHANGED <<queue, unsent, waiter, accepted, manager, resized>>
      /\ stopping # "done" /\ stopping' \in {"draining", "dispatcher", "adapter"}
      /\ \/ UNCHANGED flight
         \/ current' = NoMessage /\ attempt' = 0 /\ channel' = 0 /\ sending' = FALSE
      /\ \/ due' = due /\ drained' = drained
         \/ due' = Output \ unsent /\ UNCHANGED flight /\ (drained' => queue = <<>> /\ current = NoMessage)
  BY DEF StopAll, DrainLooks, DrainTimesOut, StopDispatcher
<1>2. idle' \in BOOLEAN /\ drained' \in BOOLEAN
  BY DEF StopAll, DrainLooks, DrainTimesOut, StopDispatcher
<1>3. sending' \in BOOLEAN
  BY <1>1
<1>4. attempt' \in 0 .. Attempts /\ HasAttempts'
  BY <1>1 DEF HasAttempts, DeliveryAssumption
<1>5. DeliveryTypeOK'
  BY <1>1, <1>2, <1>3, <1>4
<1>6. DrainedIsSettled'
  <2>1. CASE due' = due /\ drained' = drained
    BY <1>1, <2>1 DEF DrainedIsSettled, DeliveryAssumption
  <2>2. CASE due' = Output \ unsent /\ UNCHANGED flight /\ (drained' => queue = <<>> /\ current = NoMessage)
    BY <1>1, <2>2 DEF DrainedIsSettled, DeliveryAssumption
  <2> QED BY <1>1, <2>1, <2>2
<1>7. OnePlace' /\ Unsettled' /\ ToldTheTruth'
  <2>1. Settled' = Settled
    BY <1>1 DEF Settled
  <2>2. current' \notin Settled' /\ current' \notin unsent /\ \A i \in DOMAIN queue : queue[i] # current'
    <3>1. CASE current' = current
      BY <2>1, <3>1 DEF Unsettled, OnePlace
    <3>2. CASE current' = NoMessage
      BY <2>1, <3>2, NothingIsNoMessage DEF Settled
    <3> QED BY <1>1, <3>1, <3>2
  <2> QED BY <1>1, <2>1, <2>2 DEF Unsettled, OnePlace, ToldTheTruth
<1> QED BY <1>1, <1>4, <1>5, <1>6, <1>7 DEF OthersHaveEnded, Quiet, Active, DueIsPublished

LEMMA OutputKeeps ==
  ASSUME DeliveryAssumption, OutputInv,
         \/ DeliveryStep \/ UNCHANGED delivery
         \/ \E on \in BOOLEAN : Begin(on)
         \/ End
  PROVE  OutputInv'
<1>1. CASE UNCHANGED delivery
  <2>1. Settled' = Settled
    BY <1>1 DEF Settled, delivery
  <2> QED BY <1>1, <2>1
          DEF delivery, flight, manager, ending, OutputInv, DeliveryTypeOK, OthersHaveEnded, Quiet, Active,
              HasAttempts, DueIsPublished, OnePlace, Unsettled, ToldTheTruth, DrainedIsSettled
<1>2. CASE DeliveryStep
  BY <1>2, PublishSteps, AttemptSteps, SendSteps, AdapterSteps, StopSteps
     DEF DeliveryStep, DispatcherStep, StopStep
<1> QED BY <1>1, <1>2, AdapterSteps

-----------------------------------------------------------------------------
(* The settings.                                                            *)

\* The caller has its answer: what it leaves has to agree.
LEMMA AnswerKeeps ==
  ASSUME ConfigurationAssumption, UpdateInv, NEW c \in Callers, holder = c,
         NEW answer \in Answers, Answer(c, answer),
         file' \in [Paths -> Values], effective' \in [Paths -> Values],
         inUse' \in [Paths -> Values \cup {Down}], torn' \subseteq Paths,
         Agree(file, effective, inUse, torn)'
  PROVE  UpdateInv'
<1> USE DEF UpdateInv, ConfigurationTypeOK
<1>1. /\ pc' = [pc EXCEPT ![c] = answer]
      /\ holder' = NoCaller
      /\ edit' = [edit EXCEPT ![c] = <<>>]
      /\ base' = IF c \in Browsers THEN [base EXCEPT ![c] = Stored] ELSE base
      /\ cancelled' = [cancelled EXCEPT ![c] = FALSE]
      /\ saved' = NothingSaved
      /\ todo' = {}
  BY DEF Answer
<1>2. Stored \in [Paths -> Values] /\ Started \in [Paths -> Values]
  BY DEF Stored, Started, ConfigurationAssumption
<1>3. saved' \in [file : [Paths -> Values], effective : [Paths -> Values],
                  inUse : [Paths -> Values \cup {Down}]]
  <2>1. Started \in [Paths -> Values \cup {Down}]
    BY DEF Started, ConfigurationAssumption
  <2> QED BY <1>1, <1>2, <2>1 DEF NothingSaved
<1>4. /\ pc' \in [Callers -> {"absent", "idle", "waiting", "writing", "applying", "restoring",
                              "reapplying"} \cup Answers]
      /\ edit' \in [Callers -> Maps(Paths)] /\ cancelled' \in [Callers -> BOOLEAN]
      /\ base' \in [Browsers -> [Paths -> Values]]
  BY <1>1, <1>2, EmptyMap
<1>5. ConfigurationTypeOK'
  BY <1>1, <1>3, <1>4
<1>6. Locked'
  <2>1. answer \notin Working
    BY DEF Answers, Working
  <2> QED BY <1>1, <2>1 DEF Locked, Callers, Working
<1>7. Commanded'
  BY <1>1, EmptyMap DEF Commanded, Callers
<1>8. Between'
  BY <1>1 DEF Between
<1> QED BY <1>1, <1>5, <1>6, <1>7, <1>8
        DEF OnlyNamed, Written, BeingApplied, BeingUndone

\* A caller that does not hold the lock asks or leaves; one that does is cancelled.
LEMMA CallerSteps ==
  ASSUME ConfigurationAssumption, SettingsAssumption, UpdateInv,
         \E c \in Callers : Cancel(c) \/ \E e \in Edits \cup CommandEdits : Ask(c, e)
  PROVE  UpdateInv'
<1> USE DEF UpdateInv, ConfigurationTypeOK
<1>1. PICK c \in Callers : Cancel(c) \/ \E e \in Edits \cup CommandEdits : Ask(c, e)
  OBVIOUS
<1>2. /\ UNCHANGED <<file, effective, inUse, holder, saved, todo, torn>>
      /\ cancelled' \in [Callers -> BOOLEAN]
      /\ \/ UNCHANGED <<pc, edit>>
         \/ /\ pc[c] \notin Working
            /\ \E w \in {"waiting", "cancelled"} : pc' = [pc EXCEPT ![c] = w]
            /\ \E e \in Maps(Paths) :
                 /\ edit' = [edit EXCEPT ![c] = e]
                 /\ c \in Commands => DOMAIN e \cap (RestartPaths \cup {ChannelPath}) = {}
  <2>1. CASE Cancel(c)
    <3>1. UNCHANGED <<file, effective, inUse, holder, saved, todo, torn>>
      BY <2>1 DEF Cancel
    <3>2. cancelled' \in [Callers -> BOOLEAN]
      BY <2>1 DEF Cancel
    <3>3. \/ UNCHANGED <<pc, edit>>
          \/ /\ pc[c] = "waiting" /\ pc' = [pc EXCEPT ![c] = "cancelled"]
             /\ edit' = [edit EXCEPT ![c] = <<>>]
      BY <2>1 DEF Cancel
    <3> QED BY <3>1, <3>2, <3>3, EmptyMap DEF Working
  <2>2. ASSUME NEW e \in Edits \cup CommandEdits, Ask(c, e) PROVE <1>2
    <3>1. /\ e \in Maps(Paths)
          /\ c \in Commands => DOMAIN e \cap (RestartPaths \cup {ChannelPath}) = {}
      <4>1. CASE c \in Browsers /\ e \in Edits
        BY <4>1 DEF ConfigurationAssumption
      <4>2. CASE c \in Commands /\ e \in CommandEdits
        <5>1. e \in Maps(Paths \ RestartPaths) /\ ChannelPath \notin DOMAIN e
          BY <4>2 DEF ConfigurationAssumption, SettingsAssumption
        <5>2. e \in Maps(Paths)
          BY <5>1 DEF Maps
        <5> QED BY <5>1, <5>2, MapFacts
      <4> QED BY <2>2, <4>1, <4>2 DEF Ask
    <3>2. /\ UNCHANGED <<file, effective, inUse, holder, cancelled, saved, todo, torn>>
          /\ pc[c] = "idle" /\ pc' = [pc EXCEPT ![c] = "waiting"]
          /\ edit' = [edit EXCEPT ![c] = e]
      BY <2>2 DEF Ask
    <3> QED BY <3>1, <3>2 DEF Working
  <2> QED BY <1>1, <2>1, <2>2
<1>3. base' \in [Browsers -> [Paths -> Values]]
  <2>1. Stored \in [Paths -> Values]
    BY DEF Stored, ConfigurationAssumption
  <2> QED BY <1>1, <2>1 DEF Ask, Cancel
<1>4. pc' \in [Callers -> {"absent", "idle", "waiting", "writing", "applying", "restoring",
                           "reapplying"} \cup Answers]
  BY <1>2 DEF Answers
<1>5. ConfigurationTypeOK'
  BY <1>2, <1>3, <1>4
<1>6. \A d \in Callers : pc'[d] = pc[d] \/ (pc[d] \notin Working /\ pc'[d] \notin Working)
  BY <1>2 DEF Working
<1>7. Locked'
  BY <1>2, <1>6 DEF Locked, Callers
<1>8. Commanded'
  BY <1>2 DEF Commanded, Callers
<1>9. holder # NoCaller => edit'[holder] = edit[holder] /\ pc'[holder] = pc[holder]
  BY <1>2, <1>6 DEF Locked
<1>10. Between' /\ OnlyNamed' /\ Written'
  BY <1>2, <1>9 DEF Between, Agree, OnlyNamed, Named, Written
<1>11. BeingApplied' /\ BeingUndone'
  BY <1>2, <1>9 DEF BeingApplied, BeingUndone, Named
<1> QED BY <1>5, <1>7, <1>8, <1>10, <1>11

\* The lock is taken.
LEMMA LockKeeps ==
  ASSUME ConfigurationAssumption, UpdateInv, NEW c \in Callers, Lock(c)
  PROVE  UpdateInv'
<1> USE DEF UpdateInv, ConfigurationTypeOK
<1>1. /\ pc[c] = "waiting" /\ holder = NoCaller
      /\ holder' = c
      /\ pc' = [pc EXCEPT ![c] = "writing"]
      /\ saved' = [file |-> file, effective |-> effective, inUse |-> inUse]
      /\ UNCHANGED <<file, effective, inUse, edit, base, cancelled, todo, torn>>
  BY DEF Lock
<1>2. c # NoCaller
  BY DEF ConfigurationAssumption
<1>3. ConfigurationTypeOK'
  <2>1. saved' \in [file : [Paths -> Values], effective : [Paths -> Values],
                    inUse : [Paths -> Values \cup {Down}]]
    BY <1>1
  <2> QED BY <1>1, <2>1
<1>4. Locked'
  <2>1. \A d \in Callers : pc[d] \notin Working
    BY <1>1 DEF Locked, ConfigurationAssumption
  <2>2. pc'[c] = "writing" /\ \A d \in Callers \ {c} : pc'[d] = pc[d]
    BY <1>1
  <2>3. "writing" \in Working
    BY DEF Working
  <2>4. \A k \in Commands : k \in Callers
    BY DEF Callers
  <2> QED BY <1>1, <2>1, <2>2, <2>3, <2>4 DEF Locked
<1>5. Commanded'
  BY <1>1 DEF Commanded
<1>6. Between'
  BY <1>1, <1>2 DEF Between, Agree
<1>7. OnlyNamed' /\ Written'
  BY <1>1 DEF OnlyNamed, Written
<1>8. BeingApplied' /\ BeingUndone'
  BY <1>1, <1>2 DEF BeingApplied, BeingUndone
<1> QED BY <1>3, <1>4, <1>5, <1>6, <1>7, <1>8

\* A browser that keeps the lock goes on with its update.
LEMMA HolderGoesOn ==
  ASSUME ConfigurationAssumption, UpdateInv, NEW b \in Browsers, holder = b,
         NEW w \in Working, pc' = [pc EXCEPT ![b] = w],
         UNCHANGED <<holder, edit, saved, torn>>
  PROVE  /\ pc' \in [Callers -> {"absent", "idle", "waiting", "writing", "applying", "restoring",
                                 "reapplying"} \cup Answers]
         /\ pc'[b] = w
         /\ Locked' /\ Commanded' /\ Between'
<1> USE DEF UpdateInv, ConfigurationTypeOK
<1>1. b \in Callers /\ b \notin Commands /\ b # NoCaller
  BY DEF Callers, ConfigurationAssumption
<1>2. pc' \in [Callers -> {"absent", "idle", "waiting", "writing", "applying", "restoring",
                           "reapplying"} \cup Answers] /\ pc'[b] = w
  BY <1>1 DEF Working
<1>3. Locked'
  <2>1. \A d \in Callers \ {b} : pc'[d] = pc[d]
    OBVIOUS
  <2> QED BY <1>1, <1>2, <2>1 DEF Locked, Callers
<1>4. Commanded'
  BY DEF Commanded
<1>5. Between'
  BY <1>1 DEF Between, Agree
<1> QED BY <1>2, <1>3, <1>4, <1>5

\* The file is replaced.
LEMMA WriteKeeps ==
  ASSUME ConfigurationAssumption, UpdateInv, NEW b \in Browsers, Write(b)
  PROVE  UpdateInv'
<1> USE DEF UpdateInv, ConfigurationTypeOK
<1>1. /\ holder = b /\ pc[b] = "writing" /\ b \in Callers /\ b # NoCaller
      /\ inUse' = inUse
  BY DEF Write, Callers, ConfigurationAssumption
<1>2. PICK e \in Maps(Paths) : e = edit[b]
  BY <1>1
<1>3. DOMAIN e \subseteq Paths /\ \A p \in DOMAIN e : e[p] \in Values
  BY MapFacts
<1>4. file' = [p \in Paths |-> IF p \in DOMAIN e THEN e[p] ELSE file[p]]
  BY <1>2 DEF Write, Merged
<1>5. file' \in [Paths -> Values]
  BY <1>3, <1>4
<1>6. file = saved.file /\ effective = saved.effective /\ inUse = saved.inUse
  BY <1>1 DEF Written
<1>7. Agree(file, effective, inUse, torn)
  BY <1>1, <1>6 DEF Between
<1>8. CASE /\ effective' = [p \in Paths |-> IF p \in Live(edit[b]) THEN edit[b][p] ELSE effective[p]]
           /\ todo' = DOMAIN edit[b] \ RestartPaths
           /\ pc' = [pc EXCEPT ![b] = "applying"]
           /\ UNCHANGED <<holder, edit, base, cancelled, saved, torn>>
  <2>1. effective' = [p \in Paths |-> IF p \in DOMAIN e \ (RestartPaths \cup Overridden)
                                      THEN e[p] ELSE effective[p]]
    BY <1>2, <1>8 DEF Live
  <2>2. effective' \in [Paths -> Values]
    BY <1>3, <2>1
  <2>3. todo' = DOMAIN e \ RestartPaths
    BY <1>2, <1>8
  <2>4. /\ pc' \in [Callers -> {"absent", "idle", "waiting", "writing", "applying", "restoring",
                                "reapplying"} \cup Answers]
        /\ pc'[b] = "applying"
        /\ Locked' /\ Commanded' /\ Between'
    BY <1>1, <1>8, HolderGoesOn DEF Working
  <2>5. ConfigurationTypeOK'
    BY <1>1, <1>3, <1>5, <1>8, <2>2, <2>3, <2>4
  <2>6. OnlyNamed'
    BY <1>1, <1>2, <1>4, <1>6, <1>8, <2>1 DEF OnlyNamed, Named
  <2>7. BeingApplied'
    BY <1>1, <1>2, <1>3, <1>4, <1>8, <2>1, <2>3 DEF BeingApplied, Named
  <2>8. Written' /\ BeingUndone'
    BY <1>1, <1>8, <2>4 DEF Written, BeingUndone
  <2> QED BY <2>4, <2>5, <2>6, <2>7, <2>8
<1>9. CASE /\ \E answer \in Answers : Answer(b, answer)
           /\ torn' = torn \cup DOMAIN edit[b]
           /\ UNCHANGED effective
  <2>1. torn' = torn \cup DOMAIN e /\ torn' \subseteq Paths
    BY <1>2, <1>3, <1>9
  <2>2. Agree(file, effective, inUse, torn)'
    BY <1>1, <1>4, <1>7, <1>9, <2>1 DEF Agree
  <2>3. PICK answer \in Answers : Answer(b, answer)
    BY <1>9
  <2>4. effective' \in [Paths -> Values] /\ inUse' \in [Paths -> Values \cup {Down}]
    BY <1>1, <1>9
  <2> HIDE DEF UpdateInv, ConfigurationTypeOK
  <2> QED BY <1>1, <1>5, <2>1, <2>2, <2>3, <2>4, AnswerKeeps
<1> QED BY <1>8, <1>9 DEF Write, Answers

\* An owner takes a value, or fails with it.
LEMMA ApplyKeeps ==
  ASSUME ConfigurationAssumption, UpdateInv, NEW b \in Browsers, NEW p \in Paths,
         Apply(b, p) \/ ApplyFails(b, p)
  PROVE  UpdateInv'
<1> USE DEF UpdateInv, ConfigurationTypeOK
<1>1. /\ holder = b /\ pc[b] = "applying" /\ b \in Callers /\ b # NoCaller
      /\ p \in todo /\ todo \subseteq Named
      /\ UNCHANGED <<file, effective, holder, edit, base, saved, torn>>
  BY DEF Apply, ApplyFails, Visited, BeingApplied, Callers, ConfigurationAssumption
<1>2. /\ inUse' \in [Paths -> Values \cup {Down}]
      /\ \A q \in Paths \ {p} : inUse'[q] = inUse[q]
  BY DEF Apply, ApplyFails
<1>3. PICK w \in {"applying", "restoring"} : pc' = [pc EXCEPT ![b] = w]
  BY <1>1 DEF Apply, ApplyFails
<1>4. /\ pc' \in [Callers -> {"absent", "idle", "waiting", "writing", "applying", "restoring",
                              "reapplying"} \cup Answers]
      /\ pc'[b] = w
      /\ Locked' /\ Commanded' /\ Between'
  BY <1>1, <1>3, HolderGoesOn DEF Working
<1>5. todo' \subseteq todo
  BY DEF Apply, ApplyFails
<1>6. cancelled' \in [Callers -> BOOLEAN]
  BY DEF Apply, ApplyFails
<1>7. ConfigurationTypeOK'
  BY <1>1, <1>2, <1>4, <1>5, <1>6
<1>8. Named' = Named
  BY <1>1 DEF Named
<1>9. OnlyNamed'
  BY <1>1, <1>2, <1>8 DEF OnlyNamed
<1>10. BeingApplied'
  <2>1. CASE Apply(b, p)
    <3>1. inUse'[p] = effective[p] /\ todo' = todo \ {p} /\ Named \subseteq Paths
      <4>1. \E e \in Maps(Paths) : e = edit[b]
        BY <1>1
      <4> QED BY <1>1, <2>1, <4>1, MapFacts DEF Apply, Named
    <3> QED BY <1>1, <1>2, <1>8, <3>1 DEF BeingApplied
  <2>2. CASE ApplyFails(b, p)
    <3>1. pc'[b] = "restoring"
      BY <1>1, <2>2 DEF ApplyFails
    <3> QED BY <1>1, <3>1 DEF BeingApplied
  <2> QED BY <2>1, <2>2
<1>11. Written' /\ BeingUndone'
  BY <1>1, <1>4 DEF Written, BeingUndone
<1> QED BY <1>4, <1>7, <1>9, <1>10, <1>11

\* The owners are given the previous values.
LEMMA ReapplyKeeps ==
  ASSUME ConfigurationAssumption, UpdateInv, NEW b \in Browsers, NEW p \in Paths,
         Reapply(b, p) \/ ReapplyFails(b, p)
  PROVE  UpdateInv'
<1> USE DEF UpdateInv, ConfigurationTypeOK
<1>1. /\ holder = b /\ pc[b] = "reapplying" /\ b \in Callers /\ b # NoCaller
      /\ p \in todo /\ todo \subseteq Named
      /\ file = saved.file /\ effective = saved.effective
      /\ \A q \in Named \ todo : inUse[q] = effective[q]
      /\ UNCHANGED <<file, effective>>
  BY DEF Reapply, ReapplyFails, Visited, BeingUndone, Callers, ConfigurationAssumption
<1>2. /\ inUse' \in [Paths -> Values \cup {Down}]
      /\ \A q \in Paths \ {p} : inUse'[q] = inUse[q]
  BY DEF Reapply, ReapplyFails
<1>3. Named \subseteq Paths
  <2>1. \E e \in Maps(Paths) : e = edit[b]
    BY <1>1
  <2> QED BY <1>1, <2>1, MapFacts DEF Named
<1>4. CASE Reapply(b, p)
  <2>1. /\ inUse'[p] = effective[p] /\ todo' = todo \ {p}
        /\ UNCHANGED <<holder, pc, edit, base, cancelled, saved, torn>>
    BY <1>1, <1>4 DEF Reapply
  <2>2. ConfigurationTypeOK'
    BY <1>1, <1>2, <2>1
  <2>3. Named' = Named
    BY <2>1 DEF Named
  <2>4. OnlyNamed'
    BY <1>1, <1>2, <2>1, <2>3 DEF OnlyNamed
  <2>5. BeingUndone'
    BY <1>1, <1>2, <1>3, <2>1, <2>3 DEF BeingUndone
  <2>6. Locked' /\ Commanded'
    BY <2>1 DEF Locked, Commanded
  <2>7. Between'
    BY <1>1, <2>1 DEF Between, Agree
  <2>8. Written' /\ BeingApplied'
    BY <1>1, <2>1 DEF Written, BeingApplied
  <2> QED BY <2>2, <2>4, <2>5, <2>6, <2>7, <2>8
<1>5. CASE ReapplyFails(b, p)
  <2>1. torn' = torn \cup todo /\ torn' \subseteq Paths /\ Answer(b, "error")
    BY <1>5 DEF ReapplyFails
  <2>2. Agree(saved.file, saved.effective, saved.inUse, torn)
    BY <1>1 DEF Between
  <2>3. \A q \in Paths \ Named : inUse[q] = saved.inUse[q]
    BY <1>1 DEF OnlyNamed
  <2>4. Agree(file, effective, inUse, torn)'
    BY <1>1, <1>2, <2>1, <2>2, <2>3 DEF Agree
  <2>5. effective' \in [Paths -> Values] /\ file' \in [Paths -> Values]
    BY <1>1
  <2> HIDE DEF UpdateInv, ConfigurationTypeOK
  <2> QED BY <1>1, <1>2, <2>1, <2>4, <2>5, AnswerKeeps DEF Answers
<1> QED BY <1>4, <1>5

\* The file is put back, and the effective settings with it.
LEMMA RestoreKeeps ==
  ASSUME ConfigurationAssumption, UpdateInv, NEW b \in Browsers,
         Restore(b) \/ RestoreFails(b)
  PROVE  UpdateInv'
<1> USE DEF UpdateInv, ConfigurationTypeOK
<1>1. /\ holder = b /\ pc[b] = "restoring" /\ b \in Callers /\ b # NoCaller
      /\ inUse' = inUse
  BY DEF Restore, RestoreFails, Callers, ConfigurationAssumption
<1>2. PICK e \in Maps(Paths) : e = edit[b]
  BY <1>1
<1>3. DOMAIN e \subseteq Paths
  BY MapFacts
<1>4. Agree(saved.file, saved.effective, saved.inUse, torn)
  BY <1>1 DEF Between
<1>5. \A q \in Paths :
        /\ q \notin DOMAIN e => file[q] = saved.file[q]
        /\ q \notin DOMAIN e \ RestartPaths => effective[q] = saved.effective[q] /\ inUse[q] = saved.inUse[q]
  BY <1>1, <1>2 DEF OnlyNamed, Named
<1>6. CASE /\ file' \in {file, saved.file} /\ UNCHANGED effective
           /\ \E answer \in Answers : Answer(b, answer)
           /\ torn' = torn \cup DOMAIN edit[b]
  <2>1. torn' = torn \cup DOMAIN e /\ torn' \subseteq Paths
    BY <1>2, <1>3, <1>6
  <2>2. Agree(file, effective, inUse, torn)'
    BY <1>1, <1>4, <1>5, <1>6, <2>1 DEF Agree
  <2>3. PICK answer \in Answers : Answer(b, answer)
    BY <1>6
  <2>4. effective' \in [Paths -> Values] /\ file' \in [Paths -> Values]
        /\ inUse' \in [Paths -> Values \cup {Down}]
    BY <1>1, <1>6
  <2> HIDE DEF UpdateInv, ConfigurationTypeOK
  <2> QED BY <1>1, <2>1, <2>2, <2>3, <2>4, AnswerKeeps
<1>7. CASE /\ file' = saved.file /\ effective' = saved.effective
           /\ todo' = DOMAIN edit[b] \ RestartPaths
           /\ pc' = [pc EXCEPT ![b] = "reapplying"]
           /\ UNCHANGED <<holder, edit, base, cancelled, saved, torn>>
  <2>1. /\ pc' \in [Callers -> {"absent", "idle", "waiting", "writing", "applying", "restoring",
                                "reapplying"} \cup Answers]
        /\ pc'[b] = "reapplying"
        /\ Locked' /\ Commanded' /\ Between'
    BY <1>1, <1>7, HolderGoesOn DEF Working
  <2>2. ConfigurationTypeOK'
    BY <1>1, <1>2, <1>3, <1>7, <2>1
  <2>3. Named' = DOMAIN e \ RestartPaths /\ todo' = Named'
    BY <1>1, <1>2, <1>7 DEF Named
  <2>4. OnlyNamed'
    BY <1>1, <1>2, <1>5, <1>7, <2>3 DEF OnlyNamed
  <2>5. BeingUndone'
    BY <1>1, <1>7, <2>3 DEF BeingUndone
  <2>6. Written' /\ BeingApplied'
    BY <1>1, <1>7, <2>1 DEF Written, BeingApplied
  <2> QED BY <2>1, <2>2, <2>4, <2>5, <2>6
<1> QED BY <1>6, <1>7 DEF Restore, RestoreFails, Answers

\* The update has been applied, has been undone, or is refused.
LEMMA AnswersKeep ==
  ASSUME ConfigurationAssumption, UpdateInv, NEW c \in Callers,
         \/ c \in Browsers /\ (Conflict(c) \/ Applied(c) \/ Reapplied(c))
         \/ WriteFails(c)
  PROVE  UpdateInv'
<1> USE DEF UpdateInv, ConfigurationTypeOK
<1>1. /\ holder = c /\ c # NoCaller
      /\ UNCHANGED <<file, effective, inUse>>
  BY DEF Conflict, WriteFails, Applied, Reapplied, ConfigurationAssumption
<1>2. PICK answer \in Answers : Answer(c, answer)
  BY DEF Conflict, WriteFails, Applied, Reapplied, Answers
<1>3. Agree(saved.file, saved.effective, saved.inUse, torn)
  BY <1>1 DEF Between
<1>4. PICK e \in Maps(Paths) : e = edit[c]
  BY <1>1
<1>5. \A q \in Paths :
        /\ q \notin DOMAIN e => file[q] = saved.file[q]
        /\ q \notin DOMAIN e \ RestartPaths => effective[q] = saved.effective[q] /\ inUse[q] = saved.inUse[q]
  BY <1>1, <1>4 DEF OnlyNamed, Named
<1>6. torn' \subseteq Paths /\ Agree(file, effective, inUse, torn)'
  <2>1. CASE Conflict(c) \/ WriteFails(c)
    <3>1. file = saved.file /\ effective = saved.effective /\ inUse = saved.inUse /\ torn' = torn
      BY <1>1, <2>1 DEF Written, Conflict, WriteFails
    <3> QED BY <1>1, <1>3, <3>1 DEF Agree
  <2>2. CASE Applied(c)
    <3>1. /\ torn' = torn \ DOMAIN e
          /\ \A q \in DOMAIN e \ RestartPaths : (q \notin Overridden => effective[q] = file[q]) /\ inUse[q] = effective[q]
      BY <1>1, <1>4, <2>2 DEF Applied, BeingApplied, Named
    <3> QED BY <1>1, <1>3, <1>5, <3>1 DEF Agree
  <2>3. CASE Reapplied(c)
    <3>1. /\ torn' = torn /\ file = saved.file /\ effective = saved.effective
          /\ \A q \in DOMAIN e \ RestartPaths : inUse[q] = effective[q]
      BY <1>1, <1>4, <2>3 DEF Reapplied, BeingUndone, Named
    <3> QED BY <1>1, <1>3, <1>5, <3>1 DEF Agree
  <2> QED BY <2>1, <2>2, <2>3
<1>7. /\ file' \in [Paths -> Values] /\ effective' \in [Paths -> Values]
      /\ inUse' \in [Paths -> Values \cup {Down}]
  BY <1>1
<1> HIDE DEF UpdateInv, ConfigurationTypeOK
<1> QED BY <1>1, <1>2, <1>6, <1>7, AnswerKeeps

\* A command writes and applies its value at once.
LEMMA CommandKeeps ==
  ASSUME ConfigurationAssumption, UpdateInv, NEW k \in Commands, CommandWrite(k)
  PROVE  UpdateInv'
<1> USE DEF UpdateInv, ConfigurationTypeOK
<1>1. /\ holder = k /\ pc[k] = "writing" /\ k \in Callers /\ k # NoCaller
  BY DEF CommandWrite, Callers, ConfigurationAssumption
<1>2. PICK e \in Maps(Paths) : e = edit[k]
  BY <1>1
<1>3. file' = Merged(e, file) /\ effective' = Merged(e, effective) /\ inUse' = Merged(e, inUse)
      /\ torn' = torn \ DOMAIN e
  BY <1>2 DEF CommandWrite
<1>4. file' \in [Paths -> Values] /\ effective' \in [Paths -> Values]
      /\ inUse' \in [Paths -> Values \cup {Down}] /\ torn' \subseteq Paths
  BY <1>3, MapFacts DEF Merged
<1>5. Agree(file, effective, inUse, torn)
  BY <1>1 DEF Between, Written
<1>6. Agree(file, effective, inUse, torn)'
  BY <1>3, <1>5 DEF Agree, Merged
<1>7. PICK answer \in Answers : Answer(k, answer)
  BY DEF CommandWrite, Answers
<1> HIDE DEF UpdateInv, ConfigurationTypeOK
<1> QED BY <1>1, <1>4, <1>6, <1>7, AnswerKeeps

LEMMA UpdateKeeps ==
  ASSUME ConfigurationAssumption, SettingsAssumption, UpdateInv,
         \/ ServiceStep \/ UNCHANGED config
         \/ \E p \in Paths : OwnerStep(p)
  PROVE  UpdateInv'
<1>1. CASE UNCHANGED config
  BY <1>1 DEF config, UpdateInv, ConfigurationTypeOK, Locked, Commanded, Between, Agree, OnlyNamed, Named,
              Written, BeingApplied, BeingUndone
<1>2. CASE ServiceStep
  BY <1>2, AnswersKeep, WriteKeeps, RestoreKeeps, CallerSteps, LockKeeps, CommandKeeps
     DEF ServiceStep, Callers
<1>3. ASSUME NEW p \in Paths, OwnerStep(p) PROVE UpdateInv'
  BY <1>3, ApplyKeeps, ReapplyKeeps DEF OwnerStep
<1> QED BY <1>1, <1>2, <1>3

-----------------------------------------------------------------------------
(* The adapter and its setting.                                             *)

LEMMA ChannelFacts ==
  ASSUME SettingsAssumption, ConfigurationAssumption
  PROVE  /\ ChannelPath \in Paths \ (RestartPaths \cup Overridden) /\ Off \in Values /\ Default # Off
         /\ Down \notin Values /\ NoCaller \notin Browsers
BY DEF SettingsAssumption, ConfigurationAssumption, Callers

\* Nothing of the update goes on while it waits for the adapter.
LEMMA ServiceWaits ==
  ASSUME ConfigurationAssumption, SettingsAssumption, IInv, ServiceStep, UNCHANGED delivery
  PROVE  Replacing' /\ InPlace'
<1> USE DEF delivery, manager
<1>1. ASSUME NEW c \in Callers, Cancel(c) \/ \E e \in Edits \cup CommandEdits : Ask(c, e)
      PROVE  Replacing' /\ InPlace'
  <2>1. /\ UNCHANGED <<effective, inUse, holder, todo>>
        /\ \A d \in Callers : pc[d] \in Working => pc'[d] = pc[d]
    BY <1>1 DEF Cancel, Ask, Working, IInv, UpdateInv, ConfigurationTypeOK
  <2>2. Replacing'
    BY <2>1 DEF IInv, Replacing, Visited, Working, Callers
  <2> QED BY <2>1, <2>2 DEF IInv, InPlace
<1>2. CASE ~\E c \in Callers : Cancel(c) \/ \E e \in Edits \cup CommandEdits : Ask(c, e)
  <2>1. reconf = "none"
    <3>1. ASSUME reconf # "none" PROVE FALSE
      <4>1. /\ holder \in Browsers /\ holder # NoCaller /\ pc[holder] \in {"applying", "reapplying"}
            /\ todo # {}
        BY <3>1, ChannelFacts DEF IInv, Replacing, Visited
      <4> QED BY <1>2, <4>1 DEF ServiceStep, Conflict, Write, Applied, Restore, RestoreFails, Reapplied,
                                Lock, WriteFails, CommandWrite
    <3> QED BY <3>1
  <2>2. inUse'[ChannelPath] = inUse[ChannelPath]
    <3>1. ASSUME NEW k \in Commands, CommandWrite(k) PROVE inUse'[ChannelPath] = inUse[ChannelPath]
      BY <3>1, ChannelFacts DEF CommandWrite, Merged, IInv, UpdateInv, Commanded
    <3>2. CASE inUse' = inUse
      BY <3>2
    <3> QED BY <1>2, <3>1, <3>2 DEF ServiceStep, Conflict, Write, Applied, Restore, RestoreFails,
                                    Reapplied, Lock, WriteFails
  <2> QED BY <2>1, <2>2 DEF IInv, Replacing, InPlace
<1> QED BY <1>1, <1>2

\* The owners are visited one at a time.
LEMMA OthersWait ==
  ASSUME ConfigurationAssumption, SettingsAssumption, IInv, NEW p \in Paths \ {ChannelPath},
         OwnerStep(p), UNCHANGED delivery
  PROVE  Replacing' /\ InPlace'
<1>1. Visited(p)
  BY DEF OwnerStep, Apply, ApplyFails, Reapply, ReapplyFails
<1>2. reconf = "none"
  <2>1. Visited(ChannelPath) => ChannelPath <= p /\ p <= ChannelPath
    BY <1>1 DEF Visited
  <2>2. p \in Int /\ ChannelPath \in Int /\ p # ChannelPath
    BY ChannelFacts DEF Paths
  <2>3. ~Visited(ChannelPath)
    BY <2>1, <2>2
  <2> QED BY <2>3 DEF IInv, Replacing
<1>3. inUse'[ChannelPath] = inUse[ChannelPath]
  <2>1. inUse' = inUse \/ \E v \in Values \cup {Down} : inUse' = [inUse EXCEPT ![p] = v]
    BY DEF OwnerStep, Apply, ApplyFails, Reapply, ReapplyFails, IInv, UpdateInv, ConfigurationTypeOK
  <2>2. inUse \in [Paths -> Values \cup {Down}] /\ ChannelPath \in Paths
    BY ChannelFacts DEF IInv, UpdateInv, ConfigurationTypeOK
  <2> QED BY <2>1, <2>2
<1> QED BY <1>2, <1>3 DEF IInv, Replacing, InPlace, delivery, manager

\* The adapter is replaced by one, or by none, as it was asked for.
LEMMA ReplacementIsAsked ==
  ASSUME DeliveryAssumption, IInv, DeliveryStep, UNCHANGED config
  PROVE  Replacing' /\ InPlace'
<1>1. /\ UNCHANGED enabled
      /\ \/ UNCHANGED <<registered, reconf>>
         \/ Replace
         \/ reconf \in {"stopping", "starting"} /\ reconf' \in {"ok", "failed"} /\ UNCHANGED registered
            /\ (reconf = "stopping" => reconf' = "failed")
  BY DEF DeliveryStep, DispatcherStep, StopStep, PublishOutput, WaiterLeaves, AdapterRuns, AdapterEnds,
         TakeOutput, SendReturns, SendRaises, Retry, StopRaises, Replace, Replaced, StopAll, DrainTimesOut,
         DrainLooks, StopDispatcher, StopAdapter, LoopEnds, LoopRaises, manager
<1>2. CASE Replace
  <2>1. /\ reconf = "stopping"
        /\ ~enabled => registered' = 0 /\ reconf' = "ok"
        /\ enabled => registered' = Fresh /\ reconf' \in {"starting", "ok"}
    BY <1>2 DEF Replace
  <2>2. Fresh # 0
    BY <1>2, FreshIsUnused DEF Replace
  <2>3. InPlace'
    BY <1>1, <2>1, <2>2 DEF InPlace
  <2>4. Replacing'
    BY <1>1, <2>1 DEF IInv, Replacing, Visited, config
  <2> QED BY <2>3, <2>4
<1>3. CASE /\ reconf \in {"stopping", "starting"} /\ reconf' \in {"ok", "failed"} /\ UNCHANGED registered
           /\ reconf = "stopping" => reconf' = "failed"
  BY <1>1, <1>3 DEF IInv, Replacing, InPlace, Visited, config
<1>4. CASE UNCHANGED <<registered, reconf>>
  BY <1>1, <1>4 DEF IInv, Replacing, InPlace, Visited, config
<1> QED BY <1>1, <1>2, <1>3, <1>4

\* reconfigure() is asked for the value that is in effect.
LEMMA TargetIsEffective ==
  ASSUME ConfigurationAssumption, IInv, NEW b \in Browsers, holder = b
  PROVE  Target = effective[ChannelPath]
<1>1. ASSUME NEW d \in Browsers, pc[d] = "reapplying" PROVE saved.effective = effective
  <2>1. holder = d /\ d # NoCaller
    BY <1>1 DEF IInv, UpdateInv, Locked, Working, Callers, ConfigurationAssumption
  <2> QED BY <1>1, <2>1 DEF IInv, UpdateInv, BeingUndone
<1> QED BY <1>1 DEF Target

LEMMA ReconfigureKeeps ==
  ASSUME ConfigurationAssumption, SettingsAssumption, IInv, NEW b \in Browsers,
         BeginReconfigure(b) \/ EndReconfigure(b)
  PROVE  Replacing' /\ InPlace'
<1>1. CASE BeginReconfigure(b)
  <2>1. /\ holder = b /\ pc[b] \in {"applying", "reapplying"} /\ Visited(ChannelPath)
        /\ reconf = "none" /\ reconf' \in {"refused", "stopping"}
        /\ UNCHANGED <<config, registered>>
    BY <1>1 DEF BeginReconfigure, Begin
  <2>2. enabled' <=> effective[ChannelPath] # Off
    <3>1. enabled' = (Target # Off)
      BY <1>1 DEF BeginReconfigure, Begin
    <3>2. Target = effective[ChannelPath]
      BY <2>1, TargetIsEffective
    <3> QED BY <3>1, <3>2
  <2>3. Replacing'
    BY <2>1, <2>2 DEF Replacing, Visited, config
  <2> QED BY <2>1, <2>3 DEF IInv, InPlace, config
<1>2. CASE EndReconfigure(b)
  <2>1. /\ reconf \in {"ok", "refused", "failed"} /\ reconf' = "none" /\ UNCHANGED registered
    BY <1>2 DEF EndReconfigure, End
  <2>2. CASE reconf = "ok"
    <3>1. inUse'[ChannelPath] = effective[ChannelPath]
      <4>1. holder = b /\ b # NoCaller /\ ChannelPath \in Paths
        BY <2>2, <1>2, ChannelFacts DEF EndReconfigure, Apply, Reapply
      <4>2. pc[b] = "reapplying" => saved.effective = effective
        BY <4>1 DEF IInv, UpdateInv, BeingUndone
      <4> QED BY <1>2, <2>2, <4>1, <4>2
              DEF EndReconfigure, Apply, Reapply, IInv, UpdateInv, ConfigurationTypeOK
    <3>2. (registered # 0 <=> enabled) /\ (enabled <=> effective[ChannelPath] # Off)
      BY <2>2 DEF IInv, InPlace, Replacing
    <3> QED BY <2>1, <3>1, <3>2 DEF Replacing, InPlace
  <2>3. CASE reconf # "ok"
    <3>1. inUse'[ChannelPath] = IF reconf = "failed" THEN Down ELSE inUse[ChannelPath]
      BY <1>2, <2>3 DEF EndReconfigure
    <3> QED BY <2>1, <2>3, <3>1 DEF IInv, Replacing, InPlace
  <2> QED BY <2>2, <2>3
<1> QED BY <1>1, <1>2

-----------------------------------------------------------------------------
(* The invariant.                                                           *)

LEMMA InitIInv ==
  ASSUME ConfigurationAssumption, DeliveryAssumption, SettingsAssumption, Init
  PROVE  IInv
<1>1. PICK w \in Workloads : ConfigurationInit(w.callers) /\ DeliveryInit(w.output)
  BY DEF Init
<1>2. w.output \subseteq Output
  BY DEF SettingsAssumption
<1>3. OutputInv
  <2> USE <1>1, <1>2 DEF DeliveryInit
  <2>1. DeliveryTypeOK
    <3>1. 1 \in Adapters /\ 0 \in 0 .. Attempts
      BY DEF DeliveryAssumption, Adapters
    <3>2. /\ sending \in BOOLEAN /\ enabled \in BOOLEAN /\ idle \in BOOLEAN /\ drained \in BOOLEAN
          /\ resized \in BOOLEAN
      OBVIOUS
    <3>3. queue \in Seq(Output)
      OBVIOUS
    <3> QED BY <3>1, <3>2, <3>3 DEF DeliveryTypeOK
  <2>2. OthersHaveEnded /\ Quiet
    BY DEF OthersHaveEnded, Quiet
  <2>3. OnePlace /\ Unsettled
    <3>1. Settled = {}
      BY DEF Settled
    <3> QED BY <3>1, <1>2, NothingIsNoMessage DEF OnePlace, Unsettled
  <2> QED BY <2>1, <2>2, <2>3
          DEF OutputInv, HasAttempts, DueIsPublished, ToldTheTruth, DrainedIsSettled
<1>4. UpdateInv
  <2> USE <1>1 DEF ConfigurationInit
  <2>1. Stored \in [Paths -> Values] /\ Started \in [Paths -> Values]
        /\ Started \in [Paths -> Values \cup {Down}]
    BY DEF Stored, Started, ConfigurationAssumption
  <2>2. NothingSaved \in [file : [Paths -> Values], effective : [Paths -> Values],
                          inUse : [Paths -> Values \cup {Down}]]
    BY <2>1 DEF NothingSaved
  <2>3. edit \in [Callers -> Maps(Paths)] /\ Commanded
    BY EmptyMap DEF Commanded, Callers
  <2>4. ConfigurationTypeOK
    BY <2>1, <2>2, <2>3 DEF ConfigurationTypeOK
  <2>5. Locked
    BY DEF Locked, Working, Callers
  <2>6. Between
    BY DEF Between, Agree, Stored, Started
  <2> QED BY <2>3, <2>4, <2>5, <2>6 DEF UpdateInv, OnlyNamed, Written, BeingApplied, BeingUndone
<1>5. Replacing /\ InPlace
  <2>1. inUse[ChannelPath] # Off
    BY <1>1, ChannelFacts DEF ConfigurationInit, Started
  <2> QED BY <1>1, <2>1 DEF DeliveryInit, Replacing, InPlace
<1> QED BY <1>3, <1>4, <1>5 DEF IInv

LEMMA NextIInv ==
  ASSUME ConfigurationAssumption, DeliveryAssumption, SettingsAssumption, IInv, [Next]_vars
  PROVE  IInv'
<1>1. ASSUME ServiceStep, UNCHANGED delivery PROVE IInv'
  BY <1>1, OutputKeeps, UpdateKeeps, ServiceWaits DEF IInv
<1>2. ASSUME NEW p \in Paths \ {ChannelPath}, OwnerStep(p), UNCHANGED delivery PROVE IInv'
  BY <1>2, OutputKeeps, UpdateKeeps, OthersWait DEF IInv
<1>3. ASSUME DeliveryStep, UNCHANGED config PROVE IInv'
  BY <1>3, OutputKeeps, UpdateKeeps, ReplacementIsAsked DEF IInv
<1>4. ASSUME NEW b \in Browsers, BeginReconfigure(b) PROVE IInv'
  <2>1. PICK on \in BOOLEAN : on = (Target # Off)
    OBVIOUS
  <2>2. Begin(on) /\ UNCHANGED config
    BY <1>4, <2>1 DEF BeginReconfigure
  <2> QED BY <1>4, <2>2, OutputKeeps, UpdateKeeps, ReconfigureKeeps DEF IInv
<1>5. ASSUME NEW b \in Browsers, EndReconfigure(b) PROVE IInv'
  <2>1. End /\ OwnerStep(ChannelPath)
    BY <1>5 DEF EndReconfigure, OwnerStep
  <2> QED BY <1>5, <2>1, OutputKeeps, UpdateKeeps, ReconfigureKeeps, ChannelFacts DEF IInv
<1>6. CASE UNCHANGED vars
  <2>1. UNCHANGED config /\ UNCHANGED delivery
    BY <1>6 DEF vars
  <2>2. Replacing' /\ InPlace'
    BY <2>1 DEF IInv, Replacing, InPlace, Visited, config, delivery, manager
  <2> QED BY <2>1, <2>2, OutputKeeps, UpdateKeeps DEF IInv
<1> QED BY <1>1, <1>2, <1>3, <1>4, <1>5, <1>6 DEF Next

LEMMA AlwaysIInv == Spec => []IInv
<1>1. Init => IInv
  BY InitIInv, ConfigurationAssumption, DeliveryAssumption, SettingsAssumption
<1>2. IInv /\ [Next]_vars => IInv'
  BY NextIInv, ConfigurationAssumption, DeliveryAssumption, SettingsAssumption
<1> QED BY <1>1, <1>2, PTL DEF Spec

-----------------------------------------------------------------------------
(* The theorems.                                                            *)

\* One adapter of the channel runs at a time and none when stop_all() has returned, what is
\* reported of prompts is what the adapters answered, drain() returns True only when
\* everything is settled; and between updates file, process, owners and adapter agree but
\* for what was torn
\* (application/configuration.py, channels/manager.py, application/channel_dispatcher.py).
THEOREM SettingsAreCorrect == Spec => []SettingsInv
<1>1. IInv => SettingsInv
  <2> SUFFICES ASSUME IInv PROVE SettingsInv
    OBVIOUS
  <2>1. TypeOK
    BY DEF IInv, OutputInv, UpdateInv, TypeOK
  <2>2. OneAdapter /\ StoppedIsQuiet /\ ToldTheTruth /\ DrainedIsSettled
    BY DEF IInv, OutputInv, OthersHaveEnded, Quiet, Active, OneAdapter, StoppedIsQuiet
  <2>3. ASSUME holder = NoCaller PROVE Agree(file, effective, inUse, torn)
    BY <2>3 DEF IInv, UpdateInv, Between
  <2>4. StoredIsEffective
    BY <2>3 DEF StoredIsEffective, Agree
  <2>5. AdapterFollowsSettings
    <3> SUFFICES ASSUME holder = NoCaller, ChannelPath \notin torn
                 PROVE  registered # 0 <=> effective[ChannelPath] # Off
      BY DEF AdapterFollowsSettings
    <3>1. reconf = "none"
      BY ChannelFacts, ConfigurationAssumption, SettingsAssumption DEF IInv, Replacing
    <3>2. inUse[ChannelPath] = effective[ChannelPath] /\ effective[ChannelPath] # Down
      BY <2>3, ChannelFacts, ConfigurationAssumption, SettingsAssumption
         DEF Agree, IInv, UpdateInv, ConfigurationTypeOK
    <3> QED BY <3>1, <3>2 DEF IInv, InPlace
  <2> QED BY <2>1, <2>2, <2>4, <2>5 DEF SettingsInv
<1> QED BY <1>1, AlwaysIInv, PTL

\* Who changes the file.
LEMMA FileChanges ==
  ASSUME [Next]_vars, file' # file
  PROVE  \/ \E b \in Browsers : Write(b) \/ Restore(b)
         \/ \E k \in Commands : CommandWrite(k)
BY DEF Next, vars, config, ServiceStep, OwnerStep, BeginReconfigure, EndReconfigure, Conflict, WriteFails,
       Applied, RestoreFails, Reapplied, Ask, Lock, Cancel, Apply, ApplyFails, Reapply, ReapplyFails

\* A browser is told of an error, or of a conflict.
Refused(b) ==
  \/ Conflict(b) \/ RestoreFails(b) \/ Reapplied(b)
  \/ Write(b) /\ Answer(b, "error") /\ torn' = torn \cup DOMAIN edit[b]
  \/ \E p \in Paths : ReapplyFails(b, p)

\* Who is refused.
LEMMA Refusals ==
  ASSUME UpdateInv, [Next]_vars, NEW c \in Callers, pc'[c] # pc[c], pc'[c] \in {"conflict", "error"}
  PROVE  /\ holder = c
         /\ WriteFails(c) \/ (c \in Browsers /\ Refused(c))
<1> USE DEF UpdateInv, ConfigurationTypeOK
<1>1. ASSUME NEW d \in Callers, NEW w, pc' = [pc EXCEPT ![d] = w] PROVE c = d /\ w \in {"conflict", "error"}
  BY <1>1
<1>2. CASE UNCHANGED pc
  BY <1>2
<1>3. ASSUME NEW d \in Callers, Cancel(d) \/ Lock(d) \/ \E e \in Edits \cup CommandEdits : Ask(d, e) PROVE FALSE
  BY <1>1, <1>3 DEF Cancel, Lock, Ask
<1>4. ASSUME NEW k \in Commands, CommandWrite(k) PROVE FALSE
  BY <1>1, <1>4 DEF CommandWrite, Answer, Callers
<1>5. ASSUME NEW d \in Callers, WriteFails(d) PROVE c = d
  BY <1>1, <1>5 DEF WriteFails, Answer
<1>6. ASSUME NEW d \in Browsers, Conflict(d) \/ RestoreFails(d) \/ Reapplied(d) PROVE c = d
  BY <1>1, <1>6 DEF Conflict, RestoreFails, Reapplied, Answer, Callers
<1>7. ASSUME NEW d \in Browsers, Applied(d) \/ Restore(d) PROVE FALSE
  BY <1>1, <1>7 DEF Applied, Restore, Answer, Callers
<1>8. ASSUME NEW d \in Browsers, Write(d)
      PROVE  c = d /\ Answer(c, "error") /\ torn' = torn \cup DOMAIN edit[c]
  BY <1>1, <1>8 DEF Write, Answer, Callers
<1>9. ASSUME NEW d \in Browsers, NEW p \in Paths, ReapplyFails(d, p) PROVE c = d
  BY <1>1, <1>9 DEF ReapplyFails, Answer, Callers
<1>10. ASSUME NEW d \in Browsers, NEW p \in Paths, Apply(d, p) \/ ApplyFails(d, p) \/ Reapply(d, p) PROVE FALSE
  BY <1>1, <1>10 DEF Apply, ApplyFails, Reapply, Callers
<1> HIDE DEF UpdateInv, ConfigurationTypeOK
<1>11. WriteFails(c) \/ (c \in Browsers /\ Refused(c))
  <2>1. CASE ServiceStep
    BY <1>3, <1>4, <1>5, <1>6, <1>7, <1>8, <2>1 DEF ServiceStep, Refused
  <2>2. ASSUME NEW p \in Paths, OwnerStep(p) PROVE c \in Browsers /\ Refused(c)
    BY <1>9, <1>10, <2>2 DEF OwnerStep, Refused
  <2>3. ASSUME NEW b \in Browsers, EndReconfigure(b) PROVE OwnerStep(ChannelPath)
    BY <2>3 DEF EndReconfigure, OwnerStep
  <2>4. ChannelPath \in Paths
    BY ChannelFacts, ConfigurationAssumption, SettingsAssumption
  <2> QED BY <1>2, <2>1, <2>2, <2>3, <2>4 DEF Next, vars, config, BeginReconfigure
<1> QED BY <1>11 DEF WriteFails, Refused, Conflict, Write, RestoreFails, Reapplied, ReapplyFails

\* A setting changes in the file only for a caller that names it; what gets there was
\* asked for by somebody who had seen what it replaces; and whoever is told of an error
\* or a conflict finds everything as it was, but for what was torn
\* (application/configuration.py:312-316, 401-459, 476-481).
THEOREM UpdatesAreWhole == Spec => UpdatesAreIsolated
<1>1. ASSUME IInv, [Next]_vars, NEW p \in Paths, file'[p] # file[p]
      PROVE  holder # NoCaller /\ p \in DOMAIN edit[holder]
  <2>1. holder # NoCaller
    BY <1>1, FileChanges, ConfigurationAssumption
       DEF Write, Restore, CommandWrite, ConfigurationAssumption, Callers
  <2>2. CASE \E b \in Browsers : Restore(b)
    BY <1>1, <2>1, <2>2 DEF Restore, IInv, UpdateInv, OnlyNamed
  <2>3. ASSUME NEW c \in Callers, Write(c) \/ CommandWrite(c) PROVE p \in DOMAIN edit[holder]
    <3>1. file' = Merged(edit[c], file) /\ holder = c
      BY <2>3 DEF Write, CommandWrite
    <3> QED BY <1>1, <3>1 DEF Merged
  <2> QED BY <1>1, <2>1, <2>2, <2>3, FileChanges DEF Callers
<1>2. ASSUME IInv, [Next]_vars, NEW b \in Browsers, pc[b] = "writing", file' # file, holder = b
      PROVE  file = base[b]
  BY <1>2, FileChanges, ConfigurationAssumption
     DEF Write, Restore, CommandWrite, ConfigurationAssumption
<1>3. ASSUME IInv, [Next]_vars, NEW c \in Callers, pc'[c] # pc[c], pc'[c] \in {"conflict", "error"},
             NEW p \in Paths \ torn'
      PROVE  /\ file'[p] = saved.file[p]
             /\ effective'[p] = saved.effective[p]
             /\ inUse'[p] \in {saved.inUse[p], saved.effective[p]}
  <2> USE DEF IInv, UpdateInv, ConfigurationTypeOK
  <2>1. holder = c /\ c # NoCaller
    BY <1>3, Refusals, ConfigurationAssumption DEF ConfigurationAssumption
  <2>2. /\ p \notin DOMAIN edit[c] => file[p] = saved.file[p]
        /\ p \notin Named => effective[p] = saved.effective[p] /\ inUse[p] = saved.inUse[p]
    BY <1>3, <2>1 DEF OnlyNamed
  <2>3. CASE WriteFails(c) \/ Conflict(c)
    BY <1>3, <2>1, <2>3 DEF WriteFails, Conflict, Written
  <2>4. CASE Write(c) /\ torn' = torn \cup DOMAIN edit[c] /\ Answer(c, "error")
    <3>1. p \notin DOMAIN edit[c] /\ p \notin Named
      BY <2>1, <2>4 DEF Named
    <3>2. file'[p] = file[p] /\ inUse' = inUse
      BY <2>4, <3>1 DEF Write, Merged
    <3>3. effective'[p] = effective[p]
      BY <2>4, <3>1 DEF Write, Live
    <3> QED BY <2>2, <3>1, <3>2, <3>3
  <2>5. CASE RestoreFails(c)
    BY <2>1, <2>2, <2>5 DEF RestoreFails, Named
  <2>6. ASSUME Reapplied(c) \/ \E q \in Paths : ReapplyFails(c, q) 
        PROVE  /\ file'[p] = saved.file[p]
               /\ effective'[p] = saved.effective[p]
               /\ inUse'[p] \in {saved.inUse[p], saved.effective[p]}
    <3>1. /\ file = saved.file /\ effective = saved.effective
          /\ \A q \in Named \ todo : inUse[q] = effective[q]
          /\ UNCHANGED <<file, effective>>
      BY <1>3, <2>1, <2>6 DEF Reapplied, ReapplyFails, BeingUndone
    <3>2. p \notin todo /\ inUse'[p] = inUse[p]
      <4>1. p \notin todo
        BY <1>3, <2>6 DEF Reapplied, ReapplyFails
      <4>2. \/ inUse' = inUse
            \/ \E q \in todo : inUse' = [inUse EXCEPT ![q] = Down]
        BY <2>6 DEF Reapplied, ReapplyFails, Visited
      <4> QED BY <1>3, <4>1, <4>2
    <3> QED BY <2>2, <3>1, <3>2
  <2> QED BY <1>3, <2>3, <2>4, <2>5, <2>6, Refusals DEF Refused
<1>4. IInv /\ [Next]_vars =>
        [\A p \in Paths : file'[p] # file[p] => holder # NoCaller /\ p \in DOMAIN edit[holder]]_vars
  BY <1>1
<1>5. IInv /\ [Next]_vars =>
        [\A b \in Browsers : pc[b] = "writing" /\ file' # file /\ holder = b => file = base[b]]_vars
  BY <1>2
<1>6. IInv /\ [Next]_vars =>
        [\A c \in Callers : pc'[c] # pc[c] /\ pc'[c] \in {"conflict", "error"} =>
           \A p \in Paths \ torn' :
             /\ file'[p] = saved.file[p]
             /\ effective'[p] = saved.effective[p]
             /\ inUse'[p] \in {saved.inUse[p], saved.effective[p]}]_vars
  BY <1>3
<1> QED BY <1>4, <1>5, <1>6, AlwaysIInv, PTL
        DEF Spec, UpdatesAreIsolated, OnlyNamedPathsChange, ConflictIsSeen, RefusedChangesNothing

\* An attempt to send begins only for a message somebody wants, through an adapter that
\* runs (application/channel_dispatcher.py:168-206).
THEOREM SendsAreFresh == Spec => NoStaleSend
<1>1. ASSUME [Next]_vars, sending', ~(sending /\ UNCHANGED flight)
      PROVE  Wanted(current') /\ adapter[channel'] = "running"
  <2>1. ASSUME NEW m, NEW a, NEW n, NEW q, Attempt(m, a, n, q) \/ (Report(m, "failed") /\ Done(q))
        PROVE  current' = m /\ channel' = a /\ Wanted(m) /\ adapter[a] = "running"
    BY <1>1, <2>1 DEF Attempt, Done
  <2>2. ~(sending' = FALSE)
    BY <1>1
  <2>3. ~UNCHANGED flight
    <3>1. UNCHANGED flight => sending' = sending
      BY DEF flight
    <3> QED BY <1>1, <3>1, Zenon
  <2>4. TakeOutput \/ Retry
    <3>1. DeliveryStep
      BY <1>1, <2>3 DEF Next, vars, delivery, BeginReconfigure, EndReconfigure, Begin, End
    <3>2. ~(SendReturns \/ SendRaises)
      BY <2>2, <2>3 DEF SendReturns, SendRaises, Done
    <3>3. CASE StopStep
      BY <2>2, <2>3, <3>3 DEF StopStep, DrainLooks, StopDispatcher, StopAdapter, LoopEnds, LoopRaises
    <3>4. CASE StopRaises \/ Replace \/ Replaced \/ StopAll \/ DrainTimesOut
      BY <2>3, <3>4 DEF StopRaises, Replace, Replaced, StopAll, DrainTimesOut
    <3> QED BY <2>3, <3>1, <3>2, <3>3, <3>4
            DEF DeliveryStep, DispatcherStep, PublishOutput, WaiterLeaves, AdapterRuns, AdapterEnds
  <2>5. PICK m, a, n, q : Attempt(m, a, n, q) \/ (Report(m, "failed") /\ Done(q))
    BY <2>4 DEF TakeOutput, Retry
  <2> QED BY <2>1, <2>5
<1>2. [Next]_vars => [sending' /\ ~(sending /\ UNCHANGED flight) =>
                        Wanted(current') /\ adapter[channel'] = "running"]_delivery
  BY <1>1
<1> QED BY <1>2, PTL DEF Spec, NoStaleSend

=============================================================================
