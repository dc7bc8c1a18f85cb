-------------------------- MODULE ChannelDelivery --------------------------
(***************************************************************************)
(* Output on its way to one channel: the OutboundDispatcher                  *)
(* (application/channel_dispatcher.py), the ChannelManager that starts,       *)
(* replaces and stops the adapter (channels/manager.py) and the              *)
(* DeliveryTracker that waits for the fate of prompts                        *)
(* (application/intervention.py).  The bus appears as the order in which it   *)
(* hands out messages; what happens inside it is in MessageBus.               *)
(*                                                                         *)
(* An adapter runs when its is_running flag is set: stop() of every adapter    *)
(* clears it first, whatever it raises then, and one that crashes may keep it. *)
(* Objects are numbered; the number of one that has stopped and that nobody    *)
(* holds is used again.                                                       *)
(***************************************************************************)
EXTENDS Integers, Sequences

CONSTANTS
  Output,      \* messages to the channel
  Prompts,     \* those with a request_id whose delivery is waited for
  Attempts,    \* DeliveryPolicy.max_attempts
  MaxAdapters, \* bound: adapter objects that are held or have not ended, at one time
  NoMessage

DeliveryAssumption ==
  /\ Prompts \subseteq Output
  /\ NoMessage \notin Output
  /\ Attempts \in Nat \ {0}
  /\ MaxAdapters \in Nat \ {0}
ASSUME DeliveryAssumption

Adapters == 1..MaxAdapters

VARIABLES
  queue,       \* the outbound lanes
  unsent,      \* messages nobody has published
  current,     \* the message in flight, or NoMessage
  attempt,     \* attempts that have begun for it
  channel,     \* the adapter object _send_with_retry() holds
  sending,     \* a send is in progress; otherwise the retry sleeps
  waiter,      \* the tracker's future of each prompt
  accepted,    \* history: prompts of which a send has returned
  adapter,     \* state of each adapter object: "starting" until it runs, "stopping" while
               \* stop() or start() goes on, "broken" while start() does after stop() raised
  registered,  \* channels[name], or 0
  reconf,      \* reconfigure(): where it is, or how it ended
  enabled,     \* whether its settings enable the channel
  stopping,    \* stop_all(): "no", "draining", "dispatcher", "adapter" (its loop has not
               \* come to the channel), "others" (it has), "done", "raised"
  resized,     \* the channel came or went during that loop
  idle,        \* _idle
  drained,     \* what drain() returned
  due          \* history: messages nobody publishes after drain() ended

flight  == <<current, attempt, channel, sending>>
manager == <<adapter, registered, reconf, enabled>>
ending  == <<stopping, resized, idle, drained, due>>
delivery == <<queue, unsent, flight, waiter, accepted, manager, ending>>

DeliveryTypeOK ==
  /\ queue \in Seq(Output)
  /\ unsent \in SUBSET Output
  /\ current \in Output \cup {NoMessage}
  /\ attempt \in 0..Attempts
  /\ channel \in {0} \cup Adapters
  /\ sending \in BOOLEAN
  /\ waiter \in [Prompts -> {"none", "pending", "delivered", "failed", "gone"}]
  /\ accepted \in SUBSET Prompts
  /\ adapter \in [Adapters -> {"starting", "running", "stopping", "broken", "stopped"}]
  /\ registered \in {0} \cup Adapters
  /\ reconf \in {"none", "stopping", "starting", "refused", "failed", "ok"}
  /\ enabled \in BOOLEAN
  /\ stopping \in {"no", "draining", "dispatcher", "adapter", "others", "done", "raised"}
  /\ resized \in BOOLEAN
  /\ idle \in BOOLEAN
  /\ drained \in BOOLEAN
  /\ due \in SUBSET Output

\* start_all() has started the first adapter.
DeliveryInit(output) ==
  /\ queue = <<>> /\ unsent = output
  /\ current = NoMessage /\ attempt = 0 /\ channel = 0 /\ sending = FALSE
  /\ waiter = [m \in Prompts |-> "none"]
  /\ accepted = {}
  /\ adapter = [a \in Adapters |-> IF a = 1 THEN "starting" ELSE "stopped"]
  /\ registered = 1
  /\ reconf = "none" /\ enabled = TRUE
  /\ stopping = "no" /\ resized = FALSE /\ idle = TRUE /\ drained = FALSE /\ due = {}

Dispatching == stopping \in {"no", "draining", "dispatcher"}
Stopped == stopping \in {"done", "raised"}
Looping == stopping \in {"adapter", "others"}

-----------------------------------------------------------------------------
(* The tracker. *)

\* A prompt is registered and published; so is any other message.
PublishOutput(m) ==
  /\ m \in unsent /\ ~Stopped
  /\ unsent' = unsent \ {m}
  /\ queue' = Append(queue, m)
  /\ waiter' = IF m \in Prompts THEN [waiter EXCEPT ![m] = "pending"] ELSE waiter
  /\ UNCHANGED <<flight, accepted, manager, ending>>

\* The wait for a prompt times out or is cancelled: the future is forgotten.
WaiterLeaves(m) ==
  /\ waiter[m] = "pending"
  /\ waiter' = [waiter EXCEPT ![m] = "gone"]
  /\ UNCHANGED <<queue, unsent, flight, accepted, manager, ending>>

Report(m, result) ==
  waiter' = IF m \in Prompts /\ waiter[m] = "pending"
            THEN [waiter EXCEPT ![m] = result] ELSE waiter

Wanted(m) == m \in Prompts => waiter[m] = "pending"

-----------------------------------------------------------------------------
(* run() and _dispatch_one(). *)

\* The message is done with.

Done(q) ==
  /\ current' = NoMessage /\ attempt' = 0 /\ channel' = 0 /\ sending' = FALSE
  /\ idle' = (q = <<>>)
  /\ UNCHANGED <<stopping, resized, drained, due>>

BadAttempt(m, a, n, q) ==      \* the guard is asked only for the first attempt
  IF (n = 1 => Wanted(m)) /\ adapter[a] = "running"
  THEN /\ current' = m /\ attempt' = n /\ channel' = a /\ sending' = TRUE
       /\ idle' = FALSE
       /\ UNCHANGED <<waiter, stopping, resized, drained, due>>
  ELSE Report(m, "failed") /\ Done(q)

\* An attempt of _send_with_retry(): a prompt nobody waits for is not sent, nor
\* anything through an adapter that does not run.
Attempt(m, a, n, q) ==
  IF Wanted(m) /\ adapter[a] = "running"
  THEN /\ current' = m /\ attempt' = n /\ channel' = a /\ sending' = TRUE
       /\ idle' = FALSE
       /\ UNCHANGED <<waiter, stopping, resized, drained, due>>
  ELSE Report(m, "failed") /\ Done(q)

\* The next message: nothing comes between its removal and the first attempt.
\* One without text is dropped and reported, like one for no adapter.
TakeOutput ==
  /\ Dispatching /\ current = NoMessage /\ queue # <<>>
  /\ queue' = Tail(queue)
  /\ \/ registered # 0 /\ Attempt(Head(queue), registered, 1, Tail(queue))
     \/ Report(Head(queue), "failed") /\ Done(Tail(queue))
  /\ UNCHANGED <<unsent, accepted, manager>>

BadSendReturns ==             \* the fate of a prompt is not reported
  /\ sending
  /\ accepted' = accepted \cup ({current} \cap Prompts)
  /\ Done(queue)
  /\ UNCHANGED <<queue, unsent, waiter, manager>>

\* The send returns and is reported as delivered.  The adapters of Telegram, Slack
\* and Discord return too when they have logged that they could not send.
SendReturns ==
  /\ sending
  /\ accepted' = accepted \cup ({current} \cap Prompts)
  /\ Report(current, "delivered")
  /\ Done(queue)
  /\ UNCHANGED <<queue, unsent, manager>>

BadSendRaises ==              \* the last attempt counts as a delivery
  /\ sending
  /\ IF attempt = Attempts
     THEN Report(current, "delivered") /\ Done(queue)
     ELSE /\ sending' = FALSE
          /\ UNCHANGED <<current, attempt, channel, waiter, ending>>
  /\ UNCHANGED <<queue, unsent, accepted, manager>>

\* The send raises, or its result says that nothing was delivered: after the
\* last attempt for good.
SendRaises ==
  /\ sending
  /\ IF attempt = Attempts
     THEN Report(current, "failed") /\ Done(queue)
     ELSE /\ sending' = FALSE
          /\ UNCHANGED <<current, attempt, channel, waiter, ending>>
  /\ UNCHANGED <<queue, unsent, accepted, manager>>

\* The pause between two attempts ends.
Retry ==
  /\ current # NoMessage /\ ~sending
  /\ Attempt(current, channel, attempt + 1, queue)
  /\ UNCHANGED <<queue, unsent, accepted, manager>>

-----------------------------------------------------------------------------
(* The manager: one adapter is replaced by another. *)

Unused == {a \in Adapters \ {registered, channel} : adapter[a] = "stopped"}
Fresh == CHOOSE a \in Unused : TRUE
Active(a) == adapter[a] \in {"starting", "running"}

\* The registered adapter is asked to stop.
Asked(state) == [a \in Adapters |-> IF a = registered /\ Active(a) THEN state ELSE adapter[a]]

\* start() of an adapter succeeds, or ends: by itself, or after stop().
AdapterRuns(a) ==
  /\ adapter[a] = "starting"
  /\ adapter' = [adapter EXCEPT ![a] = "running"]
  /\ UNCHANGED <<queue, unsent, flight, waiter, accepted, registered, reconf, enabled, ending>>

AdapterEnds(a) ==
  /\ adapter[a] # "stopped"
  /\ adapter' = [adapter EXCEPT ![a] = "stopped"]
  /\ UNCHANGED <<queue, unsent, flight, waiter, accepted, registered, reconf, enabled, ending>>

\* reconfigure() has made the replacement, which may be refused, and stops the
\* previous adapter.
Begin(on) ==
  /\ reconf = "none"
  /\ enabled' = on
  /\ \/ on /\ reconf' = "refused" /\ UNCHANGED adapter
     \/ reconf' = "stopping" /\ adapter' = Asked("stopping")
  /\ UNCHANGED <<queue, unsent, flight, waiter, accepted, registered, ending>>

\* The caller has seen how it ended.
End ==
  /\ reconf \in {"ok", "refused", "failed"}
  /\ reconf' = "none"
  /\ UNCHANGED <<queue, unsent, flight, waiter, accepted, adapter, registered, enabled, ending>>

\* stop() of the previous adapter raises: the adapter stays in the manager, which
\* has forgotten its task.  (Bound: one such adapter at a time.)
StopRaises ==
  /\ reconf = "stopping" /\ registered # 0
  /\ \A a \in Adapters : adapter[a] = "broken" => a = registered
  /\ reconf' = "failed"
  /\ adapter' = [a \in Adapters |->
                   IF a = registered /\ adapter[a] = "stopping" THEN "broken" ELSE adapter[a]]
  /\ UNCHANGED <<queue, unsent, flight, waiter, accepted, registered, enabled, ending>>

\* What is left of the previous adapter when it is replaced: its task has ended,
\* unless the manager has forgotten it.
Left ==
  IF registered # 0 /\ (stopping = "done" \/ adapter[registered] = "broken")
  THEN {"stopped", adapter[registered]} ELSE {"stopped"}

\* The previous adapter has stopped; the replacement is started, unless the manager
\* stops.
Replace ==
  /\ reconf = "stopping" /\ Unused # {}
  /\ \E left \in Left :
       LET old == [a \in Adapters |-> IF a = registered THEN left ELSE adapter[a]]
       IN IF ~enabled
          THEN registered' = 0 /\ adapter' = old /\ reconf' = "ok"
          ELSE /\ registered' = Fresh
               /\ IF stopping = "no"
                  THEN adapter' = [old EXCEPT ![Fresh] = "starting"] /\ reconf' = "starting"
                  ELSE adapter' = old /\ reconf' = "ok"
  /\ resized' = (resized \/ (Looping /\ (registered = 0) # (registered' = 0)))
  /\ UNCHANGED <<queue, unsent, flight, waiter, accepted, enabled, stopping, idle, drained, due>>

\* The replacement runs; or it has ended, or its time is over.
Replaced ==
  /\ reconf = "starting"
  /\ \/ adapter[registered] = "running" /\ reconf' = "ok"
     \/ adapter[registered] # "running" /\ reconf' = "failed"
  /\ UNCHANGED <<queue, unsent, flight, waiter, accepted, adapter, registered, enabled, ending>>

-----------------------------------------------------------------------------
(* stop_all(). *)

\* drain(): nothing is left, or it waits.
StopAll ==
  /\ stopping = "no"
  /\ stopping' = IF queue = <<>> /\ current = NoMessage THEN "dispatcher" ELSE "draining"
  /\ idle' = (queue = <<>> /\ current = NoMessage)
  /\ drained' = (queue = <<>> /\ current = NoMessage)
  /\ due' = Output \ unsent
  /\ UNCHANGED <<queue, unsent, flight, waiter, accepted, manager, resized>>

\* The event wakes drain(), which looks again.
DrainLooks ==
  /\ stopping = "draining" /\ idle
  /\ IF queue = <<>> /\ current = NoMessage
     THEN stopping' = "dispatcher" /\ drained' = TRUE /\ due' = Output \ unsent /\ UNCHANGED idle
     ELSE idle' = FALSE /\ UNCHANGED <<stopping, resized, drained, due>>
  /\ UNCHANGED <<queue, unsent, flight, waiter, accepted, manager, resized>>

DrainTimesOut ==
  /\ stopping = "draining"
  /\ stopping' = "dispatcher"
  /\ UNCHANGED <<queue, unsent, flight, waiter, accepted, manager, resized, idle, drained, due>>

\* The dispatcher is cancelled, wherever it is.
StopDispatcher ==
  /\ stopping = "dispatcher"
  /\ stopping' = "adapter"
  /\ current' = NoMessage /\ attempt' = 0 /\ channel' = 0 /\ sending' = FALSE
  /\ UNCHANGED <<queue, unsent, waiter, accepted, manager, resized, idle, drained, due>>

\* The loop over the channels comes to this one.  What its stop() raises is logged.
\* Its task is not waited for: start_all() has ended meanwhile and forgotten it.
StopAdapter ==
  /\ stopping = "adapter" /\ ~resized
  /\ stopping' = "others"
  /\ \E state \in {"stopping", "broken"} : adapter' = Asked(state)
  /\ UNCHANGED <<queue, unsent, flight, waiter, accepted, registered, reconf, enabled, resized, idle, drained, due>>

LoopEnds ==
  /\ stopping = "others" /\ ~resized
  /\ stopping' = "done"
  /\ UNCHANGED <<queue, unsent, flight, waiter, accepted, manager, resized, idle, drained, due>>

\* reconfigure() has added or removed this channel or another one: the loop raises,
\* and stop_all() with it.
LoopRaises ==
  /\ Looping
  /\ stopping' = "raised"
  /\ UNCHANGED <<queue, unsent, flight, waiter, accepted, manager, resized, idle, drained, due>>

-----------------------------------------------------------------------------
\* What goes on by itself: the dispatcher and its sends, and stop_all() with a
\* drain that is woken.  No limit needs to run out.
DispatcherStep == TakeOutput \/ SendReturns \/ SendRaises \/ Retry
StopStep == DrainLooks \/ StopDispatcher \/ StopAdapter \/ LoopEnds \/ LoopRaises

\* All steps but the calls of reconfigure() and their ends.
DeliveryStep ==
  \/ \E m \in Output : PublishOutput(m)
  \/ \E m \in Prompts : WaiterLeaves(m)
  \/ \E a \in Adapters : AdapterRuns(a) \/ AdapterEnds(a)
  \/ DispatcherStep \/ StopRaises \/ Replace \/ Replaced
  \/ StopAll \/ DrainTimesOut \/ StopStep

-----------------------------------------------------------------------------
(* Properties. *)

\* One adapter of a channel runs or starts at a time, and every other has ended
\* with its task, but for one whose stop() raised: also when one that exceeded its
\* start-up limit is replaced by the roll-back (channels/manager.py:320-342).
OneAdapter ==
  \A a \in Adapters : Active(a) =>
    \A b \in Adapters \ {a} : adapter[b] \in {"stopped", "broken"}

\* When stop_all() has returned no adapter is running or will be, whatever stop()
\* raised and although a replacement may be under way (channels/manager.py:209-239,
\* 332); nothing is said of a stop_all() that raised.
StoppedIsQuiet ==
  stopping = "done" => \A a \in Adapters : ~Active(a)

\* No attempt begins for a prompt whose waiter has gone, or through an adapter
\* that does not run (channel_dispatcher.py:168-206).
NoStaleSend ==
  [][sending' /\ ~(sending /\ UNCHANGED flight) =>
       Wanted(current') /\ adapter[channel'] = "running"]_delivery

\* The waiter of a prompt is told what the adapters answered, whatever failed, was
\* retried, replaced or stopped: "delivered" if a send of it returned, and "failed"
\* only if none did (channel_dispatcher.py:187-230).  It is not told whether a person
\* has seen the prompt: that the adapters do not say.
ToldTheTruth ==
  \A m \in Prompts :
    /\ waiter[m] = "delivered" => m \in accepted
    /\ waiter[m] \in {"pending", "failed"} => m \notin accepted

\* When drain() returns True, nothing published before is left or in flight
\* (channel_dispatcher.py:88-105).
DrainedIsSettled ==
  drained => current \notin due /\ \A i \in DOMAIN queue : queue[i] \notin due

\* While the manager does not stop, the tracker is told about every prompt,
\* whatever becomes of the adapter.
PromptIsTold ==
  \A m \in Prompts : []<>(waiter[m] # "pending" \/ stopping # "no")

\* stop_all() ends although its limit does not run out: no wake-up of drain()
\* is lost (channel_dispatcher.py:121-132).
StopAllEnds == []<>(stopping = "no" \/ Stopped)
=============================================================================
