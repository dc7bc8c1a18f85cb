# Formal models of nanocat

nanocat is a single-process personal agent runtime: channels (a browser UI and
chat services) put messages on an in-process bus, an agent loop turns each into
a *turn* of a conversation (model calls and tool calls), and sessions, memory,
scheduled jobs and configuration live in files. Nearly everything runs as tasks
of one asyncio event loop, so the hard part is not data races but *awaits*:
state read before one and used after it, cancellation that arrives at one,
work of another task in the middle of one, and process exits between two
writes.

This directory holds TLA+ modules for the parts whose correctness rests on such
orders of events, TLC configurations that explore them on small instances, and
TLAPS proofs of the invariants that matter most. Paths such as
`application/turns.py` are relative to `src/nanocat/`.

## 1. Inventory

### 1.1 Parts of the system

| Part | State | Operations that change it | Used by |
|---|---|---|---|
| Turn coordinator (`application/turns.py`) | record of every turn, queued joins, outcome held back, finalizers, retention queue | register, start, waiting/resumed, begin/finalize cancel, complete/cancel/fail, reserve/release/activate join | agent loop, Web channel, HTTP API, tool executor |
| Message bus (`bus/queue.py`) | four bounded priority lanes, per-session pending counters, notify and close events | publish, consume, drain, close | channels, loop, command and channel dispatchers |
| Agent loop (`agent/loop.py`) | active tasks, admission slots, steer buffers, hand-offs, deferred intake, session operations, stop journal | intake, dispatch, run a turn, steer, cancel a turn, stop a session, session operations, shutdown | everything |
| Session store (`session/manager.py`) | metadata index, JSONL files, tombstones, weak cache, deleted keys | create, save, switch, delete, delete-and-replace, recovery | loop, memory, control service |
| Memory and threads (`agent/memory.py`) | compaction state and thread cursors inside a session | compaction, append/distil to the Nowledge service | loop's background jobs |
| Intervention broker (`application/intervention.py`) | pending requests, turn grants, session grants, deferred messages, delivery backlog | suspend, resolve, revoke, cancel, defer, deliver, extract, close | tool executor, loop, commands |
| Tool executor (`application/tool_executor.py`) | approval batches, grants in use | preflight, execute | loop |
| Command dispatch (`application/command_*.py`) | one consumer task | run a command, possibly under an idle-session lease | bus |
| Web channel (`channels/web.py`), channel manager, dispatcher, adapters | submissions under way, adapters, send retries | submit, feed, send with retry, replace an adapter | bus, loop |
| SSE stream (`api/events.py`) | subscribers, event buffer | publish, replay, close | browser |
| Artifact registry (`api/artifacts.py`) | entries, pending deletes, pins, publications, manifest, files | upload with publish, acknowledge, withdraw; register, lease, evict, close, start | HTTP API, Web channel |
| Session routes (`api/app.py`, `application/control.py`) | idempotency cache, routing guards, reserved sessions | submit with a key, delete, compact, run a command; every send of the Web channel | browser, channel dispatcher |
| HTTP API (`api/server.py`, `api/auth.py`) | login sessions | other requests over the control service | browser |
| Configuration (`application/configuration.py`) | file, revision, runtime values | compare-and-swap update with roll-back | control service |
| Cron (`cron/service.py`), heartbeat | jobs and their next due time, timer, running jobs | add/remove/enable/run, timer, close | loop, tools |
| Runtime lifecycle (`runtime/`) | started components, detached closes, instance lock | start, stop in reverse order, restart | launcher |
| Subagents, tools, providers, prompts, security policy, runtime files, frontend | | I/O, text and pure classification | loop |

`PROJECT.json` lists every part with its sources and whether it is modelled.

### 1.2 How they interact

A channel publishes an `InboundMessage`; the bus routes commands to a lane of
their own. The loop's intake takes an admission slot, reads a message and
starts a dispatch task per conversation. A message of a conversation that
already runs a turn *steers* it: a browser steer first reserves a join at the
turn coordinator, so that the turn it was typed into cannot end before the
steer arrives. The turn's task calls the model and the tool executor; a tool
call that needs approval suspends in the intervention broker, which publishes a
prompt and holds back ordinary messages of that conversation until the user has
decided. At the end the session is saved and background jobs (compaction,
thread synchronisation) start on the same `Session` object; a turn that cannot
be saved is kept in memory, retried, and written to a recovery file when the
process ends. Replies go back over the two output lanes to the channel
dispatcher, which sends them through the adapter the channel manager has
registered and keeps it while the manager replaces it; everything the browser
has to see also goes as an event to the SSE broker. The cron service starts
turns of its own. The runtime supervisor starts all of these and closes them in
reverse order.

### 1.3 What is hard, and what makes each part correct

- **Turns.** Four tasks move one record: the turn's own task, the canceller,
  the Web channel and the tool executor's `finally`. Correct: an outcome never
  changes, cancellation is not overtaken by a late completion, a turn a steer
  was admitted to stays open until the steer is gone, nothing is left pending on
  an ended turn.
- **Steering.** A message passes through the Web channel, the bus, the intake,
  a task's steer buffer, possibly back to the bus, and a history, and the turn
  it was meant for may end, be cancelled or fail at each of these places.
  Correct: it is recorded once, in the turn it was meant for, and a turn always
  ends.
- **Bus.** A publisher or a consumer may be cancelled while its put or get task
  is already done. Correct: lanes stay bounded, an urgent message only displaces
  a less urgent one, what a publisher was told was refused is never delivered,
  counters are exact, no wake-up is lost, closing releases everybody.
- **Sessions on disk.** Every operation is several atomic writes and each may
  fail or be the last before a process exit. Correct: acknowledged turns survive,
  a reported deletion is final, index and files agree between operations.
- **Turns that could not be saved.** They live in two dictionaries, in recovery
  files and in the session, and retries, `/stop`, cancellation, shutdown and the
  next start all move them. Correct: each turn is recorded once, in order, and
  an exit at any place loses none.
- **Sessions in memory.** The cache is weak and is emptied by a switch, so
  several objects of one session exist and are written by turns, compactions
  and synchronisations after long awaits. Correct: the revision check protects
  every stored turn.
- **Approvals.** Answer, timeout, cancellation, revocation and close race for
  one future, while a batch waits for several answers and a reviewer, and
  messages are held back. Correct: one decision per request, no grant to a turn
  that is over, no call runs on a permission that was revoked before its batch
  was decided, no request open for ever; every message held back is handed over
  once, in order.
- **Cron.** A timer, a batch of due jobs, runs by hand, edits of the file and a
  close. Correct: a due date is used once, no job that is due is forgotten, the
  file follows the memory unless a save raises.
- **Output.** Retries, a replacement of the adapter and the stop of all channels
  meet in one dispatcher. Correct: one adapter per account runs, nothing is sent
  to a channel after its stop or for a request that is settled, a drain ends
  when and only when there is nothing left.
- **Settings.** File, effective values and owners change one after the other
  with a roll-back, and any caller may be cancelled in between. Correct: they
  agree whenever nobody holds the lock, updates do not overwrite each other.
- **Event stream.** Bounded history, bounded queue, reconnection, and a recovery
  over REST that takes time. Correct: each event once and in order, or a reset
  that announces the gap, and the tab catches up.
- **Artifacts.** Disk work runs in threads that outlive the request that started
  them; a publication evicts others, may be withdrawn and may meet an exit.
  Correct: the quota holds, whoever ends a publication ends it once, what is
  listed is on disk, an upload answered with 201 stays and one that was not
  leaves nothing.
- **Session routes.** Requests to one session, turns of its chat and the sends of
  its replies meet at one lock per route and at the loop's reservations. Correct:
  an operation has the session to itself, what is deleted is what the client saw,
  a repeated submission makes one turn, everybody gets the lock.
- **Shutdown.** Closes with time limits that go on after their limit. Correct: a
  component is closed after those that use it, nothing starts during the stop,
  a restart only after a clean stop.

## 2. Modules

| Module | Models | Kind |
|---|---|---|
| `TurnLifecycle` | what the coordinator promises | abstract specification |
| `TurnCoordinator` | `application/turns.py` | component, refines `TurnLifecycle` |
| `TurnSteering` | browser messages in `channels/web.py` and `agent/loop.py` | composition with `TurnCoordinator` |
| `MessageBus` | `bus/queue.py` | component |
| `LoopServicesProofs` | | theorems about `MessageBus` and `SessionWriters` |
| `SessionStore` | `session/manager.py`: steps, failures, recovery | component |
| `TurnsAndStoreProofs` | | theorems about the two |
| `SessionWriters` | saves of `session/manager.py` seen by the turns of `agent/loop.py` and the jobs of `agent/memory.py` | composition |
| `TurnDurability` | `agent/loop.py`: turns that could not be saved, their retry, recovery files and replay | component |
| `InterventionRequests` | `application/intervention.py`: requests and grants | component |
| `DeferredDelivery` | `application/intervention.py`: messages held back | component |
| `ToolBatches` | `application/tool_executor.py`, `agent/subagent.py`: batches of tool calls | composition of the two above |
| `ToolBatchesProofs` | | theorems |
| `CronService` | `cron/service.py` | component |
| `CronServiceProofs` | | theorems |
| `EventStream` | `api/events.py` with `frontend/src/api/sse.ts` | composition of server and tab |
| `ArtifactRegistry` | `api/artifacts.py` with its callers in `api/app.py` and `channels/web.py` | component |
| `SessionRoutes` | `api/app.py`: idempotency and session routes, `application/control.py`: guard and session actions, with the loop and the dispatcher they meet | composition |
| `HttpApiProofs` | | theorems about `SessionRoutes`, `EventStream`, `ArtifactRegistry` and `ApiServer` |
| `ApiServer` | `api/server.py`: event stream and registry in one process | composition of `EventStream` and `ArtifactRegistry` |
| `ConfigurationUpdate` | `application/configuration.py`, owners in `launcher.py` | component |
| `ChannelDelivery` | `application/channel_dispatcher.py`, `channels/manager.py`, delivery tracker | component |
| `RuntimeSettings` | a settings change that replaces the adapter of a channel in use | composition of the two above |
| `RuntimeSettingsProofs` | | theorems |
| `RuntimeShutdown` | `runtime/supervisor.py`, `runtime/lifecycle.py`, `launcher.py` | component |
| `ProcessProofs` | | theorems about `RuntimeShutdown`, `TurnDurability` and `MCProcess` |
| `Ordering`, `OrderingProofs` | a set or a filtered list in order, without recursion, and what the proofs need of it | operators, lemmas |
| `MC...` | instances for TLC | |

A definition called `Bad...` is a plausible bug in the definition that follows
it; substituting it must violate the property it is recorded for, which shows
that the property depends on that line of the code. No specification uses one.

**Granularity.** Code between two awaits is one action: the event loop cannot
run another task there. `SessionStore` and `TurnDurability` are finer, one file
operation per action, because process exits and I/O errors do occur in between.
`SessionWriters` is coarser in the opposite place: a save is one action there
because saves are synchronous calls, and the awaits it is about are those of the
model and of the service. `ToolBatches` splits a few stretches of code without
an await (the end of one request, the registration of the next, the end of the
scope) and so allows more interleavings than the event loop does.

### 2.1 TurnCoordinator

One action per public method; all are synchronous. Variables are the
dictionaries of the class (`state` for the records of `_turns`, `joins`,
`deferred`, `finalizers`, `terminalIds`) plus `held`, the join each steer holds.
In the code that token is the metadata key `_web_steer_reserved` or
`_web_joined_turn`, which its owner pops once (`agent/loop.py:1693-1708`), so a
join is released once. An activation is not tied to a token: `activate_join()`
looks at the turn's state and count, and its caller names the turn of the
message whether or not that message has a join (`loop.py:1637-1646`,
`2174-2176`). `ActivateJoin(s, t)` is therefore enabled for a steer that holds
nothing, and `overdrawn` (history) keeps the turns that gave up a join that way.
`announced` is history too: the outcomes `release_join` returned. `transition()`
is `Settle` and `Close`; the caller's choice of turn, steer and outcome is free.

### 2.2 TurnSteering

The callers that `TurnCoordinator` leaves free. A message is submitted
(`web.submit`: activity record, reservation of a join, publication), read by the
intake, put into the steer buffer of the conversation's live task or given a
task of its own, read by a model call, and recorded. `task` is the state of a
dispatch task, named by the message it was started for; `Busy` gives a task the
event loop for the stretches in which it calls the coordinator several times
without an await. The exact cancellation (`loop.py:2413`) walks over every
buffer a message can be in. A step of the module is at most one step of
`TurnCoordinator`, whose invariant therefore holds here as well; what the
composition adds is who calls which method when. `interrupted` and `shared` are
history for the properties: the turns whose work another message interrupted and
those that more than one task was to work for. A steer that found no active turn
opens its own; when the intake dispatches it while another steer has joined that
turn, `CanActivate` finds a join to consume, the other's. The turn may then end
before that steer is read; its guidance fails when its own task tries to start
the ended turn (`SetupFails`).

### 2.3 MessageBus

A message is one publish call. `publisher`, `putTask` and `fate` separate the
three things the code separates: the coroutine that called `publish_*`, the put
task it spawned and the message. `Put` then `Resume` are two actions, so that a
cancellation (`GiveUp`) or the close can come between. `reader` is one consumer
per lane, with `Get`/`ResumeConsumer` split the same way, and the channel
dispatcher that waits on two notify events. `StopConsumer` is the agent loop's
stop, which cancels the consumer and not its get task (`orphan`);
`StopLosesAtMostOne` bounds what that can cost. Heap order is derived from
priority and publication order.

### 2.4 SessionStore

One chat. `index` and `active` are `metadata.json`, `file` and `tomb` the
directory, `memory` the objects in use, `op` the program counter of the
operation under way (there is one: the methods are synchronous). A file's
content is the number of turns saved in it, which is also its revision. `Fault`
fails the current step and goes where the code's `except` goes (undo the move,
unlink the new file, give up). `Crash` keeps the disk; `Restart` runs
`_recover_delete_tombstones`, tombstone by tombstone, in any order.
`acked`, `gone`, `stuck` and `doubled` are history for the properties; `doubled`
are the sessions moved away once more while an older tombstone of theirs was
still there.

### 2.5 SessionWriters

Objects live in a heap because identity matters: `agent`, `compact`, `sync`,
`nextCompact`, `nextSync` refer to objects, `cache` refers weakly (an object
nobody else refers to is gone). `StartTurn` is `get_or_create`; `FinishTurn` is
`_persist_turn_entries` with the background jobs it schedules (one per kind and
session, the latest request waiting); `FinishCompaction` is the part of
`compact_messages` after the model's answer; `Append` and `Distill` end in
`_save_metadata`, whose conflict recovery is `SaveMetadata`'s second branch.
`recovered` records whether that branch has ever run.

### 2.6 TurnDurability

A turn is a number, the order in which it arrived. That is also its order key,
unless it was interrupted or aborted while it ran: such a turn is kept with the
default key `(0, 0.0)` (`unnumbered`; `FailToRecordRunning`), and `First` of a set
is any of its unnumbered turns, or else its oldest. `life` is where its message is in memory
(in the bus, in a task, put aside, over), `kept` the two dictionaries
`_stopped_turns` and `_pending_durability`, `history` and `marked` what one
atomic save of a session contains, `journal` the recovery files. A pass of the
retry task, of a flush or of a replay is `task`; only an exit comes between its
steps. `Retry`, `/stop`, exact cancellation, `Shutdown` and `Start` are the five
owners of the same records, each with its own order and its own reaction to a
failing read or write, as in the code.

### 2.7 InterventionRequests, DeferredDelivery and ToolBatches

The broker's lock is never held across an await, so each locked block is an
action. `suspend()` is `Suspend`, `Prompted`, `Decided` (or `Interrupt`), with
the clock (`Expire`) and the decisions in between. `DeferredDelivery` keeps of
a request only the interval between its registration and the `finally` block
and adds the messages: in a request's list (`deferred`), in the hold of an
approval batch (`hold`), or in the backlog of the delivery worker, whose call
of the sink ends (`Finish`) before the worker resumes (`WorkerResumes`).

`ToolBatches` instantiates both (`R` and `D`), sharing `pending` and `closed`,
and adds their caller: `execute_batch()` looks for grants, has the remaining
calls reviewed by a model (`automatic`), asks the user for what is left one call
after the other, checks once more what has been revoked, and runs the calls
under a limit on concurrent ones. A call may run a subagent whose own batches go
through the same broker. Revocation, cancellation of the turn, a change of the
policy and the close of the broker come at any step.

### 2.8 CronService

`mem` is the store in memory, `file` `jobs.json`, `changed` an edit of the file
by hand that has not been read. `jobs.json` may be unreadable at any such read
(`unread`): the store is empty then, and the next save makes the file so. Any save
may raise (`fails`), before it has replaced the file or after; memory is then ahead of
the file (`unsaved`), and the operations of users skip the timer (`unarmed`). `timer` and `ticked` are the sleeping task and
the task it creates, `batch` what is left of the due jobs that were read once,
`runs` the runs, by batch or by hand, under their locks. A save replaces the
file; a reload replaces the job objects, so that a run may hold a detached one
(`stale`, `detached`). The close cancels a run; the next start catches up. Time
is a counter of ticks that runs may outlast. A `jobs.json` that vanishes while the
service runs, or whose time cannot be read, is left out.

### 2.9 EventStream

Server and tab in one module, because the promise is about both. Events are
their numbers. `wire` and `queue` are what a connection still owes the tab, `pc`
where the tab's read loop is, `cursor` its `Last-Event-ID`, `dirty`, `timer` and
`attempt` the three variables of its recovery. A connection may be lost at any
step, the page may be suspended, the server closed or restarted (its numbers
begin again). `known` is history: the events the tab's view accounts for.

### 2.10 ArtifactRegistry and ApiServer

Requests run on the event loop, everything that touches the disk in a thread
under one lock. `threads` holds the operations that have not run yet, with or
without a request that waits (`request`, `cancelled`, `reader`,
`registering`): a cancellation leaves its thread behind, and what its late
result owes is `Follows`. An operation under the lock is one action; only a
publication has two, because the process may exit between the move of the file
and the manifest (`moving`). A file is one chunk, and bytes are counted in
files; flush and close of the upload belong to its write, the removal of the
temporary file to the end of the request. Each operation meets at most one
failing call: the write of the manifest (`save`, or the second of two,
`resave`), an `unlink`, or the `move`. `evicted` and `kept` are history: entries
given up for space, and publications that nobody withdraws any more.
`ApiServer` puts both parts into one process: `close()` ends the broker before
the registry, an exit ends both, the next start loads the manifest.

### 2.11 ConfigurationUpdate, ChannelDelivery and RuntimeSettings

`ConfigurationUpdate` is the lock, the compare-and-swap on the revision, the
write of the file, the application path by path in the order of `launcher.py`,
and the roll-back that applies the old values in the same order; a command
writes a single value. Each caller may be cancelled where it waits.
`ChannelDelivery` is one channel: the dispatcher with its retries, the manager's
`reconfigure()` and `stop_all()` (with the drain before it), and the tracker that
tells the waiter of a prompt what the adapter answered. A send returns
(`SendReturns`) or raises (`SendRaises`); that it returned does not mean that anybody
has seen the message, because the adapters of Telegram, Slack and Discord log an error
and return. `stop()` of an adapter may raise: `reconfigure()` fails then and keeps the
adapter, whose task the manager has forgotten (`StopRaises`, "broken" while that task
lives); `stop_all()` logs it. An adapter runs when its `is_running` flag is set, which
its `stop()` clears before anything can raise. The loop of `stop_all()` over the channels
raises when a replacement adds or removes one meanwhile (`LoopRaises`), and does not
wait for their tasks, since `start_all()` has emptied that list when it ends
(`manager.py:200-202`, `233`). `RuntimeSettings` composes
them: the owner of one path is `reconfigure()`, whose steps interleave with the
sends, and whose result decides between applied and rolled back.

### 2.12 RuntimeShutdown

Components are numbered in the order of registration. `start()` is a sequence of
awaits with a check for a stop after each. `close_all()` walks downwards; a
critical close over its limit stays open, ends the walk and leaves a
continuation, which waits for it and walks on. A critical close that
raises `TimeoutError` of its own ends the walk too, without a continuation
(`CloserTimesOut`, `cut`). `run_service_async()` and `asyncio.run()` surround it: at
the end the loop cancels what is left and waits for it (`owed`). A continuation that
waits for the detached close goes on waiting, or dies of that close's error
(`WaitIsCancelled`); one that walks takes the cancellation for that of the component,
leaves the cancelled close to its cleanup (`cleanups`) and goes on with the next
(`WalkIsCancelled`). A restart request waits for the stop and replaces the process.

### 2.13 SessionRoutes

Three requests to one session, in the plans of the instance. `caller` is the
client's side, `work` the handler's, `flight` and `inflight` the task that both
share when the request has a key (`_IdempotencyCache.execute`); `remembered` is
the LRU of completed mutations, evicted or expired entries are `forgotten`
(history). `line` is the routing guard, whose head owns it; `exclusive` the
session's reservation in the loop. A submission's turn goes through `place`:
registered, in the lane, taken by the consumer's get task (`gap`), handed to a
dispatch task, running, replying. `out` and `sending` are the outbound lane and
the one dispatcher of all channels, which waits for the same guard to deliver to
the browser. `blind` is history: the turns that `is_session_busy()` did not see
when an operation reserved the session.

## 3. Runs

Two runs contain two components that share no state: a variable `part`, chosen in
the first state, says which of them a behaviour is about.


| Run | Instance | Distinct states | Question |
|---|---|---|---|
| `core` | turns: 3 turns, 2 steers, retention 1, 1 callback; store: 2 sessions, 2 turns each, 2 I/O errors, 2 process exits | 493 000 | joins and joined turns exact but for activations without a token, outcomes final, cancellation not overtaken, what `release_join` reports, refinement of `TurnLifecycle`; durability, finality of deletion, index and files |
| `steering` | a message and two steers, or two messages and a steer; 1 exact cancellation | 251 000 | is each message recorded once and in its turn, does every turn end? |
| `bus` | three inputs of two priorities in a lane of one; an input and a command; three replies on two lanes; a stopping loop | 36 000 | bounds, displacement, cancelled publishers, counters, order of replies, no lost wake-up |
| `writers` | 2 sessions, 4 objects, 3 turns, 2 switches | 190 000 | revision check before the first conflict recovery; no refusals without a switch |
| `writer_sync` | same | | do stored turns stay after it? **No** |
| `batches` | six workloads of up to two batches, three messages, revocations | 204 000 | grants, revocation, decisions, messages held back, termination |
| `cron` | a one-shot and a repeating job, 3 ticks, 1 edit or failing save, 1 exit, an unreadable file at any read | 564 000 | are due dates kept and used once, does the file follow, do due jobs run? |
| `api` | a tab with history 2, queue 2, 5 events, 2 losses, 2 suspensions; or two uploads with a fault, quota 3 files, 2 entries; or an upload, a registered file and a reader; 1 restart | 371 000 | gaps announced, order, catching up; counts, quota and files of the registry; is an answered upload kept and a refused one gone? |
| `settings` | 3 paths; two browsers, a browser and a command, a browser with a prompt, or a prompt and a message; 4 adapter objects, 1 that did not stop | 115 000 | do file, values and adapter agree, are updates isolated, is nothing sent too late, are prompts answered as the adapter answered? |
| `process` | 4 components, 3 critical, 2 start steps, 2 services; 2 turns of one session, 1 of another, 3 faults, 2 exits | 258 000 | order of closes, clean restart, does a stop end? is every turn that could not be saved recorded once and in order, whatever fails? |
| `routes` | six plans for three requests, 2 keys, a cache of 1, an outbound lane of 1 | 80 000 | one turn per key, operations alone on the session, deletion of what was seen, is everybody served? |
| `route_gap` | same | | does a session keep its accepted turns? **No** |

`writer_sync` and `route_gap` each check a sentence of the repository and end in a
counterexample (section 4).

### 3.1 What the properties say

| Property | Parts and meaning |
|---|---|
| `TurnsInv` | types; `JoinsAreHeld` (the counter is the number of steers inside, and less only in an overdrawn turn), `HeldTurnIsOpen` (except overdrawn ones), `DeferredIsHeld` (an outcome is held back only for steers), `EndedIsSettled`, `RetentionIsExact` |
| `ReportedIsOvertakenByCancel` | what `release_join` reports is what it applied, unless the turn is being cancelled |
| `CancellationIsNotOvertaken`, `Implements` | a turn being cancelled ends cancelled; the coordinator is a `TurnLifecycle` |
| `SteeringInv` | types; `TokensFollowInput` (a join is held exactly by the message that owns it), `AdmittedIsWaitedFor` (only a turn that a steer opened ends under accepted guidance), `RunningTurnIsOpen`, `RecordedOnce` |
| `GuidanceStaysInItsTurn`, `AcceptedIsRecorded`, `TurnsEnd` | guidance that was read stays with the turn it was accepted for, unless that was stopped; accepted messages reach the history; each turn ends |
| `BusInv` | types; `LanesAreBounded`, `RefusedIsNeverDelivered`, `PendingIsExact`, `StopLosesAtMostOne` |
| `LedgerOrder`, `NobodyWaitsForEver` | `AcceptedLeaves`, `CloseReleasesEveryone` are the second's parts |
| `StoreInv` | types; over failures and exits `AcknowledgedSurvives`, `DeletedStaysDeleted`, `ActiveIsRecoverable`, `IndexedIsReadable`, `OrphansAreEmpty` |
| `WritersInv` | types; `RefusedOnlyAfterSwitch` |
| `StoredUntilRecovery`, `RevisionIdentifiesContent` | until the conflict branch runs |
| `ProcessInv` | `ShutdownInv`: types, `OneCloseAtATime` (at most one more cleans up, cancelled with the walk), `RestartIsClean`, `EveryoneIsAsked` (unless a walk was cut); `DurabilityInv`: types, `RecordedOnce`, `HasOwner` (a kept turn is somebody's: the retry task lives, a `/stop` will wake it, ...) |
| `TurnsAreKept` | `NothingIsDropped`, `OldestFirst` (no numbered turn before an older one of its session, or before an unnumbered one, that waits), `BacklogSettles` |
| `BrokerInv` | types; `NoGrantAfterTurn`, `DeferInv` (one owner, room), `ScopesAreBatches` |
| `RevocationStopsBatches` | a batch that waited for the user when approvals were revoked runs none of its calls, also not those covered before |
| `DecidedAndHandledOnce`, `NothingIsStuck` | one decision, one hand-over, in order, and `HeldUntilDecided`: messages wait for the decision; every request, batch and message ends |
| `CronInv` | types; `AlarmIsSet` (something will look at each job in time, unless an operation changed it and did not arm the timer), `FileFollows` (unless the last save raised) |
| `DuesAreKept`, `DueJobsRun` | `CadenceKept`, `ConsumedDuesAreOver` (a date is used once), `JobsAreKept` (an acknowledged job stays in the file until it has run, is removed, or the file cannot be read); due jobs run, but for those the timer was not armed for |
| `EventsInv` | types; `CursorIsHonest`, `RecoversFirst` |
| `GapIsAnnounced`, `EachOnceInOrder`, `CatchesUp` | no silent gap; no repetition; the view becomes complete |
| `ArtifactInv` | types; `CountsAreExact` (pins and protected files are those of the leases and publications that exist), `QuotaHolds`, `ListedIsStored`, `LeasedStays`, `SomebodyEnds` (each publication has a request or a thread that ends it) |
| `UploadsAreHonest` | an upload answered with 201 is listed until room was needed, one that was not leaves no entry and no victim that is missing |
| `SettingsInv` | types; `OneAdapter`, `StoppedIsQuiet`, `ToldTheTruth` (a waiter is told "delivered" if a send of its prompt returned, "failed" only if none did), `DrainedIsSettled`; `StoredIsEffective`, `AdapterFollowsSettings` |
| `UpdatesAreIsolated` | `OnlyNamedPathsChange`, `ConflictIsSeen`, `RefusedChangesNothing` |
| `NoStaleSend`, `EveryoneIsAnswered` | no attempt through an adapter that does not run or for a waiter that has gone; callers, prompts and `stop_all()` get their end |
| `CloseOrder`, `StopEnds` | `DependantsFirst` (a close cancelled with its walk may still clean up), `NoStartAfterStop`; a stop ends |
| `RoutesInv` | types; `OperationsAreExclusive`, `OnlyTheGapIsMissed` (what `is_session_busy()` overlooks is a message between the bus and the loop), `RevivedByTheGapOnly`, `ClosedIsQuiet` |
| `OnceWhileRemembered`, `DeletedAsSeen` | a key makes one turn until its entry is evicted or expires; a deletion removes the revision that the client saw |
| `ServedUnlessWedged` | every request is answered, every accepted turn ends, every message is sent, except in the two cases of section 4 |

### 3.2 Why the bounds suffice

Three turns and retention 1 evict a turn while another ends and a third is
live; two steers make the last and the last-but-one release of one turn
different. For steering, two steers give one that is read and one that is given
back, and two messages with a steer give a second task beside the first. Three
messages in a lane of one give a queued, a waiting and a displacing publisher at
once. Two sessions let the active one be deleted or replaced by the other while
either is saved in the background; two exits allow one inside the recovery from
the other, two I/O errors a deletion whose roll-back fails as well. Four objects over two sessions give the running turn, a compaction, a
synchronisation and the waiting one different objects of one session; two
switches are needed to leave a session and return to it. Two turns of one
session are needed for order, three faults for a read, a save and a recovery
file that fail in one life of the process. The batches' workloads contain each
pair that can disturb one another: two batches of one turn, a turn and a
subagent side by side, a subagent inside a call, and more messages than room.
Two jobs let one wait in a batch while the other runs; three ticks make a job
due while its own or another's run lasts. A history and a queue of two overflow
separately. Two uploads beside two stored files, with room for three files and
two entries, evict for the chunk and for the entry, each other's victims
included. A cache of one entry with two keys evicts; three requests give a
repetition, a second one after its end and a third in conflict, or a turn, an
operation and one more; a lane of one is full with one message. Two callers of the settings and three paths (overridden, channel,
listener) reach every branch of the roll-back. Four components have critical
ones at both ends and one that is not critical between them. Four adapter objects are the
registered one, the one a retry holds, one that did not stop, and a replacement. One
mishap of the scheduler is an edit or a failing save; an unreadable file needs none. The bounds on counters (`MaxCallbacks`,
`MaxTurns`, `MaxFaults`, `MaxCrashes`, `MaxSwitches`, `MaxMishaps`, `MaxTime`, `Horizon`, ...)
appear in guards only; `Scenarios`, `Workloads`, `Traffic` and `Plans` choose at the start who takes
part.

**What two errors can do.** A deletion whose index write fails and whose roll-back
also fails leaves a tombstone behind. If the session then gets a new file by a
save and a second deletion is interrupted after its move, recovery finds two
tombstones and restores whichever the directory lists first
(`session/manager.py:943-961`), perhaps the older one. `AcknowledgedSurvives`
therefore leaves out the sessions in `doubled`; nothing in the repository promises
otherwise after two independent errors, and with one error there are none.

**Deadlock.** All instances but `core`, where it covers the coordinator, disable
deadlock checking: the bus ends
when it is closed and drained, the runtime when its process ends, and the others
run out of their bounded inputs.

### 3.3 Fairness

Nobody has to publish, cancel, answer, edit, save settings, stop or restart; a
loss, a fault or an exit never has to happen.

- `steering`: the intake, a submission under way, a task and the handler of a
  cancellation that can go on do (asyncio's FIFO ready queue); a model call
  ends.
- `bus`: every task that is ready (put, resume, consumer), per lane.
- `batches`: time passes, a reviewer and a prompt's presenter return (the
  confirmation has a limit of 10 s), a batch, a worker and a call proceed; strong
  fairness for the success of the failure handler, which the worker repeats
  after a pause without limit.
- `cron`: a timer that is due fires, its task begins or leaves, a run of the batch ends.
  Runs by hand need not end.
- `api`: the server sends, the tab's loop and its recovery go on; a
  connection is not lost for ever since losses are bounded.
- `settings`: strong fairness for the lock, which is FIFO; weak fairness for its
  holder (with the replacement it waits for, whose `stop()` returns or raises), the
  dispatcher and `stop_all()`. An adapter need not start or end.
- `process`: the walker, a close within its own time, the clock behind each
  limit, the cleanup of a cancelled close. A detached close has to end only when
  `asyncio.run()` waits for its continuation, because nothing else ends the process
  then; before that it may hang for ever.
  A pass over the turns that could not be saved goes on; strong fairness for `/stop` to find its records
  and for a retry to begin, per session, as both are repeated.
- `routes`: a request or a turn that can go on does, the dispatcher takes and
  delivers, the cache's close ends.

## 4. Findings

| Run | Code | What happens |
|---|---|---|
| `writer_sync` | `agent/memory.py:980` | A thread synchronisation that holds an older object resolves its conflict by merging cursors into the file's session and then takes over that revision for its own, older object. Its next save passes the revision check and removes the turns stored in between. |
| `route_gap` | `agent/loop.py:2078` | "Return whether a session has queued, active, or exclusive work." (`loop.py:969`) A message that has left the bus and that `run()` has not yet entered in `_handoff_messages` is none of what `is_session_busy()` asks for, and its registered turn is not in one of the three states it looks for. A `DELETE` that waited for the guard deletes the session of a turn that was answered with 202; the turn then runs in a new session and its reply is dropped (`web.py:535`). |

**Observations.** The models also show, or reading for them showed, the
following. They contradict no sentence of the repository, or a lesser one, and
the properties are stated so that they hold beside them.

- *Turns.* A steer that opened its own turn consumes, when it is dispatched, the
  join of a steer that has joined that turn meanwhile; the turn may then end
  under the other's guidance, which fails (`overdrawn`, `AdmittedIsWaitedFor`),
  against the docstring of `reserve_join` ("Keep a live turn open while an
  admitted steer is awaiting consumption.", `turns.py:191`).
  `release_join` returns a held outcome although `transition()` ignored
  it because the turn is being cancelled, and the Web channel publishes it
  (`turns.py:198`); `ReportedIsOvertakenByCancel` is exactly the exception. A
  completed turn held open by a steer in submission gets its outcome overwritten
  by "failed" if its task then fails (`loop.py:3781-3787`). The exact
  cancellation of a turn with a steer in submission returns it to RUNNING with
  "cancelled" held back, and it may go on; the guidance of the stopped turn may
  merge into another's run.
- *Steering.* A task that fails before its turn starts leaves its buffer, and its
  message is recorded again. The reply of a completed turn is cancelled by the
  next message when the outbound lane is full. A steer buffered while the ending
  task gives earlier ones back is read by nobody if their turn is then cancelled
  (the exception in `AcceptedIsRecorded`). A steer that opened its own turn and
  is drained by another's run leaves its turn "received". With three steers two
  tasks can share a turn, one for a steer that was given back and one for a steer
  that found no live task: the outcome of the first closes the turn under the
  second (`RunningTurnIsOpen` leaves such turns out), the second reads guidance
  of the turn that follows (`GuidanceStaysInItsTurn`), and of two tasks of a
  stopped turn the older, interrupted by a message that merges only the input of
  the newest, leaves its own input unrecorded (`AcceptedIsRecorded`). Subagent reports that
  are superseded are lost.
- *Sessions.* A chat whose active session was deleted without replacement and
  which is then saved by a background job has an entry without an active session
  (`manager.py:497`), and `get_or_create` raises from then on.
- *Approvals.* An answer before the prompt's delivery is confirmed is accepted
  and acknowledged, and dropped if the confirmation fails
  (`intervention.py:418`). A message that arrives after the last request ended
  overtakes the backlog (`intervention.py:580`). A revocation during the
  automatic review is not seen, and neither is one that comes when calls of the
  batch still queue for a slot (`tool_executor.py:229`). A subagent's steer
  during its last model call is lost (`subagent.py:201`). A cancelled or failing
  cleanup of the exact cancellation skips `cancel_turn` (`loop.py:2574`).
- *Routes.* A job run by hand through `POST /commands/execute` keeps the routing
  guard for its whole turn, so that the one dispatcher of all channels waits behind
  it with the first message to that browser; when the outbound lane is full, both
  wait for each other, and an approval that the job asks for can be neither shown
  nor answered (`Wedged`). `_action_compact_run` reads the session between the
  reservation and its `try` (`control.py:1402`): when that fails the reservation
  stays and later turns of the chat wait for ever (`Leaked`). A 409
  "turn_in_progress" is remembered for its key for a day like a success
  (`app.py:516`).
- *Bus.* Cancelling `consume_inbound` leaves its get task, which takes the next
  input put on the still open bus (`queue.py:321`). A publisher cancelled after
  its put was done is told so although the message is delivered; the counter
  drops twice and the outbound consumer is not notified (`queue.py:225`; the
  2 s limit of the Web channel can meet it).
- *Cron.* A job removed or disabled while an earlier one of its batch runs is
  executed; a run by hand that ends after `close()` clears the locks; the
  completed jobs of a batch are not saved until the batch ends. Any error while
  `jobs.json` is loaded empties the store (`service.py:134-136`), and the next save
  erases the jobs that were acknowledged. A save that raises leaves the operation in
  memory, with an error as its answer, and the timer unarmed (`service.py:415-417`,
  `441-448`): the job runs when something else arms it. So does a job that a new
  `jobs.json` brings, when the file is first read by a listing.
- *Events.* After a restart the numbers begin again, so that a tab that lost its
  connection with a small cursor, or none, may miss what came before
  (`events.py:295`).
- *Artifacts.* A registered runtime file that vanishes makes the whole registry
  read-only at the next start, also for uploads (`artifacts.py:272-286`; the
  exception in `UploadsAreHonest`). The reservation of a chunk evicts registered
  files in LRU order although that frees no bytes (`artifacts.py:426-433`). An
  acknowledgement that runs after its request was cancelled, and before the
  withdrawal, keeps an upload that nobody was told of (`artifacts.py:715`).
- *Durability.* A backlog found at the start is not retried until the next
  message of its session (`loop.py:2067`), although a test is named
  `test_durability_retry_owner_progresses_without_new_ingress`. A turn that was
  interrupted or aborted is kept with the order key `(0, 0.0)` (`loop.py:119`,
  `5264-5272`, `5308-5316`), so that the retry and the replay may record it before an
  older turn of its session that is kept too. A message put
  aside because of a backlog keeps its admission slot until `/stop` or shutdown
  (`loop.py:2121`). `/stop` on an unreadable session loses the records it took
  (`loop.py:2794`). A session that cannot be read for a moment at the start
  quarantines its records (`loop.py:5788`). A queued turn that is cancelled is
  recorded before the retained backlog, against the docstring at
  `loop.py:5145`; the shutdown persists live messages before older kept turns
  (`loop.py:4066-4086`).
- *Settings and output.* A cancellation between file and application leaves the
  effective values behind the file until the next update. A retry keeps the old
  adapter object, so that a message is lost when it is replaced. The adapters of
  Telegram, Slack and Discord log an error of a send and return
  (`telegram.py:332-333`, `slack.py:155-156`, `discord.py:158-163`), so a prompt is
  reported as delivered that nobody has seen. A `stop()` that raises in
  `reconfigure()` leaves the adapter registered and its task forgotten
  (`manager.py:321-326`); the next replacement runs beside what is left of it.
  `stop_all()` does not wait for the adapters' tasks, and raises with later channels
  still running when `reconfigure()` adds or removes one during its loop
  (`manager.py:226-231`, `329`).
- *Shutdown.* A continuation that `asyncio.run()` cancels while it walks goes
  on with the next component although the cancelled close still cleans up
  (`lifecycle.py:167-170`). A critical close that raises `TimeoutError` of its own counts
  as one over its limit and, as nothing goes on in the background, the components
  behind it are never closed (`lifecycle.py:161-166`); so it is when a detached close
  ends with an error in the moment in which its continuation is cancelled. The restart
  notice stays if the restart fails; a SIGTERM within the
  pause of a restart becomes a restart. A non-critical close that was cancelled
  may be begun again by a continuation.
- *By reading only.* Two idle-only commands scheduled together may refuse each
  other (`command_dispatcher.py:135`, `206`). A direct turn that waits for the
  session lock is invisible to `is_session_busy` between a release and the
  acquisition (`loop.py:968`, `6155`).

## 5. Proofs

Each invariant below was checked by TLC on the run's instance before it was
proved. Each proof has one lemma per action or group of actions: its first step
says what the action does to each element of the state, the following ones take
the invariant's parts one by one.

**TurnCoordinator, for any turns, finitely many steers and any positive
retention** (assumption `TurnAssumption`). `Invariance` proves `TurnsInv` =
types, join counts, joined turns open, held outcomes held, ended turns settled,
retention exact. A count is never above the number of tokens that are out, and
equal to it, with the turn open, as long as the turn is not overdrawn. The parts
are inductive only together: that a turn closes under no token needs the exact
count (otherwise `joins = 0` with a steer still in), that an eviction never hits
a live turn needs the exact retention queue, and a held outcome that is applied
needs both. The proof has one lemma per group of actions (`MoveStep`,
`SettleStep`, `ReserveJoinStep`, `ReleaseOneStep`, `ReleaseLastStep`,
`ActivateJoinStep`), over lemmas about `Close` and about the cardinality of the
holders. Each conjunct is then a theorem of its own. The same invariant gives
what `release_join` reports (`ReportsAreOutcomes`), the action property
`CancellationsAreNotOvertaken`, the finality of outcomes (`OutcomesAreFinal`,
which the refinement makes redundant as a run's property) and the refinement
`ImplementsLifecycle`: each step is a lifecycle step or a stutter. The guests of
the lifecycle are the steers whose turn is not overdrawn; a first activation
without a token is `Displace`, and `LeaveAndEnd` needs the exact count to know
that the last guest leaves.

**SessionWriters, for any sessions, objects and turns.** `StoredTurnsAreSafe`
and `RevisionsAreSound`: as long as the conflict branch of `_save_metadata`
has not run, no writer removes a stored turn and comparing revisions is a
sufficient check. The invariant is `recovered \/ Sound`, where `Sound` adds to
the two properties that a job's object belongs to the job's session
(`JobsBelong`); without it a synchronisation could compare its revision with
another session's file. `StoreKeepsRevisions` is the common step of all savers.
With `writer_sync` this says precisely which branch of the code breaks the
promise: every behaviour without it is safe. `WritersConflictOnlyAfterSwitch`
(`WritersInv`) is the other half: a save is refused only after a switch of the
conversation. Its invariant `Alone` says that without a switch everybody who
refers to a session's object refers to the same one, the cached one.

**SessionStore, for any sessions, any number of turns, faults and exits**
(assumption `StoreAssumption`). `StoreIsCorrect` proves `StoreInv`. The
strengthening says how far each kind of operation is (`Progress`: creating,
saving, deleting, replacing, recovering), that a process that has ended holds
nothing (`Ended`), which sessions leave any trace (`Drawn`), what stands for an
indexed session whose file is away (`Recoverable`, `Missing`), and that nothing
that may take the place of a session's file is older than the last save that
returned (`UpToDate`). The last is the heart: `AcknowledgedSurvives` alone speaks
of what can be read now, but a roll-back or a recovery makes a tombstone the file.

**MessageBus, for any finitely many messages, any sessions, priorities and capacities**
(assumption `BusAssumption`). `BusIsCorrect` proves `BusInv`, `RepliesKeepTheirOrder`
the action property `LedgerOrder`. The invariant follows a message from its call
to its fate (`Calls`), a get task from the lane to its consumer (`GetTasks`,
`Losses`) and the sequence numbers (`Numbered`, `EarlierCameFirst`). The order of the heap is a strict
total order on the queued messages (`HeapOrder`), so that the first and the worst
exist and are unique (`LeastExists`, `FirstIsFirst`, `WorstIsLast`); counters are
cardinalities, compared before and after a step (`OneMore`, `OneLess`,
`OneForAnother`, `ManyLess`). `LedgerOrder` also needs `Ahead`: while a get task holds a
message, nothing that goes before it is on its way.

**SessionRoutes, for any requests, keys and plans and any size of the cache and the
lane** (assumption `RoutesAssumption`). `RoutesAreCorrect` proves `RoutesInv`,
`MutationsAreOnce` `OnceWhileRemembered`, `DeletionIsAsSeen` the action property
`DeletedAsSeen`. In the cache, the work under way and the completed one of a key
exclude each other (`Flying`) and so do two completed ones (`Memory`); on the
route, whoever is past the guard holds it (`Guarded`), an operation that works
has the session reserved (`Reserved`), a turn is registered exactly while its
submission is past the guard (`Registered`). From these follows that an
operation which finds nobody busy finds no submission half done, so that what it
misses is in the gap between the bus and the loop. `Deleted` keeps this in mind for the
turns that such a deletion leaves behind. `Removal` says what taking an element out
of the line does.

**CronService, for any finitely many jobs with any due times and periods, and
any number of edits, failing saves, unreadable files and exits** (assumption
`CronAssumption`). `SchedulerIsAwake` proves `CronInv`, `NoDueTimeIsLost`
`DuesAreKept`. What the properties promise of the file has to hold of the memory
as well, because the next save makes it the file, and of the file although the
next reload makes it the memory, a reload that finds an edited file or none it can read
included, and although a save that raised has left the two apart: `Kept`, `Regular`,
`Later` and `Unused` are predicates of a store, and `Memory` and `Disk` say when each of
the two satisfies which. `Past` (a used due time is not in the future) is what keeps a "cron" job,
which computes its next time from the clock alone, from meeting a used time again;
`OneBatch` (one timed run at a time) is why a batch is under way whenever such a
run ends. The grid of an "every" job rests on the arithmetic of `SamePhase` and
`Division`; `SaveKeeps` and `UserStep` are the common part of all operations.

**RuntimeSettings, for any callers, paths, values, edits, overrides and messages, and any
positive numbers of attempts and of adapter objects** (assumptions
`ConfigurationAssumption`, `DeliveryAssumption`, `SettingsAssumption`).
`SettingsAreCorrect` proves `SettingsInv`, `UpdatesAreWhole` the three action
properties of `UpdatesAreIsolated`, `SendsAreFresh` `NoStaleSend`. Each of the two
composed modules has an invariant that its steps preserve whatever the other
does. `UpdateInv` says how far an update is: what was saved agreed (`Between`),
only what the caller names has changed since (`OnlyNamed`), and which of it is
written, applied or undone. `OutputInv` says that every adapter that has left the manager
has ended or was given up (`OthersHaveEnded`), which is why the one that `Replace`
starts is alone, that none is active once the loop of `stop_all()` has come to the
channel (`Quiet`), and that a message is in one place (`OnePlace`), which for a prompt
that was accepted or reported is none (`Unsettled`): so no later attempt can
contradict what the waiter was told. Two conjuncts tie them together. `Replacing`: while an adapter is
replaced, its setting is the next to be applied, so that no other step of the update
can come between (`ServiceWaits`, `OthersWait`); `InPlace`: an adapter is
registered exactly when the value in use asks for one, unless a replacement has
failed. The proof needs two facts of the code as assumptions: `start_all()` has
found the channel enabled (`Default # Off`), and commands change only
`agents.defaults`, never the setting of a channel.

**ToolBatches, for any calls, finitely many batches, any turns, conversations and
messages and any capacity** (assumptions `ToolsAssumption`, `BrokerAssumption`).
`BrokerIsCorrect` proves `BrokerInv`, `RevokedBatchesStop`
`RevocationStopsBatches`, `DecidedAndHandled` `DecidedAndHandledOnce`; what these
consist of are theorems of their own (`GrantsEndWithTurns`, `ScopesAreCounted`,
`DecisionsAreFinal`, `ApprovalsCount`, `MessagesAreHandledOnce`,
`MessagesKeepTheirOrder`, `CancellationsSettle`, `MessagesWaitForDecisions`).

The invariant has three parts. *Requests*: the broker has exactly those somebody
waits for (`PendingIsAsked`), each of them is the first undecided call of its batch
(`OneAtATime`), and a turn that is over has no batch under way (`LiveTurns`); so a
decision, which only an open request can get, gives a grant to a turn that goes
on. `GivenUp` is what a revocation leaves: a batch that has stopped or whose
request will end with something other than an approval; it needs `OneAtATime`,
since the batch could otherwise go on with another call. *Scopes* are counted
by the cardinality of the batches (`ScopeOpens`, `ScopeCloses`). *Messages*: that
they stay in order although they pass through three kinds of lists needs an order of
the lists. For each conversation the backlog is ahead of what is held back, and
that is ahead of what a request has (`ListsInOrder`); a request has messages only
while it is the first of its conversation, and a hold only while its scope is open
(`Homes`), so that whatever moves on joins the end of the next list in order. What is
on its way is kept or being acknowledged (`Tracked`), the one call of the worker is
for the head of the backlog unless it has failed (`OneCall`), and a message that is
kept is newer than those of its conversation that the sink has got (`SunkInOrder`).
The room is counted by the cardinality of what is on its way (`Counting`).
`close()`, which drains holds and requests in one go, is the case where the whole
order is used (`DrainedFacts`). `Joined`, `Appended` and `Left` say what happens to
a list in order when it is joined, extended or filtered, `Removal` what taking an
element out of a sequence without repetition does, `CurrentFacts` that at most one call
of a batch is the next to be decided.

**EventStream, for any sizes of the history and of the queue and any number of
events, losses and restarts** (assumption `StreamAssumption`).
`SpecGapIsAnnounced`, `SpecInv` (`EventsInv`) and `SpecEachOnceInOrder` come
from `StreamIInv` = `TypeOK /\ Control /\ Delivery`. `Control` relates the tab's
program counter to the connection (a subscriber exists only while it reads, a
recovery is due after a reset). `Delivery` is the heart: what wire and queue
hold is a run of consecutive numbers that begins behind the cursor and ends at
the newest, unless an overflow has closed the subscription with a reset. The
gap property is not inductive without it: that the next event received follows
the cursor is only known because the whole sequence is contiguous. One lemma
per action (`PublishKeeps`, `SendKeeps`, `ReceiveKeeps`, `ConnectKeeps`, ...).

**ArtifactRegistry and ApiServer, for any finitely many stored items, uploads and
registered files, any readers, faults and exits, and any quota** (assumption
`ArtifactAssumption`; it says of the list that an earlier run has left that it
repeats nothing and is within the quota, which `QuotaHolds` shows to be what a run
leaves under the same settings). `RegistryIsConsistent` proves
`ArtifactInv`, `UploadsStayHonest` `UploadsAreHonest`, both of `ApiSpec`, where the
server stops, exits and starts; `ServerRunsTheStream` shows that this server
behaves as `EventStream` specifies, so that the theorems about the stream hold of
it. The invariant is `ArtifactIInv`. *Course* says which thread an upload has at each
phase of its request (`Phases`), and that a receipt has a request or a thread that will
end it (`Receipts`): a roll-back left to itself has an abandonment behind it, since it
may fail. *Shelf* relates memory, the manifest and the disk. Lists repeat nothing,
a publication has at most one victim, and no two have the same (`Lists`), so a
roll-back, which puts the victims back in place of its entry, keeps the quota
although others have evicted and registered meanwhile. What the lists, the manifest
and the victims name is on disk, and pending deletes are none of it (`Files`); that a
victim's file is not unlinked follows from its count (`Guards`, `GoneFacts`), which is
the cardinality of the receipts that name it. `NewComers` says that an upload or a
path that is still to come is named nowhere; without it a late publication could
be one of the victims. Memory and manifest name the same owned items (`Agreement`) unless
the registry is read-only, and `History` ties both to what was answered. Between the
move of a published file and the manifest, `Plan` keeps what the move was planned for;
`Pins` and `Readers` say why an eviction never meets a file that is read
(`UnpinnedFacts`), and `Down` what an exit leaves to `_load()`. `TradeKeeps` and
`ConcludesKeeps` are the common part of all operations that evict, and of all that end a
publication.

**RuntimeShutdown, for any number of components, any of them critical, any services
and any number of exceeded limits** (assumption `RuntimeAssumption`).
`ShutdownIsCorrect` proves `ShutdownInv`, `ClosesInOrder` the action property `CloseOrder`. `Walks` says that one
walk at a time goes on, waits where it is, and rests while a critical close is
detached; without `Passed` (everybody behind a walk has been asked) the walk of a
continuation could be taken for a complete one. `Reports` carries the argument
for the restart: what the coordinator has not closed it has reported, a report
that names a critical component forbids the exec, so the process that is replaced
has closed them all. `Exceeded` says why one exceeded limit is waited for and a
second is not: a limit that is exceeded by a continuation is recorded in `slow`
next to that of the walk before it, which is closed by then. `Cut` says that a walk ends short only after a failure that forbids
the exec, `Cancelled` that a close is left to its cleanup only in a process that
leaves, after a limit was exceeded. `Ends` and `AtRest` carry all this to the end of
the process.

**TurnDurability, for any finitely many numbered turns of any sessions and any number of
failing reads, writes and exits** (assumption `DurabilityAssumption`).
`TurnsAreRecordedOnce` proves `DurabilityInv`, `TurnsAreNotDropped` and
`TurnsAreSavedInOrder` the two action properties of `TurnsAreKept` (its third part is
liveness), and `ProcessIsCorrect` proves `ProcessInv` of the specification that the run
checks, where the steps of this module and of `RuntimeShutdown` alternate. That a turn
is recorded once does not follow from itself: what is saved again after a crash, a failed unlink or
a `/stop` must be known to its session's file. `Files` says so of recovery files (one
of a recorded turn is marked; a kept turn knows of its recovery file), `KeptOnce` of what memory keeps,
with the one exception of the turn that a pass has saved and not yet forgotten
(`Unlinks`, `Saved`). `MessageLeft` is why what still has its message is recorded nowhere. `HasOwner`
needs `Replays`: what a replay has kept has the identifier of a recovery file, which
the property excepts when no retry task is woken. `Retries`, `Stops` and `Flushes`
say what a pass works on, and with the first of them and `Due`, the
turns that come first by their keys (`OldestIs`, `DueIs`), a retry records no numbered
turn before an older one of its session or before one without a number. `AscendingAdds` says that
what a `/stop` found put aside enters the history in order and once.

**Model-checked only.** All liveness, which is beyond the prover; everything about
`TurnSteering`.

## 6. What is not modelled

- *Text and data*: prompts, tokens, formats, wording, redaction, security
  patterns, projections, request and response schemas of the HTTP API. They have
  no order of events.
- *I/O*: tools, providers, adapters, the Nowledge service. They appear as events
  that may come, fail or be cancelled.
- *Of modelled files*: `MessageBus.join` (used at shutdown only); names,
  checkpoints and system sessions of the store; the page cache in a power
  failure; parsing of answers; `/stop`, shutdown and approvals in
  `TurnSteering`; cron expressions and time zones; heart-beats of the event
  stream; byte ranges, several chunks and the limit of concurrent uploads of the
  artifacts; the secrets of the settings; several channels.
- *Several processes*: one advisory lock excludes them.
- *Not yet*: commands typed in a chat, the admission slots, the announcements of subagents, the login sessions of the
  HTTP API.

## 7. Plan

1. `Ingress`: admission slots and commands against turns. Slots are conserved.
2. `Subagents`: announcements against the turn they report to.
3. Proofs: `SteeringInv`.
