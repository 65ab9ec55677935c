# Models and proofs of xopcbot

TLA+ models of the concurrent core of xopcbot, translated from its TypeScript
source: the control plane that runs agent sessions, the file behind it, the
lock that keeps gateways apart, the cron service, the way of an outbound message
to its channel, the heartbeat, a turn of the web chat and the relay of its
events, the life of the channels, a streamed Telegram reply, and the inbox of
messages between agents. TLC checks them on small instances; for all of them
TLAPS proves the safety properties for every value of the constants.

Everything in the program runs on one JavaScript thread. What makes it hard is
not parallelism but *await*: at each one, any other call, timer or signal may
run, and what was read before may be stale after. So a step of these models is
the code between two awaits at which something else can interfere, and the
properties are about what the pieces of state say of one another in between.

## The system

| component | state | operations | what is hard |
|---|---|---|---|
| ACP session actor queue (`src/acp/control-plane/session-actor-queue.ts`) | per key: running flag, pending tasks | `run`, `dequeue`, `processQueue` | lost wake-ups, overlap, order |
| ACP manager, turn manager, lifecycle, runtime cache (`src/acp/control-plane/*.ts`) | handle cache, turn registry, stored metadata, the runtime's sessions | initialize, run turn, cancel, reset, close, status, set option, reconcile identities, idle eviction | eviction runs outside the queue; cancel bypasses it; turns fail half-way |
| ACP session store (`session-store.ts`) | one JSON file, its cached index, a dirty flag | load, save, get, delete, clear | whole-file writes in place, failing writes, crashes |
| local ACP runtime (`runtime/backends/local.ts`) | sessions, one shared `Agent` | ensure, turn, control, close | one agent object under all sessions |
| gateway lock and run loop (`src/gateway/lock.ts`, `run-loop.ts`, `server.ts`) | lock file, port, signal handlers | acquire, check owner, remove stale, release, stop, restart | processes that start, die and look at each other at any time |
| cron (`src/cron/`) | jobs, timers, running executions, the file, a debounced write | add, update, remove, toggle, run, tick, stop, load | timeouts and cancellations against completions; changes during a write |
| outbound path (`src/infra/bus/queue.ts`, `src/channels/manager.ts`, `src/channels/outbound/`, `src/gateway/service.ts`) | bus queue and waiting consumer, durable queue and its file | publish, consume, send, acknowledge, replay, shut down | crash between delivery and acknowledgement; failing writes; hand-off |
| heartbeat (`src/heartbeat/wake.ts`, `src/gateway/heartbeat/service.ts`) | timer, pending reasons, running flag, last text | request, run, stop, start, reload | coalescing, requests during a run, reload during a run |
| channel lifecycle (`src/channels/manager.ts`) | initialised plugins, hand-stopped ones, restart timers and attempts, heartbeat timers | initialize, start, stop, startChannel, stopChannel, scheduled restart, heartbeat check, soft restart | timers that outlive a stop; starts and stops of one plugin that overlap |
| agent run relay (`src/gateway/agent-run-relay.ts`, `hono/sse.ts`) | events, cursor of each subscriber, waiters, a deletion timer | publish, complete, subscribe, resume, expire | lost wake-ups, a full buffer, cleanup |
| agent service (`src/agent/service.ts`, `src/agent/orchestration/`) | per session one `Agent` with its messages and one stream; the session file | save early, load, try the models, time out, retry, abort, save | the attempt that lost to its timer goes on; every model's leftovers are in one list |
| streamed reply (`extensions/telegram/src/draft-stream*.ts`, `src/agent/messaging/stream-manager.ts`) | pending text, call in flight, throttle timer, message id | update, progress, flush, end, abort, final reply | answers that come late or fail; when to skip the final reply |
| agent IPC (`src/agent/ipc/`) | files of pending and processed messages, a watcher, waiting requests | enqueue, dequeue, watch, listen, stop, send and wait, time out | loops on one directory that nothing keeps apart; files seen before their content; answers before or after the wait |
| models, tools, memory, session store (`src/agent/`, `src/session/`) | transcripts, an index of sessions | load, save, compact, tools | files without a lock; a language model in the loop |
| the rest: routing, config, extensions, chat commands, providers, speech, CLI, desktop, web, other channel plugins | | | mostly translation and I/O |

The gateway composes them. A channel plugin or the web interface brings a
message in; the agent, through the bus, sends messages out; cron and heartbeat
start agent turns on their own and publish what comes of them; a cron job that
ends requests a heartbeat. The web chat calls `runAgent`, whose generator drives
the turn, is read by the response and publishes to the relay for readers that
resume. The channel manager brings the plugins up and delivers what the outbound
processor takes; a streamed reply goes past both, straight to the plugin, and
decides at its end whether the ordinary reply is still sent. ACP clients drive sessions through the control plane,
which keeps runtime handles for them and writes their metadata to the session
store. `PROJECT.json` lists every component with what is modelled of it, and
every hazard with the line where it bites and the properties that watch it.

## The modules

Each model names the code's operations as its actions; the `map` of
`PROJECT.json` gives the lines of every definition.

**`SerialCalls`, `SessionActorQueue`.** `SerialCalls` is what a caller may rely
on: the calls under one key form a line, only the head of the line returns, and
every call returns. `SessionActorQueue` is the class: `actors` is its `Map`,
`Run` is `run()` up to the first await, `Settle` is the `finally` block with
`dequeue()`. The refinement maps a line to the running call followed by the
pending ones.

**`AcpControlPlane`.** Instantiates the queue. A call walks through labels (`pc`),
one per await: it evicts idle handles, enqueues itself (or, a cancel, acts on the
registered turn at once), resolves or creates the session, ensures a handle,
does its work and returns through the queue. `cached`/`idle` are the runtime
cache, `open`/`transcript`/`closing` the local runtime's session map with its
slow `close()`, `active` is `activeTurnBySession`, `meta` the stored state of
each session as this process finds it: `save` puts an entry into memory before it
writes the file, and every write may fail, so a state can be changed and its caller
be thrown out at the same time. The history `left` has the sessions whose
"running" nobody is left to replace: an earlier process ended and left it
(`Kept`), or the turn that set it could not write it, which `executeTurn` awaits
before its `try`. The reconciliation of identities at start is one such call for
each session it lists (`ListPending`, `Reconcile`): it goes through the queue, but
evicts nothing. The store is one step here, and has a module of its own:

**`AcpSessionStore`.** `disk` is the file with its torn states (truncated, half
written), `index`/`loaded`/`dirty` the cache. `promised` is the history the
properties speak of: what the last call that returned, or failed ones, left.
`AtOnce` bounds how many calls are in progress together. The actor queue takes the
calls of one session in turn, nothing keeps those of two sessions apart; what the
store promises it promises until two calls are at the file at once, which the
history `overlapped` records.

**`GatewayLock`.** Gateways and probing commands contend for one file by exclusive
creation, payload, owner checks (port, then pid, then age) and removal by path,
in the code's order; then they start, listen, serve, stop and release, or die
anywhere. The port asked is the contender's own (`PortOf`), at 127.0.0.1, so an
owner that serves another port or binds another address (`HostOf`) is not seen
(`InReach`) and one without an answer within a second is taken for dead (`slow`).
`trusted` is the history of those that were in reach and answered. Assumed: only
gateways listen on these ports, and a port nobody listens on refuses at once.

**`CronService`.** The service's operations are one step each, because the
persistence methods await nothing slow once the file is in memory. A job's data
says whether node-cron takes its time zone (`schedulable`) and whether the schema
does when it is read back (`loadable`), since neither is asked when it is added:
`schedule()` throws after the job was saved and its old task cancelled, and a start
that meets such a job throws, too. Executions
(`run`) race their timeout: `working` ones are registered, `late` ones go on
although the race is lost. The debounced write is serialised, then renamed.

**`Outbound`.** `send[m]` is the await at which `ChannelManager.send` of `m`
stands; `proc` is the outbound processor, alone on the bus; `pending` and `file`
are the durable queue in memory and on disk. `Die` is a crash or the end of the
process; `Start` loads the file and replays it, one message after another, before
the processor starts. `Restart` is the start in the same process after a `stop()`
that awaits no send: what was under way goes on as `old[m]`, with the store object
it has, whose list (`oldPending`) it writes over the file. `settled` are the
messages that were taken or given up, by whichever send, and `exposed` those with
an entry while such a send was under way.

**`HeartbeatWake`.** `timer`, `pending` and `running` are the closure of
`createHeartbeatWake`; `at[h]` the await of a handler call. Calls are a set, so
that an overlap would be seen. A reload (`UpdateConfig`) comes at any time.

**`AgentTurn`.** Three actors per run. The *generator* (`gen`) is `runAgent` and
`processDirectStreaming`: it saves the user message early, reads the session,
replaces the Agent's messages, starts the turn and writes the messages back. The
*driver* (`drv`, `model`, `before`) is the loop over the fallback models with its
timer, and each *attempt* is a `runTurn`, which goes on by itself when the timer
has won. `stream` is the Agent, which is external: one stream at a time, `prompt`
and `continue` throw while there is one. Promise continuations come before any
timer, file or network event (`Quiet`), in an order among themselves that is left
open. Both saves write the transcript in place: the file is cut to nothing, then
filled (`EndSave`), and in between a crash or a failing write leaves it torn, which
loads as an empty session. `saves` says what became of the latest run's saves, and
`faults` bounds the crashes and failures. A message is who wrote it and what kind it is, because that is what the
code that trims, sanitises and rolls back looks at. `Sanitize` picks the messages
that may be saved by their rank, which is what a filter does, said without the
recursion of `SelectSeq`. That a session file holds only what `sanitizeMessages`
lets through (`HistoriesAssumption`) is what its writers do
(`agent/service.ts:526`, `agent-orchestrator.ts:135`, `local.ts:511`).

**`AgentRunRelay`.** `pump` is the generator as its response pulls it, `run` the
relay's entry, `reader`, `cursor` and `waiters` the subscriptions; an event is
its number. `got` is what a subscriber was given. A preparation that throws
(`PrepareFails`) leaves the run neither completed nor deleted, as in the code.

**`ChannelLifecycle`.** Every plugin start and stop is a count of calls under
way, by who made them, because nothing in the manager keeps two of them apart;
`timers` counts the scheduled restarts, which nothing cancels. `wanted`, `held`
and `abandoned` are the history that says what was asked for. A call that the
code answers by returning at once (a start while one is under way, a stop when
not running) is left out, as it changes nothing; that two `stop()` may overlap
is left out because the gateway makes one.

**`DraftStream`.** `draft` holds the variables of the stream's nested closures,
`calls` the API calls under way, `shown` the chat. `Flush`, `Accept` and
`Settled` are functions on `draft`: the loop up to its next call, which is what
JavaScript does in one go. The later version of a reply is the larger number.
`Progress` is a tool event of any session, which hands an empty text to the stream
of the service's one progress manager, so it comes at any time; `wiped` is the
history that a text waiting was lost to one.

**`AgentInbox`.** `file` is where each message's file stands: created empty,
filled, moved away. `pc`/`target` are the `processPending` loops, one for the first
look and one for each watcher event, split at the listing, the read and the
rename; `wait` is `responseHandlers` with the sending before it and the outcome
after it. The watcher itself is external: an event for every name that appears
or leaves while it is there, and none for content. `handed` and `lost` count what
became of a message; `excused` names what may stay behind. The module
is exported and nothing in the repository starts a bus yet; the model's user
calls `startListening` when the bus is off, and `stopListening` when it is on.
A directory or a file that is whole and still cannot be read or moved
(`inbox.ts:49-50`, `72-75`) is left out: the loop ends, as it does for a file that
is not filled yet.

Definitions marked *faulty variant* are plausible bugs of the definition that
follows them; each property is shown to fail when its variant replaces the
original, and nothing else uses them.

## The runs

| run | instance | what it shows |
|---|---|---|
| `actor_queue` | 2 keys, 5 calls | per key at most one call runs; the map has an actor exactly while calls are unsettled; `SerialCalls` is implemented, liveness included |
| `acp_control_plane` | a turn and any operation (reconciliation included) on a warm session whose stored "running" an earlier process left, an evicting call on another; any write fails | a registered turn is the running operation of its session; a stored "running" has a turn behind it, unless an earlier process left it or the write of it failed; no cached handle outlives its metadata; eviction spares a registered turn; every call returns |
| `acp_store` | 2 sessions, 4 calls, up to 2 at once, failing writes, 1 crash | what a reader finds is what a call left there, and a clean cache is in the file, until two calls are at the file at once |
| `gateway_lock` | 2 gateways (one binds every address, one 127.0.0.1) and 1 command on one port; any probe is slow | the lock of a gateway that serves in reach throughout an attempt, and answers, is not removed by it; a lone starter whose probe is not slow gets past a dead owner's lock |
| `cron` | 1 job, with data node-cron or the schema may refuse, 2 executions, 2 writes, 1 restart | an enabled job has its timer with its current data, or none if node-cron refuses that; the entry that makes a tick skip belongs to one working execution; every registration ends |
| `outbound` | 2 messages on the bus, 1 direct, 3 starts (in a new process or the same), 1 failing write | an entry stays in the file until its message was taken or given up, and one that left it is never sent again, unless it was beside the sends of an earlier gateway of the process; bus messages are sent in order, and none is left waiting |
| `agent_turn` | 2 runs, 2 models, 1 continuation, 1 crash or failing save, any abort, timeout and error | a run that is alone loses the session's history by nothing but a torn save; it leaves its message and at most one answer, once; it ends though no model answers |
| `agent_relay` | 3 subscribers, a buffer of 3, up to 5 events | who sleeps has read everything; each is given the events from the first without a gap, all of them up to the limit; each subscription ends once the run is over |
| `channels` | a channel with a heartbeat, one without, 2 restarts, 3 calls | a channel stopped by hand stays down; one that is to run and is down has something on its way; a scheduled restart brings it up, gives up or is overtaken |
| `draft_stream` | 6 versions, two too short to begin with, one too long, progress at any time | the user has the reply once; no text that waits is forgotten; the message never goes back; an end that was called ends |
| `agent_ipc` | a message, an answer, 1 request, 2 loops, 1 crash | a message is handed over at most once, and one that left the directory is with a loop, handed over or lost in a crash; an agent that listens takes what it can read; every wait ends |
| `heartbeat` | 2 requests, 2 handler calls, 2 configurations, 2 texts | heartbeats do not overlap; pending reasons have a timer; no heartbeat repeats the last within its window; every request is taken unless a reload forgets it |

Two sessions, keys or messages are the least that can interfere, and a third
call lets one wait behind a waiting one or evict from outside. One crash, restart
or failing save meets every intermediate state; the third start of `outbound` is
there for a replay that was itself interrupted, and for a send that outlives its
gateway beside a replay. In `agent_turn` the second run is
accepted when the first has ended (`MaxActive = 1`), which leaves the first's
late attempts under way beside it; the session holds one turn to begin with, and
is empty once a save of the first run is torn; with two models one can fail after the other,
and one continuation is a retry that may fail as well. In `channels` three calls
allow a start, a stop and a start again, or a hand stop between the two. The
buffer of `agent_relay` is smaller than the stream, so that it fills. The six
versions of `draft_stream` put a short one before and after a message exists. In
`agent_ipc` two loops are the least that can read the same file, and the event
for a move keeps feeding them.
The bounds are constants (`MaxCrashes`, `MaxVersion`, `MaxRestarts`, `MaxLives`,
`MaxFaults`, `AtOnce`, `MaxActive`, `MaxSent`, `MaxCalls`) and appear
in the guards. The type invariant of a module
with proofs is proved and not checked in a run, but for `AcpControlPlane`, where
it is both.
Deadlock is not checked where the system really may rest: all calls made and
returned, the last process gone.

### Where the code does otherwise

Fifteen more configurations check what a comment, a type or a test of the repository
says, or what a property of a passing run would say without its exception, and
end in a counterexample. They are kept with the project and run by hand
(`tlc -config X.cfg M`):

* `AcpEvictRace.cfg` (`MCAcpControlPlane`, `ReusedHandleExists`) - `evictIdle`
  awaits the close of a handle that is no longer cached; the session, re-opened
  meanwhile, is deleted by that close, and the next call reuses a handle whose
  session the runtime does not know ("Ensure runtime handle exists",
  `runtime-cache-manager.ts:66`).
* `AcpRunningLeft.cfg` (`MCAcpControlPlane`, `RunningIsNeverLeft`) - the entry says
  "running" before the index is written; when that write fails the turn throws
  before its `try`, and nothing replaces the state (`turn-manager.ts:50`,
  `session-store.ts:84`, `188`). The next turn of the session does.
* `AcpStoreOverlap.cfg` (`MCAcpSessionStore`, `SavedSessionsPersist`) - two saves
  write the same file, or two first calls load it; the older content can win
  (`session-store.test.ts:202`).
* `GatewayLockExclusion.cfg` (`MCGatewayLock`, `ExclusiveHolder`) - a gateway holds
  the lock while its channels start, before it listens; a second one finds the
  port free, takes that for a dead owner, and both run (`lock.ts:2`).
* `GatewayStatusWrong.cfg` (`MCGatewayLock`, `OwnerInServiceIsSeen`) - the gateway was
  given a port on its command line and the command has the one of the configuration;
  the owner it read serves, nobody answers where it asks, and it removes the lock
  ("Try to acquire lock - if successful, gateway is not running",
  `cli/commands/gateway/status.ts:23`; `lock.ts:55-74`, `127-131`).
* `CronUnscheduled.cfg` (`CronService`, `EnabledJobsFire`) - a job is saved with a
  time zone that node-cron refuses, `schedule()` throws, and the job stays enabled
  without a timer; if the file's schema takes the zone, the next start throws at it
  and the gateway exits (`cron/service.ts:122`, `194`, `422`, `432`;
  `validation.ts:108`, `120`).
* `CronOverlap.cfg` (`CronService`, `NoOverlap`) - a timeout or a cancellation
  unregisters the execution, not the work; the next tick starts the job's work
  again beside it (`cron/service.ts:448`).
* `CronStopFlush.cfg` (`CronService`, `StopFlushes`) - a change made during a
  write is marked written by it, and the flush in `stop()` has nothing to do
  (`cron/service.ts:396`).
* `OutboundRestart.cfg` (`Outbound`, `KeptThroughRestarts`) - a gateway restarts in
  its process with a send under way, and the old store writes its own list over the
  entries of the new gateway (`gateway/service.ts:307`, `run-loop.ts:58`,
  `persist-store.ts:40`).
* `AgentTurnTorn.cfg` (`MCAgentTurn`, `HistoryAlwaysKept`) - a crash or a failing write
  after the file was cut leaves a transcript that reads as an empty session, and the
  run's last save makes it so (`session/store.ts:780`, `672-690`).
* `AgentMessageSurvives.cfg` (`MCAgentTurn`, `MessageSurvives`) - when every model
  fails, or the abort comes before the turn, the early-saved user message is
  stripped on load and not written back ("to ensure message survives page
  refresh", `gateway/service.ts:935`).
* `DraftSkipped.cfg` (`MCDraftStream`, `SkippedWasShown`) - an edit fails, the
  stream stops, and because the preview message exists the final reply is
  skipped; the chat keeps an older text ("the final outbound text was already
  shown via streaming", `channels/plugin-types.ts:376`). `ReplyOnce` of the
  passing run is therefore about streams that did not give up.
* `DraftWiped.cfg` (`MCDraftStream`, `RunningSkippedWasShown`) - the same of a stream
  that did not give up: a tool event, of this session or another, hands it an empty
  text while the last one waits, and the reply is skipped
  (`feedback-coordinator.ts:107`, `agent/service.ts:828`, `1366`).
* `InboxMissed.cfg` (`MCAgentInbox`, `WatchedIsHandled`) - a file is read before
  its content is there, the loop gives up, and the content brings no event; or a
  file appears between the first loop's last listing and the watcher. The message
  stays until another name comes or goes ("Watch for new messages",
  `agent/ipc/inbox.ts:114`). A file that is never filled stops every later loop,
  because it is the oldest.
* `AnswerMissed.cfg` (`MCAgentInbox`, `TimedOutIsUnanswered`) - the answer is handed
  over after the task's file is there and before `enqueue` has returned, when
  nobody is registered for it; it goes to the general handler, and the request
  times out ("Send a task and wait for response", `agent/ipc/bus.ts:117`).

Seen while modelling, and in the models as the code has them:

* An abort of a web run saves at once, so a partial answer still being appended
  may be missing (`gateway/service.ts:510` promises it); an attempt that is
  aborted and then times out is followed by the next model (`llm-turn-retry.ts:47`
  says it should not be); an attempt that timed out looks at the next model's
  messages and may retry on them; two web runs of one session share the Agent.
* An attachment that cannot be prepared (`gateway/service.ts:571`) throws past the
  handler that completes the run: its resumed readers wait for ever, and its
  abort controller stays.
* `stop()` of the channel manager cancels no scheduled restart, so a plugin can
  come up after it; it skips plugins whose init failed, which `start()` starts;
  `start()` also starts those stopped by hand. The soft restart asks
  `manuallyStopped` only before its await. A soft restart whose stop throws
  leaves the channel without a heartbeat. A restart that succeeds does not reset
  the attempts. No plugin of the repository has a heartbeat adapter yet.
* `/abort` goes through the same serial inbound loop as the turn it
  should abort (`agent/service.ts:491`), so `StreamManager.abort` runs when it is
  over. A first send whose answer is lost leaves a preview nobody knows.

### Fairness

Safety needs none. For liveness: an operation that was started settles, file
operations end, timers fire, hooks and channel adapters return or throw. Nobody
is obliged to call, to publish, to stop or to restart. In `CronService` only
timeouts are fair, since an agent turn may hang; in `GatewayLock` only the
acquire loop. `HeartbeatWake` assumes that the coalescing timer fires
eventually: each request starts it anew, so requests that always follow each
other within 250 ms would starve it, and nothing in the program produces those.
It also assumes that an agent turn ends, as the heartbeat sets no timeout.
`AgentTurn` has one weak fairness condition on everything the process does by
itself: promises and file operations settle, timers fire, an aborted stream ends;
that a model answers is not among it. In `AgentRunRelay` a subscriber goes on and
its connection takes what it is sent; nobody must publish. In `ChannelLifecycle`
timers fire and a plugin's start ends; in `DraftStream` API calls are answered or
time out, since grammY gives a request up after a while.

## The proofs

`SessionActorQueueProofs` proves `TypeOK`, `MutualExclusion` and `BusyActorsRun`
for any keys and calls. None is inductive: that a settling call starts another
one safely depends on what `pending` holds. The invariant `IInv` adds that an
actor in the map is running (`ActorsRun`), that every unsettled call has an actor
(`UnsettledHaveActor`), and that `pending` lists exactly the queued calls of its
key, each once (`PendingAreQueued`, `PendingOnce`, `QueuedArePending`). One lemma
per way of a step: a call that queues or starts, a settlement that starts the
next or deletes the actor. The one assumption is `KeyOfAssumption`.

The same module proves the safety half of `ImplementsSerialCalls`, which the run
`actor_queue` checks: `Safe => Calls!Safe` (`ImplementsSafely`). Under
`IInv` the line of a key is its one running call followed by `pending`
(`LineNow`, `LineNext`), a step touches the line of one key only (`LineKept`,
`LinesChange`), `run()` appends to it whether it queues or starts the call, and a
settlement takes its head off whether `dequeue()` starts the next call or deletes
the actor. That every call returns needs fairness and stays with TLC.

`AcpControlPlaneProofs` proves `TypeOK`, `RegistryMatchesActor`, `RunningHasTurn`,
`CachedHasMeta` and `EvictionSparesTurns` for any sessions, calls and operations.
It does not prove the queue again. The manager touches its queue by `run()` and
by the end of an operation and by nothing else, so every behaviour of the
manager is one of `SessionActorQueue` (`UsesQueue`), whose theorems come in
through `INSTANCE`; from them the operations of one session never overlap
(`OperationsTakeTurns`). The steps then fall in two kinds (`StepCases`): those
outside the queue (eviction, the cancellation of a registered turn) touch
neither the registry nor the stored state (`OutsideMoves`), and those of a body
touch what belongs to its session (`BodyMoves`). The invariant follows one
operation along its labels: a waiting call has not begun (`WaitersWait`), from
the resolution to the cached handle its session has metadata (`EnsuredHasMeta`),
only turns register and mark (`OnlyTurnsMark`), and one that unwinds has replaced
the "running" it stored, whether or not the file took it (`UnwindingIsStored`). A
turn whose own write of "running" failed is at a label of its own on its way out
(`lost`), and its session in `left` from then on until a turn is under way again.
None of the checked properties is
inductive without these, because each is about a label the turn is at, and says
nothing of how it got there. `CachedHasMeta` is about every cached session, those
whose handle is being closed included.

`DurableFilesProofs` proves what the two components that keep a file promise of
it. For the ACP store, `NoSilentLoss` and `CleanIsWritten` hold of any number of
sessions, crashes and failing writes, and of any calls, however many at once; both
properties end where two calls are at the file together, as nothing keeps those of
different sessions apart and `AcpStoreOverlap.cfg` shows what comes of it. So
does the invariant: the types hold always, the rest until then
(`StoreIInv == StoreTyped /\ (~overlapped => Sound)`). Until then one call at most is in
progress (`OneCall`), beside which another may come and go without a write
(`BesideKeeps`). What may be found in memory, and in
the file while it is whole, is among what was promised (`MemoryIsPromised`,
`FileIsPromised`), a writer has the index in memory as its content
(`WriterHasIndex`) and a file being filled is torn (`FillerTearsFile`): these
two are what a write that fails half-way leaves to build on.

For the outbound path it proves `KeptUntilDecided`, `SentInOrder` and
`AckIsFinal` for any messages, starts, failing writes and hand-offs. The first
compares two copies that agree only at times: in every life the queue in memory
and the file each keep a message that was stored until it was delivered or given
up (`BothKeep`), so it does not matter which of them the next life begins with.
Restarts in the same process are among the steps. What they may spoil is bounded by
`OldIsExposed`: while a send of an earlier gateway is under way, every entry of
either store and of the file is exposed, so what its store writes over the file
takes none of the others; and what is not exposed is in memory and in the file
alike (`Lasting`).
Who sends a message is settled by where it stands (`SendsAreOwned`, `Fresh`): the
processor has the one it took off the bus, the replay has entries only, and an
entry of the replay waits in the file (`EntriesWait`). `BusOrder` says that
what was published is what was sent, the one under way, and the queue, in this
order. Each acknowledgement removes by value, which is harmless because an entry
occurs once (`OnceEach`, a lemma for each way the queue changes).

`TurnProofs` holds the heartbeat and the turn of the web chat (`TurnInit`,
`TurnSpec` are the turn's). Of the heartbeat it proves `TypeOK`, `OneAtATime`,
`PendingHasTimer` and `NoRepeat` for any requests, calls, configurations and
texts. `NoRepeat` compares with a text that is recorded only after publishing;
the strengthening `Memory` says that in between the one active call has it, which
is where `OneAtATime` enters.

Of the turn it proves `HistoryKept` and `OneTurnSaved` for any number of runs,
models, retries, crashes and failing saves, any bound on runs at a time and any
history that `sanitizeMessages` would let through. Both speak of the file, long after what
could spoil it happened in the Agent. `FileHeld` says what the file, and what the
generator is about to write, hold at each place of a run that is alone and none of
whose saves was torn (a torn one stays so, `TornStays`); while a save is under way
the file is cut, and what is to be in it is in the generator's `buf`.
`TurnHeld` says it of the Agent. There it is always the history `h` that was
loaded, then at most the question, then at most one answer (`Shapes`), but what is
allowed where depends on all three actors (`HoldsTurn`):

* An attempt that lost to its timer is not gone. It may stream on while the
  driver has rolled back to `h` and prompts the next model, so that an answer
  stands right after `h`, without its question. That takes a history without an
  answer: the driver looks at the last answer in the Agent, whoever gave it, and
  would take one in `h` for the attempt's own and end the turn. `before` is
  `Len(h)` all the same, and the next rollback cuts the leftover.
* Such an attempt looks at the last answer as well, and may retry on it. It
  strips the transient error at the end together with any aborted answer in
  front of it. In front of it stands the question, or an `h` without an answer:
  it never cuts into `h`.
* Without a timer and an abort there is one attempt at a time (`OneAttempt`),
  and the turn that is won ends with the question and the answer.

Beneath this, `Phases` relates generator, driver and attempts of every run:
attempts are made in the order of the models (`Untried`), and the attempt whose
stream runs has not left its place (`StreamOwned`). `Lonely` says that nothing of
another run is under way. One lemma per handler shows that it keeps `HoldsTurn`.
What the code computes from messages (`LastAssistant`, `Trim`, `Sanitize`,
`WithoutEarly`) is proved of sequences of any length; that ranks count up without
a gap (`Ranks`) and that a set of numbers has a least one (`LeastNumber`) come
from the well-foundedness of the naturals, in the form that needs no operator.

`GatewayProofs` holds two components of the gateway (`LockInit`, `LockSpec` are the
lock's). It proves `RemoveSparesServing` for any gateways and commands. A
contender may remove the file only after it read no owner, or found the owner's
port free or its pid dead. Which gateways it is owed the truth about is the
history `trusted`: those that were serving within reach of its probe when it found
the file, until they stop or leave the probe unanswered. The invariant ties that
to who holds the file: what is trusted serves within reach (`TrustedServe`), a
holder's file has its payload (`HeldIsWritten`), and a contender that trusts the
file's owner is on no way to the removal (`TrusterWaits`). Of a gateway on another
port or address it claims nothing, and `GatewayStatusWrong.cfg` shows why.

`CronServiceProofs` proves `EnabledJobsAreScheduled` and `RegisteredRunIsWorking`
for any jobs and any number of executions. The first follows each way in which a
job and its task are changed one after the other, `schedule()` throwing between
them included; at a start it rests on what `loadAllJobs` schedules
(`EnabledInIsScheduled`). The second needs that nothing runs while the service is down
(`DownIsQuiet`), and is proved in a form that names the one execution of an entry
(`EntryIsOneRun`) and carried over to the cardinality at the end.

Of the relay, `GatewayProofs` proves `SleepersAreUpToDate` and `StreamIsComplete` for any
readers, any limit and any length. The buffer is the first events of the run up
to the limit (`BufferIsPrefix`), nothing is published after the run is over
(`PumpMatchesRun`), and what a reader was given is the beginning of the buffer
(`ReaderHasPrefix`): who ends has read all there will ever be.

`ChannelLifecycleProofs` proves `HeldStaysDown` and `DownIsAttended` for any
channels, attempts and calls. A held channel has no start under way and none
begins (`HeldIsQuiet`); a wanted one has no stop under way (`WantedIsFree`); and
one with a heartbeat is attended even while it is up (`WantedIsAttended`),
because it may break at any time.

`MessagesProofs` holds the streamed reply and the inbox (`InboxInit`, `InboxSpec`
are the inbox's). It proves `NothingForgotten`, `ReplyOnce` and `ShownInOrder` for
any number of versions and any limits. The invariant follows a text from `update`
to the chat: the call in flight carries the last one sent (`LoopInv`), versions
are taken, sent and shown in order (`OrderInv`), the last one asked for is
pending or was sent last, if no progress wiped it (`TextInv`), the chat has a message exactly if its id is
known, but for the failures (`MessageInv`), and how far end and abort have come
(`ClosingInv`). `Pumped` is the one lemma about a run of the loop.

Of the inbox, `MessagesProofs` proves `Accounted` for any messages, requests and loops. Its
count of loops is not inductive as it stands, so the invariant says it without
numbers: two loops that carry the same message are one (`OneCarrier`), a carried
message is moved and neither handed over nor lost, the ends exclude each other
(`OneEnd`), and a moved message is in one of the three places
(`MovedIsSomewhere`). `IInvImpliesAccounted` turns this into the sum.

What stays with TLC: liveness and `ENABLED`, which the prover does not treat, so
what each run says must eventually happen; induction over data, such as what a
fold over an arbitrary sequence returns, as its induction theorems cannot be
instantiated with the installed backends. No module declares a RECURSIVE operator.

## What is not modelled

`PROJECT.json` gives the reason for each component. Within the modelled ones:
the observability counters of the ACP control plane; the socket transport of the
agent IPC and the pruning of its processed files; the spawning of a gateway's successor; the cron run log; the inbound turn
of a channel, whose orchestration is that of `AgentTurn` under a serial loop; the
draft transport of Telegram, which its adapter never asks for. Data is abstracted to what properties tell apart: a job's
schedule is a version number, a message is its identity, a transcript is empty
or not. A restart of the gateway in its process is in `Outbound` and `GatewayLock`, and not in
`CronService`, where the old service's executions and debounced write would go on
beside the new one, nor in `ChannelLifecycle`. Observed on the way and left without a property, because the
repository does not say otherwise: a message whose durable entry could not be
written is reported as failed and sent after the next start all the same;
messages waiting on the bus are in memory only; `stop()` of cron cancels jobs
before it waits for them; a heartbeat under way publishes to the target it began
with after a reload.

Of the session store (`src/session/store.ts`) loading and saving a transcript are in
`AgentTurn`. Its index was read and left out: nothing in the
repository says what calls that overlap may rely on, and the code does not keep
them apart. A model would show that concurrent deletions splice the index at
positions that are stale (589-616), that an index read while it is written is
rebuilt without names, tags and archive status (275-373), that two updates
through the cache by modification time lose one (315-329), and that archiving,
unarchiving and pinning race with a save of the same session (640-648,
1212-1264). The debouncer, the configuration reload and the rate limiters are
loops over a clock, private to one caller each.

## The plan

Done, in this order: the queue, its proof and its refinement proof, the control
plane, its store, the lock, cron, the outbound path, the heartbeat and its proof;
then the proofs of the lock and of cron, the agent's turn, and the relay, the
channels' life, the streamed reply and the inbox with their proofs; then the proofs
of the control plane, its store, the outbound path and the agent's turn. Left:

1. `LocalAcpRuntime`: the one `Agent` under all ACP sessions, each turn replacing
   its messages, prompting and saving; composed with the actor queue, which
   serialises per session only.
2. The inbound turn of a channel, composed of `AgentTurn`'s driver and
   `DraftStream`, with the serial loop in front of both.
3. An abstract transcript, to which a run that is alone adds one turn in one step,
   with `AgentTurn` shown to implement it; `OneTurnSaved` is what it would promise
   of each run, and what a torn save leaves would have to be said there too.
4. A restart in the same process in `CronService` and `ChannelLifecycle`, as in
   `Outbound`: what of the old service goes on beside the new one.
