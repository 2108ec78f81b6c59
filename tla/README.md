# Verification of the honeypot platform

TLA+ modules, TLC configurations and TLAPS proofs about this repository: a
honeypot platform whose sensors (Cowrie SSH, FTP, web, Dionaea, ...) report to
a central `ingest-api` and are controlled from it. The modules are translated
from the source; `PROJECT.json` names, for every definition, the lines it
models.

## The system

| component | where | state | operations |
|---|---|---|---|
| command delivery | `ingest-api/modules/sensor-control`, `sensors/_shared/control_agent.py` | `sensor_commands` rows; in-memory connection registry; one promise chain per WebSocket; the agent's dedup set and its WebSocket and poll threads | queue, replay, cancel, claim, send, poll, ack, running, result, expire |
| connection handshake | `sensor-control-ws.plugin.ts`, `sensor-connection-registry.ts` | socket, `registered`, hello deadline, ping timer, registry entry | verify, hello, replace, ping, close, cleanup |
| sensor configuration | `ingest-api/modules/sensors/sensor-config.*` | current config, version history, queued `config.apply` | save and queue, heartbeat confirmation, automatic rollback, operator rollback |
| config application on Cowrie | `sensors/cowrie/heartbeat.py`, `entrypoint.py` | config files, reload flag, hash file, the running Cowrie | apply (two threads), heartbeat, watch, restart, apply pending |
| response cache | `ingest-api/lib/cache-helper.ts`, `plugins/redis.ts` | entries in Redis; in memory the computations in flight, a slot counter and a queue of resolvers | read, serve stale and refresh, wait, compute, store, invalidate |
| threat alerts and protocol batches | `ingest-api/lib/threat-alerts.ts`, `protocol-batch.ts`, `cron.ts`, `main.ts`, `modules/web`, `modules/protocol` | queue of protocol hits, flushes under way; set of addresses to evaluate, a drain with its workers; cooldowns in a table | accept a hit, flush, schedule, drain, evaluate, claim, send, shut down |
| ingest and sessions | `ingest-api/modules/ingest`, `modules/sessions`, `modules/events`; `vector/conf.d/cowrie.toml` | one row per session, one per event; Vector's disk buffer | post a batch, upsert, close, create the event, answer, send again |
| log shippers | `sensors/opencanary/shipper.py`, `sensors/dionaea/shipper.py` | a log, an offset file, a position | look, read a line, post, save, restart |
| credentials and enrollment | `sensor-control-credential.*`, `control_agent.py` | one hashed secret per sensor; secret file on the sensor | issue, enroll, verify, persist |
| API defence | `ingest-api/plugins/defense.ts` | block cache, brute-force counters | count, block, refresh |
| retention, rollups, materialised views | `ingest-api/plugins` | tables | periodic jobs |
| protocol sensors, Kafka consumer and data lake | `sensors/*`, `ingest-api/plugins` | per-connection state | emulate, consume, copy |
| dashboard, docs site, deployment | `apps/dashboard`, `apps/docs`, `deploy`, `packer`, `vector`, `clickhouse` | none shared with the above but the REST API | rendering, packaging |

How they interact. An operator saves a configuration over REST; the server
writes the current row and a version, queues a `config.apply` command and tries
to deliver it. Delivery claims queued rows with a compare-and-set and hands
them to the sensor over its WebSocket or in the answer of its poll. The agent
reports back over the transport it got the command on. Cowrie's handler fetches
the current configuration, writes files and a reload flag; the container's
entrypoint notices the flag, stops Cowrie, and applies the files when the
container comes back. A heartbeat that carries the configuration's hash
completes the command and marks the version applied; two failures in a row make
the server roll back to the last version that was applied.

### What is hard, and what correctness means

Two halves. Remote control happens at a distance, over two transports, between
two processes that restart on their own, with every database call an `await` in
between. The data path runs from a log on a sensor through a shipper and the
ingest handlers into tables, and from there to alerts and to cached answers; it
retries what was not answered, and keeps queues, counters and promises in the
memory of one process that may be stopped.

* **Command delivery.** A WebSocket delivery, a poll and a cancellation race for
  one row; a report can overtake the write that makes it acceptable; the
  connection can go between the claim and the send; HTTP reports are retried
  or time out while the server is still handling them; both sides forget what
  they had in memory. *Correct:* rows move only along the transition table, a
  command is leased once, runs at most once and only after it was claimed, a
  report in its connection's promise chain is not refused for coming early
  unless a query failed, nothing stays queued while the sensor is connected, and
  everything ends.
* **Connection handshake.** Verification is awaited, so sockets can register in
  another order than they were opened; closing is asynchronous, so an old
  socket's cleanup runs after its successor registered; paths die silently; the
  dashboard mixes answers with events.
  *Correct:* the registry holds a live registered connection or none, never
  loses the open one, mute and dead connections end, the agent notices, the
  panel shows what the registry has.
* **Sensor configuration.** Saves, heartbeats, failures, checks and rollbacks
  are async functions whose queries interleave, each query may be rejected, and
  the server may restart between two of them. *Correct:* only confirmed
  configurations are marked applied, all of them are, rollbacks go only to those,
  and two failures in a row are answered; each as far as the code can.
* **Config application on Cowrie.** Two threads of one container write files
  that another container copies, with a flag between them and no lock.
  *Correct:* a reported hash names the files beside it, reloads are not lost,
  restarts end, what was saved runs in the end.
* **Response cache.** Requests for one key share a computation, computations of
  all keys share four slots, answers come from Redis later than they were asked
  for, and mutations invalidate in the middle of it. *Correct:* no slot is
  leaked and nobody waits while one is free, a request that comes after an
  invalidation does not get what was computed before it, what was invalidated
  does not come back, everybody is answered.
* **Threat alerts and protocol batches.** A hit is stored later than its address
  is scheduled; addresses are scheduled while a drain is under way; each alert
  is claimed, stored and sent in separate steps; a shutdown flushes what it
  finds. *Correct:* a stored hit is evaluated or its address still waits, one
  alert is sent per cooldown, evaluations stay bounded, a shutdown loses nothing
  that was queued before it.
* **Ingest and sessions.** Vector sends a batch again while the first attempt may
  still be running, batches overtake each other, and one event is several
  queries. *Correct:* what was answered is stored or reported, the close ends the
  session, a login is reported once, a stored event is scheduled.
* **Log shippers.** A position on disk, a log that is truncated, lines that are
  read half written or cannot be shipped at all; stops anywhere. *Correct:* what was passed over was
  accepted or lost in a known way, lines keep their order, nothing is posted
  more often than something failed, the shipper never gets stuck.

## The modules

Every component has a module, an `MC` module if it declares symmetry, one
`.cfg` per run, and a `...Proofs` module (`CommandDeliveryProofs`,
`SensorConfigProofs`, `CowrieReloadProofs`, `ConnectionRegistryProofs`,
`SwrCacheProofs`, `ThreatPipelineProofs`, `SessionIngestProofs`,
`LogShipperProofs`).

| module | models | order |
|---|---|---|
| `SensorCommandState` | the transition table of `sensor-command-state.ts` | 1 |
| `CommandLifecycle` | abstract: what delivery promises about one command | 2 |
| `CommandDelivery` | service, repository, WebSocket plugin, poll controller, agent | 3 |
| `SensorConfig` | `sensor-config.service.ts`; sees of a command only its status | 4 |
| `CowrieReload` | `heartbeat.py`, `entrypoint.py`; sees of a command only a job to apply | 5 |
| `ConnectionRegistry` | handshake, registry, ping timer, the agent's WebSocket thread, the panel | 6 |
| `ComputeSlots` | abstract: a fair semaphore | 7 |
| `SwrCache` | `cache-helper.ts` over Redis | 8 |
| `ThreatPipeline` | web and protocol ingest, `protocol-batch.ts`, `threat-alerts.ts`, `cron.ts`, `main.ts` | 9 |
| `SessionIngest` | Vector, the batch handler, `sessions` and `session_events` | 10 |
| `LogShipper` | the two `shipper.py`, with one constant-free switch between them | 11 |

`SensorCommandState` is extended by `CommandLifecycle`, `CommandDelivery` and
`SensorConfig`, so all three use the same table. `CommandDelivery` instantiates
`CommandLifecycle` and is shown to implement it. The other modules meet at
interfaces that are kept weak on purpose: in `SensorConfig` a command may move
along the table at any time (`Progress`, `Cancel`, `ResultFailed`,
`ExpirySweep`), which is what `CommandDelivery` is proved to allow and no more;
in `CowrieReload` a command is a job that may also never arrive (`LoseJob`).
`SwrCache` instantiates `ComputeSlots` with the set of running computations and
the queue of resolvers. `ThreatPipeline` sees the activity that `SessionIngest`
schedules only as `OtherActivity`; the shippers and Vector meet the API in posts
that succeed, fail, or succeed without an answer.

### CommandLifecycle and CommandDelivery

`CommandLifecycle` has the status of each command and how often its handler ran.
A command is created queued, moves along `CanTransition`, and runs once, while
its row says it was released to the sensor.

`CommandDelivery` has the rows (`status`; `elapsed` is the set of commands whose
TTL has passed), the in-memory `registry`, each `socket`, the promise `chain` of
each connection, a `worker` per delivery in progress (one for each connection's
hello, one for each REST request that delivers, one for the poll), the
`envelopes` in transit to the agent, the HTTP reports the agent is waiting for
(`posts`) and those it gave up on (`late`), and of the agent its `link`,
`_ws_connected` (`wsUp`), the dedup set (`seen`) and its two threads. `cutShort`
and `unrecorded` are history: deliveries that left rows behind, and commands one
of whose reports a failing query dropped.

| action | code |
|---|---|
| `Create`, `Replay`, `Cancel` | `queue…`, `replayCommand`, `cancelCommand` of the service |
| `GetConnection`, `Find`, `MarkSent`, `SendFrames`, `AnswerPoll`, `AbortDelivery` | `deliver` and `poll`, one step per `await`; a rejected query ends the delivery |
| `Hello`, `StartHelloDelivery`, `ChainStep` | the plugin's message handler and its per-connection chain |
| `PostStep`, `ReportTimeout` | `POST /sensors/control/report` and the agent's timeout on it |
| `ReportFails`, `PostFails`, `SweepFails` | a rejected query of a report or of the sweep: logged, the row stays as it was, the chain goes on |
| `SweepRead`, `SweepWrite` | `expireQueued`: select, then compare-and-set update |
| `HeartbeatConfirms` | `confirmConfigApply` (its details are in `SensorConfig`) |
| `Dispatch`, `SendAck`, `SendRunning`, `RunHandler`, `Forget` | `_dispatch` and the handlers of the agent |
| `PollRequest`, `PollTimeout`, `HelloAccepted`, `LinkDown` | the agent's two loops |
| `ServerCrash`, `AgentRestart` | everything in memory goes, the tables stay |

What is abstracted: a command is its position in creation order and whether it
is a `config.apply`; payloads, idempotency keys and timestamps are gone. Every
command's TTL may pass at any time. The agent's two threads rebuild `_seen` without
a lock: a `Dispatch` may drop from it anything the other thread could have put
there. (The rebuild may also raise, because the dictionary changes size under it,
which ends the thread it is in: a `LinkDown` after which the thread does nothing
more, or a poll thread that stops, and every thread here may stop.)

### SensorConfig

`current`, `versions` and `commands` are the three tables, rows in creation
order; `task[t]` is the program counter of one async function (an operator's
save or rollback, or the check that the failure of command `i` starts),
`beat[b]` that of one `confirmApplied`. Each action is one awaited query. Expiry
takes *any* pending commands, because each has its own TTL: the periodic
`ExpirySweep` starts a check for each, `RestExpires` and the `QueueExpires` of a
save start none, as the REST routes drop what they expired; nor does
`RejectedAck`. `BeatFails` and `TaskFails` are a rejected query: what is left of
the function is not done. Three variables are history. `calm`: since a command
last failed nothing has succeeded, was marked applied or was cancelled.
`overlooked`: no check followed the last failure, or a task was abandoned since.
`cut`: the configurations of which a confirmation was abandoned after its command
had succeeded.

### CowrieReload

`signal` is the volume shared by the two containers, `flag` and `hash` the files
`reload` and `cowrie.hash` on it, `updater[u]` a thread of the beacon with the
configuration it fetched, `entry` the program counter of `entrypoint.py`,
`active` the files in Cowrie's `etc`, `cowrie` those it was started with. Each
file operation is an action; truncating the hash file and writing it are two.
`orderly` is a history variable: every save so far, and every exit of Cowrie by
itself, came when the reload before it had settled.

### ConnectionRegistry

`phase[k]` is the server's end of the socket, `registered[k]` the handler's
local, `missed[k]` the number of ping intervals since `lastActivityAt`,
`toServer`/`toAgent` the frames on the wire in order, `cut[k]` that the path
silently drops everything. Connections are numbered in the order in which the
agent opened them. `Register`, `RejectHello`, `Pong`, `PeerClosed` are the
message and close listeners; `HelloDeadline`, `PingTimer` the timers;
`Cleanup` is what `close` and `error` run.

The panel is the one of the dashboard's sensor page. Mounting it asks
`control-status` (`Mount`), SSE events set it (`PanelReadsEvent`), and a
`sensor.connected` makes it ask again; each `fetch[q]` is a request whose answer is
computed at one moment (`ControlStatus`) and read at a later one, or fails. The
page's stream (`live`) opens before or after the panel is mounted, may break
(`StreamBreaks`), and is opened again without anything being asked for. `misled`
is history: an event was lost since the panel last read anything, or what it read
was overtaken, either an answer that an event has followed or the end of a
connection that had been replaced.

### SwrCache and ComputeSlots

A cached value is the version of the data it was computed from. `request[r]` is
the `withCache` call of `r` until it answers, `store[r]` its `store()`, which may
go on after the answer, `compute[r]` the computation it may have started
(`queued` or `running`, with `seen[r]` what its query has read), `inFlight` the
map of shared promises, `active` and `queue` the slot counter and the list of
resolvers. The calls on Redis' one connection take effect in the order in which
they are issued, so each takes effect where it is issued and its answer is a
step of its own (`Get` then `AnswerHit` or `Miss`; `ComputeDone` then
`SetReturns`). Of a value read from Redis only whether there was one matters
later. `quiet` and `cut` are history.

| action | code |
|---|---|
| `Get`, `AnswerHit`, `Miss`, `ColdWaitEnds`, `SetReturns` | `withCache` in its three forms and `store` |
| `StartStore`, `AcquireSlot`, `ReleaseSlot`, `EndCompute` | `computeOnce`, `runThrottled` and the two slot functions, inside those actions |
| `ReadData`, `ComputeDone`, `ComputeFails` | the query, its end or its failure, and what every `store()` that awaits it does next |
| `Change`, `Invalidate` | a mutation and its later `invalidate`; a mutation may also come without one |
| `Evict`, `Restart` | Redis' expiry; a new process with an old Redis |

Whether a value is fresh or stale is a choice at every read, so every refresh
that some `ttl` allows is explored.

### ThreatPipeline

`place[h]` is how far a hit has come, `flights` the `createMany` calls under
way, `pending` the set of addresses (a JavaScript `Set` iterates in insertion
order, hence a sequence), `batch` what the drain's workers have yet to take,
`job[s]` an evaluation of an address or the direct alert of a hit, `live` and
`sent` the cooldown table and what was sent under each key: a check and its
address, `canary:<ip>`, or `deception:<node>:<ip>`, where the address is that of the
session an internal hit fell in (`Origins`), so that hits of different addresses
race for one key. A hit on a trap is both scheduled and alerted at once; an
internal address is never scheduled. `settled`, `promised` and `wasted` are
history.

| action | code |
|---|---|
| `ProtocolEvent`, `InsertWebHit`, `WebHitInserted`, `OtherActivity` | the ingest handlers, from one `await` to the next |
| `Flush`, `FlushEnds` (and `Enqueue` at `MAX_SIZE`) | `flush` of `protocol-batch.ts` |
| `Drain`, `ReadHits`, `ReadFails` | the cron's tick, `drainThreatQueue`, the queries of `evaluateThreatAlert` |
| `Claim`, `ClaimFails`, `AttributionFails`, `Send`, `Expire` | `sendAlertOnce`, one step per query; an upsert that fails may have claimed the key |
| `Shutdown`, `Exit`, `Crash`, `Boot` | `main.ts` |

`runningThreatAlerts` is not a variable: the cron does not start a drain before
the last one has ended, so the set is empty whenever `drainThreatQueue` looks at
it. The queries of one evaluation run together and are read at one moment, on
the primary; which checks fire is a choice, their order too. A cooldown expires
only when no alert of its key is on its way (minutes against seconds). Web hits of
internal nodes, the bridge that copies them into protocol hits and the
sensor-health alerts are left out: they use `Enqueue` and `sendAlertOnce` as the
others do.

### SessionIngest

The events of one session are the positions of `Log`. `next` and `buffer` are
Vector's file position and disk buffer, `attempt[a]` a request that the API is
processing: the batch, the event in hand, the call it is about to make, whether
Vector still waits for the answer, `ipsToEvaluate` and `errors`. `row` and
`events` are the tables, of the row only what a later step reads or a property
is about. `Send`, `Resend` and `TimesOut` are Vector's; `Find`, `Upsert`,
`Classify`, `Update`, `Create` are the queries of `processLine`, `Fails` is any of
them rejecting with or without effect, `Answer` is the end of the handler, and
`Restart` stops the API. `classify` only writes a label that no step reads.

`internal` says whether the session comes from an internal address. Then every
event is looked up first (`Lookup`): the handler leaves out noise, which connects and
closes are, and anything off a trap node, and answers as for a duplicate
(`dropped`). Whether the sensor is a trap is a choice at each event, because the
answer is cached and the sensor's row may come later. What it keeps is `mirrored` as a
hit of the trap. `scheduled` are the events whose address was handed to
`scheduleThreatAlert`, which ignores internal ones: `ThreatPipeline` has that part. The
close of an internal session is noise, so its row never ends.

### LogShipper

`sensor` chooses between the two shippers, which differ in when they save:
OpenCanary's after the API has accepted the line, Dionaea's before it posts.
Positions count half lines, so a line can be read while it is being written.
`base` counts the lines that truncations removed. A save is two steps, `Clear`
and `Write`, because `open(..., "w")` empties the file first. `Boot`, `Start`,
`Look`, `Read`, `ReadEnd` are the tail loop; `Posted`, `PostFails` the answer;
`Stop` a stop of the container at any point; `WriteHalf` and `Truncate` the
honeypot and `logrotate`. `SaveFails` is an offset file that cannot be opened or
written: the position in memory has moved, and what Dionaea's shipper was about to
post it never posts. Some lines can never be shipped (`poison`: the mapping to an
event raises on them, or the API always refuses them). `Spoils` is the attempt: it
needs no fault and leaves OpenCanary's shipper where it was, for ever, while
Dionaea's goes on. `lost` records each way in which a line may be passed over
without having been accepted; `stale` and `outdated` say that the position of the
thread, or in the file, is one from before a truncation. A truncation happens at a line boundary;
Dionaea's lines yield one event each; Python's read-ahead is not modelled.

## The runs

Each run answers one question. "Bound" says what is limited; a bound is in the
guards of the module and named in its `CONSTANTS`.

| run | checks | shows | bounds |
|---|---|---|---|
| `transports` | `SingleLease`, `OnlyReleasedRun`, `ImplementsLifecycle`, `EveryCommandResolves` | a WebSocket and a poll race for one command with one crash, restart, HTTP timeout or failed query anywhere, and delivery still implements the abstract lifecycle and ends | 1 command, 1 connection, 1 REST request, both threads, 1 fault |
| `reconnects` | `SocketReportsLand`, `NothingStranded` | across two connections no report comes too early, but after one that a failing query dropped, and nothing stays queued while connected | 1 command, 2 connections, 1 fault |
| `applied` | `AppliedWasConfirmed`, `ConfirmedIsApplied`, `RollsBackToApplied`, `StreakAnswered` | applied, confirmed and rolled back to agree through every overlap, a rejected query and a restart; two failures in a row start a rollback unless no check followed the last | 2 configurations, 3 rows, 2 saves, 2 heartbeats, 1 fault |
| `streaks` | `FailuresAnswered` (violated) | two commands that a REST route expires are followed by no rollback | 1 configuration, 4 rows, 3 saves, no fault |
| `threads` | `SettledRunsConfig`, `HashNamesFiles`, `SavedConfigRuns`, `HashCatchesUp`, `RestartsEnd` | both threads with restarts and exits: a hash names its files and orderly saves are all run; hashes and restarts settle | 2 configurations, 2 saves, 1 fault |
| `registry` | `RegistryLive`, `OpenIsCurrent`, `PanelFollows` | everything that can happen to two connections, and to a panel that watches them | 2 connections, 2 faults of 4 kinds, 2 frames on the wire at a ping, 2 missed pings (as in the code), 2 status requests |
| `prompt` | `ServedEventually`, `AgentNotices`, `NothingLingers` | the sensor settles on one connection after its faults, dead paths among them; what is dead or mute ends | 5 connections, 2 faults, timers no faster than the network |
| `cache` | `SlotsExact`, `ImplementsSlots`, `WaitersSeeInvalidation`, `NoOldEntry`, `SharedComputes`, `EveryRequestAnswered` | the throttle is a fair semaphore; invalidation is seen and holds as far as it can; all are answered | 3 requests, 1 key, 1 slot (two requests may wait for it), 2 changes or restarts, 1 restart |
| `repopulated` | `NotRepopulated` (violated) | a refresh that read before the mutation stores after the invalidation | 2 requests, 1 change |
| `alerts` | `QueuesExact`, `NoHitForgotten`, `OneAlertPerCooldown`, `FlushedAtShutdown` | from hit to alert through flushes, drains, failures, a shutdown and a crash | 2 attackers and an internal address, 1 web hit and 2 hits on one trap, batches of 2, 1 worker, 1 stop |
| `sessions` | `AnsweredIsStored`, `CloseEndsSession`, `LoginReportedOnce`, `StoredIsScheduled`, `EveryEventAnswered` | a session, from outside or inside, survives overlapping attempts, lost answers, failing queries and restarts | 4 events, batches of 2, 2 attempts, 2 faults |
| `shipper` | `DoneIsAccounted`, `InOrder`, `RepeatsBounded`, `EveryLineDealtWith` | a log is shipped through stops, failed posts and saves and truncations, up to a line that cannot be shipped | 4 lines, 2 of which may be impossible to ship, 3 faults |

Why the bounds are enough. A race between two deliveries needs one row; the
second command matters only to `findDeliverable`'s limit. A replaced socket
needs two connections; more only repeat it. A rollback needs a confirmed
version, and a streak two failed rows after it: three rows. The rollback that
answers a streak then stops before its own row, the fourth, which is beyond the
bound, and an unanswered streak comes to rest without one; the theorem has no
bound. The two threads of the beacon need two
configurations to disagree. The cache needs a computation from before an
invalidation, one from after it, and a third request that finds a full slot or
joins. Two invalidations cut two computations off, so two resolvers wait for the
one slot and their order shows; two keys share nothing but the slots, and a queued
computation is the same whatever its key, so a burst over many keys waits as these
do. The pipeline needs a hit of an address that is being evaluated already (for other
activity), another address to wait behind it, one worker so that a batch is left
over, and two hits that claim one key at once: an attacker's on a trap, and one
from the node it reached. (No web hit replays a leaked credential in the run: its alert
would be one more that is sent at once, under a key of its own.) A session needs a login, a close and two batches in hand
at once; a second fault lets a retry fail too. The shipper needs a line
before and one after each fault, a line without an event, and one that may or may
not be impossible to ship.

Besides the constants, `CommandDelivery` has one expiry sweep and one poll in
progress at a time: the sweep's update is a compare-and-set per row, so a second
sweep that read the same rows changes nothing, and the agent has one poll
thread.

`CHECK_DEADLOCK FALSE` is in every cfg because the systems come to rest when the
bounds are used up.

### Fairness

* `CommandDelivery`: time passes (`Elapse`) and the plugin's 30-second interval
  keeps calling `expireQueued` (fairness of the sweep as a whole: `SweepRead` or
  `SweepWrite`). Nothing else: no
  message need arrive, no agent need answer.
* `CowrieReload`: `_config_loop` and a thread inside `_apply_config` go on, the
  entrypoint's loop runs, Docker restarts its container (`restart:
  unless-stopped`). The `config.apply` handler owes nothing: its command may be
  lost. No one need save.
* `ConnectionRegistry`: the credential query answers, timers fire, frames that
  are readable are read, a closing socket is destroyed by `ws`'s own close
  timeout, the agent's loop reconnects, TCP gives up on bytes that were never
  acknowledged. Faults owe nothing. `Prompt` (in the run of that name) says that
  a timer does not fire while a frame of its connection is still on the wire:
  the interval is 30 s, the network takes milliseconds.
* `SwrCache`: Redis answers or its client gives up, and a computation that holds
  a slot reads and ends, with a value or an error. Nothing is owed to one that
  waits for a slot: that it gets one is what `EveryRequestAnswered` shows.
* `SessionIngest`: a handler goes on, and Vector keeps sending new batches and
  those in its buffer (`retry_attempts = 360`). No answer need arrive: each
  one that is lost is a fault, and faults are bounded.
* `LogShipper`: Docker restarts the container and the loop goes on. The honeypot
  owes no line.
* `ThreatPipeline` is checked for safety only: nothing retries what it drops.

## The proofs

All for every value of the constants, under each module's named assumptions on
them, with no bound on states. Each module's type invariant is proved; it is not
listed among the runs' properties because it says nothing that the others do not
rest on.

* `CommandDeliveryProofs`. `IInv` is `TypeOK /\ Bookkeeping /\ SingleLease /\
  OnlyReleasedRun`: none of the last three is inductive alone. That a row is
  claimed once (`SingleLease`) needs that an envelope or a dispatch implies a
  released row (`OnlyReleasedRun`), so that no second claim is enabled; and
  both need that a delivery past `connectionRegistry.get()` has a connection
  and that a dispatch is of a command (`Bookkeeping`). With `ReadsLawful` (a report
  whose handling has read the row may write only what the table allows from the
  status it read) every step is shown to be a step of `CommandLifecycle` or a
  stutter.
  `NothingStranded` follows from `Covered`: while a connection is registered,
  hello's delivery is still to begin, or every row that could be delivered is in
  the hand of a delivery that has not yet looked, or that found it. Queueing and
  hello each keep it because a request's delivery starts after its row is there
  and hello's after the registry has its connection; `Fresh` (no hello, no chain)
  makes the rest of the handshake irrelevant.
  `SocketReportsLand` needs `OrderInv`, which follows the reports of one command as
  long as no query has dropped one of them (`unrecorded`). `Channel`: it has none before its row is claimed or while its message is on its
  way, and all of them go over HTTP or all to one connection's chain. `Orderly`: in
  that chain there is one `ack` and one `running` at most, neither after the row
  has passed it, what a row that was only sent would refuse comes behind an
  `ack`, and a transaction begun for the chain's head has read the row as it is
  or as it was before something else finished it. `AtWork`: a thread that
  is about to send `running` or a result has its `ack` in the chain, or recorded,
  or its socket is gone. So the head of a chain is always acceptable (`HeadLands`).
* `SensorConfigProofs`. `AppliedWasConfirmed` and `RollsBackToApplied` are
  strengthened by `BeatsLawful` (a heartbeat that is past `markResult` holds the
  hash of a succeeded command) and `TasksLawful` (a rollback that is past
  `findLastApplied` holds the hash of an applied version). They survive because
  tables only grow: `VersionsGrow` and `CommandsGrow` say that an applied
  version and a succeeded command stay so. `ConfirmedIsApplied` comes from
  `Carried`: the hash of every succeeded command is on an applied version, in the
  hand of a heartbeat that is about to mark one, or in `cut`.
  `StreakAnswered` is `Owed` at rest: a streak with something to fall back on, whose
  last failure was not `overlooked`, is always somebody's business, a pending command
  that will end or prolong it, or a check or a request under way. A check that ends
  without a rollback must therefore have found no streak, nothing to fall back on,
  or another command pending. No way in which the code lets a command fail is
  assumed away.
* `CowrieReloadProofs`. Types for any set of threads. `HashNamesFiles` from
  `AllWritten` (what a thread has written so far is what it fetched) and `Agreed`
  (if saves were orderly, every busy thread has fetched what is saved). For
  `SettledRunsConfig`, `SInv` adds where the saved configuration is on its way:
  complete on the volume when it is announced (`OnVolume`), partly in Cowrie's
  `etc` while the entrypoint copies (`Copying`), and running once its hash is out
  and no flag or restart is pending (`Delivered`); before the first save nothing
  is written at all (`Untouched`).
* `ConnectionRegistryProofs`. `RegistryInv` is `RegistryLive`, `OpenIsCurrent`
  and that only sockets that were verified are `registered`. `PanelFollows` from
  `PanelInv`: the last event on its way says what the registry has, so does an answer
  that is still fresh, and so does a panel that has read everything and is not
  `misled`.
* `SwrCacheProofs`, in four layers. `Base`: a request awaits, computes or holds
  what its program counter says, so that the counter of slots and the queue of
  resolvers are exact (`SlotsExact`); every step of the throttle is one of three
  kinds (`SlotStep`), each of which is a step of `ComputeSlots`. `Fresh`: a
  computation has read nothing older than `quiet`, so nothing older can be
  stored (`NoOldEntry`). `Served`: what is in `inFlight` is pending and is for
  that key, and an invalidation takes it out, so a request joins only what began
  after the last one (`WaitersSeeInvalidation`). `PutAside`: a computation that is
  not in flight was put aside by an invalidation of its own, and each mutation
  invalidates once (`SharedComputes`).
* `LogShipperProofs`. Every line before a position is accepted, lost in a known
  way or in hand (`AllAccounted`), for the saved position as for the one in
  memory; `Hands`, `Places` and `InHand` say which lines the thread has in hand at
  each step. `RepeatsBounded` splits: Dionaea's position is always past what was
  accepted (`Once`), OpenCanary's goes back once for each fault (`Repeats`).
* `SessionIngestProofs`. `Sound(a)` says of one handler what it has done with the
  events before the one in hand. A step of one handler leaves the others sound
  because the tables only grow (`Grows`); that gives `AnsweredIsStored`,
  `CloseEndsSession` and `StoredIsScheduled`. `LoginReportedOnce` counts: storing a
  login and reporting it is one step unless the handler was cut off, so the
  cardinalities of stored logins bound the reports from both sides.
* `ThreatPipelineProofs`. The places of hits agree with the batch, the flights and
  the jobs (`Places`, `JobsFit`); `KeysExact` takes a cooldown key by cases: free, or
  claimed by exactly one alert that was sent, is on its way or was lost
  (`OneAlertPerCooldown`); `Promises` says that the shutdown's own flush holds what
  it found in the queue (`FlushedAtShutdown`).

So every invariant of a passing run, and both refinements, are theorems. The
passing runs stay as the first test of each change and as the place where the
mutants bite.

Only model-checked: what rests on fairness (`EveryCommandResolves`,
`SavedConfigRuns`, `HashCatchesUp`, `RestartsEnd`, `NothingLingers`,
`ServedEventually`, `AgentNotices`, `EveryRequestAnswered`, `EveryEventAnswered`,
`EveryLineDealtWith`). Their proofs need `ENABLED` and induction over a measure of
what is left to do, and neither is in this prover's reach. Nor is `Prompt`, an
assumption about steps, used in any proof.

## Where the code and its documents disagree

`PROJECT.json` lists the two that a run demonstrates. One: `invalidate` promises that
"a refresh started just before the mutation can't repopulate" a key
(`cache-helper.ts:174-176`), but `store()` calls `cache.set` whatever happened in
between (`:124-129`). `NoOldEntry` says what does hold: nothing older comes back
if no computation had read the data already.

The other is `FailuresAnswered`: "Two consecutive config.apply failures (write error or
a heartbeat that never confirmed the new hash before TTL) trigger an automatic
rollback" (`sensor-config.service.ts:6-8`), but a REST request that expires commands
drops `expireQueued`'s result (`sensor-control.service.ts:287`, also 47, 81, 294), and
a negative ack makes a command fail without starting the check (`:222-236`).
`StreakAnswered` says what does hold.

Two more are known from the conditions of the properties:

* A reload flag written while the previous reload is being applied is removed
  with it (`entrypoint.py:72` against `heartbeat.py:226`), which is why
  `SettledRunsConfig` is about orderly saves.
* Over a path that dies silently the agent reads for ever and does not fall back
  to polling (`control_agent.py:233` against `:22-24`), which is why `AgentNotices` and
  `ServedEventually` leave out a dead path with nothing unacknowledged.

Others were met on the way. They are known limits of the properties above, and
why those carry their conditions:

* A sixth queued command waits for the next delivery, although the plugin says
  it delivers "any commands already queued"
  (`sensor-control-ws.plugin.ts:239`, limit in `sensor-control.repository.ts:162`):
  `cutShort` in `NothingStranded`. A later delivery that has room for all makes
  it FALSE again.
* A query that fails while a report is handled is logged and the chain goes on
  (`sensor-control-ws.plugin.ts:138-143`): the row stays where it was and the
  command's later reports are refused as too early: `unrecorded` in
  `SocketReportsLand`. The sweep expires it.
* `hasPendingConfigApply` is read before the rollback's command is inserted
  (`sensor-config.service.ts:74`): two checks started by one sweep both roll
  back, to the same applied configuration.
* `confirmApplied` finds its version by hash (`sensor-config.service.ts:62`), so
  a later save of the same content is marked instead.
* A late success of an older command can leave a streak unanswered: hence `calm`. A
  restart, or a rejected query, between `markResult` and `markStatus` leaves a
  confirmed version unmarked (`sensors.controller.ts:140-143`), and in a check a
  streak unanswered (`sensor-control-ws.plugin.ts:46`, `:125-128`), and nobody
  tries again: hence `cut` and `overlooked`.
* The two threads of the beacon can leave the hash of one configuration beside
  a file of another (`heartbeat.py:224`); if that hash is
  the current one, the poll loop has no reason to write the files again.
* The hash is on the volume before Cowrie is restarted, so a heartbeat can
  confirm a configuration that is not running yet (`heartbeat.py:230`).
* When verifications end in the opposite order, an abandoned socket's hello
  closes the connection in use (`sensor-connection-registry.ts:38`).
* The `sensor.disconnected` of a replaced socket follows the
  `sensor.connected` of its successor and the panel believes it
  (`sensor-control-panel.tsx:82`); it believes an answer to an old `control-status`
  as much (`:59`), and what it missed while its stream was broken it never asks for,
  although a comment says that the next event "will catch up" (`:61`): hence `misled`
  in `PanelFollows`.
* The batch handler answers 200 whatever failed (`ingest.controller.ts:162`), and
  Vector, which keeps only what was not answered, forgets the event although its
  own comment promises "no events dropped" (`vector/conf.d/cowrie.toml:3-6`):
  hence `reported` in `AnsweredIsStored`. An event from an internal address that is
  noise, or off a trap node, is left out on purpose, and counted like a duplicate
  (`ingest.service.ts:70-72`): hence `dropped`. A trap whose sensor row is not there yet
  loses its first events this way.
* A close handled before its session has a row does not end it
  (`session.repository.ts:42`), and a failed login that is replayed sets
  `loginSuccess` back to false (`:63`): hence `early` in `CloseEndsSession`.
* Hits accepted while the shutdown awaits its flush are lost (`main.ts:29`);
  `FlushedAtShutdown` is about those queued before. A flush that the timer had
  already begun is not awaited either.
* An evaluation that fails is not repeated (`threat-alerts.ts:475`), and one that
  reads before the flush of the hit that asked for it misses that hit
  (`protocol.controller.ts:68`): the exceptions named in `NoHitForgotten`.
* `resolveClientId` returns a promise from inside its `try`
  (`threat-alerts.ts:256`), so an error escapes and the alert whose cooldown was
  just claimed is silent until it expires.
* The saved offset 0 means both "none" and "the beginning"
  (`opencanary/shipper.py:319`): a restart after the log was empty, truncated, or
  in the middle of a save jumps to its end.
* OpenCanary's shipper tries a line that its mapping raises on, or that the API
  refuses, again for ever (`opencanary/shipper.py:383-394`), and ships nothing behind
  it: `Blocked` in `EveryLineDealtWith`.
* Dionaea's moves its position before it saves it, so a line whose save fails is
  never posted (`dionaea/shipper.py:368-370`).
* A last good configuration that fails is rolled back to again and again; the
  plan accepts that (`docs/plans/SENSOR_REMOTE_CONTROL.md:912-918`).

## Not modelled, and why

* Authorisation and validation of requests: no state. Credentials: one upsert per
  rotation; what a stale secret does is `Refused` in `ConnectionRegistry`.
* `defense.ts`: counters and a set that a timer replaces from a table; its one race
  is among the hazards.
* Deletion of a sensor; `_apply_config`'s file errors, which end the poll thread,
  and a read-only `etc`; version statuses `failed` and `rolled_back`, which nothing
  writes; jitter of timers.
* What the threat checks compute from the rows, the read replica's lag, web hits of
  internal nodes with the bridge that copies them, and the sensor-health alerts; single-event ingest, which is a batch of
  one; the columns of a session that no step reads back; Dionaea's upload watcher.
* The SQL of rollups, retention, statistics and views: its logic is in the queries.
  Kafka and the lake: another way into the same handlers.
* Protocol emulation: parsing per connection. Rendering, packaging and dashboards,
  which are most of the repository's lines, keep no state that is shared with the
  server except through its REST API.

## Plan

Done: the eleven modules above, and a proof of every safety property that their
runs check. What is left, most important first: a composition of `LogShipper`
with `ThreatPipeline`'s handlers that says which lines the API refuses; write
errors in `CowrieReload`; modules for credentials and for the API's defence.
