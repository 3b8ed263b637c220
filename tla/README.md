# A formal model of mempulse

TLA+ specifications of [mempulse](../src/README.md), a mempool-analysis node: what
its core components do, model-checked with TLC on small instances and, for most
of them, proved with TLAPS for every configuration.  Paths below
are relative to the repository root (`src/` here).  `PROJECT.json` maps every
definition to the lines it models.

## 1. The system

```
RPC WebSocket / devp2p -> runtime-core -> scheduler -> feature-engine -> searcher
                                |             ^              |
                                |             |              v
                                |        results        sim-engine -> builder
                                v
                 storage writer (queue, WAL, ClickHouse, read model)
                                |
                     replay, viz-api (HTTP, SSE) -> web-ui
```

| component | state | operations | interacts with |
|---|---|---|---|
| scheduler state (`crates/scheduler/src/lib.rs`, `SchedulerState`) | pending map, per-sender nonce queues, cached ready/blocked counts, candidate generations, head, counters | `admit`, `register_candidates`, `apply_simulation_result`, `invalidate_candidate_hash`, `advance_head` | called by the chain workers and the simulation worker under one write lock |
| scheduler actor (`SchedulerHandle`, `SchedulerRuntime`) | bounded command channel, oneshot replies | send, try-send, run | refuses work when the channel is full |
| rehydration (`from_persisted_snapshot`, viz-api bootstrap) | persisted snapshot, event tail | write snapshot, sanitise, restore | scheduler, storage |
| storage writer (`crates/storage/src/lib.rs`, `wal.rs`; sequencer in `crates/event-log`) | mpsc queue, sequence numbers, batch, segmented log, event ring and sorted index | enqueue, apply, flush, clear, recover, shutdown | ClickHouse over HTTP, disk |
| storage projections | seen, full, feature, lifecycle, opportunity and peer tables | upserts, eviction, queries | read by viz-api |
| builder assembly (`crates/builder/src/assembly.rs`) | active candidates, cached objective, counters | `insert`, `remove_candidate` | fed by the simulation worker |
| relay client (`crates/builder/src/relay_client.rs`) | consecutive failures, circuit deadline | submit with retries | relays over HTTP |
| live pipeline (`crates/runtime-core/src/live_rpc.rs`) | locals of the processing function, simulation queue | admit, write events, register, simulate, hand off | everything above |
| chain worker (same file) | endpoint, session, backlog, dedup memory | connect, receive, flush, fetch, rotate | RPC endpoints, live pipeline |
| ingest (`crates/ingest`) | bounded queues, duplicate filters, peer state | announce, fetch, drain | runtime-core |
| simulation service (`crates/runtime-core/src/lib.rs`, `live_rpc.rs`) | task queue, worker state, account cache, counters | enqueue, seed, simulate, time out, finish | chain workers, RPC node |
| feature-engine, searcher, sim-engine | none between calls | classify, rank, simulate | runtime-core |
| replay (`crates/replay`) | lifecycle per hash, checkpoints | apply event, diff | storage |
| viz-api | broadcast ring and cursor, rate limiter, providers | publish, subscribe, serve | web-ui |
| node-runtime | hooks, running flag | start, shutdown | process |
| web-ui | stream cursor, stores | connect, apply batch, render | viz-api |

What makes these parts correct, and what is hard about them:

* **Scheduler.** Two indexes (by hash and by sender and nonce), two cached totals and
  an outgoing stream of transitions are updated in separate statements on several
  paths of one method.  They have to agree after any sequence of arrivals; fees of a
  slot have to rise; a simulation result must be used at most once, and never after
  its candidate was registered again or invalidated.
* **Storage writer.** A flush fails, the process dies in the middle of an append or
  of a clear, and starts again on whatever the disk holds.  Order, numbering and
  durability are what has to survive.
* **Builder.** Bundles displace several candidates at once, decisions are made on
  cached saturating totals.  No transaction may be in the block twice, the gas limit
  has to hold of the exact sum, and displacement must not churn.
* **Live pipeline.** Several workers read and write the scheduler, the storage queue
  and the builder with awaits in between; queues that are full drop work half-way.
* **Scheduler actor.** Callers are cancelled and the runtime ends with commands in the
  channel.  Each command has to take effect once or never, and every caller has to learn
  which.
* **Rehydration.** The snapshot's watermark, its state and the event tail are read at
  different moments, while workers admit first and write events later.
* **Simulation service.** Workers on different blocks share one account cache, and the
  counters are moved before, after and beside the work they count.
* **Read model.** Bounded tables evict independently, indexes and caches follow by
  difference, and a long query takes the lock once per page.
* **Streams and relays.** A producer's scan, a replay window and a live channel meet at a
  cursor; a circuit's deadline is moved by submissions that began before it opened.

`PROJECT.json` lists the single hazards with the line at which each bites and the
properties that watch it.

## 2. Modules

| module | models | used by |
|---|---|---|
| `SenderQueue` | transactions and the nonce-gap classification that scheduler and replay share | `Scheduler`, `MempoolReplay` |
| `Scheduler` | `SchedulerState`, one action per outcome of each method | `MCScheduler`, `SchedulerProofs`, `SchedulerService`, `SchedulerActor`, `Rehydration`, `LivePipeline` |
| `MCScheduler` | seven transactions of two senders, and a bundle | run `admission` |
| `SchedulerProofs` | theorems about `Scheduler` | |
| `SchedulerService` | abstract: what the handle promises its callers | refined by `SchedulerActor` |
| `SchedulerActor` | `SchedulerHandle` and `SchedulerRuntime`: channel, replies, cancellation, end | `MCSchedulerActor`, `SchedulerRuntimeProofs` |
| `MCSchedulerActor` | two callers, two competing transactions, one candidate | run `actor` |
| `Rehydration` | snapshot writer, rehydration plan, reconstruction, replayed tail, restart | `MCRehydration`, `SchedulerRuntimeProofs` |
| `MCRehydration` | four transactions of one sender for TLC | run `rehydration` |
| `SchedulerRuntimeProofs` | theorems about `SchedulerActor` (the refinement, and what it inherits) and `Rehydration` | |
| `AssemblyEngine` | `AssemblyEngine::insert` and `remove_candidate` | `RelaySubmission`, `BuilderProofs` |
| `RelaySubmission` | submissions to a relay, shared health record, circuit breaker, with the engine | `MCRelaySubmission`, `BuilderProofs` |
| `MCRelaySubmission` | opportunities and simulations for TLC | run `assembly` |
| `BuilderProofs` | theorems about `AssemblyEngine` and `RelaySubmission` | |
| `StorageWriter` | writer task, WAL, sequencer, event ring, process lives | `MCStorageWriter`, `StorageWriterProofs` |
| `MCStorageWriter` | the order of three payloads for TLC | runs `writer`, `flush_error_loses` |
| `StorageWriterProofs` | theorems about `StorageWriter` | |
| `MempoolReplay` | `MempoolState` as a value, one operator per event, frames and checkpoints | `CheckpointReplay`, `LivePipeline`, `ReadModel` |
| `CheckpointReplay` | a full replay beside one resumed from a checkpoint | `MCCheckpointReplay`, `ReadSideProofs` |
| `MCCheckpointReplay` | one sender, three transactions, one block | run `checkpoint_replay` |
| `LivePipeline` | `Scheduler`, workers, log, simulation queue, hand-off and the replay of candidates composed | `MCLivePipeline`, `LivePipelineProofs` |
| `LivePipelineProofs` | theorems about `LivePipeline`, and what it inherits from `Scheduler` | |
| `MCLivePipeline` | five deployments for TLC | run `pipeline` |
| `SimulationService` | task queue, simulation workers, account cache, counters | `MCSimulationService`, `SimulationServiceProofs` |
| `SimulationServiceProofs` | theorems about `SimulationService` | |
| `MCSimulationService` | two requests over two accounts | run `simulation` |
| `ChainWorker` | pool rebuild, sessions, frames, rotation, deduplication, batches and retries of one chain | `FeedProofs`, run `chain` |
| `ReadModel` | hash-indexed tables, dashboard cache, transaction routes, range replay | `MCReadModel`, `ReadSideProofs` |
| `MCReadModel` | two hashes, and which writes and queries are considered together | run `read_model` |
| `ReadSideProofs` | theorems about `CheckpointReplay` and `ReadModel` | |
| `DashboardStream` | delta producer, broadcaster, replay window, one reconnecting subscriber | `FeedProofs`, run `stream` |
| `FeedProofs` | theorems about `ChainWorker` and `DashboardStream`, the two ends of the node | |

Operators whose comment begins with "Faulty" are not part of any specification.  Each
is a variant of the definition after it with a plausible mistake; substituting it must
make the property it is paired with in `PROJECT.json` fail.

### Scheduler

`pending` is the key set of the pending map, `sender_queues` maps sender and nonce to
a hash (None: no entry), `sender_queue_counts`, `ready_total` and `blocked_total` are
the caches, `candidates` is the candidate map, `metrics` the saturating counters.
`tasks` holds every simulation task ever handed out, so that a result can arrive late,
twice or never.  `observed`, `retired` and `superseded` are history: what a listener of
the queue transitions believes, what was replaced, which tasks may no longer count.

`admit` is five actions, one per early return.  `Place` is what its three successful
paths share: the slot, both maps, `refresh_sender_counts` and the transitions.  The
path for a slot whose hash is not pending (it skips the limit) is a case of
`AdmitNew`; `QueuesMatchPending` shows that it is never taken.  Nonce-gap
classification is given in closed form; the code's left-to-right scan is `QueueScan` in
`SenderQueue`, compared with it in every reachable queue and proved equal for all.  Member lists of
candidates are sets: the code compares them as lists, and lists of one candidate are
always built in the same order.  Transactions are constants (a hash determines what
was signed), with the five fields admission reads.

### SchedulerService and SchedulerActor

`SchedulerService` is the abstract specification: `open` commands, `answers`, and
`serving`.  A command is performed at once, at some moment between acceptance and answer;
the commands of one caller in their order; an answer "closed" means never.  There are no
queues in it, and callers are not ordered among one another.

`SchedulerActor` has what the code has: `ingress` is the mpsc channel, `replies` the
oneshots, `callers` where each caller stands: sending, measuring the queue depth, waiting
for its reply.  A caller that waits may be aborted; its command stays in the channel.  The
runtime may end with a channel that is not empty; what is in it then is dropped, which the
callers see as `QueueClosed`.  `ActorImplementsService == Service!ServiceSpec` is the
refinement, with the mapping in the `INSTANCE`: the open commands are those in the channel,
the answers are what the oneshots hold.

### Rehydration

Workers admit and write the events of their admissions later, as in `LivePipeline`; only
the kinds rehydration reads are kept.  The event ring evicts: `log` is every event written,
`evicted` how many of them the ring has lost, and the tail is what is left after the
watermark (`EventTail`).  Events of other kinds push the ring on too (`WriteOther`), so how
many of these it holds is left open.  `capture` is what the snapshot writer holds between
its three steps (`ReadWatermark`, `CaptureSnapshot`, `WriteSchedulerSnapshot`).

Snapshot and events live in an `InMemoryStorage`, in the memory of the process.  There are
therefore two ways to begin again.  `Restart` is `runtime_bootstrap_from_storage` on the
storage of the runtime before, which the library offers and the repository's tests do; the
shipped node never does.  `StartProcess` is `default_runtime_bootstrap`, what the shipped
node calls: the same on fresh storage, so nothing survives.
`Restart` is the whole bootstrap: the plan of `scheduler_rehydration_plan` with its pruning,
`from_persisted_snapshot` with its checks (all but DuplicateSenderNonce, which cannot
fail here: the queues of a snapshot are functions of the nonce, captured from a map), and
the replay of the tail; a failure anywhere sets `rebuild_scheduler_from_rpc`.  The tail is
replayed one transaction at a time
(`ReplayTransactions`), each one an `admit`.  The rebuild itself is in `ChainWorker`.
TxConfirmed and TxReorged are not written: no code of the live node produces them.

### StorageWriter

`phase` is where the task stands: idle in its select, waiting for the sink, clearing
the log, ended, or the process is down.  A queue entry is the number of an event in
order of acceptance, or `Upsert` for the ops that only touch projections.  The log is
a sequence of segments of lines.  `writeln!` issues two writes (record, newline), so an
append can leave a complete line, a record without newline, a torn record or nothing;
a line appended after an unterminated one is glued to it and does not decode.  Whether
a segment is full is nondeterministic, which covers every size.  `clear` removes one
file per step and may be interrupted.  `Start` recovers all or nothing, as
`recover_events` does, and does not put recovered events into a batch.  Recovered events
are sorted by id, and where ids are equal by source and hash (`SourceAndHash`): records
share an id when a log could not be recovered and the numbering began again on it.

`FlushFails` is an error or the client's timeout of five seconds.  The client no longer
waits then, and the writer goes on with the next batch, but the INSERT may still be under
way, also when the process dies with it: such batches are `unanswered`, and `LateInsert`
stores one at any later moment, or never.  ClickHouse stores the rows of one INSERT all or
none, which is assumed (they are one block).

Not in the model: data lost in the page cache on a power failure (nothing is ever
synced); the unsegmented base file, which this code reads but never writes; the
contents of the projections.

### AssemblyEngine

The vector of active candidates is a set, since only the template hash depends on its
order.  `Offers` is what `apply_builder_assembly_state_with_owner` can hand in: a
ranked opportunity with a simulation that has all its members.  Latency statistics and
the template's block hash are left out.

### RelaySubmission

`submit_relay_dry_run` borrows the engine until the submission ends, so `Insert` and
`Rollback` wait for it while other submissions go on beside it.  `health` is the record
all clones of the client share; its two deadlines are counted down by `Tick`.  A relay
accepts, or anything else happens (another status, a transport error, the timeout), which
is retried.  The JSON body and the HTTP
transport are not modelled.

### MempoolReplay and CheckpointReplay

The replayed state is a value: `txs` (None: no entry) and `sender_queues`.  An entry's
sender and nonce are either those of its transaction or unknown, which `placed` tells;
the block of a confirmed entry is kept beside its status.  Each `Apply...` operator is
one arm of `apply_event`, the trailing removal from the queue and the recomputation of
the sender's states included.  `FromCheckpoint` has the quirk of `from_checkpoint`: all
pending hashes get an entry without sender first, so the queue entries fill in nothing.

`CheckpointReplay` feeds the same events to a full replay and to one that continues from
a checkpoint taken at any moment.  Events are not restricted to logs a healthy node
writes: writes are dropped when the storage queue is full, and workers interleave.
`claimed` and `reorged` are history, for the properties that exclude such logs.

Both properties are theorems as well.  What an event does to the pending hashes and to the
slots that hold one depends on nothing else in the state: not on the entries of finished
transactions, not on whether the sender of a hash is known.  These are exactly what a
checkpoint keeps, so a resumed replay stays in step although it has lost the rest.  A
reorg is the exception: it reopens an entry that only the full replay has.

### LivePipeline

One `worker` record per concurrent caller of
`process_pending_hash_with_fetched_tx_with_owner`: a chain worker or a pending-pool
rebuild.  Its `pc` names the next thing it does that others can see:

| pc | step | code |
|---|---|---|
| idle | `ObserveFetched`, `ObserveRefused`, `ObserveUnfetched` | `admit_outcome`, or nothing when the fetch had no details |
| seen | `WriteSeen` | TxSeen, the row upserts and TxFetched |
| replaced, invalidate | `WriteReplaced`, `Invalidate` | TxReplaced, then `invalidate_candidate_hash` |
| decide | `WriteDecision` | TxDecoded or TxDropped |
| collect, context | `CollectExecutable`, `CollectContext` | two reads of the scheduler |
| transitions | `WriteTransition` | TxReady and TxBlocked, one at a time |
| register, queued | `Register`, `FindNothing`, `WriteQueued` | searcher, `register_candidates`, CandidateQueued |
| enqueue | `Enqueue` | simulation queue and SimDispatched, one task at a time |

`GiveUp` is the early return at a refused write (`StorageMayFill`) or command
(`SchedulerMayRefuse`).  Simulation workers take a task (`TakeTask`), settle its
candidates one by one (`SettleResult`, `DropStaleResult`, `FailResult`) and hand what was
accepted to the builder (`Deliver`).  `lifecycle` is the replay of the candidate events
(CandidateQueued, SimDispatched, SimCompleted, AssemblyDecision) by
`CandidateLifecycleState`, fed with the same writes as `replica`.
`shed` is history: the tasks that found the simulation queue full.
`Enqueue` sends a task and writes its SimDispatched in one step; the code has them in two,
and a simulation worker may write about the task in between.  Both orders give the same
replay: the candidate was entered by its CandidateQueued, SimDispatched only adds the block
number, and neither SimCompleted nor AssemblyDecision touches that.
The scheduler's part of every step is the action of `Scheduler`, conjoined.  The log
appears as `replica`, what `MempoolReplay` makes of the events written, as `lifecycle`, and
as `introduced`, the hashes with a TxSeen; whether an event in the queue survives a crash
is the business of `StorageWriter`.  What the searcher finds is any
set of candidates whose members became ready together; a candidate's id contains its
transaction's hash (`live_rpc.rs:2663`), so an id names one transaction.  The live runtime never calls
`advance_head`, so there is one block number.

A behaviour starts in one of the `Deployments`: who runs, what the network reports, and
whether anything is refused.  The properties say which deployments they are about.

### SimulationService

The queue, the workers and the cache behind the simulation queue of `LivePipeline`.  A
producer sends and counts in two steps, as `enqueue` does.  A worker takes a request, reads
the node's block, seeds the accounts of the senders (from the cache when an entry is for
its block and fresh, otherwise by two reads of the node: balance, then nonce), executes,
and finishes with one of four statuses; each read may time out or fail.  The node's head
only grows.  `RuntimeDropped` is the loss of the workers' runtime, which takes queue and
requests along; the next `enqueue` makes a new one, unless it was lost after `enqueue` had
looked (`SendClosed`).

### ChainWorker

`phase` follows `run_chain_worker`, `run_chain_pending_pool_rebuild` and `run_ws_session`:
asking a node for its pool, sleeping, connecting, reading, flushing, fetching, processing.
With `rebuild_only` the worker is the one-shot rebuild and ends in phase "done".  A frame
carries an announcement, which may be no hash and may be for another subscription, or
acknowledges a subscription.  `fetched` is what was decoded for each hash of the batch.
`seen_hashes` and `seen_order` outlive sessions, the rest is local to one.  An error
anywhere in a session is `Fail`: rotate, sleep, connect.  A close in good order is
`FinishSession`, which does not rotate.  `session_silence` is the code's clock,
`chain_silence` the time the chain has really been silent.  Processing a transaction is
one step here and the handler of `LivePipeline` there.

### ReadModel

A table is its rows, its counts per hash and its lookup of the newest row, as the code
keeps them; `PushRow` and `EvictOldest` change them by difference.  A write is one step
under the write lock, a query an operator evaluated in one state.  `RangeReplay` is the
exception: `StartCollection` and `CollectPage` take the lock once per page, and writes go
on in between.  `revision` and `cache` are the dashboard cache.  `feed` restricts which
writes and queries a behaviour has, since the tables of different queries are disjoint.

### DashboardStream

The producer ticks: scan after its cursor, look up the latest id when the scan was empty,
publish.  The broadcaster moves its watermark, appends to its window and sends to the channel in
three steps.  The
subscriber takes a snapshot (`Bootstrap`), subscribes in two steps, receives deltas,
resets and keepalives, and resumes from the id of the last frame when it reconnects.
A snapshot shows the newest transactions up to a limit (`tx_limit`, 250 by default and at
most 500, or what the storage keeps), here `SnapshotLimit`.  A reset does not bring one: the
subscriber asks for it and gets it later (`Resync`; `client.resync` is the id it is waiting
to be told up to).  The id of a keepalive, and of the reset after a lag, is read in a
step of its own, after the timeout fired or the receiver reported the lag ("beat", "lag"):
a delta may have been queued in between.  `Connect` reads the watermark together with the
window; a later reading would give the same reset a higher id, and the snapshot that
follows a reset is taken later still.
`excused` is history: transactions that went through one of the six windows described at
`MissedOnlyInWindows`.  `since`, in a delta, is history too: where its scan began.  A
delta that is missed takes along what was evicted before it (`Subject`), because the gap it
flags is missed with it; the proof of the property found that case, which a ring of
three events in the run had not reached.

## 3. What the runs check

| run | states | what it shows |
|---|---|---|
| `admission` | 165,440 | Seven transactions of two senders, in all orders and repeatedly, with a bundle registered, settled and invalidated in between: indexes, limit, totals, balance, transitions and the closed-form classifier against the code's scan; what was replaced stays out. |
| `actor` | 73,872 | Two callers that may be aborted and a runtime that may end: the actor implements `SchedulerService`, every call returns under fairness, superseded results are never accepted (two blocks, one candidate). |
| `assembly` | 193,923 | Five opportunities over three transactions, three simulations, two concurrent submissions: no shared transaction, no churn, a submission's template is the block with its exact gas within the limit, the circuit closes again. |
| `writer` | 644,521 | Three events over any number of process lives with sink errors, INSERTs that are stored long after they were given up, disk errors and crashes at every step: order, numbering, log and read model; under fairness, batches are flushed and shutdown completes. |
| `checkpoint_replay` | 116,879 | Two transactions at one nonce and a third behind a gap, every event in every order, a checkpoint anywhere: queues hold pending transactions only, states equal a fresh scan, a resumed replay has the right pending set. |
| `pipeline` | 767,214 | Five deployments.  One worker and nothing refused: the replayed log equals the scheduler's state, nothing replaced is handed off.  Nothing refused: hand-offs reach the builder, and candidates whose tasks were not shed settle.  Always: the replay shows no transaction that was not admitted and no candidate that was not queued. |
| `simulation` | 252,868 | Two producers, a queue of one, two workers, a head that moves: counters account for every request, no account older than the block, accepted requests finish. |
| `chain` | 24,276 | Rebuilds, sessions that fail or close at every step, foreign subscriptions, a memory of two for three hashes: nothing is processed twice; under fairness, a silent chain rotates unless a handshake hangs. |
| `rehydration` | 781,862 | A snapshot at any moment of two workers' admissions and writes, a restart on the same storage or a new process at any later one: stored admissions survive while the ring holds the tail, the restored scheduler is consistent, only pruning makes rehydration fail. |
| `read_model` | 443,532 | Any four writes: indexes and summary exact, cache never stale, routes agree, a range replay shows what `/replay` shows. |
| `stream` | 485,351 | Four events, ring, window, channel and snapshot that overflow, one reconnect: what a subscriber misses went through a named window, and everything else arrives. |
| `flush_error_loses` | violation | finding 1 |

### Bounds

* `admission`: the four nonces of the first sender allow a queue with one or two gaps
  and a gap that is closed from either side; the limit (3) is below the number of
  nonces, so that it is met; three transactions compete for nonce 0 with fees at,
  above and below the 10% bump.  Counters saturate at 6, so both sides of saturation
  occur.  Two generations: the candidates' own run is `actor`.
* `actor`: three commands and a channel of two, so that the channel is met full, a caller
  can be aborted with its command inside, and a candidate can be registered, settled or
  invalidated and registered again.  Generations are u64 in the code; the bound on them is
  above the number of commands and never met.
* `assembly`: a bundle that ties with what it displaces, one that wins, simulations
  that fail, that exceed the limit, and that lack a member.  U64Max = 7 makes the
  next gas total of a refused candidate saturate.  One retry, a circuit that opens at two
  failures, windows of one and two ticks: a submission outlives the opening of the circuit
  by another one.
* `writer`: a batch of 2, a ring of 2 and a queue of 2 with three events give
  full and partial batches, a full queue and evictions; the number of lives, flushes and
  faults is not bounded.  The third payload comes before the second in the order of source
  and hash, so that equal ids, reached through a log that could not be recovered, are
  reordered at a start.
* `checkpoint_replay`: replacement and gap need two nonces that are not adjacent; one
  sender is enough, since an event touches one sender's queue; one block separates the
  right block hash from none.
* `pipeline`: four transactions of one sender give a replacement (nonce 1), a gap
  that closes and a bundle that becomes ready at once; the deployments with two workers use
  the two competing transactions, or the first and the last, of which the first blocks the
  last again, so that one worker writes about the other's.  The first and
  the third deployment meet their simulation queue of one full.  `CounterMax` = 0 switches the scheduler's counters off (they are
  checked in `admission`).  `MaxGeneration` = 6 is never reached: a hash is admitted once
  and its candidates are registered once.
* `simulation`: two requests that share an account, two workers, two blocks and one lost
  runtime; a queue of one is met full.
* `chain`: the memory holds two of three hashes, so that eviction and re-announcement
  occur; two endpoints; a pool of up to two; the silence clock stops counting at the
  timeout.  A batch size of two is never filled (see the observations below).
* `rehydration`: four events of which up to two are evicted, one snapshot, one restart, any
  number of new processes, and admissions after them; four
  transactions of one sender at three nonces, two of them competing for the middle one.
* `read_model`: tables of two rows, three events, four writes, so that each table evicts
  a row of a hash that has another one; pages of one event and a scan bound of two.
* `stream`: four events, a ring of two, scans of two, pages of one, a window of two, a
  channel of one, snapshots of two transactions, two connections: each of them overflows.

`actor`, `read_model` and `simulation` have a bounded workload that comes to an end, and
are checked without deadlock; the others never stop.

### Fairness

`writer` assumes WF(Writer), because a tokio task that can proceed is scheduled and the
sink client gives up after five seconds (an error is an answer too); and WF(Tick),
because `tokio::select!` picks a ready branch at random and so does not starve the
ticker.  Producers, crashes and restarts are not fair.

`actor` assumes weak fairness of the runtime's step and of each caller's own next step:
tasks that can go on are polled.  Sending, aborting and the end of the runtime are not fair.

`assembly` assumes that a submission that was begun proceeds (the HTTP client has a
timeout) and that time passes.  Nobody has to begin one.

`chain` assumes weak fairness of the worker outside phase "connecting", because every read,
fetch and sleep has a timeout, and WF(Tick), because time passes.  Nothing is assumed of a
connection attempt: `connect_async` has no timeout, and a handshake that hangs holds the
worker; `SilentChainRotates` says so.  Announcements, closes and failures are not fair.

`stream` assumes that the producer's ticker goes on, that the server polls a stream whose
client reads and answers requests for snapshots, and that an EventSource reconnects by
itself.  Keepalives, disconnections and
events are not fair.

`simulation` assumes weak fairness of each simulation worker: a read of the node ends by
its timeout.  The node need not answer, and its head need not move.

`pipeline`, `rehydration` and `read_model` need none: what must have happened is stated of
states at rest, or of a step.

## 4. What is proved

The `...Proofs` modules are checked by TLAPS down to the last leaf.  They assume only
the named assumptions of the modules they extend, which TLC evaluates on every run whose
module extends those: `SchedulerAssumption`, `TransactionAssumption`, `ActorAssumption`,
`RehydrationAssumption`, `AssemblyAssumption`, `RelayAssumption`, `WriterAssumption`,
`SimulationAssumption`, `ChainWorkerAssumption`, `StreamAssumption`, `ReplayAssumption`,
`ReadModelAssumption`, `PipelineAssumption`.  They say what types the constants have, that None is none of the
values it stands beside, that capacities and limits are positive, that senders, producers,
workers, tasks and the hashes of the read model are finitely many (they are rows of a
configuration and requests of one process), that a bundle contains the transaction it is
named after, and that a candidate id names one transaction.

| theorem | says | argument |
|---|---|---|
| `TypeCorrect` | `Spec => []TypeOK` | inductive as it stands |
| `IndexesAgree` | `[]QueuesMatchPending` | with types; only `Place` changes the maps, and it changes one slot |
| `TotalsCorrect` | `[]TotalsMatchRecount` | the slots of one sender are split off the sums over all senders; saturation never bites because a sender's share is at most the total |
| `LimitHolds` | `[]SenderLimitHolds` | needs `QueuesMatchPending`: it excludes the path that skips the check and shows that a replacement opens no slot |
| `PoolBalances` | `[]PendingBalance` | needs finiteness of `pending`, and admitted >= replaced |
| `PoolIsAccounted` | `[]PoolAccounted` | the conjunction of the two before it, which `admission` checks |
| `FeesRise` | `[][...]_vars` of `SlotFeesRise` | arithmetic of ceiling division |
| `ReplacementIsFinal` | `[]ReplacedStayOut` | strengthened: every retired hash pays strictly less than its slot's holder |
| `StaleNeverAccepted` | `[]StaleResultsRejected` | strengthened by `GenerationsAhead`: the entry of a superseded task has a larger generation, and no task is ahead of its entry |
| `TransitionsSuffice` | `[]TransitionsTellAll` | needs `QueuesMatchPending`; an admission changes only slots of its own sender, and each one it classifies differently is named by a transition |
| `ClassifierIsScan` | `[]ClassifierMatchesScan` | induction over the nonces; `ScanCarries` says what the scan carries at each of them: the nonce after the ready run, and whether it has met an entry behind a gap |
| `ActorRefinesService` | `ActorSpec => ActorImplementsService` | step by step, with `ChannelOK` (tickets leave the channel in order, a command in it or not yet sent has no answer): a send is an accepted command, `RunCommand` the service's step, the end of the runtime its close |
| `ActorRunsScheduler` | `ActorSpec => Spec` | every step of the actor is a scheduler step or leaves the scheduler alone; so each theorem about `Scheduler` holds in the actor |
| `ActorRejectsStale` | `ActorSpec => []StaleResultsRejected` | from the theorem before it |
| `RehydratedIsConsistent` | `RehydrationSpec => []RehydratedPoolConsistent` | `ConsistencyInv`: the pool and every snapshot, captured or written, are sound (both indexes, limit, totals; frontier and ready slots correspond one to one); pruning a snapshot, restoring it and admitting the tail keep that |
| `SnapshotsAreAccepted` | `RehydrationSpec => OnlyPruningFails` | same invariant: the recorded frontier of a snapshot that nothing was pruned from is the one its pool has, so no check of `from_persisted_snapshot` can fail |
| `RestartsKeepPool` | `RehydrationSpec => RestartKeepsPool` (the ring holds the tail) | `LifeInv`: within one life, whether a stored transaction still stands or was shut out is not changed by later admissions; what is pending and stored is in the snapshot or in the tail, and what is pending is stored or about to be; admitted again in the tail's order they displace none of one another |
| `NoTransactionTwice` | `[]NoSharedTransaction` | strengthened by `NamedByMember`: each candidate contains the transaction in its id |
| `DisplacementPays` | `Spec => DisplacementRaisesScore` | the sum of scores of a set is split at the candidates removed and at the one inserted; the objective compared is of the same sums |
| `RelayRunsEngine` | `RelaySpec => Spec` | a submission only reads the engine, so each theorem about it holds beside concurrent submissions |
| `TemplateIsExact` | `[]TemplateIsTheBlock` | `EngineInv`: the exact gas of the block is within the limit, hence never saturates; `SubmissionsOK`: no insert or rollback between a template and the end of its submission |
| `DeliveredInOrder` | `Spec => SinkInOrder` (of steps) | strengthened by `DeliveryOrder`: an event moves from the queue through batch and flush to the sink, and what is further on was accepted earlier, over restarts too; `Stages` says which of them are empty in which phase; `UnansweredApart`: a batch given up shares no event with what is stored, with another one or with what is under way, so that a late INSERT stores nothing twice |
| `EventsAccounted` | `[]NothingUnaccounted` | with the same invariant: what a step takes from one place it puts into the next, or into `abandoned` |
| `LogOutlivesFlush` | `LoggedUntilDelivered` (of steps) | strengthened by `LogAccounted`: while the process lives each record is of an event in the batch, the flush, the sink or given up, and an intact log has no unended line that an append could spoil |
| `NumberingIsAhead` | `[]IdsAhead` | `LogInv`, `RingInv`, `ServedInv`: records in file order are in order of acceptance, those of an intact log have rising ids; recovery sorts them and continues after the largest |
| `LogIsServed` | `[]ReadModelCoversLog` | same invariant: the ring keeps the events with the largest ids, the index is the ring sorted, and an event leaves the ring only for later ones |
| `SeedsAreFresh` | `[]SeedsNotOlder` | strengthened by `FreshSeeds`: an entry of the shared cache is not older than the block it is filed under, and neither is what a worker holds between its two reads, since the head only grows |
| `CountersCorrect` | `[]CountersAccount` | strengthened by `RequestsOnce`: a request is at one place at a time; each step then moves cardinalities and counters by the same amounts |
| `AnnouncedOnce` | `Spec => ProcessedOnce` of `ChainWorker` | `DedupInv`: a flush follows every frame and has budget for it, so at most one announcement waits; the memory's order has no duplicates and names only what is remembered, so a new hash never pushes itself out; what is fetched is remembered and was not handled |
| `SubscriberMissesOnlyWindows` | `[]MissedOnlyInWindows` | `StreamInv`: the producer, the window, the frames copied and the deltas queued form a chain in which each one tells what is new since the one before, is flagged as a gap, or the difference is excused; what was sent is in that chain or told (`CaughtUp`).  `Covered` is what the subscriber knows, what is excused, and what a snapshot it waits for is due to tell (`Due`) |
| `ReplayKeepsQueues` | `[]ReplayedQueuesCorrect` | strengthened by `Good`: a queue holds nothing but pending hashes, in their own slots, and each of them has told its sender, so that a hash of unknown sender may change its status without a look at the queues |
| `ResumedInStep` | `[]ResumedPendingAgrees` | strengthened by `Agree`: the two replays have the same pending hash in every slot too; each event takes the same hash out of both (`TakesOut`) or puts the same one in and displaces the same one (`PutsIn`) |
| `IndexesStayExact` | `[]IndexesExact` | `TablesInv`: counts per hash are those of the rows and the lookup is of the newest row; pushing and evicting by difference keep it, as does the summary over the hashes |
| `CacheIsFresh` | `[]CacheNeverStale` | `CacheInv`: the cached revision is never ahead of the tables', and the view depends on nothing that a write changes without raising the revision |
| `PipelineTypeCorrect` | `PipelineSpec => []PipelineTypeOK` | inductive; `TasksKnown`: every task spec with a worker, in the queue or under simulation is one the scheduler made |
| `PipelineRunsScheduler` | `PipelineSpec => Spec` | every step is a scheduler step or leaves the scheduler alone: `TasksKnown` for results, and a worker on its way to an invalidation has a hash for it |
| `HandoffsDelivered` | `[]HandoffsReachBuilder` | inductive with types; no event takes a decision back, and a worker lets go of what it accepted only by delivering it |
| `ReplacedRejected` | `[]ReplacedNotHandedOff` | from `StaleNeverAccepted` through `PipelineRunsScheduler`, with `ReplacementsHeeded`: a task that is not superseded has no member whose replacement is done with, because what a lone worker registers is still pending and what it invalidates it supersedes |
| `ReplayIsFounded` | `[]ReplayInventsNothing` | `AdmittedInv`: what a worker is going to write names only admitted transactions, an event adds to the replay at most the one it names, and an admitted transaction has its TxSeen or a worker about to write it; `CandidatesInv`: a task is queued for simulation after its CandidateQueued |
| `ReplayIsExact` | `[]ReplayMatchesOnline` | `FollowInv`: at each place in the handler the replay is of the scheduler's queues but for what the lone worker still owes the log (`Follows`), and each event it writes pays a part of that |
| `CandidatesAreSettled` | `[]CandidatesSettle` | `SettleInv`: a task that is neither superseded nor shed is with a worker, in the queue or under simulation, and the scheduler would accept its result; one that is superseded is concluded: by a status in the log, a later registration or the replacement of a member |

`TypeCorrect`, `LimitHolds`, `PoolBalances` and `FeesRise` state formulas that no run lists:
the first is what the other proofs rest on, the next two are parts of `PoolAccounted`, and
the last is the step form of `ReplacedStayOut`.

Only model-checked:

* liveness (`EveryCallReturns`, `CircuitRecovers`, `ShutdownCompletes`, `BatchIsFlushed`,
  `SilentChainRotates`, `EventuallyTold`, `AcceptedFinish`): fairness is out of the
  provers' reach.  The refinement `ActorImplementsService` is of a specification without
  fairness;
* `RoutesAgree`: it compares filtered listings and folds over the log, whose operators
  (`SelectSeq`, `FoldLeft`) take an operator as a parameter and are opaque to the provers.

Induction over data is done with the property as a set: `NatSetInduction` and
`SubsetInduction` say that a set of numbers, or of finite sets, that is closed under one
more is everything.  Sums over sets, the recovery of a log, the queue scan and the replay of
a tail are proved with them.

## 5. Findings

1. **A failed flush is lost with the next successful one** (`flush_error_loses`).
   `flush_batch` takes the batch before sending it and drops it on an error.  The log
   survives the failure, and is cleared as a whole after the next batch.

What holds in spite of it is in `writer`: ClickHouse gets no event twice, and events in
order but for batches that were given up unanswered (`SinkInOrder`); as long as appends
succeed, records leave the log only once delivered,
except those whose flush failed or that a restart recovered (`LoggedUntilDelivered`); no
two events of memory and log share an id (`IdsAhead`).

### Observations

Behaviours of the code that the models exhibit and no run is kept for.  Where one is the
reason for a hypothesis of a property, the property is named.

Scheduler, actor and rehydration

* Two transactions with fee zero (or without fee fields) replace each other for ever,
  although rule 5 of `docs/decisions/2026-03-06-scheduler-replacement-policy.md` lets the
  incumbent win: `ReplacedStayOut` is for positive fees and a positive bump.
  In the tail of a snapshot such a pair is ambiguous, and a restart may lose a stored pending
  transaction (`OrdinaryFees` in `RestartKeepsPool`; TLC shows it when fee zero is allowed).
* `advance_head` only stores the number.  A head that leaves a block and returns makes
  results dispatched before acceptable again; `StaleResultsRejected` is about
  generations.  The live runtime never calls it.
* Without a snapshot a restart begins with an empty scheduler and asks for no rebuild,
  although the log has events (`snapshot # None` in `RestartKeepsPool`).
* The rehydration plan does not notice that the ring has lost events since the snapshot's
  watermark: the pool is rebuilt without them and no rebuild is asked for
  (`evicted` in `RestartKeepsPool`).
* Snapshots are written to the memory of the process.  A new process of the shipped node
  starts with fresh storage and no rebuild, whatever the one before had written.
* A transaction that the tail first decodes and then replaces is admitted again and has to
  be replaced again by the replay.  A replacement at a middle nonce in the tail leaves a
  snapshot whose recorded frontier no longer fits: the whole rehydration fails and the pool
  comes from RPC (`OnlyPruningFails`).
* After such a rebuild, a snapshot of the process before may bring back a transaction that
  the rebuild no longer had (`snapshot.life` in `RestartKeepsPool`).
* TxConfirmed and TxReorged have readers and no producer in the live node.

Pipeline, simulation and chain worker

* Admission and the events about it are separate steps: worker 1 admits h1, worker 2
  replaces it with h2 and writes first, and replay ends with h1 pending (`OneWorker` in
  `ReplayMatchesOnline`).
* A transaction's admission can change the state of another worker's transaction whose
  TxSeen is not written yet: a TxReady or TxBlocked stands in the log before the TxSeen, and
  replay makes an entry of it (`ReplayInventsNothing` says that it was admitted).
* A worker registers what it collected before another worker replaced and invalidated it:
  registration does not look at the pending map, and a replaced transaction is handed off
  (`OneWorker` in `ReplacedNotHandedOff`).
* A pending transaction that is seen again while the scheduler's channel is full is
  logged as dropped; a TxSeen refused by a full storage queue leaves the transaction
  admitted, and a later arrival writes its TxReady; a SimCompleted refused after the
  scheduler handed the candidate off means that the builder never gets it (`Reliable`).
* SimCompleted names a transaction and not a candidate: replay gives its status to every
  candidate of that transaction, and a later failure of one overwrites the "ok" of another.
  `CandidatesSettle` says that there is a status, not which.
* A full simulation queue sheds a task, and nothing settles its candidate then: the
  scheduler keeps the generation open and the log has no status (`CandidatesSettle` is for
  tasks that were not shed).
* A worker that takes a request before its producer has counted it subtracts from a depth
  of zero, which saturates, and the producer adds one afterwards: `queue_depth` then stays
  too high for good (`CountersAccount` says that it is never too low).  A request counted
  as under way when the workers' runtime is lost stays counted (`drops = 0`).
* A request whose channel closes between `runtime` and `try_send` fails with an error and is
  counted nowhere.
* The pool rebuild does not fill the sessions' dedup memory.  One transaction of the
  pending block that does not decode fails the rebuild from that endpoint; in a batch of
  hashes it would be skipped.
* Until a session knows its subscription id, announcements of any subscription are taken.
* A hash is remembered before it is fetched, and lost when the fetch fails.
* An endpoint that announces nothing and closes each session in good order before the
  timeout is never left (`closing` in `SilentChainRotates`).
* A connection attempt has no timeout: an endpoint that accepts the connection and never
  finishes the handshake holds the chain's worker for ever (the first disjunct of
  `SilentChainRotates`).
* A flush follows every frame and a frame announces one hash, so every fetch is for one
  hash, and batch size, flush interval and the batched request have no effect.

Storage, replay and API

* An INSERT that timed out may be stored after batches that were sent later: the order in
  ClickHouse is then not that of acceptance (`unanswered` in `SinkInOrder`).
* Events recovered at a start are served from memory but not batched again; the first
  flush clears them from the log (`abandoned` in `LoggedUntilDelivered`).
* One torn line makes the recovery of every earlier record fail, until a flush succeeds
  (`Recoverable` in `Start`; `ReadModelCoversLog` is for intact logs).
* After a log that could not be recovered the numbering starts again on it, and records may
  share an id; a later start that does recover sorts them by source and hash.  Index and ring
  then hold the same events in different orders.
* A clean shutdown empties the log, and the numbering starts at 1 again over what
  ClickHouse has stored: `IdsAhead` is about the log and memory of one life, and the order
  of `SinkInOrder` is that of acceptance.
* A resumed replay has lost the senders of what the checkpoint held: nonce 0 is in the
  checkpoint, nonce 2 is decoded, nonce 0 is dropped; the full replay shows nonce 2 as
  ready, the resumed one as blocked.  A TxReorged of a transaction confirmed before the
  checkpoint is ignored.  `ResumedPendingAgrees` is about the pending set, without reorgs.
* A range replay whose pages lose events to eviction in between shows a range with a
  silent gap, or none (`collection.oldest` in `RoutesAgree`).  MAX_SCAN_EVENTS (200,000)
  is below the event capacity (250,000), so the end of a full log is not reached from its beginning.
* `/features` and the dashboard's snapshot count feature rows (`build_feature_summary`); the
  storage's own `dashboard_feature_summary`, which only tests call, counts hashes.  The list
  route shows no status once the lifecycle row is evicted, where the by-hash route looks
  into the log.  The chain filter of `/transactions` needs a `tx_seen` row.
* A stream subscriber can miss a transaction in six ways, and only these
  (`MissedOnlyInWindows`).

Builder and relay

* Scores saturate in the cached total, so two saturated blocks compare as equal;
  `DisplacementRaisesScore` is about the exact sums.
* The downweighted window is written and never read; deadlines use the wall clock; a
  submission checks the circuit once and not before its retries.
  `RelayDryRunStatus::record` and `remove_candidate` have no caller in the runtime, so a
  candidate of a replaced transaction stays in the block.

One fact about the shipped node that no run is about: viz-api starts the writer with
`StorageWriterConfig::default()` (`crates/viz-api/src/lib.rs:1448`), whose `wal_path` is
None, so the log is off although `README.md` says that events are persisted to it.

## 6. Plan

Done: every module of section 2, with theorems about every component.

Next:

1. A theorem for `RoutesAgree` of `ReadModel`: the pages of a range replay are a part of the
   log, and the frames from a checkpoint agree by `ResumedInStep`.
2. The API's rate limiter, and the peer statistics of the storage.
3. Larger instances: two senders in `rehydration`, two subscribers in `stream`.

### Not modelled

* **feature-engine, searcher, sim-engine.**  Pure functions or EVM execution; the models
  take any result of theirs.
* **ingest.**  A second path (p2p and RPC services with filters of their own) that the
  shipped node does not start, most of it RLP and wire decoding.
* **storage backfill and ClickHouse schema.**  One pure pass over a sorted batch without a
  caller in the node; constant SQL.
* **node-runtime.**  Hooks called once each in sequence.
* **web-ui.**  Rendering and stores; its reconnecting EventSource is the subscriber of
  `DashboardStream`.
* **bench, common.**  No protocol of their own.
* Inside the modelled parts: event contents, status views, configuration, metrics text,
  alert thresholds, propagation edges, API keys and the rate limiter, cache eviction by
  size, checkpoint hashes and parity percentages, the replay command line.
