# A verification project for the agentzero gateway

TLA+ models of the concurrent core of this repository, checked with TLC and, where a
property is worth having for every size of the system, proved with TLAPS. Paths below are
relative to the repository's root (`src/` here); `PROJECT.json` maps every definition to the
lines it stands for.

1. [The system](#1-the-system)
2. [The modules](#2-the-modules)
3. [The runs](#3-the-runs)
4. [The proofs](#4-the-proofs)
5. [Findings](#5-findings)
6. [What is not modelled](#6-what-is-not-modelled)
7. [Plan](#7-plan)

## 1. The system

The gateway is a daemon that runs LLM agents on behalf of users. A message opens or continues
a *session*; its *root* agent works in turns and may *delegate* tasks to subagents, each an
execution with a task of its own. A continuation takes the root up again when its subagents
are done. Besides, durable *work items* (peer messages, agent-to-agent tasks) wait in a SQLite
table for *workers* that lease them. Plugins at the other end of a *bridge* receive messages
through an outbox. Everything is asynchronous Rust (tokio tasks, channels, semaphores) over one
SQLite file whose statements are mostly not grouped in transactions.

### Inventory

| Component | State it keeps | Operations | What makes it hard | What makes it correct |
|---|---|---|---|---|
| Durable work store, `services/execution-state/src/work.rs` | table `durable_work_items`: status, attempts, lease owner, token and expiry, times | `enqueue`, `claim_next`, `renew_lease`, `complete`, `fail`, `cancel_scoped`, `recover_expired` | the caller's clock is read before the connection is had; holders that come back late; budgets; dedupe; rows edited from outside | a lease protects its item; one verdict per lease; no item stranded; outcomes never revised |
| Claim fence, `WorkClaimCancellation` in the same file | flag, commit gate (RwLock), map of interrupt handles | `signal`, `settle`, `register_interrupt`, `commit_if_active` | flag, map and gate are separate accesses that cross a shutdown | after `settle` no claim leases anything; shutdown and claims terminate |
| Work worker, `gateway/gateway-bus/src/worker.rs` | phase of the loop, tasks in flight, their timers, how far a shutdown is | claim loop, heartbeat, renewal, report, drain, abort | a handler outlives its lease; renewals are late or refused; a call goes on after its caller has given up; shutdown drops claims | a handler runs only under its lease, alone on its item; nobody sleeps over work |
| Session and execution state, `services/execution-state/src/service.rs`, `repository.rs` | `sessions` (status, `pending_delegations`, `continuation_needed`), `agent_executions` | register and complete delegations, complete, crash, cancel, reactivate | reads and writes are separate statements | the count is exact; completed means done |
| Delegation and continuation, `gateway/gateway-execution/src/delegation`, `runner`, `lifecycle.rs` | delegation registry, handles, event bus, the tasks themselves | delegate, spawn, report, count off, continue, stop, fail | children end together, fail early, are killed, outlive their turn; messages arrive at any moment | results are there when a continuation starts; one turn at a time; what was asked for happens |
| Delegation dispatcher, `runner/delegation_dispatcher.rs`, `runner/exec_ctx.rs` | request channel, active sessions, queues, done channel, semaphore, ward locks | receive, dispatch, finish | parallel and sequential requests share the done channel; permits held while waiting for permits | cap, order, nothing left behind, everything ends |
| Agent result bus and tools, `agent_pool/result_bus.rs`, `tools/wait_agent.rs`, `tools/kill_agent.rs` | waiters by execution | register, resolve, reject | the row is read before the waiter is registered | an answer reaches its waiter |
| Bridge, `gateway/gateway-bridge/src`: `outbox.rs`, `push.rs`, `registry.rs`, `handler.rs` | table `bridge_outbox`, registry entry per adapter, WebSocket sessions, lists being pushed | insert, mark, reset, push, retry, replay, ack, fail, register, unregister | no UPDATE looks at the status it overwrites; lists are stale when pushed; connections and server fail between mark, send and ack | at least once; what is acknowledged is left alone; an item in flight is brought back |
| Plugins, `plugin_manager.rs`, `stdio_plugin.rs` | entry per plugin (state, task handle), the run's own task and process | start, stop, restart, handshake, cleanup | state, handle, task and registry are written at different times by different tasks | one run serves, and it is the one in the registry |
| Start-up recovery and checkpoints, `service.rs`, `handle.rs` | the same rows after a crash | mark running as paused or crashed | counters and flags are not reset with the statuses | no session waits for a task that is gone |
| Ingest queue, `gateway-execution/src/ingest`, `gateway/src/http/ingest.rs`, `stores/zbot-engram-adapter/src/stores/sidecars.rs` | table `kg_episodes`, wake-up channel | upsert, set payload, claim, mark done or failed, notify | claim and upsert are two statements each; recorders share the table; a wake-up without a permit | an episode is worked on by one worker, fetched, and not left running |
| Peer messaging, `peer_messaging.rs` | rides on the work store | send, deliver | redelivery | a message takes effect once |
| Event bus and websocket server | broadcast channel, subscriptions | publish, forward | a lagging receiver loses events | ordering per session |

The rest of the repository (HTTP, A2A, cron, connectors, hooks, the agents' executor and tools,
memory and knowledge, logs, the other stores, UI, CLI, plugins) is listed with its reason in
`PROJECT.json` under `components`.

### How they interact

- A turn's `delegate` tool writes the child's execution row, adds one to `pending_delegations`
  and sends a request over an unbounded channel to the dispatcher.
- The dispatcher takes a permit (and a ward lock) and calls `spawn_delegated_agent`, which
  starts the child's task and hands it the permit. The child ends by writing its row, storing
  a message for the parent, and calling `complete_delegation`; if it reads a count of zero and a
  raised flag it publishes `SessionContinuationReady` on the event bus.
- `ContinuationWatcher` hears the event, clears the flag, reactivates the session and starts the
  next turn. `begin_setup` does the same for a user's message, whatever the session is doing.
- A worker's claim loop calls the store on a blocking thread; its `shutdown` uses the claim fence
  to make sure that none of those calls leases an item after it has gone.
- What is for a bridge worker goes into the outbox; the caller, the session's replay and the retry
  loop (every 30 seconds) push from it into the channel the registry holds for the adapter. A STDIO
  plugin is such a worker whose process the plugin manager starts.
- Requests and agents put episodes into `kg_episodes` and notify; a dispatcher task wakes the two ingest
  workers, which claim until nothing is pending.

## 2. The modules

    WorkLifecycle <-- refined by -- WorkQueue <-- refined by -- WorkWorker
                                    ClaimFence
    Delegation      DelegationDispatcher      Bridge      PluginManager      IngestQueue

Each has an `MC...` module and `.cfg` and a `...Proofs` module (`WorkWorker`: `WorkerProofs`,
`DelegationDispatcher`: `DispatcherProofs`, `PluginManager`: `PluginProofs`, `IngestQueue`: `IngestProofs`).

Each module states its parameters as `CONSTANTS` with one named assumption. `MC...` modules give
them small values; `...Proofs` modules leave them as they are. Definitions commented
*Faulty variant* belong to no specification: each is what a slip in the code would make of a
definition, and is used to see that a property would notice.

### WorkQueue, WorkLifecycle

`row` is the table; a row keeps the columns that the conditions read. Each store operation is
one immediate transaction, hence one action. The `now` a caller passes is read *before* it waits
for the connection (`worker.rs:600-640`), so every operation takes a time `t` that may lag the
clock by up to `Lag`. A lease is identified by its UUID token; the model numbers the claims of an
item and uses the number. A caller that was ever granted a token may present it in any later
operation: late, duplicated and reordered calls are all there. `Corrupt` is a row edited behind
the program's back, which the next read quarantines. `accepted` records which verdicts were
answered `Ok`.

`WorkLifecycle` is what a user of the store relies on: an item is submitted once, tried at most
`max_attempts` times, and gets one outcome that is never revised. `Lifecycle` states the
refinement: `outcome` is "open" while the row is pending or leased, `tries` is the claims.

Left out: columns that no condition reads (payload, source, error code), the scope of a cancel beyond its
correlation id, and queries.

### ClaimFence

The threads of `claim_next_cancellable` and `WorkClaimCancellation::signal` / `settle`, one step
per access to the flag, the map, the gate or the connection. SQLite ignores an interrupt of a
connection that runs no statement, which is why the flag is looked at again and again. `settle`
takes the write side of the RwLock once and drops it.

### Delegation

A task is a child, a turn of the root, the watcher or the user; `pc` is where it is in the code.
The database (`session`, `exec`, `pending`, `wanted`) is read and written one statement a step,
because `complete_delegation`, `try_complete_session`, `reactivate_session` and the end of a turn
have no transaction around them. `Next` groups the actions by task.

The first turn and those that a message starts run in Root mode, a continuation does not; `rooted` remembers
which. A turn that fails or is stopped cancels the delegations of the session only in Root mode
(`execution_stream.rs:722`, `:748`): `CleanUp` says where it goes.

| Action | Code |
|---|---|
| `CreateExecution`, `Register` | `handle_delegation` |
| `Start`, `FailEarly` | `spawn_delegated_agent`, `handle_early_spawn_failure` |
| `Finish`, `Kill` | the executor's return; `kill_agent` |
| `CompleteExecution`, `QueryRunning`, `QueryQueued`, `CompleteSession` | `complete_execution`, `try_complete_session` |
| `CrashExecution`, `CrashSession` | `crash_execution`, `crash_session` |
| `Report`, `CountOff`, `Tally`, `Announce`, `Leave` | `handle_execution_success` / `_failure` with `complete_delegation` |
| `Suppress`, `BlameParent` | a planner that could not start closes the gate |
| `EndTurn`, `Recheck`, `RequestContinuation`, `FailTurn`, `CleanUp`, `ListOrphans`, `CancelOrphan`, `EndOrCancel`, `CancelExecutions`, `CancelSession` | `ExecutionStream::run`, `cancel_session_delegations`, `stop_execution` |
| `Receive`, `Message`, `Reopen`, `Revive`, `ResetTracking`, `Launch`, `FailLaunch` | `ContinuationWatcher`, `spawn_continuation`, `begin_setup`, `reactivate_session` |

`Trouble` chooses what may go wrong: children or turns that fail, early spawn failures, a
continuation that cannot start, `kill_agent`, stop, a message at any moment. Left out: children
that delegate in turn, pause and resume, storage errors, a lossy event bus, and what messages say.

### DelegationDispatcher

The run-loop (`Receive`, `ReceiveClosed`, `HandleDone`), the task that `spawn_with_notification`
starts for a request (`AcquirePermit`, `AcquireWardLock`, `Spawn` or `SpawnFails`, `Notify`), the
child's own task (`ChildEnds`), and those who delegate (`Send`, `Wait`, `StopWaiting`, `Close`).
Ward agents are the only children with the delegate tool; they may block in `wait_agent` and keep
their permit. The queues of finished sessions are removed from the code's map; here a queue is
empty instead. In the daemon the channel stays open, as `ExecCtx` keeps a sender; it closes for
other implementations of `DelegationSpawner`, which the module's own tests use, so `Close` is an
action that nobody has to take. The semaphore and the locks serve waiters in any order, which
allows more than tokio's first-come queues do.

### WorkWorker

Extends `WorkQueue` with `Worker` instances that serve one target. `loop` is where `run()` is, `task` is
`process_item` for the n-th claim of an item, `halt` is how far `shutdown()` is. Every store call is two
steps, the call and its answer, and a call whose caller has given up (renewal budget, abort, drain)
is answered all the same, as `spawn_blocking` runs on.

| Action | Code (`worker.rs`) |
|---|---|
| `Recover`, `Ask`, `Claim`, `StoreError`, `Wake` | the loop, 586-693 |
| `Check`, `Spawn` | `is_cancelled` and `active.spawn`, 666-676 |
| `Heartbeat`, `RenewalDone`, `NotRenewed`, `GiveUp` | renewal and its budget, 933-1001 |
| `Finish`, `Expire`, `Stopped`, `Reported` | handler, deadline, `abort_and_wait`, the one report, 902-1092 |
| `Signal`, `SettleAndTell`, `Leave`, `Drained`, `Abort`, `OrphanedClaim` | `shutdown` and drain, 695-787; what the fence promises is taken from `ClaimFence` |
| `Refused` | a claim that the fence refuses: the store answers `Ok(None)` (`work.rs:1143`, `:1157`, `:1209`) as if there were no work, and the loop waits for a wake, a poll or its shutdown (677-685) |
| `Crash` | the process ends |

Time is the store's clock. `Prompt` assumes a runtime that keeps its timers: the clock does not pass a
moment at which a heartbeat, a deadline or a poll is due. `ClaimTime` bounds the way from the clock read for a
claim to the start of its handler, and `Yield` how long an aborted handler needs to reach an await;
the code bounds neither. `WorkWorkerLimits::new` enforces `2 * heartbeat < lease`; the assumption
asks for `2 * Beat + ClaimTime + Yield < Lease`, which the server's limits (10 s, 30 s) leave 10 s for.
`StoreSpec` states the refinement: the workers drive the store only by its own operations.

### Bridge

One adapter: its rows of `bridge_outbox`, the registry's entry, the sessions of its connections, and
whoever pushes: the retry loop, a session's replay, a caller of `enqueue_and_push`. `Mark` and `Send` are
two steps, and the list is one read earlier. The worker answers every copy it gets, with an ack or a
fail. `Stop` is the server's shutdown (`disconnect_all`, then the retry loop is aborted), `Crash` may come
at any moment, `Restart` resets what is in flight. `wait` abstracts `retry_after` to what the text
comparison of `get_retryable` tells apart: none, ahead, passed today, passed on an earlier day.

### PluginManager

One enabled plugin. A run is one call of `start` and the task it spawns: `Launch`, `NoHello`, `Register`,
`HelloAck`, `CleanUp`, `Returns`, and what the manager's task writes at the end (`Ended`, `Failed`). `start`
itself awaits twice: `Start` sets the entry to starting, `Spawn` comes after the lock of the bus
(`plugin_manager.rs:227`), and `StoreHandle` after the lock of the entries taken anew; `Forget` is a caller
that goes away at the first of them. `said` remembers which start set the state. `stop` aborts the task of the stored
handle wherever it stands. `restart` is a stop, whatever comes of it, and a start.

### IngestQueue

A row of `kg_episodes` per source type and content hash. `upsert_pending` is `Look` and `Insert`,
`claim_next_pending` is `Ask` and `Update`, because the connection's mutex is given back between the two
statements. `Update` takes in the read-back that follows it (`sidecars.rs:1326`), which may err: the row is running
then, and the worker backs off without it. Recorders (`record_evidence`, `ensure_episode`, the ward indexer) use the same `upsert_pending` and mark
the row done at once. `Drop` is an error of the database that leaves a row running, as the erring read-back does, and `Restart`
leaves them all so; `dropped` remembers those. `Dispatch` is `notify_waiters`, which keeps no permit. Left
out: a claim that fails before its UPDATE (tried again after half a second), `retry_if_eligible`, which only tests call, and
`mark_done` left out by `ensure_episode` for a row that it finds.

## 3. The runs

| Run | Instance | States | What it asks |
|---|---|---|---|
| `work_queue` | three drafts, two of them under one key, one urgent, up to two attempts, leases of 2, lag 1, clock 0..4 | 185,197 | types, rows a later read accepts, tokens, budgets, one verdict per lease, lease protection, refinement of `WorkLifecycle` |
| `claim_fence` | three claims, one shutdown | 7,612 | guards follow threads, nothing leased after `settle`, shutdown settles, claims return |
| `delegation_sequential` | two delegations, one per turn, three turns, `Calm` troubles, one planner | 10,202 | exact count, one turn at a time, completed means done, results seen, gate closed, continuation follows |
| `delegation_adverse` | one turn with two delegations and one after it, `Crossed` troubles | 3.5 million, up to the symmetry of the children | what survives every crossing: the count never overstates, never goes below zero, and counted means reported |
| `dispatcher` | four requests of one session, two ward agents of one ward with a child each, two permits | 17,467 | cap, queues move, order, drained exit, everything ends |
| `worker` | two workers, one item with two tries, lease 4, heartbeat 1, handler time 4, poll 1, clock 0..4 | 712,392, up to the symmetry of the workers | a handler only under its lease and alone, nobody in service sleeps over work, refinement of `WorkQueue` |
| `bridge` | one item, two connections, two failures, two copies told apart, one stop or crash | 123,238 | the registry's owner, items in flight brought back, acknowledged items left alone, delivery in the end |
| `plugins` | four starts | 135,304, up to the symmetry of the starts | who serves is registered, "starting" has its start on the way |
| `ingest` | two requests for one text, one recorder, two workers, one signal, one restart | 727,672 | running is held or dropped, pending is fetched while a worker is still to ask or asleep with a signal to come |
| `delegation_lost`, `outbox_retry`, `ingest_claim` | the smallest instances that show it, or those above | 100 to 2,000 | the findings of section 5 |

**Why the bounds are enough.** In `work_queue` the clock runs twice the length of a lease, which
lets a lease run out, be recovered, be granted again with a lagging clock, and run out a second
time with the budget spent; two attempts separate "retry" from "last attempt"; the third draft
brings priorities and a budget of one. Three claimers put a claim in every phase of the fence
while another is interrupted and a third registers late. In `worker` the clock runs a whole lease, so a
lease can run out and be granted to the other worker while the first is still being aborted or has a
renewal out, and the second try is the last. In `bridge` the second connection is the one that comes while the
first one's cleanup is under way; a second item adds only the order of a list (an instance with two
items, without the liveness, has 4.4 million states), and two failures separate "again" from "never again".
In `plugins` one run serves, one is turned away, one is aborted and one comes after. In `ingest` the two
requests cross in `Insert`, the two workers in `Update`. Two children show every race of
`complete_delegation` (it only distinguishes "last" from "not last"), and three turns let a child of
the first outlive the second. In `dispatcher`, two ward agents are enough to hold all permits while
each waits for a child, and the children make a queue of two and a parallel request beside it.

**Deadlock** is checked where the system cannot stop (`work_queue`, where `Corrupt`, recovery and
claims go on for ever, and `claim_fence`, where a claimer may always call again) and not where a
session or a batch of requests comes to its end.

**Fairness.** `ClaimFence`: a call or a shutdown that has begun goes on, as threads do; nobody
has to begin one. `Delegation`: every task that is under way goes on, because executors are
bounded in iterations and the dispatcher gets to every request; nobody has to delegate, and no
mishap has to happen. `DelegationDispatcher`: only *some* step of the loop, of a dispatching task or
of a child is promised as long as there is one (weak fairness of their disjunction); this is
enough because requests are finite, and it needs the timeout of `wait_agent`
(`tools/wait_agent.rs:108`): with `WaitToTheEnd`, which has none, two ward agents that hold all
permits and wait for their children stay for ever, and `EverythingEnds` fails. `Bridge`: each pusher, session
and the retry loop go on, a server that is down is started, the clock runs, and a worker that is off comes
back and answers what it is given, which is what "at least once" is worth without a time limit; nobody has to
fail or to break. The worker may answer with fails only; an item then ends at `RetryLimit`. `IngestQueue`: the
workers' and the dispatcher's tasks are scheduled and extraction ends; no request has to come. `WorkWorker`
and `PluginManager` state no fairness: `NoOversleep` says by which time a worker in service is awake, which is stronger
than that it wakes in the end. A worker that is shutting down may sleep over a ready row, because its claims are refused
as if there were none; the row is for the others.

**What two of these properties do not cover.** `CompletedMeansDone` is asked where a turn has one delegation
and no message crosses the session; then no row starts to run between the queries of `try_complete_session` and the
completion, and it is the regular order of things that it checks. The race itself is shown by `MCDelegationOvertaken.cfg`
(section 5), where a message may come. `WorkIsFetched` counts on workers that are still to ask, or asleep when the signal comes; the signal
that falls between an empty claim and `notified()` is shown by `MCIngestSignal.cfg` (section 5).

## 4. The proofs

All theorems hold for every value of the constants that satisfies the module's assumption.

| Module | Theorems | Assumption |
|---|---|---|
| `WorkQueueProofs` | `TypeCorrect`, `RowsStayConsistent`, `LeaseIsLatest`, `NoStrandedItem`, `VerdictsAreUnique`, `LeasesProtect`, `Implements` | `QueueAssumption`: what `validate_draft` and the lease bounds enforce |
| `ClaimFenceProofs` | `TypeCorrect`, `GuardsFollow`, `Fenced` | none |
| `DelegationProofs` | `TypeCorrect`, `CountNeverOverstates`, `ReportedBeforeCounted` | `DelegationAssumption`: finitely many children, distinct names |
| | `BatonInvariant`, `OneTurn`, `ResultsSeen`, `GateClosed` | moreover `OneEach`: a turn delegates one task, and no message crosses the session |
| | `RegularInvariant`, `ExactPending`, `CompletedDone` | moreover `RunsItsCourse`: no turn fails or is stopped (children may fail or be killed, continuations may fail to start) |
| `DispatcherProofs` | `TypeCorrect`, `CapKept`, `QueuesMove`, `OrderInvariant`, `InOrder`, `DrainedAtExit`, `NoDeadlock` | `DispatcherAssumption`: finitely many requests, at least one permit |
| `WorkerProofs` | `WorkerTypeCorrect`, `WorkersUseTheStore`, `WorkersKeepTheLifecycle`, `LeaseCovers`, `OneHandlerOnly`, `NobodyOversleeps` | `QueueAssumption`, `WorkerAssumption`: the limits, with room for `ClaimTime` and `Yield` |
| `BridgeProofs` | `TypeCorrect`, `OwnerKept`, `NothingForgotten`, `SettledStays` | `BridgeAssumption`: distinct names |
| `PluginProofs` | `TypeCorrect`, `ServerIsRegistered`, `StartingMoves` | `PluginAssumption`: `None` is no run |
| `IngestProofs` | `TypeCorrect`, `RunningHeld` | `IngestAssumption`: finitely many episodes |

**WorkQueue.** `StepPerItem` shows that, whatever a transaction does to the whole table, to one item
it does one of eight things (`Kept`, `Submitted`, `Released`, `Granted`, `Renewed`, `Judged`,
`Withdrawn`, `Corrupted`); every invariant, `LeaseProtects` and the refinement follow from the
eight. The inductive invariant adds `HistoryFits`: an unsubmitted id has no history, and a
dead-letter verdict on the latest claim is final; without it a claim could be imagined after the
verdict.

**ClaimFence.** `NobodyPastTheGate` is what `GuardsMatchThreads` lacks: once the write side was taken
nobody is between the look at the flag and the commit, and whoever looks later finds it raised.

**Delegation.** The count is written by turns, children and resets. `Stages` ties each child's place in
the code to `counted`, `registry` and `reported`; it follows that the set `Owed` of delegations still
to be counted off loses a member only in a step that also lowers the count, and that bounds the
count from above through any reset and double count. A failing turn counts children off only in Root mode (`CleanUp`); the
children of a failing continuation stay owed until they count themselves off, and stay bound to report before.

The other five properties are false without their hypotheses, and TLC shows why: two delegations of one turn
may both find the count at zero (`MCDelegationDouble.cfg`) and so call the watcher twice, and a message starts a
turn, and resets the count, whatever is under way. With `OneEach` the session is passed on like a baton, which
`Baton(k)` describes for the last turn `k` that has begun: the turns before it have left and their children are
through; the watcher is called at most once, after turn `k` has asked and its child is through; and a turn that
fails or is stopped never asks, whether it takes its child out of the registry (Root mode) or leaves it at work (a
continuation), so nothing follows it. Every step keeps `Baton(k)`
(`ChildKeeps`, `TurnKeeps`, `WatcherKeeps`) except `Launch`, which makes it `Baton(k + 1)`. `RowsFirst` (only a child that
exists is registered or disowned) is what makes a new child not disowned. From `Baton(k)` follow `OneTurn`, `ResultsSeen` and
`GateClosed` (`MCDelegationRough.cfg` checks them on 151,966 states with turns that fail, are stopped, and children that
are killed). A failed or cancelled turn does make the count inexact and may complete a session with a child at work, so
the last two properties take the stronger hypothesis; `Regular(k)` adds to the baton what count, flag, root row and status
then say: the count is one exactly while the child of turn `k` is owed, the root's row runs until that child has
counted itself off, so that `try_complete_session` run by the child finds it, and a session that is completed, or
about to be, is with nobody.

**DelegationDispatcher.** `Permitted`: whoever waits for the ward lock, spawns or runs holds a permit.
`Served`: a non-empty queue belongs to an active session, an active session has a request under
way or a done message, and the loop ends only with nothing active. `Mail` and `Queues` say that
mailbox and queues hold distinct requests of one stage and, for queues, of one session, so that
dispatching one leaves the others where they are.
`InOrder` and `DrainedAtExit` need to know where a request is until it is dispatched (`Placed`), that the loop ends after
the channel and the channel after its last request (`Ended`), and that a queue lists its requests in the order of their
arrival (`InLine`); a sequential request that finds its session inactive finds its queue empty (`Served`), and overtakes
nobody. `NoDeadlock`: who holds a permit spawns, waits for a ward lock or runs, and who holds a ward lock spawns (`Held`); so
if no permit is left its holders lead to somebody who can go on, in the last resort to a wait that has a timeout. The
theorem spells out the guards of `Progress`; that this brings every request to its end is left to TLC (`EverythingEnds`).

**WorkWorker.** `WorkersUseTheStore` maps each step of a worker to an operation of `WorkQueue` or a stutter,
so every theorem of `WorkQueueProofs` holds of the workers too; `WorkersKeepTheLifecycle` composes the two
refinements. `LeaseCovers` needs an invariant over time: for a handler that runs, the lease ends
after the next heartbeat, its budget and `Yield`, and a renewal that is out can only push it further;
`OneHandlerOnly` follows, because two handlers of one item would both hold the latest token.
`NobodyOversleeps` adds that a worker that waits has seen, at a time at most `ClaimTime` earlier than its
sleep began, that no row was ready, unless it was told so by the fence; that one is shutting down, and a shutdown
is never taken back (`StaysHalted`).

**Bridge.** The inductive invariant is the types, `RegistryOwner`, `InflightWatched` and `NothingLeft` (what
a dead server keeps). `SettledStays` is an action property: an item acknowledged, in nobody's
list and with no copy under way is touched by no step.

**PluginManager.** `ServingIsRegistered` is inductive with the types. `StartingIsLive` needs `SaidByStart`: a starting entry
knows the start that made it so. No step but an end of that start's run takes it off its way, and that end gives the
entry another state (`RunMoves`, `RunEnds`).

**IngestQueue.** The property is inductive with the types and with what a request and a worker hold at each step.

**Only model-checked.** Liveness: `ShutdownSettles`, `ClaimsReturn`, `ContinuationFollows`, `EverythingEnds`, `Delivered` and
`WorkIsFetched`, which need fairness and ENABLED and so are outside the reach of the proof system. Every invariant and
action property of the passing runs is a theorem.

## 5. Findings

- **A continuation can be lost** (`delegation_lost`). The end of a root turn reads
  `pending_delegations` (`runner/execution_stream.rs:607`) and then sets the flag (`:623`). If the last
  child counts itself off in between it finds no flag, publishes nothing, and the session waits
  until the user writes. `ContinuationFollows` states what does hold: a flag set while somebody is
  still to be counted off is taken up.
- **A failed item's retry time is never past on its day** (`outbox_retry`). `mark_failed` writes `retry_after` as
  RFC 3339 (`outbox.rs:193`, with a `T`), `get_retryable` compares it as text with `datetime('now')` (with a
  blank). On the day of `retry_after` the item is not found, however long ago the time was; the next day it is.
  `test_mark_failed` uses no `retry_after`.
- **Two workers claim one episode** (`ingest_claim`). "Atomically claim" (`zbot-stores-traits/src/kg_episodes.rs:126`) is a SELECT
  and an UPDATE by id, with the mutex given back in between (`sidecars.rs:1305-1327`).

### Observations

Met while modelling, and shown by a configuration that stands beside the runs or by reading the code.

- *Two children may both be the last* (`MCDelegationDouble.cfg`, `OneLastDelegation`). `complete_delegation` decrements,
  selects the count, and reads the flag in three statements, while its comment (`service.rs:684`) says it "returns true if this was the
  last pending delegation".
- *A failing root does not stop its children* (`MCDelegationOrphan.cfg`, `OrphansAreStopped`).
  `cancel_session_delegations` (`execution_stream.rs:784`, "to prevent orphaned subagents") looks up handles by execution id in a map keyed by
  conversation id.
- *Sequential delegations run at once* (`MCDispatcherSequential.cfg`, `OneRunsAtATime`). The done message
  (`delegation_dispatcher.rs:181`) is sent when the child has been *started*, where the module says "only one delegation per
  session runs at a time" (`:18`).
- *Two agents of a ward run at once* (`MCDispatcherWard.cfg`, `OneAgentPerWard`). The ward lock is a local of
  `ExecCtx::spawn_delegation` (`exec_ctx.rs:138`), where `delegation_dispatcher.rs:196-199` says it spans the child's execution.
- *A plugin that is "running" has ended* (`MCPluginState.cfg`, `RunningRuns`). `StdioPlugin::start` returns when
  its message loop is over, and only then does the manager set `Running` ("Plugin is running and connected",
  `plugin_config.rs:70`). While a plugin serves its state is `Starting`, so `stop` answers `NotRunning` and `restart` launches a
  second process, which the registry turns away and whose failure is then shown as the plugin's state. A start whose
  HelloAck fails, and a task that is aborted, leave the registration behind, so later starts are turned
  away too. `auto_restart` is read by nothing.
- *A session is completed over a turn at work* (`MCDelegationOvertaken.cfg`, `CompletedOnlyWhenDone`).
  `try_complete_session` is to complete "only if all executions are done" (`service.rs:585`), but asks for running rows,
  for queued rows, and then completes, in three statements. A message that takes the root up again in between leaves a
  completed session with a running turn.
- *A wake-up can be lost* (`MCIngestSignal.cfg`, `SignalledWorkIsFetched`). `notify_waiters()` is fired "so every idle
  worker wakes" (`ingest/queue.rs:36`) and keeps no permit; a worker that found nothing has not created its `notified()`
  yet (`:87-89`). The episode waits for the next signal.
- *A failing continuation leaves its children at work.* Only Root mode cancels the delegations of a session
  (`execution_stream.rs:722`, `:748`); the children of a continuation that fails or is stopped run to their end, and count
  themselves off in a session that is crashed or cancelled.
- *A lost start leaves "starting".* A caller of `PluginManager::start` that goes away while it waits for the lock of the
  bus (`plugin_manager.rs:227`) leaves the entry starting with no run to change it; `StartingIsLive` excepts that start.
- *A payload can be late.* A worker that claims between `upsert_pending` and `set_payload` marks the episode failed with
  "payload missing"; the same happens to a recorder's row, before or after it is marked done.
- *Rows stay running* after a restart or an error of `get_payload` or of the last mark; nothing takes them up again,
  while `queue.rs:2-3` says that "worker restarts recover in-flight pending episodes".
- `backpressure.rs:3-5` counts "pending + running episodes"; `count_pending_global` counts what is pending.
- A session whose HelloAck cannot be sent gives up its registration without `reset_inflight`
  (`handler.rs:158`); what was pushed into its channel waits in flight for the next push or connection.
- `lifecycle.rs:339-370` drops an agent's response to a bridge worker that is offline, where the bridge's
  specification has the outbox keep it.

- `invoke/delegation_handler.rs:114-116` says that
  `register_delegation` "is idempotent (checks current count)"; it increments unconditionally, and
is right only because the spawn handler does not call it.

## 6. What is not modelled

Every hazard with no property, and every component without a module, says why in `PROJECT.json`.
In short: storage errors of the session store; a lagging event bus; pause, resume and deletion
of sessions; the waiters of `wait_agent`; start-up recovery of sessions; requests over the bridge (one channel
per request, with a timeout); and all that is input, output, model calls or data. `Delegation` and
`DelegationDispatcher` are separate: the first lets the dispatcher start any request at any time, which allows more
than the second does. `WorkWorker` takes from `ClaimFence` that no claim commits after `settle`, and
does not compose the two step by step.

The modelled code is a small part of the repository by lines. Most of the rest are request handlers,
prompt and memory pipelines, data types, serialisation and a web client, whose behaviour is data in and data
out; what coordinates tasks, rows and processes is what the modules cover.

## 7. Plan

Done: `WorkQueue` with `WorkLifecycle`, `ClaimFence`, `WorkWorker` over both, `Delegation`, `DelegationDispatcher`,
`Bridge`, `PluginManager`, `IngestQueue`, with their runs and theorems. What would come next, in this order:

1. `AgentResultBus` with `wait_agent` and the end of a child (`spawn.rs:1302`, `wait_agent.rs:75-108`): an
   answer between the look at the row and the registration of the waiter.
2. `SessionRecovery` over the rows of `Delegation`: what start-up leaves of counts and flags.
3. Pause and resume in `Delegation`; children that delegate.
4. Requests over the bridge (`pending_requests.rs`): an answer that races its timeout.
5. Theorems: the baton as an abstract specification of its own, refined by `Delegation`; what remains true of
   `OneTurnAtATime` when a message crosses a session at rest.
