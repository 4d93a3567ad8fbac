# knittingCrab in TLA+

knittingCrab schedules build and agent tasks over worker machines. A *scheduler* decides which task may run, *worker
runtimes* execute tasks under time-limited leases, a *coordinator* serves queue and leases to the workers' nodes over
TCP, and the `core` crate holds the mechanisms they share (leases, retries, circuit breaker, back-pressure, time
slices). This directory models the parts whose correctness depends on the order of operations, checks them with TLC on
small instances, and proves with TLAPS, for every instance, all the safety properties that the runs check.

Source paths below are relative to the repository root. `PROJECT.json` maps each definition to its source lines.

## 1. The system

| Part | State | Operations | Meets the rest through |
|---|---|---|---|
| DAG scheduler `crates/scheduler/src/dag.rs` | `Inner` under one mutex: descriptors, states, reverse edges, dependency counters, heap, aging data, two policies, resource pool | enqueue, dequeue, complete, fail, requeue, discard, set policies | the `Queue` trait |
| Stub queue `crates/scheduler/src/stub.rs` | a `VecDeque` | enqueue, dequeue, requeue, discard | the `Queue` trait; the one the coordinator deploys |
| Worker runtime `crates/worker/src/worker_runtime.rs` | token map, main loop, heartbeat task per execution, reaper loop | worker_loop, execute_task, reaper_loop, cancel_task | queue, lease store, processes, event sink |
| Leases `crates/core/src/lease.rs`, `crates/worker/src/lease_manager.rs` | map from task to lease | acquire, renew, complete, fail, cancel, collect_expired | shared by all runtimes |
| Retry policy `crates/core/src/retry.rs`, `crates/worker/src/retry_handler.rs` | none | is_retryable, decide, backoff_for | execute_task |
| Circuit breaker `crates/core/src/circuit_breaker.rs` | state, failure count, two atomics | call, record_success, record_failure, state, reset | shared by its callers |
| Coordinator `crates/coordinator` | node registry, cache index, queue, leases; handler per connection, node reaper, health monitor | handle_request, node_reaper_loop, probe_all | TCP frames; registry and index are shared |
| Node `crates/node` | the connection behind a mutex | connect, request, heartbeat loop, reconnect loop | TCP frames |
| Priority queue `crates/core/src/priority_queue.rs` | four `VecDeque`s, each under its mutex, and an atomic total | enqueue_task, dequeue_task, clear, stats | clones share the queues; the degradation mode is passed in by the caller |
| Back-pressure `crates/core/src/queue_backpressure.rs` | an atomic depth and its limits | try_enqueue, enqueue, dequeue, degradation_mode, reset | clones share the depth |
| Remote execution `crates/worker/src/{dispatching,ssh_tmux,remote}_executor.rs`, `crates/aivcs-session` | none of its own; tmux sessions and sentinel files on the host | execute: check, create, send, poll, kill, clean up; attach, kill, run of the session tool | `ProcessExecutor` trait; sessions and files are shared by all tasks and users |
| Persistent leases `crates/core/src/persistent_lease.rs` | SQLite table: the lease as JSON, state and expiry next to it | insert, get, update, remove, active_leases, recover_active_leases, find_expired_leases | the `LeaseStore` trait |
| Event log and ledger `crates/core/src/event_log.rs`, `aivcs_ledger.rs` | SQLite tables, a bounded deque | emit_event, emit_log, queries | the `EventSink` trait, several sinks behind `MultiEventSink` |
| Artifact cache `crates/cache` | directory, index, byte total | store, store_task_artifact, retrieve, scan_existing | one owner |
| Agent guards `crates/agent`, `crates/core/src/{task_timeout,priority_inversion,backpressure_integration}.rs` | goal locks, budgets, two flags per timeout handle, lock owners and inversion records | try_acquire, release, start, charge_tokens, check_time, finish, timers, check, reset, record_* | maps shared by the runs; `crates/agent` is outside the Cargo workspace and uses types that `core` does not define, so it does not build as it stands |
| Time slices and aging `crates/core/src/{time_slice_scheduler,task_aging}.rs` | position in the round, ages | next_priority, reset_state, compute_promoted_priority | used by whoever serves the queues |
| Gatekeeper, test doubles | | | not modelled, section 8 |

What is hard here:

* **DAG scheduler.** Sequential, but any sequence of calls is legal: late or duplicate reports, tasks enqueued behind
  completed or failed ones, retries while dependents wait, a wall clock that steps back. Correct means: dependencies
  first, a ready task is never lost or handed out twice, failures doom exactly the dependents, terminal states are
  final, the pool is never overcommitted, and a loaded graph is worked off.
* **Worker runtime and leases.** Every `await` on the store lets other loops run, so each read-modify-write of a lease
  (`get` then `update`) can be interleaved with heartbeats, reapers and cancellations of several runtimes; calls may
  fail, runtimes may crash. Correct means: one task, one holder; execution always returns; orphans are reaped.
* **Coordinator and nodes.** Handlers of old and new connections of one node, the reaper and the monitor work on the
  same registry; connections end cleanly, with an error or silently; replies carry no identifier. Correct means: a task
  is handed to one node, a reply answers the request that waits for it, a node that came back is safe from its old
  connection, a dead one leaves the registry, a live one gets a connection.
* **Circuit breaker.** `call` reads the state, counts itself in and reports in three separate steps. Correct means: it
  trips in time, waits for its timeout, limits the probes as far as late callers let it, and closes again over a healthy
  service.
* **Load control.** The limit is checked and then added to, the subtraction is not checked, and the mode that restricts
  the queues is computed from a counter of the very tasks it holds back. Correct means: the limiter's counter accounts for
  every task, the limit is passed only as far as the two steps allow, priorities are respected, Critical work is always served.
* **Remote execution.** Every ssh call may do nothing, or do its work and lose the answer; an execution that times out or
  is cancelled leaves a command, a session or a sentinel file behind, and the next attempt uses the same names. Correct
  means: attempts of a task do not overlap, report their own exit code, and execute returns.
* **Stores.** A crash can come between any two statements or file operations, a statement can be refused, copies of
  leases are written back late, and times are compared as text. Correct means: the table is a lease store, live leases
  are recovered, the log is never behind the lease, and the cache index tells the truth about its directory.
* **Agent guards.** Check and removal of a lock are two steps, as are detection and record of an inversion; handles are
  reset while old timers sleep. Correct means: one task per goal, runs end, no false alarm.

## 2. Modules

| Module | Models |
|---|---|
| `DagScheduler` | dag.rs: one action per public operation, because each runs under the mutex; `Clock` moves the wall clock, also backwards |
| `MCDag` | TLC instances of it, and what comments in dag.rs say that the code does not do |
| `DagBatch`, `MCDagBatch` | the same actions driven as `soak_test.rs` and the tests drive them: load a graph, then poll and report; a TLC instance |
| `DagScheduler_proofs` | TLAPS proofs about `DagScheduler` and `DagBatch` |
| `Totals`, `Totals_proofs` | the sum of a function over a finite set, for pool and cache, and what proofs need to know about it |
| `Lease`, `RetryHandler`, `StubScheduler` | the data operations of leases, retry decisions and the deployed queue, used by the two modules below |
| `WorkerRuntime`, `MCWorker`, `WorkerRuntime_proofs` | several runtimes over one store and one queue; TLC instances; proofs |
| `Coordinator`, `MCCoordinator`, `Coordinator_proofs` | coordinator and nodes, connections included; TLC instances; proofs |
| `CircuitBreaker`, `CircuitBreaker_proofs` | the breaker under concurrent callers, and proofs about it |
| `LoadControl` | the limiter and the four queues under concurrent producers and consumers |
| `TaskGuards` | filter, goal lock, budget, timeout and inversion detector around runs of agent tasks |
| `FairShare` | the weighted rotation and the aging of the tasks it serves |
| `Load`, `MCLoad`, `Load_proofs` | the three modules above side by side; a TLC instance; proofs about the first two |
| `ExecutorContract` | abstract: what `execute_task` relies on when it awaits any `ProcessExecutor` |
| `SessionNames`, `RemoteExecution`, `MCRemote`, `RemoteExecution_proofs` | session names and their validation; the executors over ssh, tmux and files; a TLC instance; proofs |
| `LeaseStoreContract` | abstract: what the trait `LeaseStore` promises |
| `DurableRecord` | SQLite leases and events under crashes and refused statements |
| `ArtifactCache` | the cache and its keys |
| `Stores`, `MCStores`, `Stores_proofs` | `DurableRecord` and `ArtifactCache` side by side; a TLC instance; proofs about both |

### State and actions against the code

*DagScheduler.* The variables are the fields of `Inner`. The heap becomes `ready`, the number of entries of each task:
which entry comes out is `PopsBefore`, i.e. `ReadyEntry::cmp`. An operation that returns an error leaves the state as it
was and is a disabled action; the undo of a rejected enqueue happens under the same lock and is not visible. `Dequeue`
is the whole function: age every entry, pop until one is Ready and fits, drop the stale ones popped before it, push back
those that do not fit, allocate. The `u8` sum of `apply_aging` and the `u32` sums of the pool are modular. Metrics
counters, which nothing reads back, are left out.

*WorkerRuntime.* `worker[w].pc` is the position in `worker_loop`/`execute_task`: allocating, acquiring (the
`contains_key` of the store), inserting, leased, executing, draining (the five-second wait for the heartbeat), deciding,
then Complete, Abandon or Retry with the copy of the lease that was read, and backoff. Heartbeat, reaper and cancel have
their own positions, and each holds the copy it read until it writes it back. A lease's expiry is one bit, set by
`Expire` at any time and cleared by a renewal. The `?` operator is a `...Fault` action at each place where a call can
fail. Process, resource monitor and event sink are external.

*Coordinator.* `handler[n][k]` is `handle_connection` of the k-th connection of node n; `wire[n][k]` holds at most one
request and one reply and what each end would see of the connection: `ok`, `eof`, `err`, or `silent` (lost without
notice). `client` and `link` are `NodeConnection::request` and `inner`. The node reaper reads the active leases of a
node (`ReaperLeases`), requeues them one by one from that list, which may be out of date by then (`ReaperRequeue`),
removes the node and evicts its entries, each a separate step, as are the halves of `AnnounceCache` and
`record_probe_failure`. The queue, lease and cache requests are the ones the network adapters make, in the order in
which the runtime makes them: a dequeued task is leased, read, updated or removed, then requeued or discarded.
`ActiveLeases`, `QueryCache`, `EmitEvent` and `EmitLog` change nothing on the coordinator and are one kind of request.
`Join` is `WorkerNode::connect`. The health monitor connects to the port the coordinator itself listens on, at the
node's host name (server.rs:46, ssh_health.rs:21). Nodes open no listener, so `ProbeFailure` can happen to every node at
any time; `ProbeSuccess` of a live one stands for a host on which something does listen there, such as the coordinator's
own. Three failures in a row evict a node.

*CircuitBreaker.* One step per critical section or atomic operation. `probing`, `admitted`, `probed`, `late`, `returned`
and `plain` are history variables for the properties (`returned` counts what callers of earlier windows have taken back
in this one); `healthy` is the state of the service behind the breaker.

*LoadControl.* One step per atomic operation or critical section: `TryEnqueue` and `Add` are the load and the
`fetch_add` of `try_enqueue`, `Push` is `enqueue_task`, `ReadMode` the caller's `degradation_mode` with the start of
`dequeue_task`, `Skip` and `Take` its loop, one locked queue each, `GiveBack` is `dequeue`, and `Clear` and `Reset` come
at any time. Nothing in the repository yet connects the two managers outside their tests, so the protocol of their
callers (reserve, push; take, give back) is external. `before` is a history variable: what was waiting when the scan
began.

*RemoteExecution.* `run[t].pc` is the position in `execute` of the ssh executor: checking the repository, creating the
session, sending the wrapped command, polling, killing, cleaning up. Each is one ssh call, and each has the branch where
it did nothing and, where it changes the host, the branch where it worked and the answer was lost. `pane` and
`sentinel` are the host: a pane runs its commands one after the other, and `echo $? > file` creates the file
(`EmptyFile`) before it fills it. `ensure_session` uses a fixed work id and role, so `SessionOf` depends on the
repository alone. `Attach`, `Kill` and `RunInSession` are other users of the host; what a user sends is any shell text,
so it ends with any code and may leave the pane in any repository's directory. `RunCommand` sends to a window `main` that
nothing creates (ssh_tmux_executor.rs:69), and `new-session` runs without `-d` (remote.rs:157); how tmux answers
is left open: both calls may work or fail. `Again` is the runtime's next attempt.
`ended` and `abandoned` are history variables. Names are members of a small set with the classes the validators tell
apart; sanitising is a function on it that is not injective.

*DurableRecord.* `rows` is the table with both copies of state and expiry (JSON and columns). `stage[t]` is the position
of execute_task and of the reaper with a task, `emitting` the sink `MultiEventSink` has come to, `copy` the lease each of
executor, heartbeat and reaper holds between `get` and `update`. `Day` is the comparison of RFC 3339 text with
`datetime('now')`: equal on the day of expiry except for the eleventh character. `Refuses` is an SQL error at any
statement, with the code's reaction: logged, returned, or the end of `reaper_loop`. Cancellation is left out here
(`LeaseManager::cancel`, and the state Cancelled that persistent_lease.rs:134 and 189 can write): it is one more client
that reads and writes back, on the path of Failed; `WorkerRuntime` has it.

*ArtifactCache.* `files` is the directory with the length each file has; `entries`, `access` and `total_bytes` the index.
`StoreNew`, `Evict` and `WriteFile` are the steps of `store` between which a process can die; a failed or killed write
leaves no file or one of any shorter length. `access` orders the entries by `last_access`; two readings
of the nanosecond clock are taken to differ, except that a scan leaves any order. `since` is a history variable: what was
stored or read after each entry's last access.
`Open` is `scan_existing`. A hash is the text it is computed from; the keys of
`CacheKeyBuilder` are spelled out for `PipedKeysSeparate` (section 5) only, no property of a run looks into a key.

*TaskGuards.* `pc` is the position of a run of an agent task: admitted by the filter, lock taken or refused, recorded with
the detector, running, stopping, cleaning up (`release` in its two steps), done. `timer[r][n]` is the spawned timer of the
n-th run on a handle, which `reset` does not stop. No caller in the repository joins these guards yet, so their
order is external; a task has two runners when its lease expired under a live one.

*FairShare.* `Slot` is the round that `new_state` lays out, `next_priority` advances and serves it. The caller that takes
the oldest due task of a slice is external.

## 3. Runs

| Run | Configuration | Shows |
|---|---|---|
| `dag_graph` | `MCDag`, `DagGraph.cfg` | over all dependency lists of at most two entries among four tasks (repeated, self and late edges included): types (no counter underflows), dependencies first, heap and states agree, failures doom all and only the dependents, terminal states are final |
| `dag_policies` | `MCDag`, `DagPolicies.cfg` | with a pool, policies that change at run time, a clock that steps back and retries: no overcommitment, aging never demotes |
| `dag_batch` | `MCDagBatch`, `DagBatch.cfg` | a loaded diamond with a tail, competing for the pool, with retries: the dependency counters are exact, the pool holds what runs and what retries leaked, and every task settles unless those leaks starve the batch |
| `worker_leases` | `MCWorker`, `WorkerLeases.cfg` | two runtimes with refusals, faults, a crash, expiry and a cancellation: a lease names the only runtime that works on its task |
| `worker_progress` | `MCWorker`, `WorkerProgress.cfg` | under fairness: execution always returns, the lease of a crashed runtime is reaped |
| `breaker` | `CircuitBreaker`, `Breaker.cfg` | three callers that overlap, dropped calls and direct reports: the timeout of Open and the probe limit of HalfOpen; for callers that take turns also closing by probes only, and recovery |
| `coord_tasks` | `MCCoordinator`, `CoordTasks.cfg` | two nodes that dequeue, lease, read, update, remove, requeue and discard over connections that end in the middle of a request, and nodes that crash: a task is held by one node |
| `coord_node` | `MCCoordinator`, `CoordNode.cfg` | one node, both background loops, a broken connection, an undecodable request or a restart, which the node sees as a clean end, an error or not at all: replies match requests, the end of an old connection never deregisters a node that came back, a dead node leaves for good, a live one gets a connection unless a dead one holds it |
| `load` | `MCLoad`, `Load.cfg` | *load*: the limiter's `current_depth` accounts for every task, the overshoot of the limit is bounded, no waiting task is passed over for a lower one, Critical tasks are served. *guards*: two tasks that compete for a goal with budgets and timers: one at a time is at work, a run ends once its timers have run out, inversions are reported only where there is one. *shares*: every waiting task is served under every aging policy |
| `remote` | `MCRemote`, `Remote.cfg` | two tasks on one host, one of them retried, with ssh failures, lost answers, cancellation, the hour's timeout and other users: attempts of a task do not overlap, an execution reads its own exit code unless an attempt before was abandoned, and the executor implements `ExecutorContract` (liveness included) |
| `stores` | `MCStores`, `Stores.cfg` | *record*: SQLite implements `LeaseStoreContract`, live leases are recovered, a Completed lease has its event. *cache*: the index matches the directory after failed writes and kills, a store evicts no more than it must, and in the order of the last accesses |
| `worker_retry` | `MCWorker`, `WorkerRetry.cfg` | **violated**: a retry on the stub queue is dropped |

Each property of a passing run is also checked against a mutant of one definition (the definition named before the real
one, e.g. `CascadeOneLevel` for `Cascade`): TLC must refute it there.

### Bounds

* `dag_graph`: four tasks give chains, diamonds and joins with failures at every depth; lists of two entries give
  repeated edges. Priorities follow the identifiers and there is no pool and no clock, which `dag_policies` varies.
* `dag_policies`: three tasks, two units per resource and requests of 0 to 3, so that two fit, one fits, or none does;
  one tick exceeds threshold and deadline, and the clock may go back to 0. `Word = 8` is larger than any sum.
* `dag_batch`: up to two retries of any task. Two units of each resource and requests of 0 to 2: one retry leaves too
  little for some tasks and two for others, and some need nothing, so the batch is starved in some executions and
  settles in others.
* `WorkerRuntime`: one task is enough for each property, since tasks meet only in the queue's order; two runtimes give a
  holder and another runtime's reaper; `max_attempts = 2` with exit codes 1 (retryable) and 2 (not) reaches all three
  decisions. `MaxQueue` bounds the copies `requeue` can append.
* `Coordinator`: every fault costs a node at most one connection, so `MaxFaults + 1` connections are enough. `coord_tasks`
  is symmetric in its two nodes. `coord_node` checks liveness and uses no symmetry; it has one fault of any kind, which the
  node sees in any of three ways and the coordinator as an error or not at all, and probes of live nodes that may fail. `Stalls` is `FALSE` in both runs: only a node
  without a connection is late with its heartbeats; nothing that is checked depends on it (`OldEndSparesNew` is proved
  with late nodes too). In `coord_tasks` the fault is a request the coordinator cannot decode, so that a
  connection ends cleanly under a node that goes on while the coordinator keeps its leases; the theorem `OneNodePerTask`
  covers breaks, errors and restarts as well. The event sink's request lets a node learn there of a lost connection while
  it holds a task. In both runs a handler sees no `eof`, since `err` allows more: it may take up a request that has arrived
  or leave without it, where `eof` makes it take up the request first. `coord_tasks` needs no silent loss: without fairness
  a handler may never move.
* `CircuitBreaker`: threshold and window of 2 with three callers let one caller too many arrive at every step, so the check
  of the window and its undo are reached; 67 % is the default. `Word = 1000` is above every reachable count except a wrapped one.
* `LoadControl`: a limit of 1 and two producers, so that three tasks (Critical, Normal, Low) can overshoot and a further
  one would be noticed; thresholds of 0, 100 and 200 % give a mode to each depth 0, 1 and 2. `Word = 100` shows a wrap.

* `TaskGuards`: a Normal and a Critical task with one goal are a holder and a waiter that is inverted; the Normal one runs
  twice on its handle, so an old timer meets a new run. A budget of one token is passed by the second. One record is
  kept before `clear_history`.
* `FairShare`: the round keeps its 100 slots; a Low and a Critical task are the ends of it. `base_ms = 2` and ages to 4
  reach every threshold; one reset moves the rotation back at any point (one that is reset again and again need not
  come to the Low slots).
* `RemoteExecution`: two tasks of one repository share its session; the second is also tried with an invalid repository,
  locally, without a command and under the placeholder. Two attempts of the first give a stale command and a stale
  file; two waiting commands give a queue in the pane. Exit codes 0 and 2 are success and failure.
* `DurableRecord`: tasks do not meet in the tables, so one is enough; `Ttl = 1`, `DayLength = 2` and three moments put
  expiry before, on and after the end of a day. One crash and one refusal come at every place. The memory log of one
  event evicts.
* `ArtifactCache`: a budget of 3 and sizes 1, 1, 2 and 4: two fit, one displaces one or two, one exceeds the budget alone.

`Load` and `Stores` put modules that share no state side by side: `part` picks one at the start and the others stay in
their initial states, so the states checked are those of each module, and nothing is said of a composition.

The runs of `WorkerRuntime` and `stores` set `CHECK_DEADLOCK FALSE`: when all tasks are done and all runtimes idle or
crashed, or the bounds on accesses, crashes and time are used up, nothing is left to do.

### Fairness

* `DagBatch`: `worker_loop` polls for ever (weak fairness of `Poll`) and every execution ends and is reported
  (`Finish`). Retries and discards need not happen.
* `WorkerRuntime`: the main loop, heartbeats and reaper run on tokio timers (weak fairness of each); processes end;
  time passes. Faults, crashes, refusals and cancellations are not fair. The reaper's two store calls are strongly fair:
  the store may fail now and then but not each time. Without that an orphan may stay for ever.
* `Coordinator`: heartbeats every 5 s, reaper every 10 s, probes every 30 s, handlers on runtime threads: each is weakly
  fair; a dead node's heartbeat becomes a minute old. Crashes, faults and stalls are not fair.
* `CircuitBreaker`: time passes, each caller keeps calling, and an awaited request ends.
* `LoadControl`: consumers poll (weak fairness of each); producers, `clear` and `reset` are not fair.
* `TaskGuards`: timers are futures of their own and a run polls `check` (weak fairness of both together, per runner);
  nothing makes the work end by itself.
* `FairShare`: the caller keeps asking for the next slice.
* `RemoteExecution`: weak fairness of the executor's own steps, among them the hour's timeout (a `tokio` timer) and the
  end of a local process. Commands in panes, ssh failures, cancellation and other users are not fair.

## 4. Proofs

`DagScheduler_proofs` holds for every finite set of natural numbers as tasks, every set of submissions, every policy and
capacity (the `ASSUME`s of `DagScheduler`). The inductive invariant `IInv` conjoins:

* `TypeOK`, `DepsCompleteFirst`, `HeapMatchesReady`, the properties themselves;
* `EdgesMatch`: `successors` is exactly the reverse of the dependency lists of the known tasks;
* `DepsKnown`: dependencies of known tasks are known;
* `InDegreeCovers`: `in_degree[t]` is at least the number of incomplete dependencies of `t`.

`InDegreeCovers` is the heart. The counter is not exact (section 5), but it never undercounts: `enqueue` starts it at the
length of the list, which names at most that many tasks (`RangeOfSeq`), and `complete` lowers it by one for a successor
in the same step in which the number of its incomplete dependencies drops by one. So a counter that reaches zero means
that nothing is missing, and a counter that is decremented is positive: `complete` cannot underflow.

| Theorem | States |
|---|---|
| `Invariance`, `TypeCorrect`, `DependenciesFirst`, `HeapConsistent` | `IInv` and the three properties in it are invariants |
| `TerminalStatesFinal` | no step moves a task out of a terminal state |
| `CascadeComplete` | the step in which a task dies dooms all its dependents: those that were Running or Completed cannot exist by `DepsCompleteFirst`, and the rest are in the least set closed under `successors` |
| `CascadeSound` | a task is DependencyFailed only behind a dead dependency: otherwise the cascade without it would be a smaller closed set |
| `AgingOnlyPromotes` | effective priorities stay between the submitted one and Critical, if `BoostsFit`: boost levels plus Critical fit a `u8` |
| `PoolNeverOvercommitted` | running tasks never need more of a resource than the pool has (`NoOvercommit`), if `RequestsFit`: capacity plus one request does not reach the word at which the `u32` sum wraps |
| `LeaksAreExact` | of `BatchSpec`: the pool holds what its running tasks were granted and one grant per retry (`PoolAccounts`), if `RequestsFit` and tasks are submitted with attempt 0 |
| `CountersExact` | of `BatchSpec`: `in_degree` is the number of incomplete dependencies (`InDegreeCountsIncomplete`), if `DistinctDeps`: no list names a task twice |

`NoOvercommit` is about a sum over the running tasks. A sum defined by a fold cannot be reasoned about without induction
over data, so `Totals` defines it by counting: `Total(amount, S)` is the cardinality of the set of all units of all
members of `S`. `Totals_proofs` derives from the library's theorems on finite sets what a sum is used for: it is a
natural number, zero over nothing, grows by `amount[x]` with a new member `x`, is monotone in the set, and depends on the
amounts of its members only. `PoolInv` is the inductive invariant: every running task is in `running_resources`, and the
pool's `used` is at least the total of that map and at most the capacity. It is not equal to it: a task that is requeued
keeps its share and takes another when it is handed out again, of which one is given back (`AllocationsAreRunning`,
section 5). The leak makes the pool too small, never too large. `LeaksAreExact` says how much too small: in a loaded graph
the difference is exactly the sum of `attempt * request` over all tasks, and no other operation adds to it. `RequestsFit` is needed because `can_fit` adds
before it compares, and section 5 has the refutation without it.

`CountersExact` strengthens `InDegreeCovers` to an equality. Where a graph is loaded first, no dependency is complete
when a list is counted, and lists without repetition count each task once; with late or repeated edges the counter can be
too high for good (`PendingIsWaiting`, section 5). `complete` is the only step that changes either side.

`CircuitBreaker_proofs` holds for every set of callers and every configuration allowed by `ConfigAssumption`, with
`IInv == TypeOK /\ ClosedBelowThreshold`: `TypeCorrect` (the call counter stays a word although callers add to it and
subtract from it outside the lock), `TripsInTime` (a Closed breaker has counted fewer failures than its threshold) and
`TimeoutRespected` (Open is left only after the timeout or by `reset`).

`WindowLimited` (`ProbesLimited`) is about callers that overlap, drop their calls and report by themselves. `LimitInv` keeps
the books of the HalfOpen counter: modulo the word it is the number of calls of this window less the counts that callers
of earlier windows (`late`) have taken back, and a caller that is about to take its count back is still in it. A window
can therefore admit more than `half_open_max_calls`, by one per late undo, and no more. That the counter neither
wraps up to the limit nor down to it needs a word larger than the limit and all callers (`CallerAssumption`).

For callers that take turns (`plain`) the invariant is `PlainInv`: at most one caller is inside `call`, and the counters
of a HalfOpen window agree with what happened in it. `half_open_calls < half_open_max_calls` while nobody waits is what
makes it inductive: the report that fills the window also leaves it. `ProbesClose` (`ClosedByProbes`) follows.

`Load_proofs` is about `LoadControl`, in `Spec`, and about `TaskGuards`, in `PartSpec`, the specification of the `load`
run. `CompositionImplementsLoad` (`PartSpec => Spec`) carries the former over to it.

The part on `LoadControl` holds for every finite set of producers and consumers and every configuration, with `IInv == TypeOK
/\ DepthAccounts /\ OvershootBounded`. The limit alone is not inductive: between check and addition a producer is
invisible in the counter. Counter plus number of such producers is what stays bounded: a check raises it to at most the
limit less one plus all producers, and an addition moves a producer from one summand to the other. That the words do not
wrap needs the accounting (whoever subtracts holds a place that was counted) and that the bound fits a word.
`LimitOvershoot` and `AccountsBalance` are the two properties; both are claimed until the first recovery. `HighestFirst`
(`PriorityRespected`) needs `ScanInv`: of the tasks that waited when a scan began, those in a queue the scan has passed
are gone, and stay away because what producers still bring was not queued before (`FreshInv`). It holds through `clear`
and `reset`, for any interleaving of producers and consumers.

`Stores_proofs` is about `DurableRecord`, in `Spec`, and about `ArtifactCache`, in `StoresSpec`, the specification of the
`stores` run; `CompositionImplementsRecord` is `StoresSpec => Spec`.

The part on `DurableRecord` holds for every set of tasks, lease time, day length and number of crashes and refusals.
`SqliteIsLeaseStore` (`Spec => IsLeaseStore`) is the refinement: `RecordInv` says that a row is a lease with its own
state and expiry in the columns and that clients write back leases they have read; with it every step maps to one of
`LeaseStoreContract` or to a stutter. An `update` of a missing row, which SQLite accepts, is a stutter.
`CompletedAfterItsEvent` needs `LogInv`: whatever can still write Completed to the table (a copy in somebody's hands, an
executor past its report) is already past the event, and an emission begins at the first sink, the database.
`RecoveryFindsLiveLeases` rests on the monotony of `Day`: a time that is not after the expiry is not on a later day.

The part on `ArtifactCache` holds for every set of contents with natural sizes, every budget and any number of kills and
errors (`SizeAssumption`). `CacheInv` is inductive for both properties: the index agrees with the directory, `total_bytes`
is the `Total` of the recorded sizes, `access` lists every entry once (`OrderOf`) and in order of use, no
file is longer than its content, and what `store` makes room for is not in the directory. The last two are why a write
that is cut short stays visible as a file shorter than its content, and why `entries.insert` never replaces an entry, so
that adding its size keeps the sum. `IndexIsTrue` (`IndexMatchesDirectory`) follows. `EvictionIsLeastRecent`
(`EvictsLeastRecent`) needs `access` to be in the true order of use (`InOrder`): no entry was used after one that follows it
(`since`). So the head, which `evict` takes, was used no later than all that stays; and `evict` runs only
while the sum and the new content exceed the budget, so what it takes could not have stayed.

The part of `Load_proofs` on `TaskGuards` holds for every set of runners, tasks, goals and priorities (`GuardAssumption`)
under the hypothesis `OneRunner` (no two runners of one task; without it `GoalExclusive` is refuted, section 5).
`GuardInv` adds that a runner at work, or between the two steps of `release`, is the one in the lock store, and that an
owner recorded by the detector is a runner at work that has recorded itself. `OneTaskPerGoal` and `AlarmsAreTrue` are
`GoalExclusive` and `NoFalseAlarm`.

`WorkerRuntime_proofs` holds for every set of runtimes and tasks, every retry policy and any number of faults, crashes,
refusals and cancellations. `OneRuntimePerTask` (`LeaseNamesTheOnlyHolder`) does not follow from the leases: the store
checks and inserts in two steps and each update writes back a copy. What carries it, for a task submitted once
(`submits[t] <= 1`; with two submissions not even `ExclusiveExecution` holds, section 5), is `OnceInv`: the task is in
one place (in the queue once, with one runtime that has no lease yet, or leased: `OnePlace`), because every `requeue` of
the code comes after the task has left the stub queue and then finds nothing to put back; and every copy that a runtime,
heartbeat, reaper or cancellation will write back names the lease's holder (`CopiesAgree`). The proof shows what the
guarantee rests on: it is the queue, not `LeaseManager::acquire`, that keeps a second runtime away.

`Coordinator_proofs` holds for every set of nodes, tasks and keys and any number of connections, faults and restarts.
`HandedInv` conjoins types and three facts:

* `TurnInv`, per connection of a node that has not stopped: a request, the work of a handler on it and its reply are on
  the connection the node waits on, one at a time, and on no other connection that still works. `AnswersMatch`
  (`RepliesMatch`) follows: a reply carries no identifier and needs none.
* `OwnInv`: requests about a task come from the node that holds it, and copies of leases name their node.
* `HeldInv`: a task has traces (a handed-out reply, a request about it, a holding) at one node at most, one copy there,
  none while it is queued, and its lease names that node. A restart leaves replies of the old coordinator under way and
  loses the queue; tasks are submitted once, so none is handed out again. `OneNodePerTask` (`HeldByOne`) follows.

`OldEndIsHarmless` (`OldEndSparesNew`) adds `CleanEnds`: whoever has seen the clean end of a connection has seen the end of
its handler. `handle_connection` deregisters the node first and drops the stream last, and after a break, an undecodable
request or a silent loss no clean end is ever seen. So the handler that deregisters a node is that of a connection whose
clean end the node has not seen, with late nodes, failing probes and any faults. It assumes nothing beyond the
`ASSUME`s of `Coordinator`.

`RemoteExecution_proofs` holds for every set of tasks, descriptors, repositories and tool calls, any number of attempts
and any failure of an ssh call, before or after its effect. `Base` (a task's commands go to the session of its
repository only) gives `AttemptsTakeTurns` (`OneAttemptRuns`). `CodesInv` adds where codes come from and `Tidy`: a task none of whose attempts
was abandoned has nothing on the host between attempts, and during one at most its own command or its own code. It gives
`OwnCodes` (`OwnCodeUnlessAbandoned`) and the refinement `KeepsContract`: every step is one of `ExecutorContract` or a
stutter. That is `FulfilsContract` without its fairness, which the `remote` run checks with it. These two assume
`DistinctSentinels`: the file's name has twelve hexadecimal digits of the task's identifier, and two tasks that share
them read each other's codes. `MCRemote`'s tasks are distinct.

`TypeCorrect` of the breaker and of the runtimes and `TripsInTime` have no run of their own: they are proved.

Only model-checked: liveness under fairness, which is out of the prover's reach: `BatchSettles`, `AlwaysReturns`,
`OrphanIsReaped`, `DeadNodeIsEvicted`, `LiveNodeReconnects`, `Recovers`, `CriticalServed`, `TimeoutEnforced`,
`NoStarvation`, and the liveness part of `FulfilsContract`. The refutations of section 5 and `worker_retry` are TLC's too.
Every other property of a run is a theorem.

## 5. Where code and documentation disagree

The violated run is a finding in `PROJECT.json`. The statements below are in the modules without a run of their own; TLC
refutes each with the constants given. "As X" means the constants of that configuration.

| Statement | Claimed by | Refuted with |
|---|---|---|
| `PendingIsWaiting` | dag.rs:35, "Task is waiting for dependencies to complete." | as `DagGraph.cfg` with three tasks: a task with a repeated or already completed dependency stays Pending for ever |
| `AllocationsAreRunning` | dag.rs:275, "Track resource allocations for running tasks." | as `DagPolicies.cfg`, `MaxTime = 0`: a requeued task keeps its allocation, and so loses capacity for good |
| `BatchAlwaysSettles` | nothing in the repository; `BatchSettles` without its exception | as `DagBatch.cfg`: the grants that retried tasks leaked leave no room for what still waits |
| `ProbesStrictlyLimited` | circuit_breaker.rs:33, "Maximum number of requests allowed in HalfOpen state." | as `Breaker.cfg`, `Drops = FALSE`, `DirectReports = FALSE`: a caller of an earlier window takes its count back in this one |
| `TwoOfThreeClose` | circuit_breaker.rs:46, "67% success = at least 2 of 3 succeed" | as `Breaker.cfg` with two callers and the default `half_open_max_calls = 3`, `Drops = FALSE`, `DirectReports = FALSE`: two of three are 66 percent in integers |
| `DependentsOfDeadAreDead` | dag.rs, failure cascade | as `DagGraph.cfg` with three tasks: a task enqueued behind a failed one stays Pending |
| `TiesGoToSmallerId` | dag.rs, comment on the heap | as `DagPolicies.cfg`, `Pooled = FALSE`: the larger identifier goes first |
| `BoostIsOneLevel` | dag.rs, comment on aging | as `DagPolicies.cfg`: every dequeue boosts again |
| `NeverDemoted` | dag.rs, "capped at Critical" | a policy `Boost(255)`: the `u8` sum wraps before it is capped |
| `NoOvercommit` | dag.rs, `ResourcePool` | a request of `Word - 1`: the `u32` sum wraps |
| `ExclusiveExecution` | IMPLEMENTATION.md | as `WorkerLeases.cfg`, `MaxSubmits = 2`: check and insert of the store are two steps |
| `RenewedIsNotReaped` | lease_manager.rs | as `WorkerLeases.cfg`: a heartbeat renews between the reaper's fresh read and its write |
| `NeverActiveAgain` | CHANGELOG.md | as `WorkerLeases.cfg`: a heartbeat writes back the copy it read before the lease ended |
| `CancelledStaysCancelled` | lease.rs | as `WorkerLeases.cfg`: the execution's own complete or fail overwrites it |
| `CompleteMeansSuccess` | IMPLEMENTATION.md | as `WorkerLeases.cfg`: an exit code that is not retryable is marked complete |
| `AcquireErrorKeepsTask` | worker_runtime.rs | as `WorkerLeases.cfg`: the stub queue no longer knows the task |
| `IdleLeaseEnds` | lease.rs | as `WorkerProgress.cfg`, `Crashes = 0`: `execute` fails and the heartbeat renews for ever |
| `CancelStops` | worker_runtime.rs | as `WorkerRetry.cfg`, `HangingSpec`, `Cancellable = {t1}`: cancelled between dequeue and registration of the token |
| `HandlerEndDeregisters` | ARCHITECTURE.md | as `CoordNode.cfg`, `Spec`: a failed send leaves the handler early |
| `EvictedHasNoEntries` | ARCHITECTURE.md | as `CoordNode.cfg`, `Spec`: the node is evicted between the two halves of an announcement |
| `LeasesAreRequeued` | ARCHITECTURE.md | as `CoordTasks.cfg`: the stub queue does not know the task |
| `ConnectedIsRegistered` | ARCHITECTURE.md:214, 217-221; ssh_health.rs:30 | as `CoordNode.cfg`, `Spec`, without any fault (`MaxFaults = 0`): the monitor probes a port on which no node listens, three failures evict the node that is connected and alive, and its heartbeats do not register it again |
| `ReconnectsAlways` | ARCHITECTURE.md:240, SCHEDULER_INTEGRATION.md:433 | as `CoordNode.cfg`: after a restart that the node sees as an error, or not at all, the dead stream stays in place (connection.rs:79) and the reconnect loop takes it for a connection |
| `LimitKept` | queue_backpressure.rs, "Maximum queue depth before rejection" | as `Load.cfg`, `MaxRecoveries = 0`: two producers check before either adds |
| `CounterSane` | queue_backpressure.rs, reset "for testing or recovery" | as `Load.cfg`: a place taken before the reset is given back after it and the counter wraps |
| `BacklogDrains` | priority_queue.rs, "graceful degradation" | as `Load.cfg`, `MaxRecoveries = 0`: Normal and Low tasks alone keep the system in Critical mode, which hands out neither |
| `OwnCode` | traits.rs:188, "Returns Some(code) if the sentinel file exists" | as `Remote.cfg`, `Spec`: an abandoned attempt's code is in the file of the next |
| `CancelHitsOnlyItself` | ssh_tmux_executor.rs:117, "On cancellation, kill the session" | as `Remote.cfg`, `Spec`: the session is that of all tasks of the repository |
| `SessionsAreUnique` | AIVCS_SESSION_SPEC.md:177, "Different work IDs → different sessions" | as `Remote.cfg`, `Spec`, `ToolCall <- CollidingCalls`: two work ids are sanitised to one |
| `RunsInRepoDirectory` | aivcs-session remote.rs:98, "Attach or create a tmux session in the repo directory." | as `Remote.cfg`, `Spec`: somebody's `cd` stays in force for the next task; with `ToolCall <- CollidingCalls` also: a session of a repository whose name differs in case keeps its directory |
| `RecoveredAreActive` | persistent_lease.rs, "Load all active leases from the store" | as `Stores.cfg`: the query looks at the expiry and not at the state |
| `ExpiredAreFound` | persistent_lease.rs, "Find expired leases for cleanup." | as `Stores.cfg`, `DayLength = 3`: an expiry of today is never smaller as text |
| `LogsAreReturned` | event_log.rs, "Get logs for a specific task." | as `Stores.cfg`: the query's rows are dropped |
| `ReturnedKeyIsStored` | artifact.rs, "Store using the combined key" | as `Stores.cfg`: nothing is written under a combined key |
| `ReturnedIsWhole` | artifact.rs, "A content-addressed artifact cache" | as `Stores.cfg`: a file cut short is taken for the content |
| `PipedKeysSeparate` | cache_key.rs, "stable, deterministic cache keys" | as `Stores.cfg`: a goal with the separator in it |
| `SpendingBounded` | budget.rs:39, "Returns error if budget is exceeded or task not found." | as `Load.cfg`, `Runner = {r1, r3}`: the other runner's `finish` removes the entry, and then nothing is charged |
| `GoalExclusive` | goal_lock.rs | as `Load.cfg`, `Runner = {r1, r2, r3}`: a second runner of the task releases the lock under the first |
| `CancelledByOwnTimer` | task_timeout.rs, "Reset timeout state (for reuse or testing)" | as `Load.cfg`: a timer of the run before cancels this one |
| `EveryInversionIsSeen` | priority_inversion.rs | as `Load.cfg`: the holder has the lock and has not recorded it yet |
| `LinearReachesHigh` | task_aging.rs, "Low/Normal: promote to High after base_ms" | as `Load.cfg`: a Low task is promoted one level, to Normal |

The two breaker properties about callers that take turns are refuted without their condition `plain` when calls overlap;
dropped calls refute `Recovers`, direct reports both.

## 6. What the models leave out

* Delays, timer periods and clocks beyond "has it expired": every order of events that some delay allows is allowed.
* Contents: commands, paths, environment, log lines, event payloads, node details, message bytes and frame lengths.
* Operating system: signals, process groups, log readers. A process ends at any time with any outcome.
* The release build's arithmetic is modelled (wrap-around); a debug build panics at the same places.
* A panic while a mutex is held.

## 7. Interaction of the modules

`WorkerRuntime` and `Coordinator` both use `Lease` and `StubScheduler`, i.e. the same store and queue seen once from the
runtimes and once through the network. In `Coordinator` a node asks for tasks and leases as the network adapters do;
the two-step insertion of a lease, the heartbeat and the reaper of the runtimes are in `WorkerRuntime`. `DurableRecord`
drives the SQLite store with the same clients (executor, heartbeat, reaper) as far as they touch the store and the sinks.
What the runtime assumes of its parts is stated by two abstract specifications: `ExecutorContract` (a call returns, once,
and success means that an attempt succeeded; `RemoteExecution` implements it) and `LeaseStoreContract`
(`DurableRecord` implements it). `DagScheduler` offers the same `Queue` operations as `StubScheduler`.

## 8. Not modelled, and what is left

Not modelled:

* the gatekeeper: a pure predicate (production flag, quiet hours) without a caller in the scheduler;
* test doubles (`fake_worker.rs` and other fakes) and the soak test's statistics;
* the unchecked `enqueue` of the limiter "for internal use", `clear` and the statistics of the event log, `clear` of the
  cache: nothing but tests calls them;
* the ledger: it is the last sink, and records nothing;
* the backlog rotation under an endless stream of Critical tasks: with aging capped at Critical, ties go to the larger
  identifier (dag.rs:240), so such a stream can keep a smaller one waiting; new identifiers without end are outside
  a finite instance.

Left to do:

* *Composition*: worker runtimes over `DagScheduler` instead of the stub queue, and an abstract task-queue specification
  that both queues are shown to implement, or not.
