# TLA+ models of the Hive and Fluid control planes

The repository is a Rust workspace that runs builds and serverless functions on
the operator's own boxes. **Hive** (`crates/hive-*`) turns a build job into one
build in a single-use cell (a microVM, a container or a process); **Fluid**
(`crates/fluid-*`) keeps pools of long-lived function instances in such cells and
sends requests to them; **hive-cloud** is the daemon that puts both behind an API,
replicates state between nodes and adds the surrounding services.

The models cover Hive's control plane, Fluid's pools and the part of hive-cloud that
replicates state: the queues, the fencing of admin mutations, and what survives a
restart. They are the parts whose correctness depends on the order in which concurrent
tasks, processes and nodes run, and they share one shape: state behind a lock that is
never held across an `.await`, so that every handler is a chain of small atomic steps
with the other handlers' steps in between. An action is one lock section together with
the end of the await that precedes it.

## 1. Inventory

### Hive control plane (modelled)

`crates/hive-controlplane/src/{lib,records,config}.rs`, types from
`crates/hive-core/src/{state,job}.rs`.

* State: `Inner` behind one mutex: what is reserved on each box, the cell table, the
  job table, the queue, the warm pools (image -> idle cells), the number of warm cells
  being provisioned, the number of running builds. Beside it the map of log buses, the
  scheduler's `Notify` and the local variables of each spawned task.
* Operations: `submit`; `scheduler_loop`, `schedule_pass`, `decide_one`, `take_warm`,
  `assign`; `run_cell`, `run_build_phase`, `fail_provision`, `teardown_cell`;
  `autoscaler_loop`, `reconcile_warm_pool`, `provision_warm`, `teardown_warm`;
  `reap_finished_jobs`.
* Hard: a reservation is made in one task and released in one of four exits of another;
  a build task reads its job again after an await; any number of tasks evict finished
  jobs at once; a client may post an id twice; a wake-up is a stored permit plus a tick.
* Correct when: the ledger is the sum of the cells; the counters count what they say; a
  cell has one owner and serves one job; jobs in flight are never evicted and finished
  ones stay within the bound; every job ends and every cell comes back.

### Job logs (modelled)

`crates/hive-controlplane/src/logbus.rs`, `crates/hive-api/src/lib.rs`.

* State: a ring bounded in lines and bytes with its drop counters, a broadcast channel,
  a `done` flag; per HTTP stream its receiver and position.
* Operations: `push`, `subscribe`, `mark_done`, what the control plane does with them,
  and `stream_logs`.
* Hard: ring and channel are updated in two steps; the channel overruns slow readers;
  time-out, `done` and the last read race; the job may be evicted, and its id may get a
  second bus, while streams follow the first.
* Correct when: a client reads the lines in order and without a gap up to the last one,
  and its stream ends.

### Fluid compute (mostly modelled)

`crates/fluid-compute/src/lib.rs`.

* State: `registry` (function pools with their instances and the cold starts in
  flight), `terminating` (cells to terminate), each behind its own mutex; the cold-start
  semaphore, the termination worker's `Notify`, the shutdown state, and the local
  variables of cold starts, the autoscaler, `mark_dead`, `unregister_many`, `shutdown`.
* Operations: `register_many`, `set_min_instances`, `set_safe_concurrency`,
  `update_config`, `unregister_many`, `mark_dead`, `lease`/`decide_lease`, `release`,
  `cold_start`, `reconcile`, `adapt_concurrency`, `termination_loop`, `shutdown`.
* Hard: any future may be dropped at any await; a cold start's reservation, permit and
  cell are released by three guards; the autoscaler decides under the lock and acts
  after it; one worker terminates everything; shutdown races all of it.
* Correct when: the reservations are exact, no pool grows beyond the limit in force, no
  cell is forgotten, nothing is terminated while it may still be leased, and shutdown leaves
  nothing behind.

### World queue and tenant queues (mostly modelled)

`crates/hive-cloud/src/{world_queue,queues,queues_api}.rs`.

* State: per node a vector of jobs or messages behind a lock, with attempts, due times
  and leases; GuardianDB as a mirror, written by tasks that are spawned and forgotten;
  the locals of one delivery loop per queue service.
* Operations: `enqueue`, `run_delivery_loop` with its sync, election, take and dispatch;
  `send`, `pull`, `ack`, `retry`, `ensure_synced`, `spawn_delivery_loop` with sweep,
  `take_due_for_push`, `reschedule` and `dead_letter`.
* Hard: mirror writes land in any order, or never; two nodes may elect differently, and
  a tenant's queue is pulled on one node and pushed on another; a job lives in a local
  variable while it is dispatched; a restart empties every vector.
* Correct when: what was accepted is delivered or given up after its attempts, no
  attempt is counted that was not made, a node gives a message to one consumer at a time.

### Ownership and fencing (mostly modelled)

`crates/hive-cloud/src/cluster.rs`, the ownership methods of `state.rs`,
`admin_ingress` and `admin_forward_to_leader` of `main.rs`.

* State: per node the registry's view, whether it is linked, the fencing epoch, the
  owner last observed; per mutation the forwarder's candidates and retries.
* Operations: the cluster loop's observation and bump, `adopt_epoch`, the epoch fence,
  serving or forwarding a mutation.
* Hard: views differ; `adopt_epoch` compares and writes under two locks; a request may
  be served after its forwarder gave up; the answer may be lost.
* Correct when: the client's answer is true, a settled fleet accepts mutations, and the
  epochs converge.

### Persistence and the replicated snapshot (mostly modelled)

`crates/hive-cloud/src/persist.rs`, the replication writer, retention and restore guard
of `guardian.rs`, the snapshot loop and the shutdown task of `main.rs`.

* State: generations `dirty` and `saved`, admission, the one writer slot; the replication
  lifecycle and its watch channel; in the store the parts, the head and the generation
  markers; the retention cursor.
* Operations: `persist`, `persist_durable`, the background persister, `flush_blocking`;
  replicate, publish, retire, sweep; shutdown; boot and adoption of a replica.
* Hard: three holders of the writer slot; a snapshot captured outside it; every put may
  fail or be the last before a crash; retention runs beside publication.
* Correct when: what was acknowledged survives, a clean exit hands everything over, and
  a reader of the store always sees one whole state.

### How they interact

`hive-api` calls `submit`, `job_view` and `stream_logs`. The control plane and Fluid
call the same `CellBackend` (`provision`, `run`, `start_function`, `terminate`), which
the models see as calls that take any time and succeed or fail. `fluid-gateway` leases
an instance per request, calls `mark_dead` when a connection fails, and unregisters a
deployment from a request handler of `hive-cloud` (`admin.rs`, `git.rs`). That caller
can go away: the reason that a dropped future is an action of `FluidPool`.

Inside hive-cloud, an admin mutation passes the ingress (`OwnerFencing`), changes the
state of the node that serves it and calls `persist` or `persist_durable`
(`StatePersistence`); every save asks the replication writer for a generation, which
`SnapshotParts` publishes. The queues use GuardianDB directly.

### Not modelled

`PROJECT.json` lists every part with its reason. In short: gateway, tunnel, command
line and backends are I/O around the modelled state; `fluid-build` and `fluid-core` are
sequential parsers; the largest files, `admin.rs` and `git.rs`, are request handlers and
build procedures over external tools. Of hive-cloud's protocols the placement leases
(`lease.rs`), the merging of gossiped records (`store_sync`), artifact transfer and the
connection pool are worth a model and have none yet; its business records, DNS,
certificates, console and scripts are not. `backups/` holds older copies of the same
crates.

## 2. Modules

| module | what it is |
|---|---|
| `HiveControlPlane` | the Hive control plane |
| `HiveControlPlaneProofs` | its types, ledger, cells, counters and retention, proved |
| `JobLogs` | one job's log bus and the streams on it |
| `JobLogsProofs` | the ring's accounts and what a client reads, proved |
| `FluidPool` | function pools, termination worker and shutdown |
| `FluidPoolProofs` | leases, ownership of cells, shutdown, types and admission accounts, proved |
| `AtLeastOnce` | what the world queue promises of a job |
| `WorldQueue` | the world queue on several nodes |
| `WorldQueueProofs` | its invariants and that it refines `AtLeastOnce`, proved |
| `TenantQueue` | a tenant's queue and its dead-letter queue on several nodes |
| `TenantQueueProofs` | its safety properties, proved |
| `Subsequences` | what `retain` and `filter` leave of a sequence |
| `OwnerFencing` | owner, epochs and forwarded mutations of a fleet |
| `OwnerFencingProofs` | its types, that the client's answer is true and when a settled fleet accepts, proved |
| `StatePersistence` | saving, replicating, shutting down, restoring |
| `StatePersistenceProofs` | its safety properties, proved |
| `SnapshotRegister` | what the store promises of a node's snapshot |
| `SnapshotParts` | publication and retention of snapshot generations |
| `SnapshotPartsProofs` | its invariants and that it refines `SnapshotRegister`, proved |
| `MC*` | the instances that TLC checks |

### HiveControlPlane

The variables `boxes` to `running_builds` are the fields of `Inner`. An absent record
is a record with state `absent`. `logs` is the set of ids that have a bus, `wake` the
permit in the `Notify`, `sched` and `auto` the positions of the two loops, `task[c]` the
position and locals of the one task that works on cell `c`.

A placement is `PlaceWarm` or `PlaceCold`, a whole pass of `decide_one` under the lock.
A build task goes `provision`, `start`, `bus`, `run`, `reap`, `reap_logs`, `terminate`;
a failed provisioning goes through `fail_reap` and `fail_logs`. Eviction
removes records under the lock (`EvictRecords`) and buses after it
(`TaskReapLog`, `AutoReapLog`), one at a time as in the code.

Abstractions: resources are small numbers; the outcome of a build is any state
`BuildResult::job_state` gives; a cell name is reused once its record is gone (the code
draws fresh random ids), and among unused names the choice is fixed because names carry
no information; the age of a warm cell is any age; warm cells reaped are a prefix of the
pool, which holds when `now_ms` never runs backwards. A failing `backend.terminate` only
logs, so it is the same step as a succeeding one. Read-only views have no action.

### JobLogs

One submission of one job, with the second bus that a late `submit` may create. A line
is its number with a length. `push` is two steps, `PrintLine` and `PrintLineSend`. A
stream is `live`, or in the middle of its time-out (`check`, `last`), or `ended`. The
channel is external (tokio): a receiver that is more than `ChanCap` behind loses lines.
The last `try_recv` of `stream_logs` takes `Lagged` for the end of the stream; such a
stream was overrun, and the two properties about completeness exempt it.

### FluidPool

`pools` and `inst` are `registry`; `inst[c].key` is the pool an instance belongs to.
`term` is `terminating`, `permit` its `Notify`. `cold[c]` is the cold start that uses
the name `c`: `admit` waits for a permit, `provision` and `start` are the two backend
calls, `reset` is the gap between publication and keep-warm's `inflight = 0`. `ColdEnds`
is every way a cold start can end without an instance, errors and dropped futures alike.
`hand` and `unreg` hold the cells that `mark_dead` and `unregister_many` have taken out
of the registry and not yet enqueued. `alive` is the backend's view.

Abstractions: time is left out, so an instance may be past its TTL or due for recycling
at any tick once it was used, and a lease may always be refused by the circuit breaker
(no step at all); waiting for a cold start in flight lasts at most 800 ms and is not
tracked, so a request may start another one at any time; the probe of the health loop
may be stale, so `MarkDead` applies to any instance; the worker picks any queued cell,
since it takes the smallest of random ids; a notification that comes between wake-up and
scan counts as one during the scan; shutdown's deadline passes only where shutdown
cannot go on. A `provision_runtime` that is dropped half-way leaves nothing behind:
that is the backend's duty. `Fresh` never reuses a cell name.

A configuration is its `min_instances` and `max_instances`, and nothing relates the two:
`register_many` and `update_config` bring any of `Configs`, `set_min_instances` any of
`Floors`, whatever is running at that moment. The `max_concurrency` and the runtime that
an edit brings too are only visible as the safe concurrency it leaves, any value of its
range; the range itself (`MaxConcurrency`) is fixed.

### WorldQueue

`pending[n]` is a node's working set, `kv` the mirror, `ops` the mirror writes in flight,
`loop[n]` the delivery loop: `idle`, `sync` (reading the mirror key by key), `take`,
`batch` (the jobs it took and has not dispatched) or the job it awaits. `primary[n]` is whom the node elects;
`ChangeView` recomputes it from any set of candidates it may see, by `ElectAmong`. A job
that is taken is in the loop's locals only; a crash loses it there. GuardianDB is one
map, its replication delay part of the delay of an operation. Due times are left out: a
job held may be due or not. One tenant; tenants share nothing but the loop.

### TenantQueue

`log[n][q]` is `MessageLog.messages` of a queue on node `n`, in order, each copy with its
attempts and a lease that is `none`, `live` or `expired`. `api` holds the keys that a
request's first-touch sync still has to read, `loop[n]` the delivery loop with the batch
it pushes. Clocks are left out: a message may be due, a lease may expire and a message
may be past its retention at any moment.

The two roles of a node are different views that change. A mutation of `/v1/queues`
(send, pull, ack, retry) is forwarded to the control-plane leader (`main.rs:2620`;
`owner_routed`, line 2266, does not name the path) and served there (`Serve`); a read such
as the metrics is served by any node and reads a queue's messages back too (`Touch`). The
loop of a node pushes when `is_primary_for_queue` (`queues.rs:775`) elects it among the
hosts of the tenant, or when it knows of none, which is true on every node at once
(`Visit`). So any node of `Leaders` may serve and any node of `Primaries` may push, at any
moment, and nothing makes them one node. The nodes share the mirror only: one map, whose
replication delay is part of the delay of a write.

A mirror write is a spawned task in `ops` that lands at any time (`OpLands`), or fails, is
logged and never tried again (`OpFails`), or dies with its node (`Restart`); identical
writes of one node under way count once. A failed push gives up the exhausted messages
(`DeadLetter`) and puts the others back (`PutBack`). `target` is the consumer's
`dead_letter_queue`: another queue, none, in which case the message is dropped, or the
queue itself, which `queues_api.rs:285` does not forbid. Not modelled: creating, pausing
and deleting queues and consumers, `merge_synced`, purges, several tenants.

### OwnerFencing

`view[n]` is what the registry of `n` shows healthy, `linked[n]` whether it recently
dialled a peer, `epoch`, `owner` the fields of `Cluster`, `adopting` the epochs that
`adopt_epoch` compared and has not written. `fwd[r]` is the ingress handler's progress
with mutation `r` (`body`, `serving`, `walk`, `wait`, `restamp`, `done`), `wire[r]` the
copy at the peer it was sent to, which may still be served after the forwarder stopped
waiting. `applied` counts how often a router ran the mutation. Not modelled: reads,
owner-routed paths, the loopback listener, placement leases.

### StatePersistence

State is the set of mutations it contains. `dirty`, `saved`, `open` are the persister's
generations and its admission, `bg` its thread, `writer` the slot that `persist_durable`,
the thread and the flush compete for, with what its holder captured. `rep`, `queue`, `gw`
are the replication lifecycle, the watch channel and the writer task behind it; only the
latest and the committed generation are kept of the lifecycle. `shut` is the shutdown
task, `guard` the restore guard (`done` at `Init`, running after a boot that finds
something to restore). Durable callers are studio replay tickets and artifact transfer,
both in stores that restore merges, hence `Durable \subseteq Merged`. Times are compared
only with the time of the last commit, so the clock ticks there: a file carries the
clock of its capture, a committed head a new tick. Not modelled: the peer fallback of
the guard, namespace documents, a peer whose replica lags behind the store.

### SnapshotParts

How `StatePersistence`'s commit of one generation happens. A state is the set of its
parts; a part is its place in the order of the keys, which is all retention's cursor
needs. `born` is when each part was put, `head` the head, `markers` the generation
markers, `writer` the batch being published (parts, head, marker), `pass` the retention
pass, `aged` the last tick beyond the grace window. The clock ticks when a head is put.
The abstract `value` is the head's parts.

## 3. What the runs show

Several properties are conjunctions of named parts, so that one run reports on all; the
parts are named in brackets.

### Passing runs

* **hive_safety**: two jobs, one of the size of a warm cell and one that fits only the
  big of two boxes, one warm image, retention of one, every failure. `TypeOK`, the
  ledger (`CapacityExact`), the counters (`CountersExact`: `BuildsExact`,
  `WarmBounded`), the cells (`CellsAccounted`: `WarmPoolSound`, `TaskCellAgree`,
  `EveryCellOwned`, `JobCellAgree`), retention (`RetentionSafe`: `InFlightNeverEvicted`,
  `RetentionBounded`, `LogsReadable`) and single use of cells (`SingleUse`).
* **hive_liveness**: two jobs that do not fit together on one box. Each ends
  (`EveryJobFinishes`) and each build cell comes back (`BuildCellsReturn`).
* **logs_streams**: five lines, one of them as big as the byte bound, into a ring of
  two lines and a channel of two. `TypeOK`, the ring's accounts (`RingExact`), the order
  and completeness of what a client reads (`ClientReadsAll`: `StreamInOrder`, `GapFree`,
  `CompleteAtEnd`) and the end of streams on a finished bus (`DoneStreamsEnd`).
* **fluid_safety**: two requests that may share an instance, three cells, the key
  registered up to twice, with edits between a limit of two without a floor and a floor of
  two above a limit of one. `TypeOK`; the admission accounts (`PoolAccounts`): reservations
  are exact (`ProvisioningExact`), and a step makes a pool grow only if it is a request
  below the limit in force or the autoscaler warming up to the floor in force
  (`GrowsWithinLimits`); what a lease may rely on (`LeasesSound`: `NoPhantomLoad`,
  `LeasableAlive`). That a pool never has more than `max_instances` would be false: a limit
  may be lowered below what is running, and a floor may be above it.
* **fluid_shutdown**: one request, two cells, with an unregistration, a dead instance, a
  failed terminate, a caller that goes away and a shutdown at any moment. No cell is
  forgotten but those the caller took with it (`CellOwned`), a successful shutdown leaves
  nothing else but what a concurrent call still holds (`ShutdownComplete`), terminations
  and reconciles end (`LoopsDeliver`: `TerminationsDone`, `AutoscalerReturns`).
* **world_queue**: two nodes, one job, two attempts, two faults (changed views, crashes,
  refused mirror writes). `TypeOK`; an accepted job is in the mirror or on its way there
  until it ends (`NoJobLost`); no copy counts an attempt that did not fail
  (`AttemptsHonest`); all loops together implement `AtLeastOnce`
  (`ImplementsAtLeastOnce`); with a settled election every job ends (`EveryJobSettles`).
* **tenant_queue**: one message, a queue with or without a dead-letter queue, two nodes
  that may both serve clients and one of which may push, sweeps, both kinds of sync, one
  fault (a write that fails, a restart). `TypeOK`; a message that was not acknowledged,
  delivered, swept or dropped is in a mirror or about to be, unless one of its writes
  failed, died with its node or raced a delete, and is in some node's memory, unless a
  node that held it restarted, so that it takes two faults to lose it (`NoMessageLost`);
  on each node one consumer at a time (`OneConsumer`); what is dead-lettered or dropped
  was offered more than `max_retries` times (`AttemptsHonest`).
* **owner_fencing**: three nodes, two of them in the operator's chain, one mutation, one
  fault (a missed probe, a failed dial, a crash). `TypeOK`; an `ok` means applied once
  and a refusal means not applied, now or later (`AnswersHonest`); while nothing disturbs
  a fleet whose nodes all see each other, a mutation whose owner can be reached is refused
  only after the bounded retries are used up (`SettledFleetAccepts`); faults over, the
  epochs of all nodes become equal (`EpochsConverge`).
* **state_persistence**: a durable and a coalesced mutation, the three holders of the
  writer slot, a pass of the snapshot loop, one restart, one failed write or lost disk,
  shutdown and the restore guard. `TypeOK`; what was acknowledged stays in memory and on
  disk (`AckedSurvives`); a flush that closed admission has everything on disk
  (`BarrierComplete`); a drained shutdown committed the last generation and a clean exit
  hands over what was acknowledged (`DrainSound`: `DrainedIsLatest`,
  `CleanExitReplicated`); the background thread saves every mutation
  (`EveryMutationSaved`).
* **snapshot_parts**: three states over four parts, retention of one generation with a
  budget of one deletion, one failed put or delete or crash. `TypeOK`; the parts of every
  marker and of one further state stay (`GenerationsKept`); a reader sees an atomic
  register (`ImplementsRegister`); garbage goes away (`RetentionConverges`).

Deadlock is not checked in fluid_shutdown, logs_streams, world_queue, tenant_queue,
owner_fencing and the two runs of `StatePersistence`, which stop when everything has
ended and the bounds on the environment are used up.

### Runs that show a disagreement

* **hive_leak** (`EveryCellOwned`): a job id posted twice. When the first run's record
  is evicted while the second is placed, `run_build_phase` returns early and the cell
  stays reserved for ever. Of the other invariants, the job's side of `CellsAccounted`
  and of `RetentionSafe` also assumes one submission of an id; the ledger, the pools,
  the counters, single use and the retention bound do not, and are proved for any number.
* **state_clobber** (`LiveChangesKept`): the restore guard compares the replica with the
  file; a change that is admitted and not yet saved does not veto the adoption, and is
  replaced.

### Known divergences

Further places where the code does not do what a comment says, seen while modelling.
The models contain the behaviour; the properties except it, each by name.

* hive-controlplane `lib.rs:178`: `submit` creates the bus after it released the lock,
  so possibly for a job that was evicted, and nothing evicts that bus. `lib.rs:224`:
  "Record and bus are evicted as one unit".
* `logbus.rs:108`: `push` sends after it released the ring, so a stream that subscribes
  in between gets the line twice. `logbus.rs:133`: "so we don't miss or dup a line that
  arrives mid-subscribe".
* `lib.rs:565`: `fail_provision` marks only an existing bus as done; one that `submit`
  creates later is never done and its streams wait. hive-api `lib.rs:59`: "ending when
  the build completes".
* fluid-compute `lib.rs:2125`: keep-warm sets `inflight` to 0 after the instance became
  leasable, so the instance of a live request may be drained. `lib.rs:2081`: "terminate
  once its in-flight requests have all completed".
* `lib.rs:812`: after a failed terminate the worker waits for the next enqueue.
  `lib.rs:801`: "this same loop retries it".
* `lib.rs:1980`: a dropped `unregister_many` future takes its remaining cells with it.
  `lib.rs:407`: "A cell removed from the registry stays here until the one owned
  termination worker has completed backend teardown".
* fluid-compute `lib.rs:2064`: keep-warm compares with `min_instances` only, so a floor
  above `max_instances`, which nothing refuses, is warmed up to. fluid-core `lib.rs:387`
  of `max_instances`: "Autoscaling ceiling".
* hive-cloud `queues.rs:795`, `main.rs:2620`: pulls are served by the control-plane leader
  and pushes made by the tenant's elected host, or by every node that knows of no host.
  Leases are in each node's memory, and each reads the mirror back, so consumers on two
  nodes may hold the same message. `queues.rs:13`: "Messages are node-local to the queue's
  elected owner". `OneConsumer` therefore speaks of each node, and the fleet has no such
  property.
* `guardian.rs:5277`: a put that fails is logged and not repeated, so an accepted message
  may be missing in the mirror until the next put and lost at a restart of the node that
  holds it. `queues.rs:15`: "mirrored to GuardianDB for durability across a restart". A
  queue that is its own dead-letter queue races the put of the letter with the delete of
  the same key.
* hive-cloud `queues.rs:535`: a sync may read an acknowledged message back before the
  spawned delete lands, and it is offered again. `queues.rs:513`: "Ack (permanently
  remove) a leased message".
* `main.rs:3544`: on an empty disk the snapshot loop may replicate the empty state over
  the node's own replica while the restore guard still waits for it (up to a minute).
* Two nodes with different views may both serve mutations: the fence stops only a sender
  that is behind. `OwnerFencing` therefore claims the truth of answers, not one writer.

### Bounds

Names that start with `Max`, and `NCells`, `Late`, `MayShutdown`, cap what the
environment does; nothing in the code depends on them.

* Hive: two jobs and three cells are the fewest where a build, a failed provisioning and
  a warm cell overlap, and where eviction with a bound of one has something to evict and
  something to keep. Three jobs would exercise eviction of two records at once; the
  proofs cover the ledger for any number.
* Logs: five lines over a ring of two evict one and several lines per push; one stream
  is enough because streams share nothing but the bus, which they only read.
* Fluid: three cells allow an instance to be replaced while another is being drained;
  two requests allow a slot taken during keep-warm's gap. Two configurations, one with a
  lower limit than the other and than its own floor, let an edit come while more is running
  than it allows; the shutdown run keeps one configuration and moves the floor. It
  has two cells, one in the registry and one at any other place. A key registered a second time starts
  with `provisioning` 0 while cold starts of the first registration still run;
  `PoolAccounts` is not true then and says so. The tenant quota is off (it needs a
  second key).
* World queue: jobs share nothing but the loop, so one is enough; two nodes whose names
  rank in reverse of their ids disagree in both steps of the election; two faults allow
  a wrong view and a crash. Proved for any number.
* Tenant queue: one message has a copy in a log of either node and one per mirror, and at
  most two writes under way (`MaxWrites`). Both nodes serve, one pushes: the fewest with a
  pull on one node beside a push on the other. Clients pull only from the main queue
  (`Served`), a node's letters are counted up to one, one fault. TLC checks another
  dead-letter queue and none; the queue as its own is covered by the proofs, like more
  messages, nodes, writes and faults.
* Fencing: two chain nodes and one that only the identity election can seat; three
  retries as in the code; one fault moves the ownership and back.
* Persistence: one mutation of each kind, since mutations of a kind are alike; one boot,
  one fault. state_clobber also admits requests after the boot (`Late`).
* Parts: neighbouring states share a part, so a part may be garbage for one generation
  and needed by the next; five changes let all three states come twice; a budget of one
  makes every pass resume at a cursor.

### Fairness

Weak fairness, and only for tasks that the runtime polls and calls that the backend
answers: in Hive the scheduler and autoscaler loops (both have a tick), each cell's task,
the second half of `submit`, an eviction that began; the building task and the streams;
in Fluid the termination worker, the autoscaler, shutdown, each cold start and each
hand-over. Nothing makes clients submit, lease or release, and nothing makes a backend
succeed. `hive_liveness` has no warm pool: warm cells may occupy the capacity a queued
job waits for as long as the pool's target says so, which is a decision of the
configuration. `teardown_warm` frees capacity without a notification; the scheduler finds
it at its next tick, which is `SchedulerTick`. `LoopsDeliver` exempts runs in which a
terminate failed (see above).

* World queue: one loop with a tick every 200 ms and a sync every 25th tick, so taking a
  due job and starting a sync are strongly fair (either may come first each time); loop
  steps and mirror writes weakly. `EveryJobSettles` assumes that the views agree on one
  node from some moment on, and exempts jobs whose mirror write was lost.
* Fencing: the cluster loop, the gossip round and a started `adopt_epoch` of every node.
* Persistence: the persister thread and whoever holds the writer slot. Nothing makes
  GuardianDB answer.
* Parts: the loop that replicates, the passing of time, the batch and the pass begun;
  asking for a pass strongly, since it is refused while a batch is being written.

## 4. What is proved

Each theorem holds for every value of the constants its module's named assumption
allows; each rests on an inductive invariant that TLC checked first, and its proof has
one step per action.

* `HiveControlPlaneProofs` (`ConstantsAssumption`), in four parts:
  * `TypeCorrect`. `TypeOK` is inductive as it stands because it carries, beside the
    shapes, the two facts that steps rely on: a present cell names a real box, and a
    build task works for a job.
  * `CapacityCorrect`. The sums over cells are cardinalities of a set of slots, one per
    unit held (`Slots`), so that library facts about finite sets replace an induction
    over sums. `CapacityExact` is inductive together with `TypeOK`: a step leaves
    presence, box and size of every cell alone (`CapacityKept`), places one absent cell
    on a box that has room (`CapacityPlaced`), or removes one present cell
    (`CapacityReleased`). The second needs `can_fit`'s comparison with saturating
    subtraction, the third that the ledger is exact, since a release saturates too.
  * `CellsCorrect` (`WarmPoolSound`, `TaskCellAgree`), `SingleUseCorrect`,
    `CountersCorrect`. The invariant `CellsInv` says what a pool, the cell table and the
    one task of a cell know of each other; nothing in it mentions the job table, which is
    why these hold however often an id is posted. Single use is a step property from it.
    The counters are cardinalities of sets of tasks; each exit of a task removes one.
  * `RetentionCorrect`, and under `OncePosted` also `CellsAccountedCorrect` and
    `RetentionSafeCorrect`. `JobsInv` adds the job table: which cell a job in progress
    is on, which job a task works for, that a queued id is queued once and a result is
    recorded once. `submit` replaces the record of an id it knows, so none of this
    survives a second post of an id whose first run is under way: `OncePosted`
    (`MaxSubmits` at most one) is the hypothesis, hive_safety checks an instance that
    satisfies it and hive_leak shows what happens without. The bound itself needs no
    such hypothesis: each task between its result and its reap exceeds it by at most one.
* `FluidPoolProofs` (`PoolConstants`): `LeasesSoundCorrect`, `CellOwnedCorrect`,
  `ShutdownCompleteCorrect`. The invariant says that a name drawn for a cold start is
  known to nobody else (`NamesOK`), that a cold start or a lease knows its instance
  (`ColdOK`, `LeaseOK`), that a cell handed over is out of the registry and alive until
  terminated (`HandedOK`), and what each stage of shutdown has emptied (`EndingOK`).
  The numbers in pools play no part: limits, targets and reservations are free.
  `TypeCorrect` is proved part by part (`Parts`): a cold start publishes only into a pool
  that is registered, and whatever removes a pool removes its instances; `aimd_step`
  keeps the safe concurrency in its range. `PoolAccountsCorrect`: for a key registered
  once, `provisioning` is the number of its cold starts and the pool grows within the limits in force, whatever
  edits come between. The invariant is per key (`Account`), the counts are cardinalities; a
  release is exact because the reservation it returns is one of those counted, no step of
  a cold start adds to the live count, and `reconcile` asks for exactly the shortfall to
  the floor. Nothing is assumed of how floors and limits compare.
* `WorldQueueProofs` (`WorldQueueAssumption`): `TypeCorrect`, `NoJobLostCorrect`,
  `AttemptsHonestCorrect` and `Refinement`, that every step of every node is a step or a
  stutter of `AtLeastOnce`. Beside the properties the invariant says that only accepted
  jobs have copies (`CopiesAccepted`), a job in the loop's hands is held nowhere else on
  its node (`AwaitedHeld`), and a delete is in flight only for a job that ended
  (`DeletesSettled`). That the election returns a node is well-foundedness of the ranks.
* `OwnerFencingProofs` (`FleetAssumption`): `AnswersHonestCorrect`. The invariant says that
  at most one copy of a mutation can still be applied, where it is (`OneCopy`), and what
  an answer implies (`Told`). It needs nothing of views, owners or epochs: the truth of
  answers does not depend on the election. `TypeCorrect` carries where a handler stands and
  that one which waits has somebody to ask (`Located`). `SettledFleetAcceptsCorrect`: as
  long as a mutation is undisturbed and has retries left, the elected owner heads its
  forwarder's candidates, the copy on the wire is at that owner, and a fence discloses a
  newer epoch, which the forwarder has adopted or is about to (`CalmInv`); so it can be
  refused only once the retries are spent. More would be false: an owner that advances
  its epoch between tries spends them, and so does a write of an older epoch that
  `adopt_epoch` had compared before, which counts as a disturbance; main.rs:2674 too
  calls the protection a bound.
* `TenantQueueProofs` (`TenantQueueAssumption`): `TypeCorrect`, `AttemptsHonestCorrect`,
  `NoMessageLostCorrect`, `OneConsumerCorrect`, for any nodes in any roles and any
  dead-letter queue or none. `CountsInv` says that every copy of a message, in a log, a
  mirror, a pending write or a loop's batch of any node, counts no more attempts than were
  offers, and that only an exhausted message was given up. `NoMessageLost` is two
  invariants, kept by two step lemmas: `KeptStep` says where a message that is not finished
  is mirrored, or which pending write will mirror it, `RememberedStep` which node holds it.
  `OnePlace` says that on a node where no sync raced the loop, no message is twice in the
  queue and the loop's batch together; a step of another node does not touch it.
  `retain` and `filter` pick positions in order (`Subsequences`), counted with
  cardinalities instead of recursion, and three lemmas say what they keep.
* `StatePersistenceProofs` (`PersistenceAssumption`): `TypeCorrect`,
  `AckedSurvivesCorrect`, `BarrierCorrect`, `DrainCorrect`. The invariant relates what a
  slot holder captured to the generations (`SlotOK`), acknowledged mutations to memory,
  file and captures (`DurableOK`), admission to `dirty` (`AdmittedOK`), the desired to
  the committed generation (`ReplicationOK`), the stages of shutdown to both
  (`ShutdownOK`), and an exit to the next process (`CarriedOK`).
* `SnapshotPartsProofs` (`PartsAssumption`): `TypeCorrect`, `GenerationsKeptCorrect` and
  `Refinement` of `SnapshotRegister`. The invariant says that only asked states are named
  (`OnlyAsked`), that what a head or marker names is present (`NamedPresent`), that a
  running pass spares it (`PassSpares`), and that one further state is kept
  (`OthersKept`), because the newest marker before the head's is never doomed.

* `JobLogsProofs` (`LogConstants`): `TypeCorrect`, `RingExactCorrect`,
  `ClientReadsAllCorrect`. The sum over a prefix of the ring is a recursive function; that
  it exists and that sums of consecutive lines add up (`SumsExist`, `PrefixShift`) is
  shown by the least number for which it would fail. A push pops the least number of
  lines after which both bounds hold, which is at most all but one (`PushRingExact`). The
  invariant says that only the build task's bus has lines (`OneWriter`), where the task
  stands between ring, channel and done flag (`Writing`), that what a stream read is a
  piece of the log that starts where its backlog ends (`Reading`, `Gapless`), and that
  nothing but the error line follows once a stream may end (`Finished`).

Model-checked only: all liveness (the prover has neither fairness nor `ENABLED`), and the
two runs that show a disagreement.

## 5. Plan

Next modules: `FluidCircuit` (failure and crash streaks, back-off and the half-open
probe); the placement leases of `lease.rs` on top of `OwnerFencing`; `StoreSync`
(last-writer-wins records of `store_sync.rs` and gossip, and their convergence);
`SqlitePool`. Next runs: the tenant quota with two keys; two messages in `TenantQueue`
with clients on both queues; `TenantQueue` with one consumer in the fleet as a property
that the code is expected to violate. Next proofs: those modules' invariants.
