# Formal models of the inference cluster

TLA+ models, model-checking runs and machine-checked proofs for the
distributed LLM inference server in `src/`.

## 1. The system

A *router* process (`router/router.py`) spreads `POST /generate` calls over
*worker* processes (`server/api.py`) by consistent hashing. It watches the
workers with a heartbeat monitor and starts and stops further workers with a PID
autoscaler. A worker queues its calls by priority, rate-limits them, and
generates them in batches with one background thread.

| component | state | operations | hard part | what makes it correct |
|---|---|---|---|---|
| limiter, `scheduler/rate_limiter.py` | `_tokens`, `_last_refill`, two counters | `acquire`, `stats` (both refill) | real time, boundary values, polling | no burst beyond capacity + rate in any window; no refusal without cause |
| priority queue, `scheduler/priority_queue.py` | heap under a condition | `push`, `pop(timeout)`, `size` | ties, pushes while a batch is collected | most urgent first, nothing lost |
| scheduler, `scheduler/scheduler.py` | queue, limiter, worker thread, counters | `submit`, `_worker_loop`, `_process_batch`, `start`, `stop` | client threads against the worker; failing batches; time-outs; reconfiguration without a lock | each request resolved once, in one place at a time; bounded batches and lengths; exact counters; every call answered |
| worker server, `server/api.py` | `state` dictionary | `lifespan` (warm-up, shutdown), `/generate`, `/scheduler/config`, `/scheduler/drain`, `/cache/flush` | check-then-use of `state`; shutdown against handlers; drain against the batch in progress | every call made before the shutdown is answered; what "drained" means |
| block allocator, `core/kv_cache.py` | pool with reference counts, free stack, prefix cache | `allocate`, `free`, `get_or_create_prefix_block`, `copy_on_write` | `copy_on_write` reads before it locks and locks twice | counts exact, no leak, no double free, copies private |
| sequence caches, `core/cache_manager.py` | block tables, token count | `append_token_kv`, `increment_token_count`, `get_kv`, `free`, create/free sequence | flush against append; two creations of one id; block boundaries | tables share no block; who writes where; what leaks, and when; assembled length against token count |
| heartbeat monitor, `router/heartbeat.py` | status, streak, counters per node | `register`, `_loop`, `_check` | mixed results; callbacks in threads of their own | timely detection and recovery, alternating callbacks |
| hash ring, `router/hash_ring.py` | sorted virtual nodes, node map | `add_node`, `remove_node`, `get_node`, `get_nodes_for_key` | wrap-around, collisions | successor lookup, distinct replicas, minimal remapping |
| router, `router/router.py` | ring, monitor, autoscaler | `lifespan`, `route`, `forward`, callbacks, `/autoscaler/config` | ring and monitor looked at under different locks; callbacks out of order; settings rewritten one by one | stopped workers stay out of the ring; a healthy candidate is found |
| autoscaler, `metrics/autoscaler.py` | workers, next port, last scaling, events | `_tick`, `_scale_up`, `_register_when_ready`, `_scale_down`, `stop` | registration racing removal; workers that take their time to stop | limits, cooldown, no process lost or stopped by the wrong hand |
| PID controller, `metrics/pid.py` | settings, integral, last error and time | `update`, `reset` | clamps, leak, small `dt`, fractional targets, settings written amid an update | bounded integral; lasting load is answered, load that is gone is not |
| collector, `metrics/collector.py` | snapshots, windows | `_collect`, `queue_depth_now` | a poll that fails counts as depth 0 | reported depth is the workers' |

Interactions. Inside a worker, handler threads and the worker thread share the
queue, the limiter, the futures and `max_batch_size`. Inside the router, the
monitor's thread starts a thread per callback, which changes the ring that
`route()` reads, and the autoscaler's threads change ring and monitor. The two
kinds of process share nothing but HTTP.

The hazards found in reading are listed in `PROJECT.json` ("hazards"), each at
its line and with the properties that cover it.

## 2. Modules

| module | models | kind |
|---|---|---|
| `TokenBucket` | the limiter | component |
| `InferenceContract` | what a worker promises for each request | abstract specification |
| `Scheduler` | one worker node: handlers, queue, worker thread, administration, start-up, shutdown; instantiates `TokenBucket` on its variables | composition |
| `BlockPool` | state and critical sections of the block pool | shared by the next two |
| `BlockAllocator` | the pool's operations, with prefix blocks and copy on write | component |
| `SequenceCache` | sequence caches and their manager on a pool | composition |
| `MonitorContract` | what the monitor promises the router | abstract specification |
| `Heartbeat` | the monitor | component |
| `HashRing` | the ring, as operators on its state | shared |
| `Cluster` | the router process: ring, monitor, callbacks, scaling, registration, `route()`, and the worker processes; instantiates `MonitorContract` | composition |
| `PIDController` | the controller, as operators on its state | shared |
| `Control` | collector, controller, scaling decision, retuning | composition |
| `MC*` | instances for TLC | |
| `*Proofs` | theorems and proofs about the module of that name | |

`Cluster` and `Control` are the two halves of the router process: `Control`
says when a worker is started or stopped and forgets what becomes of it;
`Cluster` lets that happen at any time and follows the consequences.

Operators named in a comment as a *Mistake* are not part of any
specification. Each is the form the definition below it would have with a
plausible bug, and serves to show that a property notices it
(`PROJECT.json`, "mutants").

### TokenBucket

Each method of the class holds `_lock` throughout, so a call is one step:
`Admit` and `Reject` are the two ways `acquire()` returns, `Stats` is `stats()`,
`Tick` is the clock. Tokens are counted in integral units of which one request
costs `Cost`, so that rates below one request per tick occur. `grants` is a
history variable: the instants of the successful calls.

### Scheduler

A step is what a thread does between two points where another can run.

* *Handlers* (`api.generate`, and `lifespan` for its warm-up): `phase` goes from
  `new` through `built` (the `Request` exists and is stamped), `admitted`
  (`acquire()` consented, not yet pushed) and `waiting` (in `fut.result`) to
  `answered`. `Throttle`/`Admit` and `Enqueue` are the two halves of `submit()`;
  `GiveUp` is the time-out of `fut.result`.
* *Worker thread*: `worker` is its program point. `PopFirst` and `PopMore` are
  `queue.pop()`; the heap is a set and `Heads` are the elements `heappop` may
  return (it does not order ties). `CloseBatch` ends the collection for any of
  its reasons. `Generate` and `GenerateRaises` are the outcomes of `_run_batch`,
  `ResolveNext` sets one future, and `Account` is the section under `_lock`.
* *Administration*: `Configure` writes `max_batch_size` at any moment;
  `DrainCalled`, `DrainReturns`, `DrainTimesOut` are `DELETE /scheduler/drain`.
* *Life cycle*: `lifespan` is `warming` until the warm-up's result is there, then
  `serving`. `Stop` happens when uvicorn has let all handlers finish
  (`HandlersDone`, external to `src/`), and `StopReturns` is `join(timeout=5)`
  followed by `state.clear()`.

Time-outs may expire at any moment the code can observe them; prompts, padding
and sampling parameters are left out. `batch_cap` (largest limit seen by the
batch in collection) and `drain_scope` are history variables.

`InferenceContract` knows no threads or batches: a request is refused or queued,
started when nothing queued is more urgent, and finished once. `Stage` maps the
node's futures and queue to it, and `ImplementsContract` is the refinement.

### BlockPool, BlockAllocator

`TakeTop` and `Drop` are what the two kinds of critical section do to counts,
free stack and prefix cache. In `BlockAllocator` a *handle* stands for one
reference that some thread holds, and each critical
section is one step. `copy_on_write` is an unlocked look at `ref_count`
(`CowInPlace` or `CowShared`), the section that takes a block (`CowAllocate`, or
`CowFails` when the pool is empty) and the section that gives the old block up
(`CowDrop`). `Write` is the caller's store into the block it was given.
The initial order of the free stack is arbitrary.

### SequenceCache

Nothing under `src/` creates a sequence or appends to one, tests included;
`/cache/flush` is the only caller of the manager there is. The module is
therefore checked under a calling protocol that is assumed: each cache has one
thread, which appends the K and V of every (layer, head) pair of a token, then
counts the token, and gives up at the first exception.

Neither `SequenceCache` nor `CacheManager` has a lock, so a step ends wherever the
registry, a table, a count or the pool is touched next. `create_sequence()` is its
test (`Create`) and its entry (`Insert`). `at` is the program point of a cache's
thread: `AppendCalled` and `Test` are the two looks of `_last_block_full()`,
`Allocate` takes a block into the thread's `hand`, `Extend` appends it,
`ReadLast` reads `block_table[-1]`, `Assign` stores it back, `Write` writes K and V
into it, and after the last pair of a token `Increment` counts it. `Raise` is
`MemoryError` from an empty pool or `IndexError` from a table that was cleared
underneath. `Pop`, `FreeBlock`, `LoopEnds`, `Clear` and `ZeroCount` are
`free_sequence()` in another thread, one step per block; the zero is lost when it
falls between the read and the write of `num_cached_tokens += 1`. The cache has no
prefix blocks, so `copy_on_write()` always returns the block it is given.
History: `overtaken` are the caches whose `free()` overlapped a call of their
thread, `taker` the cache a block was last taken for, and `authors` those that
have written into it since.

### Heartbeat, MonitorContract

A check is one step: the record of a registered node is written by the
heartbeat thread only. Its six outcomes are the branches of `_check`: `StayUp`,
`Climb`, `ComeUp` on a success, `Sink`, `Falter`, `GoDown` on a failure. `Round`
takes the snapshot of `_loop`, and `Register` may come between two checks. `succs` and
`fails` (history) are the lengths of the current run of equal results; `ups` and `downs`
count the callbacks started.

`MonitorContract` keeps of this what the router can see: a node becomes known,
comes up, and then goes down and comes up in turn, at any time. `Heartbeat`
implements it (`ImplementsMonitor`), and `Cluster` uses it in the monitor's place.

### HashRing, Cluster

`ring` is the sorted list of (position, node) pairs. `Insort` and `Slot` are the
two bisections, `NodesForKey` the walk with its de-duplication. The hash
functions are constants: any assignment of positions, ties included, is allowed.
The ring's methods hold its lock, so they are operators used inside the steps of
the router's threads:

* *Monitor and callbacks*: `ComesUp` and `GoesDown` start a callback thread each
  (`ups` and `downs` count those that have not run), and `OnNodeUp` and
  `OnNodeDown` run one, in any order.
* *Autoscaler*: `ScaleUp` (or `ScaleUpFails`, when `Popen` raises), `ScaleDown`
  up to and including the removal from the ring, then `Terminate`. `workers` is
  `_workers` with its three kinds of entry.
* *Registration threads*: `joining` is the program point of
  `_register_when_ready`: polling, then the two registrations of `_add_to_ring`
  (`JoinRing`, `JoinMonitor`).
* *A call*: `Route` takes the candidates, `LookHealthy` and `LookUnhealthy` ask
  the monitor about them one at a time, `Refuse` is the 503.
* *Processes*: they load, crash, and, if static, are restarted by whoever started
  them. `Terminate` sends SIGTERM only: the process is then `stopping`, still
  answers, and exits (`Exits`) when its calls are finished, at any later time.
* *Shutdown* of the router: no tick begins any more (`Shutdown`), and when the one in
  progress is over the router is gone (`ShutDown`), with its threads and without a
  word to the worker processes.

`steady`, `reachable` and `raced` are history variables.

### PIDController, Control

Numbers are decimal fractions scaled to integers: errors, targets and the integral
in tenths, gains in hundredths, the terms of the output in thousandths. Sum and
product are then exact; the leak and the derivative cut off what is less than
their unit. Cutting off makes the leak at most a tenth faster per update than in the
code; the bound used for it (`MCEnvelope`, section 3) is that of the exact leak. After
a `reset()` the time to the next update may be anything down to nearly nothing
(`EarlyDts`; 0 stands for 10 microseconds).

`update()` holds the controller's lock, but `POST /autoscaler/config` writes the
settings without it. The update is therefore cut into steps where it reads them:
`Measure` (target and `kp`; `UpdateError`), `Integrate` (`ki`; `UpdateIntegral`),
`Derive` (`kd`; `UpdateDerivative`) and, back in `_tick()`, `Decide` (cooldown, then
`ScaleUp`, `ScaleUpFails`, `ScaleDown` or `Rest`). `SetKp`, `SetKi`, `SetKd`,
`SetTarget`, `SetCooldown` and `ConfigReset` are the steps of the endpoint, so an
update may meet any mixture of old and new settings that the code's order allows;
`ConfigReset` alone waits for the lock. One request to the endpoint runs at a time.

`Collect` is the collector's thread. Workers that do not answer count as
empty and those the autoscaler started are not polled, so the depth seen may be
any of `Depths` at any time. `elapsed` counts the seconds since `_last_scale` up to
the longest cooldown. History: `above_ago` and `below_ago` are the ticks since an
error was last above, and below, 0; `scaled_ago` the seconds since a worker was
last started or stopped.

## 3. Runs

| run | bounds | shows |
|---|---|---|
| `token_bucket` | rate 1, capacity 4, cost 2; 8 instants, 6 calls | window bound, justified refusals |
| `scheduler_safety` | warm-up + 2 clients, 2 priorities, lengths and batch limits 1 and 2; burst of 2, 2 instants | the invariants, refinement of `InferenceContract`, futures set once |
| `scheduler_live` | warm-up + 2 clients, no clock, one drain | every call is answered; what "drained" does mean |
| `scheduler_flush` | as `scheduler_safety`, one drain | **violated**: see section 5 |
| `heartbeat` | thresholds 3 and 2, as in the router; 2 nodes, 9 checks of each | detection, recovery, callbacks; refinement of `MonitorContract` |
| `block_allocator` | 4 handles, 3 blocks, 2 prefix hashes | counts, free list, prefix cache, private copies |
| `sequence_cache` | 2 caches, 2 ids, 3 blocks of 2 tokens, 2 pairs, 3 calls each | tables and hands share nothing; foreign writes and leaks only where a `free()` overtook a thread or an entry was replaced |
| `sequence_cache_length` | the same | **violated**: see section 5 |
| `cluster` | 2 static workers, 1 started, 2 virtual nodes each, 2 sessions; 1 fault, 1 callback of a kind pending per node | lookup, remapping, fallback; ownership of processes, membership |
| `cluster_route` | as `cluster` | **violated**: see section 5 |
| `control` | `kp` 0.5 and 0.8, `ki` 0.1 and 0.15 (start, and the endpoint's example), targets 0 and 0.3, depths 0 and 1, cooldowns of 15 and 30 s, up to 4 workers; one retuning | limits, scaling only for cause, cooldown |
| `control_load` | `ki` 0.1 and 0.15, targets 0 and 194.7, depths 0, 1, 194; one retuning, one `Popen` failure | lasting load answered |

Why the bounds are enough.

* *Scheduler.* Three requests and a limit of two give a full batch,
  a batch closed early, a request that arrives while a batch is collected or
  generated, and a refusal (a burst of two for three requests). Raising and
  lowering the limit during a collection needs just the two values.
* *Monitor.* Nine checks bring a node up (2), take it
  down (3) and up again (2) with two spare for mixed results; the longest streak
  the thresholds distinguish is three.
* *Allocator.* Four handles over three blocks let two
  threads copy while a third frees and a fourth hits the prefix, with the pool
  empty.
* *Sequence caches.* Three calls of two pairs count one token and begin the second,
  with a block for each pair of the first. Two caches in three blocks run out of memory, and a flush frees blocks
  that the other cache then takes.
* *Cluster.* Three nodes are one more than `route()` looks at. Two nodes share
  position 4, where one session lies as well, and the other session is past the
  last virtual node, so that ties and the wrap-around occur. One fault suffices for
  a crash, or for a live node taken for dead, in any phase of scaling and
  registration. `ComesUp` and `GoesDown` wait while a callback of the same kind for the
  same node is pending; an up and a down of one node still overtake each other.
  With a single node to start, `max_workers` cannot be exceeded in this run: the limit
  of the head count is checked by `control`, and for the processes themselves it is
  proved (`ClusterWithinLimit`).
* *Control.* `Linger` is 18 ticks: what the exact leak leaves of an integral of 10 falls
  below 0.6 / 0.15 = 4 with the 18th tick, so a start is possible up to the 17th; one
  more is allowed because the envelope is rounded up to tenths. That the settings meet the hypothesis of
  the proof (`Fades`, section 4) is an assumption of `MCControl`, which TLC evaluates
  with `MCEnvelope`. The target 0.3 gives errors on both sides of the 0.5 below which
  the integral leaks, and none that is 0. `Swing` is 194 requests: an error of -0.7
  after one of -194.7 is where the derivative almost outweighs the other terms. In
  `control_load` the histories are not needed (`Linger` is 0).

Symmetry is used between clients, and between caches, ids and blocks, in
runs without liveness properties only.

Deadlock checking is off for the runs whose model may end or come to rest (all
requests answered and the server stopped; the last instant or the last check
reached; every caller of a cache out of calls; bounds on faults and nodes used
up). It is on for the allocator and for the control loop, which always have a
step.

Fairness. `FairSpec` of `Scheduler`: the worker thread and the handler threads
keep being scheduled by the operating system (weak fairness of each). Nothing is assumed of
clients, administrators, shutdown or the 120 s time-out, so `EveryCallAnswered`
does not lean on the time-out. Termination of `model.generate()` is part of the
worker's fairness; a batch may fail arbitrarily often. `ControlSpec`: weak
fairness of `Tick`, because `_loop()` ticks for ever and catches what a tick
raises. Nothing is assumed of the collector or of administrators;
`ScalingFollowsLoad` assumes what it needs of the measurements in its own
hypotheses (`Calm`, and a load on one side of the target).

## 4. Proofs

All theorems hold for every value of the constants that satisfies the assumptions
of the modules: `BucketAssumption` (natural numbers), `SchedulerAssumption`
(finitely many requests, priorities that are natural numbers with the default 0
among them, positive lengths and batch limits, which the pydantic schemas
enforce), `HeartbeatAssumption` (positive thresholds), `AllocatorAssumption`
(finitely many handles and blocks), `SequenceAssumption` (finitely many caches and
blocks, positive block size), `HashRingAssumption` (any positions, distinct ids),
`ClusterAssumption` (finitely many nodes, at least one static one and no more of them
than `max_workers`), `PIDAssumption` and `ControlAssumption` (gains that are not
negative, any targets, the start-up values among them, finitely many cooldowns).

* **TokenBucketProofs.** `WindowBound` speaks of pairs of grants and is not
  inductive. `BucketInv` adds what the bucket holds in terms of the history: for
  each past grant, what has been granted since plus what is left in the bucket is
  at most the capacity plus what the rate has added since. `RefusalJustified`
  needs the lower bound: after a grant the bucket holds at least what the rate has
  paid since, up to its capacity.
* **SchedulerProofs.** Type correctness reuses the limiter's step lemmas. The core is
  `PlacementInv`: `Placement`, plus where a handler may stand for each state of its
  future, and what `batch`, `resolved` and `outcome` look like at each program
  point of the worker. From it follow `ResolvedOnce` (a future that is set is not
  pending, so it is not among those still to be resolved) and the refinement
  `ImplementsContract`, one step lemma for each move between stages. `BatchBound`,
  `TokensWithinRequest` and `DrainEmptiesQueue` have small
  invariants of their own on top of it (for the last: what drain was called for
  has a future, and only a request without one is ever pushed). `LimiterAgrees` is
  inductive relative to it: `Admit` adds one element to the set of allowed
  requests and `Throttle` one to that of rejected ones, and no other step changes
  either. `Accounting` is about a sum over a set, which the model takes with
  `MapThenSumSet`. `SumFacts` shows that this is a natural number, 0 for no
  requests, and that one more request adds its tokens; `SumUnion` extends that to a
  batch. The invariant, `AccountInv`, adds that the part of the batch that is
  resolved was given what `_run_batch` returned, and that no batch is empty.
* **HeartbeatProofs.** `HeartbeatInv` ties the streak to the run lengths: a healthy
  node's failures in a row never exceed its negative streak, a node that is not
  healthy has answered at most as often in a row as its streak says, and the
  streak of a healthy node is above minus the failure threshold. `RecoveryEarned` is
  proved for recovery thresholds up to two, the default and the router's value.
  The refinement of `MonitorContract` maps the six outcomes of a check to
  `ComeUp`, `GoDown` or a stutter.
* **BlockPoolProofs.** `TakeTop` and `Drop` keep the free list exact
  (`FreeListOK`), whoever uses them: the lemmas the next two rest on.
* **BlockAllocatorProofs.** `AllocatorInv` adds to the checked invariants that a
  block without a prefix hash has one reference at most (`Unshared`) and, for each
  handle, what it holds at each program point of `copy_on_write`, in particular
  that the block just taken differs from the block being copied and has no hash
  (`HandleInv`). Every section that changes a count adds or removes one element of
  the set of holders of one block.
* **SequenceCacheProofs.** A cache *has* a block at a place (`Has`): an index of its
  live entries, or 0 for the hand of its thread. `PlaceInv` says that a block that
  is had somewhere has one reference, and is had nowhere else; `LeakInv` that a
  block in use is had by the cache that took it, unless that cache was overtaken;
  `CallerInv` what a thread may rely on between two steps, and `RegistryInv` that
  a cache is registered under its own id only and not once its `free()` has begun.
  `FreeBlock` moves one entry out of the live ones in the step that drops its
  reference, which is why entries stay private even when `free()` and
  `append_token_kv()` overlap. `TablesPrivate` and `NothingLeaks` speak of overtaken
  caches too: an entry is private whoever's it is, what may be written by an
  overtaken thread is named block by block (`authors`), and so is what may be lost
  (`taker`). `AssembledTokens` is proved for one pair from `LayoutInv`: at each program
  point the tokens counted fill the blocks of the table, the last one at least in part.
* **ClusterProofs.** `OwnershipInv`: the external entries of `_workers` are the
  static nodes, a process that runs untold has an entry or is the one `_scale_down()`
  is about to tell, one that was told has none, and the head count leaves room for
  the one about to be told. `MembershipInv`: what is in
  the ring or on its way there is static, owned, or was scaled down during its
  registration. The second needs the first for `ScaleDown`, whose choice is shown
  to exist by well-founded induction on the indices.
  For the rest, the ring's code is loops over lists, which the model takes with
  folds. `FoldRun` says that a fold is a run through its indices from the first to
  the last, and each loop then has an invariant of its own: `WithNodeOK` and
  `WithoutNodeOK` (the list stays sorted and gains or loses exactly the node's
  virtual nodes; `InsortOK` for the single insertion), `NodesForKeyOK` (`Collected`:
  each owner met so far once, in the order met, unless the list is full). From these
  comes `RingOK`, the ring is sorted and consists of the virtual nodes of its
  members, which every thread's additions and removals keep, and from `RingOK` the
  lookups are right: the slots from the key's on are in clockwise order
  (`SlotsClockwise`), each place of the ring is one (`SlotExists`), so `NearestFirst`
  holds. `RemapOnlyOwn` compares the nearest nodes before and after a step that adds
  or removes one. `FallbackInv` says that a node in the ring that has been healthy since
  the call came is among the candidates still to be looked at; it rests on
  `NodesForKeyCount`, that asking for at least as many nodes as there are gives
  them all.
* **ControlProofs.** The integral stays within its clamp and the head count and the
  clocks within their limits, at every step of an update. `CooldownKept` follows from
  `Timed`, that `_last_scale` is not earlier than the last start or stop.
  `ScalingIsJustified` needs one thing of the settings, stated as `Fades`: an
  envelope bounds what the leak leaves of the integral after each tick, and what it
  leaves after `Linger` ticks asks for nothing with any of the `ki`. Any
  finite set of gains has such a `Linger`. The invariant, `FadeInv`, has no more than the envelope on both
  sides: the integral is at most the envelope at `above_ago` and at least minus that
  at `below_ago`, and so are the terms of an update in progress. An error on the
  other side, however small, takes at least as much from the integral as the leak
  does (`AfterFalls`). The controller treats both signs alike (`AfterMirrored`), so
  only one is argued. As each setting is read in a step of its own, no mixture of
  old and new gains needs an argument of its own.

Induction is over sets of natural numbers (`NatInductionSet`) or over the subsets of
a finite set (`MinimalSubset`): a claim is turned into the set where it fails, which
would have a least element. This is how folds and sums are reached without a
theorem that takes a predicate as a parameter.

Every invariant, action property and refinement of the passing runs is proved.
Only model-checked is liveness, `EveryCallAnswered` and `ScalingFollowsLoad`, which
is beyond the prover, and that the properties of section 5 are violated, for
which TLC gives the behaviour.

## 5. Where the code and its documentation disagree

With a run that shows it:

* `scheduler_flush`: `server/api.py:314-315` promises that drain ensures "all
  requests are flushed". The handler looks at the queue only, and answers
  drained while the last batch is being generated. What does hold is
  `DrainEmptiesQueue`.
* `cluster_route`: `router/router.py:128` says that a call "falls back through ring
  order if primary is down". `route()` asks for as many candidates as there
  were workers at the start, so after scaling up a call is refused with "no
  healthy workers available" although a node in the ring is healthy throughout.
  What does hold is `FallbackComplete`: the fallback is complete while the ring has
  no more nodes than `WORKER_NODES`.
* `sequence_cache_length`: `core/cache_manager.py:56` gives the assembled K and V the
  length `num_cached_tokens`. `append_token_kv()` is called for each (layer, head)
  pair, and at a block boundary each of these calls takes a block of its own, so
  with two pairs more tokens are assembled than were cached. For a single pair
  the length is right, which is proved (`SequenceAssembled`).

Without a run:

* `metrics/pid.py:14` defines the error as target minus measured; the code
  computes measured minus target, which is what the autoscaler's thresholds expect
  (`Error`; its mutant has the documented sign).
* `metrics/autoscaler.py:32` says that the least busy worker is stopped;
  `_scale_down()` takes the first of its own in the dictionary, the oldest, whatever
  its load. Load per worker is not in the model.
* `router/heartbeat.py:19` says "consecutive failures". Failure, failure, success,
  failure, failure takes a healthy node down with a threshold of three: the success
  only moves the streak from -2 to -1. What does hold is `OneFailureIsForgiven` and
  `FailuresDetected`.
* `core/kv_cache.py:112` says "not shared, safe to write in place". A prefix block with
  one holder may gain a second one between the look at `ref_count` and the write. What
  does hold is `PrivateBlocks`: this cannot happen to blocks outside the prefix cache,
  copies included.
* `core/cache_manager.py:7` has a cache hold the K and V of "one active sequence". A
  flush (`server/api.py:353`) between the read of `block_table[-1]` and the write lets
  the write land in a block that another sequence has been given since. What does hold
  is `TablesPrivate`: only threads that a `free()` overtook do that.
* `core/cache_manager.py:107` refuses a second sequence of an id, but tests for it two
  steps before it makes the entry, so that a second creation replaces the first, whose
  blocks no flush frees any more. What does hold is `NothingLeaks`.
* `router/heartbeat.py:22-23` has the callbacks "so the router can add/remove the node
  from the hash ring automatically". Nothing orders the callback threads, so a healthy
  static worker stays out of the ring when the `on_node_down` of a failure runs after
  the `on_node_up` of the recovery. And `on_node_up` looks for the node among
  `WORKER_NODES`, so a worker of the autoscaler that was down once stays out of the
  ring for good. What does hold is `NoReturn`, for workers that were stopped.

Behaviours of the models that no text of the repository rules out:

* A worker that was told to stop finishes its calls first, up to 120 s of `fut.result`
  and the 5 s join of `Scheduler.stop()`. That is longer than the cooldown of 30 s, so
  a new worker may be started meanwhile, and more processes run than `max_workers`
  (`ClusterWithinLimit` counts those that were not told to stop).
* Shutting the router down leaves the workers that the autoscaler started running,
  with nobody to stop them.
* A worker scaled down during its registration stays in ring and monitor; a dead
  worker stays in the head count; a worker that does not answer the collector counts
  as empty.
* With the gains of the start, a depth that falls by 210 between two ticks outweighs
  the proportional and the integral part for a tick, so that workers are stopped under
  load, and a queue that has just emptied stops workers even with the target 0.
* The integral answers even an error of 0.1 that lasts: it grows towards its limit of
  10, the leak notwithstanding, and asks for another worker.

## 6. Not modelled

`core/model.py` and `core/attention.py` are tensor numerics without state of
their own. `start_cluster.py` and `main.py` start processes and print; what the
router relies on, that static workers run when it starts, is in `ClusterInit`. Percentiles and
z-scores of the collector are floating-point statistics that nothing acts
upon. The read-only endpoints change nothing (`stats()` of the limiter, which
does, is modelled). Tests and benchmarks were read as documentation. The thread
pool of uvicorn is not modelled: that busy handlers delay `/health` appears only
as checks of live nodes that fail. Nor is a crash of the router, after which its
state is gone, or two requests to `/autoscaler/config` at the same time.

## 7. Plan

What is left:

1. Proofs: `RecoveryEarned` for recovery thresholds above two, or the exact condition
   under which it holds.
2. The safety half of `EveryCallAnswered`: that a call which is not answered always
   has a step of its handler or of the worker ahead of it, as an invariant.
3. A second started worker in `Cluster`, so that TLC meets a start while an earlier
   worker is still finishing its calls. The proofs allow any number; for TLC it needs
   an abstraction of the ring that keeps the state space within reach.
4. Two requests to `/autoscaler/config` at the same time in `Control`, with which
   one may reset the controller between the writes of the other.
