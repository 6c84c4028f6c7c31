----------------------------- MODULE Scheduler ------------------------------
(***************************************************************************)
(* One worker node: scheduler/scheduler.py (class Scheduler), the queue of *)
(* scheduler/priority_queue.py, the limiter of scheduler/rate_limiter.py   *)
(* (module TokenBucket, instantiated on this module's variables) and the   *)
(* handlers of server/api.py that drive them.                              *)
(*                                                                         *)
(* Threads: one handler thread per POST /generate (uvicorn's thread pool), *)
(* the thread "scheduler-worker", a handler of DELETE /scheduler/drain,    *)
(* handlers of POST /scheduler/config, and the lifespan coroutine that     *)
(* stops the scheduler.  A step is what a thread does between two points   *)
(* where another can run: a critical section of a lock, or a run of        *)
(* statements on data no other thread reads.                               *)
(*                                                                         *)
(* Time-outs (pop, max_wait_ms, future.result, drain, join) may expire at  *)
(* any moment the code can observe them.  arrival_time is read from the    *)
(* limiter's clock, so requests built in the same tick are tied.           *)
(***************************************************************************)
EXTENDS Integers, Sequences, FiniteSets, FiniteSetsExt, Functions

CONSTANTS Requests,     \* the POST /generate calls of a behaviour
          Warmup,       \* the request that lifespan() submits before them
          WarmupLength, \* its max_new_tokens
          Priorities,   \* priority values clients send (0 is served first)
          Lengths,      \* max_new_tokens values clients send
          BatchSizes,   \* max_batch_size values: the initial one and those
                        \* POST /scheduler/config sends
          MaxDrains,    \* bound: calls of DELETE /scheduler/drain (0 or 1)
          Rate, Capacity, Cost, MaxClock, MaxCalls \* see TokenBucket

ASSUME SchedulerAssumption ==
    /\ IsFiniteSet(Requests)
    /\ Warmup \in Requests
    /\ WarmupLength \in Lengths
    /\ 0 \in Priorities
    /\ Priorities \subseteq Nat
    /\ Lengths \subseteq Nat \ {0}
    /\ BatchSizes \subseteq Nat \ {0}
    /\ MaxDrains \in {0, 1}
    /\ Rate \in Nat /\ Capacity \in Nat /\ Cost \in Nat
    /\ MaxClock \in Nat /\ MaxCalls \in Nat

VARIABLES
    clock, tokens, last_refill, total_allowed, total_rejected, grants,
    priority,        \* Request.priority
    max_new_tokens,  \* Request.max_new_tokens
    arrival,         \* Request.arrival_time
    phase,           \* where the handler of each request stands
    future,          \* Request._future: "none" until submit() makes one
    generated,       \* generated_tokens of the result
    status,          \* HTTP status the handler answered (0: none yet)
    queue,           \* PriorityQueue._heap, as a set
    worker,          \* program point of the worker thread
    batch,           \* local variable of _worker_loop
    outcome,         \* what _run_batch returned or raised
    resolved,        \* futures of the batch that are set already
    batch_cap,       \* history: largest max_batch_size seen by this batch
    max_batch_size,
    batches_processed, requests_processed, total_tokens_generated,
    running,         \* Scheduler._running
    lifespan,        \* where lifespan() stands; "over" after state.clear()
    drain,           \* where the handler of DELETE /scheduler/drain stands
    drain_scope      \* history: what was unanswered when drain was called

limiterVars == <<clock, tokens, last_refill, total_allowed, total_rejected, grants>>
requestVars == <<priority, max_new_tokens, arrival, phase, future, generated, status>>
workerVars  == <<worker, batch, outcome, resolved, batch_cap>>
statsVars   == <<batches_processed, requests_processed, total_tokens_generated>>
serverVars  == <<max_batch_size, running, lifespan>>
drainVars   == <<drain, drain_scope>>
vars == <<limiterVars, requestVars, queue, workerVars, statsVars, serverVars, drainVars>>

Limiter == INSTANCE TokenBucket

NoOutcome == [kind |-> "none", tokens |-> 0]

Init ==
    /\ Limiter!BucketInit
    /\ priority \in [Requests -> Priorities] /\ priority[Warmup] = 0
    /\ max_new_tokens \in [Requests -> Lengths] /\ max_new_tokens[Warmup] = WarmupLength
    /\ arrival = [r \in Requests |-> 0]
    /\ phase = [r \in Requests |-> "new"]
    /\ future = [r \in Requests |-> "none"]
    /\ generated = [r \in Requests |-> 0]
    /\ status = [r \in Requests |-> 0]
    /\ queue = {}
    /\ worker = "loop"
    /\ batch = <<>>
    /\ outcome = NoOutcome
    /\ resolved = 0
    /\ batch_cap = 0
    /\ max_batch_size \in BatchSizes
    /\ batches_processed = 0
    /\ requests_processed = 0
    /\ total_tokens_generated = 0
    /\ running = TRUE
    /\ lifespan = "warming"
    /\ drain = "idle"
    /\ drain_scope = {}

-----------------------------------------------------------------------------
(* The handler of POST /generate.                                          *)

(* uvicorn takes connections between the two halves of lifespan(). *)
Serving == lifespan = "serving"

(* The handler starts and builds its Request, which stamps arrival_time; so *)
(* does lifespan() with its warm-up request, before the server serves.      *)
Receive(r) ==
    /\ IF r = Warmup THEN lifespan = "warming" ELSE Serving
    /\ phase[r] = "new"
    /\ phase' = [phase EXCEPT ![r] = "built"]
    /\ arrival' = [arrival EXCEPT ![r] = clock]
    /\ UNCHANGED <<limiterVars, priority, max_new_tokens, future, generated, status,
                   queue, workerVars, statsVars, serverVars, drainVars>>

(* submit(): acquire() refuses, and the future returned holds the error. *)
Throttle(r) ==
    /\ phase[r] = "built"
    /\ Limiter!Reject
    /\ phase' = [phase EXCEPT ![r] = "waiting"]
    /\ future' = [future EXCEPT ![r] = "throttled"]
    /\ UNCHANGED <<priority, max_new_tokens, arrival, generated, status,
                   queue, workerVars, statsVars, serverVars, drainVars>>

(* submit(): acquire() consents. *)
Admit(r) ==
    /\ phase[r] = "built"
    /\ Limiter!Admit
    /\ phase' = [phase EXCEPT ![r] = "admitted"]
    /\ UNCHANGED <<priority, max_new_tokens, arrival, future, generated, status,
                   queue, workerVars, statsVars, serverVars, drainVars>>

(* Mistake: acquire() is asked again when the request is pushed. *)
EnqueueAsking(r) ==
    /\ phase[r] = "admitted"
    /\ Limiter!Admit
    /\ phase' = [phase EXCEPT ![r] = "waiting"]
    /\ future' = [future EXCEPT ![r] = "pending"]
    /\ queue' = queue \cup {r}
    /\ UNCHANGED <<priority, max_new_tokens, arrival, generated, status,
                   workerVars, statsVars, serverVars, drainVars>>

(* submit(): the future is made and the request pushed. *)
Enqueue(r) ==
    /\ phase[r] = "admitted"
    /\ phase' = [phase EXCEPT ![r] = "waiting"]
    /\ future' = [future EXCEPT ![r] = "pending"]
    /\ queue' = queue \cup {r}
    /\ UNCHANGED <<limiterVars, priority, max_new_tokens, arrival, generated, status,
                   workerVars, statsVars, serverVars, drainVars>>

StatusOf(f) ==
    CASE f = "result" -> 200
      [] f \in {"throttled", "runtime_error"} -> 429
      [] OTHER -> 500

(* fut.result() returns or raises: the handler answers. *)
Respond(r) ==
    /\ phase[r] = "waiting"
    /\ future[r] # "pending"
    /\ phase' = [phase EXCEPT ![r] = "answered"]
    /\ status' = [status EXCEPT ![r] = StatusOf(future[r])]
    /\ UNCHANGED <<limiterVars, priority, max_new_tokens, arrival, future, generated,
                   queue, workerVars, statsVars, serverVars, drainVars>>

(* fut.result(timeout=120) expires (60 s for the warm-up): the request      *)
(* stays where it is.                                                       *)
GiveUp(r) ==
    /\ phase[r] = "waiting"
    /\ future[r] = "pending"
    /\ phase' = [phase EXCEPT ![r] = "answered"]
    /\ status' = [status EXCEPT ![r] = 500]
    /\ UNCHANGED <<limiterVars, priority, max_new_tokens, arrival, future, generated,
                   queue, workerVars, statsVars, serverVars, drainVars>>

-----------------------------------------------------------------------------
(* The worker thread.                                                      *)

(* Mistake: arrival_time is compared the wrong way round. *)
BeforeLastIn(r, s) ==
    \/ priority[r] < priority[s]
    \/ priority[r] = priority[s] /\ arrival[r] > arrival[s]

(* Request.__lt__ *)
Before(r, s) ==
    \/ priority[r] < priority[s]
    \/ priority[r] = priority[s] /\ arrival[r] < arrival[s]

(* What heappop may return: the heap does not order ties. *)
Heads == {r \in queue : \A s \in queue : ~Before(s, r)}

WorkerAt(from, to) == worker = from /\ worker' = to

(* while self._running *)
LoopAgain ==
    /\ running
    /\ WorkerAt("loop", "pop_first")
    /\ UNCHANGED <<limiterVars, requestVars, queue, batch, outcome, resolved, batch_cap,
                   statsVars, serverVars, drainVars>>

LoopExit ==
    /\ ~running
    /\ WorkerAt("loop", "exited")
    /\ UNCHANGED <<limiterVars, requestVars, queue, batch, outcome, resolved, batch_cap,
                   statsVars, serverVars, drainVars>>

(* Mistake: the head is read as peek() does and stays in the heap. *)
TakePeeking(r) ==
    /\ r \in Heads
    /\ queue' = queue
    /\ batch' = Append(batch, r)

(* queue.pop() returns r, which the worker appends to its batch. *)
Take(r) ==
    /\ r \in Heads
    /\ queue' = queue \ {r}
    /\ batch' = Append(batch, r)

PopFirst(r) ==
    /\ WorkerAt("pop_first", "collect")
    /\ Take(r)
    /\ batch_cap' = max_batch_size
    /\ UNCHANGED <<limiterVars, requestVars, outcome, resolved,
                   statsVars, serverVars, drainVars>>

PopFirstTimesOut ==
    /\ WorkerAt("pop_first", "loop")
    /\ queue = {}
    /\ UNCHANGED <<limiterVars, requestVars, queue, batch, outcome, resolved, batch_cap,
                   statsVars, serverVars, drainVars>>

(* Mistake: <= for < in the size test. *)
CollectOneTooMany ==
    /\ WorkerAt("collect", "pop_more")
    /\ Len(batch) <= max_batch_size
    /\ UNCHANGED <<limiterVars, requestVars, queue, batch, outcome, resolved, batch_cap,
                   statsVars, serverVars, drainVars>>

(* len(batch) < self.max_batch_size and the deadline is not past. *)
CollectMore ==
    /\ WorkerAt("collect", "pop_more")
    /\ Len(batch) < max_batch_size
    /\ UNCHANGED <<limiterVars, requestVars, queue, batch, outcome, resolved, batch_cap,
                   statsVars, serverVars, drainVars>>

(* Mistake: the request popped is not put into the batch. *)
PopMoreLosing(r) ==
    /\ WorkerAt("pop_more", "collect")
    /\ r \in Heads
    /\ queue' = queue \ {r}
    /\ UNCHANGED <<limiterVars, requestVars, batch, outcome, resolved, batch_cap,
                   statsVars, serverVars, drainVars>>

PopMore(r) ==
    /\ WorkerAt("pop_more", "collect")
    /\ Take(r)
    /\ UNCHANGED <<limiterVars, requestVars, outcome, resolved, batch_cap,
                   statsVars, serverVars, drainVars>>

(* The batch is full, max_wait_ms is over, or pop() timed out empty-handed. *)
CloseBatch ==
    /\ \/ WorkerAt("collect", "generate")
       \/ WorkerAt("pop_more", "generate") /\ queue = {}
    /\ UNCHANGED <<limiterVars, requestVars, queue, batch, outcome, resolved, batch_cap,
                   statsVars, serverVars, drainVars>>

(* Mistake: the longest max_new_tokens of the batch is used for all. *)
LongestLength == Max({max_new_tokens[r] : r \in Range(batch)})

(* min_max_tokens *)
ShortestLength == Min({max_new_tokens[r] : r \in Range(batch)})

(* model.generate() makes between one and min_max_tokens new tokens; every  *)
(* row of the padded output has the width of the longest one.               *)
Generate(n) ==
    /\ WorkerAt("generate", "resolve")
    /\ n \in 1..ShortestLength
    /\ outcome' = [kind |-> "result", tokens |-> n]
    /\ UNCHANGED <<limiterVars, requestVars, queue, batch, resolved, batch_cap,
                   statsVars, serverVars, drainVars>>

(* Mistake: an exception is also raised while results are being set, and    *)
(* the handler of the exception walks the batch from its start.             *)
GenerateRaisesLate(kind) ==
    /\ worker \in {"generate", "resolve"}
    /\ worker' = "resolve"
    /\ outcome' = [kind |-> kind, tokens |-> 0]
    /\ resolved' = 0
    /\ UNCHANGED <<limiterVars, requestVars, queue, batch, batch_cap,
                   statsVars, serverVars, drainVars>>

(* _run_batch raises: torch raises RuntimeError for most of its failures. *)
GenerateRaises(kind) ==
    /\ WorkerAt("generate", "resolve")
    /\ outcome' = [kind |-> kind, tokens |-> 0]
    /\ UNCHANGED <<limiterVars, requestVars, queue, batch, resolved, batch_cap,
                   statsVars, serverVars, drainVars>>

(* set_result() or set_exception() on the next request of the batch. *)
ResolveNext ==
    /\ worker = "resolve"
    /\ resolved < Len(batch)
    /\ LET r == batch[resolved + 1]
       IN  /\ future' = [future EXCEPT ![r] = outcome.kind]
           /\ generated' = [generated EXCEPT ![r] = outcome.tokens]
    /\ resolved' = resolved + 1
    /\ UNCHANGED <<limiterVars, priority, max_new_tokens, arrival, phase, status, queue,
                   worker, batch, outcome, batch_cap, statsVars, serverVars, drainVars>>

(* Mistake: one request is counted per batch. *)
AccountPerBatch ==
    /\ WorkerAt("resolve", "loop")
    /\ resolved = Len(batch)
    /\ batches_processed' = batches_processed + 1
    /\ requests_processed' = requests_processed + 1
    /\ total_tokens_generated' = total_tokens_generated + outcome.tokens
    /\ batch' = <<>>
    /\ outcome' = NoOutcome
    /\ resolved' = 0
    /\ batch_cap' = 0
    /\ UNCHANGED <<limiterVars, requestVars, queue, serverVars, drainVars>>

(* The counters, once every future of the batch is set. *)
Account ==
    /\ WorkerAt("resolve", "loop")
    /\ resolved = Len(batch)
    /\ batches_processed' = batches_processed + 1
    /\ requests_processed' = requests_processed + Len(batch)
    /\ total_tokens_generated' = total_tokens_generated + Len(batch) * outcome.tokens
    /\ batch' = <<>>
    /\ outcome' = NoOutcome
    /\ resolved' = 0
    /\ batch_cap' = 0
    /\ UNCHANGED <<limiterVars, requestVars, queue, serverVars, drainVars>>

WorkerStep ==
    \/ LoopAgain \/ LoopExit
    \/ \E r \in Requests : PopFirst(r) \/ PopMore(r)
    \/ PopFirstTimesOut \/ CollectMore \/ CloseBatch
    \/ \E n \in UNION {1..m : m \in Lengths} : Generate(n)
    \/ \E kind \in {"runtime_error", "error"} : GenerateRaises(kind)
    \/ ResolveNext \/ Account

-----------------------------------------------------------------------------
(* Administration and shutdown.                                            *)

(* POST /scheduler/config *)
Configure(n) ==
    /\ Serving
    /\ max_batch_size' = n
    /\ batch_cap' = IF worker \in {"collect", "pop_more"} /\ n > batch_cap
                    THEN n ELSE batch_cap
    /\ UNCHANGED <<limiterVars, requestVars, queue, worker, batch, outcome, resolved,
                   statsVars, running, lifespan, drainVars>>

Unanswered == {r \in Requests : future[r] = "pending"}

(* DELETE /scheduler/drain *)
DrainCalled ==
    /\ Serving
    /\ MaxDrains > 0
    /\ drain = "idle"
    /\ drain' = "polling"
    /\ drain_scope' = Unanswered
    /\ UNCHANGED <<limiterVars, requestVars, queue, workerVars, statsVars, serverVars>>

(* Mistake: a batch in progress is taken for an empty queue. *)
DrainReturnsEarly ==
    /\ drain = "polling"
    /\ queue = {} \/ worker = "generate"
    /\ drain' = "drained"
    /\ UNCHANGED <<limiterVars, requestVars, queue, workerVars, statsVars, serverVars,
                   drain_scope>>

(* queue.size() is 0: {"drained": True} *)
DrainReturns ==
    /\ drain = "polling"
    /\ queue = {}
    /\ drain' = "drained"
    /\ UNCHANGED <<limiterVars, requestVars, queue, workerVars, statsVars, serverVars,
                   drain_scope>>

(* {"drained": False} *)
DrainTimesOut ==
    /\ drain = "polling"
    /\ queue # {}
    /\ drain' = "timed_out"
    /\ UNCHANGED <<limiterVars, requestVars, queue, workerVars, statsVars, serverVars,
                   drain_scope>>

(* The warm-up's result is there: lifespan() yields. *)
Ready ==
    /\ lifespan = "warming"
    /\ status[Warmup] = 200
    /\ lifespan' = "serving"
    /\ UNCHANGED <<limiterVars, requestVars, queue, workerVars, statsVars,
                   max_batch_size, running, drainVars>>

(* The warm-up raised or timed out: start-up fails and the process ends. *)
StartupFails ==
    /\ lifespan = "warming"
    /\ status[Warmup] \notin {0, 200}
    /\ lifespan' = "over"
    /\ UNCHANGED <<limiterVars, requestVars, queue, workerVars, statsVars,
                   max_batch_size, running, drainVars>>

HandlersDone ==
    /\ \A r \in Requests : phase[r] \in {"new", "answered"}
    /\ drain # "polling"

(* uvicorn lets the handlers in progress finish, then resumes lifespan(),   *)
(* which calls scheduler.stop().                                            *)
Stop ==
    /\ Serving
    /\ HandlersDone
    /\ running' = FALSE
    /\ lifespan' = "stopping"
    /\ UNCHANGED <<limiterVars, requestVars, queue, workerVars, statsVars,
                   max_batch_size, drainVars>>

(* join(timeout=5.0) returns, with the thread dead or not: state.clear(). *)
StopReturns ==
    /\ lifespan = "stopping"
    /\ lifespan' = "over"
    /\ UNCHANGED <<limiterVars, requestVars, queue, workerVars, statsVars,
                   max_batch_size, running, drainVars>>

LimiterStep ==
    /\ Limiter!Tick \/ Limiter!Stats
    /\ UNCHANGED <<requestVars, queue, workerVars, statsVars, serverVars, drainVars>>

HandlerStep(r) ==
    Receive(r) \/ Throttle(r) \/ Admit(r) \/ Enqueue(r) \/ Respond(r) \/ GiveUp(r)

ServerStep ==
    \/ \E n \in BatchSizes : Configure(n)
    \/ DrainCalled \/ DrainReturns \/ DrainTimesOut
    \/ Ready \/ StartupFails \/ Stop \/ StopReturns

Next ==
    \/ \E r \in Requests : HandlerStep(r)
    \/ WorkerStep
    \/ ServerStep
    \/ LimiterStep

Spec == Init /\ [][Next]_vars

(* The threads that the operating system keeps scheduling.  No fairness for *)
(* clients, administrators, shutdown or the 120 s time-out of a handler.    *)
FairSpec ==
    /\ Spec
    /\ WF_vars(WorkerStep)
    /\ \A r \in Requests : WF_vars(Throttle(r) \/ Admit(r) \/ Enqueue(r) \/ Respond(r))

-----------------------------------------------------------------------------
Finished == {"throttled", "result", "runtime_error", "error"}

(* Requests of the batch whose future is not set yet. *)
InFlight == {batch[i] : i \in (resolved + 1)..Len(batch)}

(* Types, by group of variables. *)
RequestTypes ==
    /\ priority \in [Requests -> Priorities]
    /\ max_new_tokens \in [Requests -> Lengths]
    /\ arrival \in [Requests -> 0..clock]
    /\ phase \in [Requests -> {"new", "built", "admitted", "waiting", "answered"}]
    /\ future \in [Requests -> {"none", "pending"} \cup Finished]
    /\ generated \in [Requests -> Nat]
    /\ status \in [Requests -> {0, 200, 429, 500}]

WorkerTypes ==
    /\ queue \in SUBSET Requests
    /\ worker \in {"loop", "pop_first", "collect", "pop_more", "generate", "resolve",
                   "exited"}
    /\ batch \in Seq(Requests)
    /\ outcome \in [kind : {"none", "result", "runtime_error", "error"}, tokens : Nat]
    /\ resolved \in 0..Len(batch)
    /\ batch_cap \in Nat
    /\ batches_processed \in Nat
    /\ requests_processed \in Nat
    /\ total_tokens_generated \in Nat

ServerTypes ==
    /\ max_batch_size \in BatchSizes
    /\ running \in BOOLEAN
    /\ lifespan \in {"warming", "serving", "stopping", "over"}
    /\ drain \in {"idle", "polling", "drained", "timed_out"}
    /\ drain_scope \in SUBSET Requests

(* Types. *)
TypeOK == Limiter!BucketTypeOK /\ RequestTypes /\ WorkerTypes /\ ServerTypes

(***************************************************************************)
(* A future is pending exactly while its request is in the queue or in the *)
(* part of the batch that is still to be resolved, and a request is in one *)
(* place only.  No request is lost between push(), pop() and set_result(), *)
(* and set_result() never meets a finished future (it would raise          *)
(* InvalidStateError out of _process_batch and end the worker thread).     *)
(***************************************************************************)
Placement ==
    /\ \A i, j \in 1..Len(batch) : batch[i] = batch[j] => i = j
    /\ queue \cap Range(batch) = {}
    /\ \A r \in Requests : future[r] = "pending" <=> r \in queue \cup InFlight

(***************************************************************************)
(* A batch is never larger than the largest max_batch_size in force since  *)
(* its first request was popped, although POST /scheduler/config changes   *)
(* the attribute without a lock while _worker_loop compares against it.    *)
(***************************************************************************)
BatchBound == Len(batch) <= batch_cap

(***************************************************************************)
(* No request gets more tokens than it asked for, whatever its batch mates *)
(* asked for (min_max_tokens in _run_batch).                               *)
(***************************************************************************)
TokensWithinRequest == \A r \in Requests : generated[r] <= max_new_tokens[r]

(***************************************************************************)
(* While no batch is being resolved, the counters of stats() are the sums  *)
(* over the requests the worker finished, failed batches included.         *)
(***************************************************************************)
Accounting ==
    LET done == {r \in Requests : future[r] \in Finished \ {"throttled"}} \ Range(batch)
    IN  /\ requests_processed = Cardinality(done)
        /\ total_tokens_generated = MapThenSumSet(LAMBDA r : generated[r], done)
        /\ batches_processed <= requests_processed

(***************************************************************************)
(* The limiter's counters agree with what the handlers did: one token per  *)
(* request that reached the queue, the warm-up included, and none for a    *)
(* refused call.                                                           *)
(***************************************************************************)
LimiterAgrees ==
    /\ total_allowed = Cardinality({r \in Requests :
            phase[r] = "admitted" \/ future[r] \notin {"none", "throttled"}})
    /\ total_rejected = Cardinality({r \in Requests : future[r] = "throttled"})

(***************************************************************************)
(* A finished future never changes again: each request is resolved once,   *)
(* also when a batch fails.                                                *)
(***************************************************************************)
ResolvedOnce ==
    [][\A r \in Requests : future[r] \in Finished =>
          future'[r] = future[r] /\ generated'[r] = generated[r]]_vars

(* The stage of each request, for InferenceContract. *)
Stage ==
    [r \in Requests |->
        CASE future[r] = "none" -> "idle"
          [] future[r] = "throttled" -> "refused"
          [] future[r] = "pending" /\ r \in queue -> "queued"
          [] future[r] = "pending" /\ r \notin queue -> "started"
          [] OTHER -> "finished"]

Contract == INSTANCE InferenceContract WITH stage <- Stage

(***************************************************************************)
(* The node implements InferenceContract: requests are started in the      *)
(* order of urgency, whatever is pushed while a batch is being collected,  *)
(* and pass each stage once.                                               *)
(***************************************************************************)
ImplementsContract == Contract!ContractSpec

(***************************************************************************)
(* Every call of POST /generate is answered even if its 120 s time-out     *)
(* never expires: the worker gets to each queued request and its future is *)
(* set, also across failing batches, configuration changes and shutdown.   *)
(***************************************************************************)
EveryCallAnswered ==
    \A r \in Requests : phase[r] = "waiting" ~> phase[r] = "answered"

(***************************************************************************)
(* What "drained" of DELETE /scheduler/drain does mean: every request that *)
(* was unanswered when it was called has left the queue, although size()   *)
(* is polled while others push and the worker pops.                        *)
(***************************************************************************)
DrainEmptiesQueue == drain = "drained" => drain_scope \cap queue = {}

(***************************************************************************)
(* server/api.py:314-315 on DELETE /scheduler/drain: "Block until the      *)
(* request queue is empty [...] to ensure all requests are flushed".  When *)
(* it says drained, the requests that were unanswered when it was called   *)
(* have their results.                                                     *)
(***************************************************************************)
DrainFlushes == drain = "drained" => \A r \in drain_scope : future[r] # "pending"
=============================================================================
