-------------------------- MODULE SchedulerProofs ---------------------------
(***************************************************************************)
(* Proofs about Scheduler, for every finite set of requests and all values *)
(* of the other constants.                                                 *)
(***************************************************************************)
EXTENDS Scheduler, FiniteSetTheorems, WellFoundedInduction, TLAPS

LimiterProofs == INSTANCE TokenBucketProofs

LEMMA ConstantFacts ==
    /\ Priorities \subseteq Nat /\ 0 \in Priorities
    /\ Lengths \subseteq Nat \ {0}
    /\ BatchSizes \subseteq Nat \ {0}
    /\ Warmup \in Requests
  BY SchedulerAssumption

LEMMA LengthFacts == \A n \in Lengths : n \in Nat /\ 0 <= n
<1> TAKE n \in Lengths
<1>1. n \in Nat
  BY SchedulerAssumption, Zenon
<1> QED
  BY <1>1

-----------------------------------------------------------------------------
(* Types.                                                                  *)

LEMMA LimiterTypeInit == Limiter!BucketInit => Limiter!BucketTypeOK
  BY SchedulerAssumption DEF Limiter!BucketInit, Limiter!BucketTypeOK

(* A step of the limiter keeps its types and never turns the clock back. *)
LEMMA LimiterTypeNext ==
    ASSUME Limiter!BucketTypeOK,
           Limiter!BucketNext \/ UNCHANGED limiterVars
    PROVE  Limiter!BucketTypeOK' /\ clock \in Nat /\ clock' \in Nat /\ clock <= clock'
<1>1. CASE UNCHANGED limiterVars
  BY <1>1 DEF limiterVars, Limiter!BucketTypeOK
<1>2. CASE Limiter!BucketNext
  <2> USE SchedulerAssumption
  <2>1. 0..last_refill \subseteq 0..clock /\ clock \in Nat /\ clock \in 0..clock
    BY DEF Limiter!BucketTypeOK
  <2>2. grants \in Seq(0..clock)
    BY <2>1 DEF Limiter!BucketTypeOK
  <2>3. Limiter!Refilled \in 0..Capacity
    BY LimiterProofs!RefilledFacts
    DEF LimiterProofs!BucketTypeOK, Limiter!BucketTypeOK, LimiterProofs!Refilled, Limiter!Refilled
  <2>4. CASE Limiter!Admit
    <3>1. /\ Append(grants, clock) \in Seq(0..clock)
          /\ Len(Append(grants, clock)) = Len(grants) + 1
      BY <2>1, <2>2
    <3> QED
      BY <2>1, <2>3, <2>4, <3>1
      DEF Limiter!Admit, Limiter!Refill, Limiter!BucketTypeOK
  <2>5. CASE Limiter!Reject \/ Limiter!Stats
    BY <2>1, <2>2, <2>3, <2>5
    DEF Limiter!Reject, Limiter!Stats, Limiter!Refill, Limiter!BucketTypeOK
  <2>6. CASE Limiter!Tick
    BY <2>1, <2>6 DEF Limiter!Tick, Limiter!BucketTypeOK
  <2> QED
    BY <1>2, <2>4, <2>5, <2>6 DEF Limiter!BucketNext
<1> QED
  BY <1>1, <1>2

(* Only acquire(), stats() and the passage of time touch the limiter. *)
LEMMA LimiterSteps ==
    ASSUME [Next]_vars
    PROVE  Limiter!BucketNext \/ UNCHANGED limiterVars
  BY DEF Next, vars, HandlerStep, Receive, Throttle, Admit, Enqueue, Respond, GiveUp,
         WorkerStep, LoopAgain, LoopExit, PopFirst, PopMore, PopFirstTimesOut, CollectMore,
         CloseBatch, Generate, GenerateRaises, ResolveNext, Account,
         ServerStep, Configure, DrainCalled, DrainReturns, DrainTimesOut, Ready,
         StartupFails, Stop, StopReturns, LimiterStep, Limiter!BucketNext

LEMMA TypeInit == Init => TypeOK
<1> SUFFICES ASSUME Init PROVE TypeOK
  OBVIOUS
<1>1. Limiter!BucketTypeOK
  BY LimiterTypeInit DEF Init
<1>2. clock = 0 /\ 0 \in 0..clock
  BY DEF Init, Limiter!BucketInit
<1> QED
  BY <1>1, <1>2, ConstantFacts 
  DEF Init, TypeOK, RequestTypes, WorkerTypes, ServerTypes, NoOutcome, Finished

LEMMA RequestTypesNext ==
    ASSUME TypeOK, [Next]_vars
    PROVE  RequestTypes'
<1>t. RequestTypes /\ clock \in Nat /\ clock' \in Nat /\ clock <= clock'
  BY LimiterSteps, LimiterTypeNext DEF TypeOK
<1>a. arrival \in [Requests -> 0..clock'] /\ 0..clock \subseteq 0..clock'
  BY <1>t DEF RequestTypes
<1>1. CASE UNCHANGED requestVars
  BY <1>1, <1>t, <1>a DEF requestVars, RequestTypes
<1>2. ASSUME NEW r \in Requests,
             Receive(r) \/ Throttle(r) \/ Admit(r) \/ Enqueue(r) \/ Respond(r) \/ GiveUp(r)
      PROVE  RequestTypes'
  <2>1. CASE Receive(r)
    BY <2>1, <1>t, <1>a DEF Receive, limiterVars, RequestTypes
  <2>2. CASE Throttle(r)
    BY <2>2, <1>t, <1>a DEF Throttle, RequestTypes, Finished
  <2>3. CASE Admit(r)
    BY <2>3, <1>t, <1>a DEF Admit, RequestTypes
  <2>4. CASE Enqueue(r)
    BY <2>4, <1>t, <1>a DEF Enqueue, RequestTypes
  <2>5. CASE Respond(r)
    <3>1. StatusOf(future[r]) \in {200, 429, 500}
      BY DEF StatusOf
    <3> QED
      BY <2>5, <3>1, <1>t, <1>a DEF Respond, RequestTypes
  <2>6. CASE GiveUp(r)
    BY <2>6, <1>t, <1>a DEF GiveUp, RequestTypes
  <2> QED
    BY <1>2, <2>1, <2>2, <2>3, <2>4, <2>5, <2>6
<1>3. CASE ResolveNext
  <2>1. outcome.kind \in {"none"} \cup Finished /\ outcome.tokens \in Nat
    BY DEF TypeOK, WorkerTypes, Finished
  <2> QED
    BY <1>3, <2>1, <1>t, <1>a DEF ResolveNext, limiterVars, RequestTypes
<1> QED
  BY <1>1, <1>2, <1>3
  DEF Next, vars, HandlerStep, WorkerStep, LoopAgain, LoopExit, PopFirst, PopMore,
      PopFirstTimesOut, CollectMore, CloseBatch, Generate, GenerateRaises, Account,
      ServerStep, Configure, DrainCalled, DrainReturns, DrainTimesOut, Ready,
      StartupFails, Stop, StopReturns, LimiterStep

LEMMA WorkerTypesNext ==
    ASSUME TypeOK, [Next]_vars
    PROVE  WorkerTypes'
<1>t. WorkerTypes /\ ServerTypes
  BY DEF TypeOK
<1>b. BatchSizes \subseteq Nat
  BY ConstantFacts
<1> USE DEF WorkerTypes, WorkerAt
<1>1. CASE UNCHANGED <<queue, workerVars, statsVars>>
  BY <1>1, <1>t DEF workerVars, statsVars
<1>2. ASSUME NEW r \in Requests, Enqueue(r)
      PROVE  WorkerTypes'
  BY <1>2, <1>t DEF Enqueue, workerVars, statsVars
<1>3. ASSUME NEW r \in Requests, PopFirst(r) \/ PopMore(r)
      PROVE  WorkerTypes'
  <2>1. /\ queue' \in SUBSET Requests /\ batch' \in Seq(Requests)
        /\ 0..Len(batch) \subseteq 0..Len(batch')
    BY <1>3, <1>t DEF PopFirst, PopMore, Take
  <2>2. max_batch_size \in Nat
    BY <1>t, <1>b DEF ServerTypes
  <2> QED
    BY <1>3, <2>1, <2>2, <1>t DEF PopFirst, PopMore, statsVars
<1>4. CASE LoopAgain \/ LoopExit \/ PopFirstTimesOut \/ CollectMore \/ CloseBatch
  BY <1>4, <1>t DEF LoopAgain, LoopExit, PopFirstTimesOut, CollectMore, CloseBatch, statsVars
<1>5. ASSUME NEW n \in Nat, Generate(n)
      PROVE  WorkerTypes'
  BY <1>5, <1>t DEF Generate, statsVars
<1>6. ASSUME NEW kind \in {"runtime_error", "error"}, GenerateRaises(kind)
      PROVE  WorkerTypes'
  BY <1>6, <1>t DEF GenerateRaises, statsVars
<1>7. CASE ResolveNext
  BY <1>7, <1>t DEF ResolveNext, statsVars
<1>8. CASE Account
  <2>1. Len(batch) * outcome.tokens \in Nat /\ Len(batch) \in Nat
    BY <1>t
  <2> QED
    BY <1>8, <2>1, <1>t DEF Account, NoOutcome
<1>9. CASE \E n \in BatchSizes : Configure(n)
  <2> SUFFICES ASSUME NEW n \in BatchSizes, Configure(n)
               PROVE  WorkerTypes'
    BY <1>9
  <2>1. n \in Nat
    BY <1>b
  <2> QED
    BY <2>1, <1>t DEF Configure, statsVars
<1>n. \A n \in UNION {1..m : m \in Lengths} : n \in Nat
  BY ConstantFacts
<1> QED
  BY <1>1, <1>2, <1>3, <1>4, <1>5, <1>6, <1>7, <1>8, <1>9, <1>n
  DEF Next, vars, HandlerStep, Receive, Throttle, Admit, Respond, GiveUp, WorkerStep,
      ServerStep, DrainCalled, DrainReturns, DrainTimesOut, Ready,
      StartupFails, Stop, StopReturns, LimiterStep

LEMMA ServerTypesNext ==
    ASSUME TypeOK, [Next]_vars
    PROVE  ServerTypes'
<1>t. ServerTypes /\ Unanswered \in SUBSET Requests
  BY DEF TypeOK, Unanswered
<1>1. CASE UNCHANGED <<serverVars, drainVars>>
  BY <1>1, <1>t DEF serverVars, drainVars, ServerTypes
<1>2. CASE ServerStep
  BY <1>2, <1>t
  DEF ServerStep, Configure, DrainCalled, DrainReturns, DrainTimesOut, Ready, StartupFails,
      Stop, StopReturns, serverVars, drainVars, ServerTypes
<1> QED
  BY <1>1, <1>2
  DEF Next, vars, HandlerStep, Receive, Throttle, Admit, Enqueue, Respond, GiveUp,
      WorkerStep, LoopAgain, LoopExit, PopFirst, PopMore, PopFirstTimesOut, CollectMore,
      CloseBatch, Generate, GenerateRaises, ResolveNext, Account, LimiterStep

LEMMA TypeNext == TypeOK /\ [Next]_vars => TypeOK'
  BY LimiterSteps, LimiterTypeNext, RequestTypesNext, WorkerTypesNext, ServerTypesNext
  DEF TypeOK

(* Every variable of a worker node keeps its type. *)
THEOREM SchedulerTypes == Spec => []TypeOK
  BY TypeInit, TypeNext, PTL DEF Spec

-----------------------------------------------------------------------------
(* Requests are neither lost nor resolved twice.                           *)

(* A future exists from the end of submit() on; an answer ends a handler. *)
HandlerInv ==
    \A r \in Requests :
        /\ future[r] = "none" <=> phase[r] \in {"new", "built", "admitted"}
        /\ status[r] # 0 => phase[r] = "answered"

(* The first futures of the batch are set, and only while it is resolved.  *)
ResolveInv ==
    /\ \A i \in 1..resolved : future[batch[i]] \in Finished
    /\ worker = "resolve" => outcome.kind \in Finished
    /\ worker # "resolve" => resolved = 0
    /\ worker \in {"loop", "pop_first", "exited"} => batch = <<>>

PlacementInv == TypeOK /\ HandlerInv /\ ResolveInv /\ Placement

LEMMA PlacementInit == Init => PlacementInv
<1> SUFFICES ASSUME Init PROVE PlacementInv
  OBVIOUS
<1>1. TypeOK
  BY TypeInit
<1>2. HandlerInv /\ ResolveInv
  BY DEF Init, HandlerInv, ResolveInv
<1>3. InFlight = {} /\ Range(batch) = {}
  BY DEF Init, InFlight, Range
<1>4. Placement
  BY <1>3 DEF Init, Placement
<1> QED
  BY <1>1, <1>2, <1>4 DEF PlacementInv

LEMMA HandlerNext ==
    ASSUME PlacementInv, [Next]_vars
    PROVE  HandlerInv'
<1>t. RequestTypes /\ WorkerTypes /\ HandlerInv
  BY DEF PlacementInv, TypeOK
<1>1. CASE UNCHANGED requestVars
  BY <1>1, <1>t DEF requestVars, HandlerInv
<1>2. ASSUME NEW r \in Requests,
             Receive(r) \/ Throttle(r) \/ Admit(r) \/ Enqueue(r) \/ Respond(r) \/ GiveUp(r)
      PROVE  HandlerInv'
  <2>1. CASE Receive(r)
    BY <2>1, <1>t DEF Receive, RequestTypes, HandlerInv
  <2>2. CASE Throttle(r)
    BY <2>2, <1>t DEF Throttle, RequestTypes, HandlerInv
  <2>3. CASE Admit(r)
    BY <2>3, <1>t DEF Admit, RequestTypes, HandlerInv
  <2>4. CASE Enqueue(r)
    BY <2>4, <1>t DEF Enqueue, RequestTypes, HandlerInv
  <2>5. CASE Respond(r)
    BY <2>5, <1>t DEF Respond, RequestTypes, HandlerInv
  <2>6. CASE GiveUp(r)
    BY <2>6, <1>t DEF GiveUp, RequestTypes, HandlerInv
  <2> QED
    BY <1>2, <2>1, <2>2, <2>3, <2>4, <2>5, <2>6
<1>3. CASE ResolveNext
  <2>1. batch[resolved + 1] \in InFlight /\ batch[resolved + 1] \in Requests
    BY <1>3, <1>t DEF ResolveNext, InFlight, WorkerTypes
  <2>2. future[batch[resolved + 1]] = "pending"
    BY <2>1 DEF PlacementInv, Placement
  <2>3. outcome.kind \in Finished
    BY <1>3 DEF ResolveNext, PlacementInv, ResolveInv
  <2> QED
    BY <1>3, <2>1, <2>2, <2>3, <1>t DEF ResolveNext, RequestTypes, HandlerInv, Finished
<1> QED
  BY <1>1, <1>2, <1>3
  DEF Next, vars, HandlerStep, WorkerStep, LoopAgain, LoopExit, PopFirst, PopMore,
      PopFirstTimesOut, CollectMore, CloseBatch, Generate, GenerateRaises, Account,
      ServerStep, Configure, DrainCalled, DrainReturns, DrainTimesOut, Ready,
      StartupFails, Stop, StopReturns, LimiterStep

(* Appending a request that is not in the batch adds it to those in flight. *)
LEMMA AppendInFlight ==
    ASSUME WorkerTypes, NEW r \in Requests, r \notin Range(batch),
           batch' = Append(batch, r), resolved' = resolved
    PROVE  /\ InFlight' = InFlight \cup {r}
           /\ Range(batch)' = Range(batch) \cup {r}
           /\ (\A i, j \in 1..Len(batch) : batch[i] = batch[j] => i = j)
                => \A i, j \in 1..Len(batch') : batch'[i] = batch'[j] => i = j
<1> DEFINE n == Len(batch)
<1>1. /\ n \in Nat /\ resolved \in 0..n /\ DOMAIN batch = 1..n
      /\ Len(batch') = n + 1 /\ DOMAIN batch' = 1..(n + 1)
      /\ batch'[n + 1] = r
      /\ \A i \in 1..n : batch'[i] = batch[i]
  BY DEF WorkerTypes
<1> HIDE DEF n
<1>2. Range(batch)' = Range(batch) \cup {r}
  <2>1. 1..(n + 1) = 1..n \cup {n + 1}
    BY <1>1
  <2> QED
    BY <1>1, <2>1 DEF Range
<1>3. InFlight' = InFlight \cup {r}
  <2>1. (resolved + 1)..(n + 1) = (resolved + 1)..n \cup {n + 1}
    BY <1>1
  <2>2. \A i \in (resolved + 1)..n : batch'[i] = batch[i]
    BY <1>1
  <2> QED
    BY <1>1, <2>1, <2>2 DEF InFlight, n
<1>4. \A i \in 1..n : batch[i] # r
  BY <1>1 DEF Range
<1>5. ASSUME \A i, j \in 1..n : batch[i] = batch[j] => i = j,
             NEW i \in 1..(n + 1), NEW j \in 1..(n + 1), batch'[i] = batch'[j]
      PROVE  i = j
  BY <1>1, <1>4, <1>5
<1> QED
  BY <1>1, <1>2, <1>3, <1>5 DEF n

LEMMA ResolveInvNext ==
    ASSUME PlacementInv, [Next]_vars
    PROVE  ResolveInv'
<1>t. RequestTypes /\ WorkerTypes /\ ResolveInv /\ HandlerInv
  BY DEF PlacementInv, TypeOK
<1>f. ASSUME \A r \in Requests : future[r] \in Finished => future'[r] \in Finished,
             UNCHANGED <<batch, resolved>>
      PROVE  \A i \in 1..resolved' : future'[batch'[i]] \in Finished
  BY <1>f, <1>t DEF ResolveInv, WorkerTypes
<1>1. CASE UNCHANGED <<future, worker, batch, resolved, outcome>>
  BY <1>1, <1>t DEF ResolveInv
<1>2. ASSUME NEW r \in Requests, Throttle(r) \/ Enqueue(r)
      PROVE  ResolveInv'
  <2>1. future[r] = "none"
    BY <1>2, <1>t DEF Throttle, Enqueue, HandlerInv
  <2>2. /\ \A s \in Requests : future[s] \in Finished => future'[s] \in Finished
        /\ UNCHANGED workerVars
    BY <1>2, <2>1, <1>t DEF Throttle, Enqueue, RequestTypes, Finished
  <2> QED
    BY <2>2, <1>f, <1>t DEF ResolveInv, workerVars
<1>3. ASSUME NEW r \in Requests, PopFirst(r) \/ PopMore(r)
      PROVE  ResolveInv'
  BY <1>3, <1>t DEF PopFirst, PopMore, WorkerAt, ResolveInv
<1>4. CASE LoopAgain \/ LoopExit \/ PopFirstTimesOut
  BY <1>4, <1>t
  DEF LoopAgain, LoopExit, PopFirstTimesOut, WorkerAt, requestVars, ResolveInv
<1>5. CASE CollectMore \/ CloseBatch
  BY <1>5, <1>t DEF CollectMore, CloseBatch, WorkerAt, requestVars, ResolveInv
<1>6. ASSUME NEW n \in Nat, Generate(n)
      PROVE  ResolveInv'
  BY <1>6, <1>t DEF Generate, WorkerAt, requestVars, ResolveInv, Finished
<1>7. ASSUME NEW kind \in {"runtime_error", "error"}, GenerateRaises(kind)
      PROVE  ResolveInv'
  BY <1>7, <1>t DEF GenerateRaises, WorkerAt, requestVars, ResolveInv, Finished
<1>8. CASE ResolveNext
  <2>1. /\ outcome.kind \in Finished /\ resolved \in Nat /\ resolved' = resolved + 1
        /\ worker' = "resolve" /\ UNCHANGED <<batch, outcome, worker>>
    BY <1>8, <1>t DEF ResolveNext, ResolveInv, WorkerTypes
  <2>2. \A i \in 1..(resolved + 1) : batch[i] \in Requests
    BY <1>8, <1>t DEF ResolveNext, WorkerTypes
  <2>3. \A i \in 1..(resolved + 1) : future'[batch[i]] \in Finished
    <3> TAKE i \in 1..(resolved + 1)
    <3>1. CASE batch[i] = batch[resolved + 1]
      BY <1>8, <2>1, <2>2, <3>1, <1>t DEF ResolveNext, RequestTypes
    <3>2. CASE batch[i] # batch[resolved + 1]
      <4>1. i \in 1..resolved
        BY <2>1, <3>2
      <4>2. future[batch[i]] \in Finished
        BY <4>1, <1>t DEF ResolveInv
      <4> QED
        BY <1>8, <2>2, <3>2, <4>2, <1>t DEF ResolveNext, RequestTypes
    <3> QED
      BY <3>1, <3>2
  <2> QED
    BY <2>1, <2>3 DEF ResolveInv
<1>9. CASE Account
  BY <1>9, <1>t DEF Account, WorkerAt, ResolveInv
<1>n. \A n \in UNION {1..m : m \in Lengths} : n \in Nat
  BY ConstantFacts
<1> QED
  BY <1>1, <1>2, <1>3, <1>4, <1>5, <1>6, <1>7, <1>8, <1>9, <1>n
  DEF Next, vars, requestVars, workerVars, HandlerStep, Receive, Admit, Respond, GiveUp,
      WorkerStep, ServerStep, Configure, DrainCalled, DrainReturns, DrainTimesOut, Ready,
      StartupFails, Stop, StopReturns, LimiterStep

LEMMA PlacementNext ==
    ASSUME PlacementInv, [Next]_vars
    PROVE  Placement'
<1>t. RequestTypes /\ WorkerTypes /\ Placement /\ ResolveInv /\ HandlerInv
  BY DEF PlacementInv, TypeOK
<1>1. CASE UNCHANGED <<future, queue, batch, resolved>>
  BY <1>1, <1>t DEF Placement, InFlight, Range
<1>2. ASSUME NEW r \in Requests, Throttle(r)
      PROVE  Placement'
  <2>1. future[r] = "none" /\ future' = [future EXCEPT ![r] = "throttled"]
    BY <1>2, <1>t DEF Throttle, HandlerInv
  <2>2. InFlight' = InFlight /\ Range(batch)' = Range(batch) /\ UNCHANGED <<queue, batch>>
    BY <1>2 DEF Throttle, workerVars, InFlight, Range
  <2> QED
    BY <2>1, <2>2, <1>t DEF Placement, RequestTypes
<1>3. ASSUME NEW r \in Requests, Enqueue(r)
      PROVE  Placement'
  <2>1. /\ future[r] = "none" /\ future' = [future EXCEPT ![r] = "pending"]
        /\ queue' = queue \cup {r}
    BY <1>3, <1>t DEF Enqueue, HandlerInv
  <2>2. InFlight' = InFlight /\ Range(batch)' = Range(batch) /\ UNCHANGED batch
    BY <1>3 DEF Enqueue, workerVars, InFlight, Range
  <2>3. r \notin Range(batch)
    <3> SUFFICES ASSUME NEW i \in 1..Len(batch), batch[i] = r
                 PROVE  FALSE
      BY <1>t DEF Range, WorkerTypes
    <3>1. CASE i \in 1..resolved
      BY <3>1, <2>1, <1>t DEF ResolveInv, Finished
    <3>2. CASE i \notin 1..resolved
      <4>1. i \in (resolved + 1)..Len(batch)
        BY <3>2, <1>t DEF WorkerTypes
      <4> QED
        BY <4>1, <2>1, <1>t DEF InFlight, Placement
    <3> QED
      BY <3>1, <3>2
  <2> QED
    BY <2>1, <2>2, <2>3, <1>t DEF Placement, RequestTypes
<1>4. ASSUME NEW r \in Requests, PopFirst(r) \/ PopMore(r)
      PROVE  Placement'
  <2>1. /\ r \in queue /\ queue' = queue \ {r} /\ batch' = Append(batch, r)
        /\ resolved' = resolved /\ future' = future
    BY <1>4 DEF PopFirst, PopMore, Take, Heads, requestVars
  <2>2. r \notin Range(batch)
    BY <2>1, <1>t DEF Placement
  <2>3. /\ InFlight' = InFlight \cup {r}
        /\ Range(batch)' = Range(batch) \cup {r}
        /\ \A i, j \in 1..Len(batch') : batch'[i] = batch'[j] => i = j
    BY <2>1, <2>2, <1>t, AppendInFlight DEF Placement
  <2> QED
    BY <2>1, <2>3, <1>t DEF Placement
<1>5. CASE ResolveNext
  <2> DEFINE r == batch[resolved + 1]
  <2>1. /\ resolved \in Nat /\ Len(batch) \in Nat /\ resolved + 1 \in 1..Len(batch)
        /\ r \in Requests /\ outcome.kind # "pending"
        /\ future' = [future EXCEPT ![r] = outcome.kind]
        /\ resolved' = resolved + 1 /\ UNCHANGED <<queue, batch>>
    BY <1>5, <1>t DEF ResolveNext, WorkerTypes
  <2>2. InFlight' = InFlight \ {r}
    <3>1. InFlight' = {batch[i] : i \in (resolved + 2)..Len(batch)}
      BY <2>1 DEF InFlight
    <3>2. (resolved + 1)..Len(batch) = {resolved + 1} \cup (resolved + 2)..Len(batch)
      BY <2>1
    <3>3. \A i \in (resolved + 2)..Len(batch) : batch[i] # r
      BY <2>1, <1>t DEF Placement
    <3> QED
      BY <3>1, <3>2, <3>3 DEF InFlight
  <2>3. r \notin queue /\ Range(batch)' = Range(batch)
    BY <2>1, <1>t DEF Range, Placement, WorkerTypes
  <2> HIDE DEF r
  <2> QED
    BY <2>1, <2>2, <2>3, <1>t DEF Placement, RequestTypes
<1>6. CASE Account
  <2>1. /\ resolved = Len(batch) /\ batch' = <<>> /\ resolved' = 0
        /\ UNCHANGED <<future, queue>> /\ Len(batch) \in Nat
    BY <1>6, <1>t DEF Account, requestVars, WorkerTypes
  <2>2. InFlight = {} /\ InFlight' = {} /\ Range(batch)' = {}
    BY <2>1 DEF InFlight, Range
  <2> QED
    BY <2>1, <2>2, <1>t DEF Placement
<1> QED
  BY <1>1, <1>2, <1>3, <1>4, <1>5, <1>6
  DEF Next, vars, requestVars, workerVars, HandlerStep, Receive, Admit, Respond, GiveUp,
      WorkerStep, LoopAgain, LoopExit, PopFirstTimesOut, CollectMore, CloseBatch, Generate,
      GenerateRaises, ServerStep, Configure, DrainCalled, DrainReturns, DrainTimesOut, Ready,
      StartupFails, Stop, StopReturns, LimiterStep

LEMMA PlacementInvNext == PlacementInv /\ [Next]_vars => PlacementInv'
  BY TypeNext, HandlerNext, ResolveInvNext, PlacementNext DEF PlacementInv

LEMMA PlacementInvariant == Spec => []PlacementInv
  BY PlacementInit, PlacementInvNext, PTL DEF Spec

(* push(), pop() and set_result() of scheduler.py and priority_queue.py    *)
(* lose no request and keep each in one place.                             *)
THEOREM NoRequestLost == Spec => []Placement
<1>1. PlacementInv => Placement
  BY DEF PlacementInv
<1> QED
  BY <1>1, PlacementInvariant, PTL

(* _process_batch sets each future once: results are never overwritten.    *)
THEOREM FuturesSetOnce == Spec => ResolvedOnce
<1> DEFINE A == \A r \in Requests : future[r] \in Finished =>
                    future'[r] = future[r] /\ generated'[r] = generated[r]
<1>1. PlacementInv /\ [Next]_vars => [A]_vars
  <2> SUFFICES ASSUME PlacementInv, Next, NEW s \in Requests, future[s] \in Finished
               PROVE  future'[s] = future[s] /\ generated'[s] = generated[s]
    OBVIOUS
  <2>t. RequestTypes /\ WorkerTypes /\ Placement /\ HandlerInv
    BY DEF PlacementInv, TypeOK
  <2>1. CASE UNCHANGED <<future, generated>>
    BY <2>1
  <2>2. ASSUME NEW r \in Requests, Throttle(r) \/ Enqueue(r)
        PROVE  future'[s] = future[s] /\ generated'[s] = generated[s]
    <3>1. future[r] = "none"
      BY <2>2, <2>t DEF Throttle, Enqueue, HandlerInv
    <3> QED
      BY <2>2, <3>1, <2>t DEF Throttle, Enqueue, RequestTypes, Finished
  <2>3. CASE ResolveNext
    <3>1. batch[resolved + 1] \in InFlight /\ batch[resolved + 1] \in Requests
      BY <2>3, <2>t DEF ResolveNext, InFlight, WorkerTypes
    <3>2. s # batch[resolved + 1]
      BY <3>1, <2>t DEF Placement, Finished
    <3> QED
      BY <2>3, <3>1, <3>2, <2>t DEF ResolveNext, RequestTypes
  <2> QED
    BY <2>1, <2>2, <2>3
    DEF Next, requestVars, HandlerStep, Receive, Admit, Respond, GiveUp,
        WorkerStep, LoopAgain, LoopExit, PopFirst, PopMore, PopFirstTimesOut, CollectMore,
        CloseBatch, Generate, GenerateRaises, Account, ServerStep, Configure, DrainCalled,
        DrainReturns, DrainTimesOut, Ready, StartupFails, Stop, StopReturns, LimiterStep
<1> QED
  BY <1>1, PlacementInvariant, PTL DEF Spec, ResolvedOnce

-----------------------------------------------------------------------------
(* The node implements InferenceContract.                                  *)

(* A step that changes the future or the place of r only moves r only.     *)
LEMMA StageMoves ==
    ASSUME NEW r \in Requests, NEW to,
           \A s \in Requests \ {r} : future'[s] = future[s] /\ (s \in queue' <=> s \in queue),
           Stage'[r] = to
    PROVE  Stage' = [Stage EXCEPT ![r] = to]
<1>1. \A s \in Requests \ {r} : Stage'[s] = Stage[s]
  BY DEF Stage
<1>2. Stage = [s \in Requests |-> Stage[s]] /\ Stage' = [s \in Requests |-> Stage'[s]]
  BY DEF Stage
<1> QED
  BY <1>1, <1>2

LEMMA ContractStep ==
    ASSUME PlacementInv, [Next]_vars
    PROVE  [Contract!ContractNext]_(Contract!contractVars)
<1>t. RequestTypes /\ RequestTypes' /\ WorkerTypes /\ Placement /\ ResolveInv /\ HandlerInv
  BY RequestTypesNext DEF PlacementInv, TypeOK
<1>c. clock' \in Nat
  BY LimiterSteps, LimiterTypeNext DEF PlacementInv, TypeOK
<1> DEFINE Goal == [Contract!ContractNext]_(Contract!contractVars)
<1>1. CASE UNCHANGED <<future, queue, priority, arrival>>
  BY <1>1 DEF Stage, Contract!contractVars
<1>2. ASSUME NEW r \in Requests, Receive(r) PROVE Contract!Arrive(r)
  <2>1. Stage[r] = "idle"
    BY <1>2, <1>t DEF Receive, HandlerInv, Stage
  <2>2. Stage' = Stage
    BY <1>2 DEF Receive, Stage
  <2>3. arrival' \in [Requests -> Nat]
    BY <1>t, <1>c DEF RequestTypes
  <2> QED
    BY <1>2, <2>1, <2>2, <2>3, <1>t DEF Receive, RequestTypes, Contract!Arrive
<1>3. ASSUME NEW r \in Requests, Throttle(r) PROVE Contract!Refuse(r)
  <2>1. future[r] = "none" /\ future' = [future EXCEPT ![r] = "throttled"]
    BY <1>3, <1>t DEF Throttle, HandlerInv
  <2>2. UNCHANGED <<queue, priority, arrival>>
    BY <1>3 DEF Throttle
  <2>3. future'[r] = "throttled"
    BY <2>1, <1>t DEF RequestTypes
  <2>4. Stage[r] = "idle" /\ Stage'[r] = "refused"
    BY <2>1, <2>3 DEF Stage
  <2>5. Stage' = [Stage EXCEPT ![r] = "refused"]
    BY <2>1, <2>2, <2>4, <1>t, StageMoves DEF RequestTypes
  <2> QED
    BY <2>2, <2>4, <2>5 DEF Contract!Refuse, Contract!Moves
<1>4. ASSUME NEW r \in Requests, Enqueue(r) PROVE Contract!Queue(r)
  <2>1. /\ future[r] = "none" /\ future' = [future EXCEPT ![r] = "pending"]
        /\ queue' = queue \cup {r} /\ UNCHANGED <<priority, arrival>>
    BY <1>4, <1>t DEF Enqueue, HandlerInv
  <2>2. future'[r] = "pending"
    BY <2>1, <1>t DEF RequestTypes
  <2>3. Stage[r] = "idle" /\ Stage'[r] = "queued"
    BY <2>1, <2>2 DEF Stage
  <2>4. Stage' = [Stage EXCEPT ![r] = "queued"]
    BY <2>1, <2>3, <1>t, StageMoves DEF RequestTypes
  <2> QED
    BY <2>1, <2>3, <2>4 DEF Contract!Queue, Contract!Moves
<1>5. ASSUME NEW r \in Requests, PopFirst(r) \/ PopMore(r) PROVE Contract!StartRequest(r)
  <2>1. /\ r \in Heads /\ r \in queue /\ queue' = queue \ {r}
        /\ UNCHANGED <<future, priority, arrival>>
    BY <1>5 DEF PopFirst, PopMore, Take, Heads, requestVars
  <2>2. future[r] = "pending"
    BY <2>1, <1>t DEF Placement
  <2>3. \A s \in Requests : Stage[s] = "queued" => s \in queue
    BY DEF Stage
  <2>4. \A s \in Requests : Stage[s] = "queued" => ~Contract!MoreUrgent(s, r)
    BY <2>1, <2>3 DEF Heads, Before, Contract!MoreUrgent
  <2>5. Stage[r] = "queued" /\ Stage'[r] = "started"
    BY <2>1, <2>2 DEF Stage
  <2>6. Stage' = [Stage EXCEPT ![r] = "started"]
    BY <2>1, <2>5, StageMoves
  <2> QED
    BY <2>1, <2>4, <2>5, <2>6 DEF Contract!StartRequest, Contract!Moves
<1>6. CASE ResolveNext
  <2> DEFINE r == batch[resolved + 1]
  <2>1. /\ r \in Requests /\ r \in InFlight /\ outcome.kind \in Finished
        /\ future' = [future EXCEPT ![r] = outcome.kind]
        /\ UNCHANGED <<queue, priority, arrival>>
    BY <1>6, <1>t DEF ResolveNext, WorkerTypes, ResolveInv, InFlight
  <2>2. future[r] = "pending" /\ r \notin queue
    BY <1>6, <2>1, <1>t DEF ResolveNext, Placement, Range, WorkerTypes
  <2>3. outcome.kind # "throttled"
    BY <1>6, <1>t DEF ResolveNext, WorkerTypes
  <2> HIDE DEF r
  <2>f. future'[r] = outcome.kind
    BY <2>1, <1>t DEF RequestTypes
  <2>g. Stage[r] = "started" /\ Stage'[r] = "finished"
    BY <2>1, <2>2, <2>3, <2>f DEF Stage, Finished
  <2>4. Stage[r] = "started" /\ Stage' = [Stage EXCEPT ![r] = "finished"]
    BY <2>1, <2>g, <1>t, StageMoves DEF RequestTypes
  <2>5. Contract!Finish(r)
    BY <2>1, <2>4 DEF Contract!Finish, Contract!Moves
  <2> QED
    BY <2>1, <2>5 DEF Contract!ContractNext
<1> QED
  BY <1>1, <1>2, <1>3, <1>4, <1>5, <1>6
  DEF Contract!ContractNext, Next, vars, requestVars, HandlerStep, Admit, Respond, GiveUp,
      WorkerStep, LoopAgain, LoopExit, PopFirstTimesOut, CollectMore, CloseBatch, Generate,
      GenerateRaises, Account, ServerStep, Configure, DrainCalled, DrainReturns,
      DrainTimesOut, Ready, StartupFails, Stop, StopReturns, LimiterStep

LEMMA ContractStart == Init => Contract!ContractInit
  BY ConstantFacts DEF Init, Stage, Contract!ContractInit

(* The threads, the heap, the batches and the futures of a worker node     *)
(* implement the life cycle and the order of service of InferenceContract. *)
THEOREM NodeImplementsContract == Spec => ImplementsContract
  BY ContractStart, ContractStep, PlacementInvariant, PTL
  DEF Spec, ImplementsContract, Contract!ContractSpec

-----------------------------------------------------------------------------
(* Batches.                                                                *)

(* While a batch is collected, the attribute that bounds it is no larger   *)
(* than the largest value it has had, and a pop has room for its result.   *)
CollectInv ==
    /\ Len(batch) <= batch_cap
    /\ worker \in {"collect", "pop_more"} => max_batch_size <= batch_cap
    /\ worker = "pop_more" => Len(batch) < batch_cap

BatchInv == PlacementInv /\ CollectInv

LEMMA CollectInvNext ==
    ASSUME BatchInv, [Next]_vars
    PROVE  CollectInv'
<1>t. WorkerTypes /\ CollectInv /\ max_batch_size \in Nat \ {0} /\ ResolveInv
  BY ConstantFacts DEF BatchInv, PlacementInv, TypeOK, ServerTypes
<1>n. batch_cap \in Nat /\ Len(batch) \in Nat
  BY <1>t DEF WorkerTypes
<1>1. CASE UNCHANGED <<worker, batch, batch_cap, max_batch_size>>
  BY <1>1, <1>t DEF CollectInv
<1>2. ASSUME NEW r \in Requests, PopFirst(r) PROVE CollectInv'
  <2>1. batch = <<>> /\ Len(batch') = 1
    BY <1>2, <1>t DEF PopFirst, Take, WorkerAt, ResolveInv
  <2> QED
    BY <1>2, <2>1, <1>t DEF PopFirst, WorkerAt, serverVars, CollectInv
<1>3. ASSUME NEW r \in Requests, PopMore(r) PROVE CollectInv'
  <2>1. Len(batch') = Len(batch) + 1
    BY <1>3, <1>t DEF PopMore, Take, WorkerTypes
  <2> QED
    BY <1>3, <2>1, <1>t, <1>n DEF PopMore, WorkerAt, serverVars, CollectInv
<1>4. CASE LoopAgain \/ LoopExit \/ PopFirstTimesOut \/ CloseBatch
  BY <1>4, <1>t
  DEF LoopAgain, LoopExit, PopFirstTimesOut, CloseBatch, WorkerAt, serverVars, CollectInv
<1>5. CASE CollectMore
  BY <1>5, <1>t, <1>n DEF CollectMore, WorkerAt, serverVars, CollectInv
<1>6. ASSUME NEW n \in Nat, Generate(n) PROVE CollectInv'
  BY <1>6, <1>t DEF Generate, WorkerAt, CollectInv
<1>7. ASSUME NEW kind \in {"runtime_error", "error"}, GenerateRaises(kind)
      PROVE  CollectInv'
  BY <1>7, <1>t DEF GenerateRaises, WorkerAt, CollectInv
<1>8. CASE Account
  BY <1>8, <1>t DEF Account, WorkerAt, CollectInv
<1>9. ASSUME NEW n \in BatchSizes, Configure(n) PROVE CollectInv'
  <2>1. n \in Nat
    BY ConstantFacts
  <2> QED
    BY <1>9, <2>1, <1>t, <1>n DEF Configure, CollectInv
<1>m. \A n \in UNION {1..m : m \in Lengths} : n \in Nat
  BY ConstantFacts
<1> QED
  BY <1>1, <1>2, <1>3, <1>4, <1>5, <1>6, <1>7, <1>8, <1>9, <1>m
  DEF Next, vars, workerVars, serverVars, HandlerStep, Receive, Throttle, Admit, Enqueue,
      Respond, GiveUp, WorkerStep, ResolveNext, ServerStep, DrainCalled, DrainReturns,
      DrainTimesOut, Ready, StartupFails, Stop, StopReturns, LimiterStep

(* No batch outgrows max_batch_size, however POST /scheduler/config races  *)
(* with _worker_loop.                                                      *)
THEOREM BatchesAreBounded == Spec => []BatchBound
<1>1. Init => BatchInv
  BY PlacementInit DEF Init, BatchInv, CollectInv
<1>2. BatchInv /\ [Next]_vars => BatchInv'
  BY PlacementInvNext, CollectInvNext DEF BatchInv
<1>3. BatchInv => BatchBound
  BY DEF BatchInv, CollectInv, BatchBound
<1> QED
  BY <1>1, <1>2, <1>3, PTL DEF Spec

-----------------------------------------------------------------------------
(* Lengths.                                                                *)

(* A nonempty set of naturals has a least element, which Min returns. *)
LEMMA MinIsLeast ==
    ASSUME NEW S \in SUBSET Nat, S # {}
    PROVE  Min(S) \in S /\ \A x \in S : Min(S) <= x
<1> DEFINE below == {1..n : n \in S}
<1>1. below \subseteq FiniteSubsetsOf(Nat) /\ below # {}
  <2>1. \A n \in Nat : IsFiniteSet(1..n) /\ 1..n \subseteq Nat
    BY FS_Interval
  <2> QED
    BY <2>1 DEF FiniteSubsetsOf
<1>2. PICK b \in below : \A c \in below : <<c, b>> \notin StrictSubsetOrdering(Nat)
  BY <1>1, FS_StrictSubsetOrderingWellFounded, WFMin
<1>3. PICK m \in S : b = 1..m
  BY <1>2
<1>4. ASSUME NEW y \in S, y < m
      PROVE  FALSE
  <2>1. 1..y \subseteq 1..m /\ m \in 1..m /\ m \notin 1..y
    BY <1>4
  <2>2. <<1..y, 1..m>> \in StrictSubsetOrdering(Nat)
    BY <2>1 DEF StrictSubsetOrdering
  <2> QED
    BY <1>2, <1>3, <2>2
<1>5. \A y \in S : m <= y
  BY <1>4
<1> QED
  BY <1>5 DEF Min

(* What a batch is about to deliver fits each of its requests. *)
LengthInv ==
    /\ TokensWithinRequest
    /\ worker = "resolve" => \A i \in 1..Len(batch) : outcome.tokens <= max_new_tokens[batch[i]]

LEMMA LengthInvNext ==
    ASSUME PlacementInv, LengthInv, [Next]_vars
    PROVE  LengthInv'
<1>a. RequestTypes /\ WorkerTypes /\ LengthInv
  BY DEF PlacementInv, TypeOK
<1>t. /\ RequestTypes /\ WorkerTypes /\ LengthInv
      /\ \A r \in Requests : max_new_tokens[r] \in Nat
  BY <1>a, LengthFacts DEF RequestTypes
<1>b. \A i \in 1..Len(batch) : batch[i] \in Requests
  BY <1>t DEF WorkerTypes
<1>1. CASE UNCHANGED <<generated, max_new_tokens, worker, batch, outcome>>
  BY <1>1, <1>t DEF LengthInv, TokensWithinRequest
<1>2. CASE /\ worker' # "resolve"
           /\ UNCHANGED <<generated, max_new_tokens>>
  BY <1>2, <1>t DEF LengthInv, TokensWithinRequest
<1>3. ASSUME NEW n \in Nat, Generate(n) PROVE LengthInv'
  <2> DEFINE lengths == {max_new_tokens[r] : r \in Range(batch)}
  <2>1. Range(batch) = {batch[i] : i \in 1..Len(batch)}
    BY <1>t DEF Range, WorkerTypes
  <2>2. lengths \in SUBSET Nat
    BY <2>1, <1>b, <1>t
  <2>3. \A i \in 1..Len(batch) : max_new_tokens[batch[i]] \in lengths
    BY <2>1
  <2>4. \A i \in 1..Len(batch) : n <= max_new_tokens[batch[i]]
    <3> TAKE i \in 1..Len(batch)
    <3>0. max_new_tokens[batch[i]] \in lengths
      BY <2>3
    <3>1. lengths # {}
      BY <3>0
    <3>a. Min(lengths) \in lengths /\ \A x \in lengths : Min(lengths) <= x
      BY <2>2, <3>1, MinIsLeast
    <3>2. ShortestLength \in Nat /\ ShortestLength <= max_new_tokens[batch[i]]
      BY <2>2, <3>0, <3>a DEF ShortestLength
    <3>3. n <= ShortestLength
      BY <1>3, <3>2 DEF Generate
    <3> QED
      BY <3>2, <3>3, <1>b, <1>t
  <2> HIDE DEF lengths
  <2> QED
    BY <1>3, <2>4, <1>t DEF Generate, requestVars, LengthInv, TokensWithinRequest
<1>4. ASSUME NEW kind \in {"runtime_error", "error"}, GenerateRaises(kind)
      PROVE  LengthInv'
  <2>1. outcome'.tokens = 0 /\ UNCHANGED <<generated, max_new_tokens, batch>>
    BY <1>4 DEF GenerateRaises, requestVars
  <2> QED
    BY <2>1, <1>b, <1>t DEF LengthInv, TokensWithinRequest
<1>5. CASE ResolveNext
  <2> DEFINE r == batch[resolved + 1]
  <2>1. /\ r \in Requests /\ outcome.tokens <= max_new_tokens[r]
        /\ generated' = [generated EXCEPT ![r] = outcome.tokens]
        /\ UNCHANGED <<worker, batch, outcome, max_new_tokens>>
    BY <1>5, <1>t DEF ResolveNext, LengthInv, WorkerTypes
  <2> HIDE DEF r
  <2> QED
    BY <2>1, <1>t DEF RequestTypes, LengthInv, TokensWithinRequest
<1>n. \A n \in UNION {1..m : m \in Lengths} : n \in Nat
  BY ConstantFacts
<1> QED
  BY <1>1, <1>2, <1>3, <1>4, <1>5, <1>n
  DEF Next, vars, requestVars, workerVars, HandlerStep, Receive, Throttle, Admit, Enqueue,
      Respond, GiveUp, WorkerStep, LoopAgain, LoopExit, PopFirst, PopMore, PopFirstTimesOut,
      CollectMore, CloseBatch, Account, WorkerAt, ServerStep, Configure, DrainCalled,
      DrainReturns, DrainTimesOut, Ready, StartupFails, Stop, StopReturns, LimiterStep

(* _run_batch gives no request more tokens than it asked for.              *)
THEOREM LengthsRespected == Spec => []TokensWithinRequest
<1>1. Init => LengthInv
  <2> SUFFICES ASSUME Init, NEW r \in Requests
               PROVE  generated[r] <= max_new_tokens[r]
    BY DEF Init, LengthInv, TokensWithinRequest
  <2>1. generated[r] = 0 /\ max_new_tokens[r] \in Lengths
    BY DEF Init
  <2> QED
    BY <2>1, LengthFacts
<1>2. PlacementInv /\ LengthInv /\ [Next]_vars => LengthInv'
  BY LengthInvNext
<1>3. LengthInv => TokensWithinRequest
  BY DEF LengthInv
<1> QED
  BY <1>1, <1>2, <1>3, PlacementInvariant, PTL DEF Spec

-----------------------------------------------------------------------------
(* Drain.                                                                  *)

(* What drain was called for has a future, and futures are not taken back. *)
DrainInv ==
    /\ \A r \in drain_scope : future[r] # "none"
    /\ DrainEmptiesQueue

LEMMA DrainInvNext ==
    ASSUME PlacementInv, DrainInv, [Next]_vars
    PROVE  DrainInv'
<1>t. RequestTypes /\ WorkerTypes /\ ServerTypes /\ HandlerInv /\ DrainInv
  BY DEF PlacementInv, TypeOK
<1>1. CASE UNCHANGED <<future, queue, drain, drain_scope>>
  BY <1>1, <1>t DEF DrainInv, DrainEmptiesQueue
<1>2. ASSUME NEW r \in Requests, Throttle(r) \/ Enqueue(r)
      PROVE  DrainInv'
  <2>1. r \notin drain_scope
    BY <1>2, <1>t DEF Throttle, Enqueue, HandlerInv, DrainInv
  <2>2. /\ UNCHANGED <<drain, drain_scope>>
        /\ queue' \subseteq queue \cup {r}
        /\ \A s \in drain_scope : future'[s] = future[s]
    BY <1>2, <2>1, <1>t DEF Throttle, Enqueue, drainVars, RequestTypes, ServerTypes
  <2> QED
    BY <2>1, <2>2, <1>t DEF DrainInv, DrainEmptiesQueue
<1>3. ASSUME NEW r \in Requests, PopFirst(r) \/ PopMore(r)
      PROVE  DrainInv'
  <2>1. UNCHANGED <<future, drain, drain_scope>> /\ queue' \subseteq queue
    BY <1>3 DEF PopFirst, PopMore, Take, requestVars, drainVars
  <2> QED
    BY <2>1, <1>t DEF DrainInv, DrainEmptiesQueue
<1>4. CASE ResolveNext
  <2>1. outcome.kind # "none"
    BY <1>4 DEF ResolveNext, PlacementInv, ResolveInv, Finished
  <2>2. UNCHANGED <<queue, drain, drain_scope>>
    BY <1>4 DEF ResolveNext, drainVars
  <2>3. \A r \in Requests : future[r] # "none" => future'[r] # "none"
    BY <1>4, <2>1, <1>t DEF ResolveNext, RequestTypes
  <2> QED
    BY <2>2, <2>3, <1>t DEF DrainInv, DrainEmptiesQueue, ServerTypes
<1>5. CASE DrainCalled \/ DrainReturns \/ DrainTimesOut
  BY <1>5, <1>t
  DEF DrainCalled, DrainReturns, DrainTimesOut, Unanswered, requestVars, DrainInv,
      DrainEmptiesQueue
<1> QED
  BY <1>1, <1>2, <1>3, <1>4, <1>5
  DEF Next, vars, requestVars, drainVars, HandlerStep, Receive, Admit, Respond, GiveUp,
      WorkerStep, LoopAgain, LoopExit, PopFirstTimesOut, CollectMore, CloseBatch, Generate,
      GenerateRaises, Account, ServerStep, Configure, Ready, StartupFails, Stop,
      StopReturns, LimiterStep

(* What drain was called for has left the queue when drain says drained.   *)
THEOREM DrainedMeansDequeued == Spec => []DrainEmptiesQueue
<1>1. Init => DrainInv
  BY DEF Init, DrainInv, DrainEmptiesQueue
<1>2. PlacementInv /\ DrainInv /\ [Next]_vars => DrainInv'
  BY DrainInvNext
<1>3. DrainInv => DrainEmptiesQueue
  BY DEF DrainInv
<1> QED
  BY <1>1, <1>2, <1>3, PlacementInvariant, PTL DEF Spec

-----------------------------------------------------------------------------
(* The limiter's counters.                                                 *)

Allowed == {r \in Requests : phase[r] = "admitted" \/ future[r] \notin {"none", "throttled"}}
Rejected == {r \in Requests : future[r] = "throttled"}

LEMMA CallersFinite ==
    /\ IsFiniteSet(Allowed) /\ IsFiniteSet(Rejected)
    /\ Cardinality(Allowed) \in Nat /\ Cardinality(Rejected) \in Nat
<1>1. Allowed \subseteq Requests /\ Rejected \subseteq Requests
  BY DEF Allowed, Rejected
<1> QED
  BY <1>1, SchedulerAssumption, FS_Subset, FS_CardinalityType

(* acquire() consents once for each request that becomes allowed, and      *)
(* refuses once for each that becomes rejected; no other step counts.      *)
LEMMA LimiterAgreesNext ==
    ASSUME PlacementInv, LimiterAgrees, [Next]_vars
    PROVE  LimiterAgrees'
<1>t. RequestTypes /\ WorkerTypes /\ HandlerInv /\ Limiter!BucketTypeOK
  BY DEF PlacementInv, TypeOK
<1>a. total_allowed = Cardinality(Allowed) /\ total_rejected = Cardinality(Rejected)
  BY DEF LimiterAgrees, Allowed, Rejected
<1>s. SUFFICES /\ total_allowed' = Cardinality(Allowed')
               /\ total_rejected' = Cardinality(Rejected')
  BY DEF LimiterAgrees, Allowed, Rejected
<1>same. ASSUME UNCHANGED <<total_allowed, total_rejected>>, Allowed' = Allowed,
                Rejected' = Rejected
         PROVE  /\ total_allowed' = Cardinality(Allowed')
                /\ total_rejected' = Cardinality(Rejected')
  BY <1>same, <1>a
<1>1. CASE UNCHANGED <<phase, future, total_allowed, total_rejected>>
  BY <1>1, <1>same DEF Allowed, Rejected
<1>2. ASSUME NEW r \in Requests, Receive(r) \/ Enqueue(r) \/ Respond(r) \/ GiveUp(r)
      PROVE  /\ total_allowed' = Cardinality(Allowed')
             /\ total_rejected' = Cardinality(Rejected')
  <2>1. UNCHANGED <<total_allowed, total_rejected>>
    BY <1>2 DEF Receive, Enqueue, Respond, GiveUp, limiterVars
  <2>2. /\ phase' = [phase EXCEPT ![r] = phase'[r]]
        /\ future' = [future EXCEPT ![r] = future'[r]]
        /\ r \in Allowed' <=> r \in Allowed
        /\ r \in Rejected' <=> r \in Rejected
    BY <1>2, <1>t
    DEF Receive, Enqueue, Respond, GiveUp, RequestTypes, HandlerInv, Allowed, Rejected
  <2>3. \A s \in Requests \ {r} : phase'[s] = phase[s] /\ future'[s] = future[s]
    BY <2>2, <1>t DEF RequestTypes
  <2>4. Allowed' = Allowed /\ Rejected' = Rejected
    BY <2>2, <2>3 DEF Allowed, Rejected
  <2> QED
    BY <2>1, <2>4, <1>same
<1>3. ASSUME NEW r \in Requests, Throttle(r)
      PROVE  /\ total_allowed' = Cardinality(Allowed')
             /\ total_rejected' = Cardinality(Rejected')
  <2>1. total_allowed' = total_allowed /\ total_rejected' = total_rejected + 1
    BY <1>3 DEF Throttle, Limiter!Reject
  <2>2. future[r] = "none" /\ phase[r] = "built"
    BY <1>3, <1>t DEF Throttle, HandlerInv
  <2>3. /\ \A s \in Requests \ {r} : phase'[s] = phase[s] /\ future'[s] = future[s]
        /\ phase'[r] = "waiting" /\ future'[r] = "throttled"
    BY <1>3, <1>t DEF Throttle, RequestTypes
  <2>4. Allowed' = Allowed
    BY <2>2, <2>3 DEF Allowed
  <2>5. Rejected' = Rejected \cup {r} /\ r \notin Rejected
    BY <2>2, <2>3 DEF Rejected
  <2>6. Cardinality(Rejected \cup {r}) = Cardinality(Rejected) + 1
    BY <2>5, CallersFinite, FS_AddElement
  <2> QED
    BY <2>1, <2>4, <2>5, <2>6, <1>a
<1>4. ASSUME NEW r \in Requests, Admit(r)
      PROVE  /\ total_allowed' = Cardinality(Allowed')
             /\ total_rejected' = Cardinality(Rejected')
  <2>1. total_allowed' = total_allowed + 1 /\ total_rejected' = total_rejected
    BY <1>4 DEF Admit, Limiter!Admit
  <2>2. future[r] = "none" /\ phase[r] = "built"
    BY <1>4, <1>t DEF Admit, HandlerInv
  <2>3. /\ \A s \in Requests \ {r} : phase'[s] = phase[s]
        /\ phase'[r] = "admitted" /\ future' = future
    BY <1>4, <1>t DEF Admit, RequestTypes
  <2>4. Rejected' = Rejected
    BY <2>3 DEF Rejected
  <2>5. Allowed' = Allowed \cup {r} /\ r \notin Allowed
    BY <2>2, <2>3 DEF Allowed
  <2>6. Cardinality(Allowed \cup {r}) = Cardinality(Allowed) + 1
    BY <2>5, CallersFinite, FS_AddElement
  <2> QED
    BY <2>1, <2>4, <2>5, <2>6, <1>a
<1>5. CASE ResolveNext
  <2> DEFINE r == batch[resolved + 1]
  <2>1. r \in Requests /\ r \in InFlight
    BY <1>5, <1>t DEF ResolveNext, WorkerTypes, InFlight
  <2>2. future[r] = "pending"
    BY <2>1 DEF PlacementInv, Placement
  <2>3. outcome.kind \notin {"none", "throttled"}
    BY <1>5, <1>t DEF ResolveNext, WorkerTypes, PlacementInv, ResolveInv, Finished
  <2>4. /\ UNCHANGED <<total_allowed, total_rejected, phase>>
        /\ future' = [future EXCEPT ![r] = outcome.kind]
    BY <1>5 DEF ResolveNext, limiterVars
  <2> HIDE DEF r
  <2>5. Allowed' = Allowed /\ Rejected' = Rejected
    BY <2>1, <2>2, <2>3, <2>4, <1>t DEF Allowed, Rejected, RequestTypes
  <2> QED
    BY <2>4, <2>5, <1>same
<1>6. CASE LimiterStep
  BY <1>6, <1>1 DEF LimiterStep, requestVars, Limiter!Tick, Limiter!Stats
<1> QED
  BY <1>1, <1>2, <1>3, <1>4, <1>5, <1>6
  DEF Next, vars, limiterVars, requestVars, HandlerStep, WorkerStep, LoopAgain, LoopExit,
      PopFirst, PopMore, PopFirstTimesOut, CollectMore, CloseBatch, Generate,
      GenerateRaises, Account, ServerStep, Configure, DrainCalled, DrainReturns,
      DrainTimesOut, Ready, StartupFails, Stop, StopReturns

(* One token for each request that reached the queue and none for a        *)
(* refused call, although acquire() and push() are separate sections.      *)
THEOREM LimiterCountsCalls == Spec => []LimiterAgrees
<1>1. Init => LimiterAgrees
  BY FS_EmptySet DEF Init, Limiter!BucketInit, LimiterAgrees
<1>2. PlacementInv /\ LimiterAgrees /\ [Next]_vars => LimiterAgrees'
  BY LimiterAgreesNext
<1> QED
  BY <1>1, <1>2, PlacementInvariant, PTL DEF Spec

-----------------------------------------------------------------------------
(* Sums over sets of requests: what MapThenSumSet computes.                *)

SumOver(g, S) == MapThenSumSet(LAMBDA r : g[r], S)

(* f gives every subset of R the sum of g over it.                         *)
Additive(f, g, R) ==
    /\ f \in [SUBSET R -> Nat]
    /\ f[{}] = 0
    /\ \A s \in SUBSET R : \A x \in R \ s : f[s \cup {x}] = f[s] + g[x]

Sums(g, R) == {f \in [SUBSET R -> Nat] : Additive(f, g, R)}

(* A set of subsets of a finite set has a member that is minimal in it.    *)
LEMMA MinimalSubset ==
    ASSUME NEW S, IsFiniteSet(S), NEW T \in SUBSET SUBSET S, T # {}
    PROVE  \E s \in T : \A t \in T : t \subseteq s => t = s
<1>1. IsWellFoundedOn(StrictSubsetOrdering(S), SUBSET S)
  BY FS_StrictSubsetOrderingWellFounded, FS_FiniteSubsetsOfFinite
<1>2. PICK s \in T : \A t \in T : <<t, s>> \notin StrictSubsetOrdering(S)
  BY <1>1, WFMin
<1> QED
  BY <1>2 DEF StrictSubsetOrdering

(* One element more.                                                       *)
LEMMA SumsGrow ==
    ASSUME NEW S, NEW g \in [S -> Nat], NEW R \in SUBSET S, NEW x \in R,
           NEW e \in Sums(g, R \ {x})
    PROVE  Sums(g, R) # {}
<1> DEFINE f == [s \in SUBSET R |-> IF x \in s THEN e[s \ {x}] + g[x] ELSE e[s]]
<1>1. /\ e \in [SUBSET (R \ {x}) -> Nat] /\ e[{}] = 0
      /\ \A s \in SUBSET (R \ {x}) : \A y \in (R \ {x}) \ s : e[s \cup {y}] = e[s] + g[y]
  BY DEF Sums, Additive
<1>2. \A s \in SUBSET R : s \ {x} \in SUBSET (R \ {x}) /\ (x \notin s => s \in SUBSET (R \ {x}))
  OBVIOUS
<1>3. f \in [SUBSET R -> Nat]
  BY <1>1, <1>2
<1>4. f[{}] = 0
  BY <1>1
<1>5. ASSUME NEW s \in SUBSET R, NEW y \in R \ s PROVE f[s \cup {y}] = f[s] + g[y]
  <2>0. s \cup {y} \in SUBSET R
    OBVIOUS
  <2>1. CASE y = x
    <3>1. f[s] = e[s] /\ (s \cup {y}) \ {x} = s
      BY <2>1
    <3>2. f[s \cup {y}] = e[(s \cup {y}) \ {x}] + g[x]
      BY <2>0, <2>1
    <3> QED
      BY <2>1, <3>1, <3>2
  <2>2. CASE y # x /\ x \in s
    <3>1. (s \cup {y}) \ {x} = (s \ {x}) \cup {y} /\ y \in (R \ {x}) \ (s \ {x})
      BY <2>2
    <3>2. e[(s \ {x}) \cup {y}] = e[s \ {x}] + g[y]
      BY <1>1, <1>2, <3>1
    <3>3. f[s \cup {y}] = e[(s \ {x}) \cup {y}] + g[x] /\ f[s] = e[s \ {x}] + g[x]
      BY <2>0, <2>2, <3>1
    <3>4. e[s \ {x}] \in Nat /\ e[(s \ {x}) \cup {y}] \in Nat
      BY <1>1, <1>2, <2>0, <3>1
    <3>5. g[x] \in Nat /\ g[y] \in Nat
      OBVIOUS
    <3> HIDE DEF f
    <3> QED
      BY <3>2, <3>3, <3>4, <3>5
  <2>3. CASE y # x /\ x \notin s
    <3>1. f[s \cup {y}] = e[s \cup {y}] /\ f[s] = e[s]
      BY <2>0, <2>3
    <3> QED
      BY <1>1, <2>3, <3>1
  <2> QED
    BY <2>1, <2>2, <2>3
<1>6. f \in Sums(g, R)
  <2> HIDE DEF f
  <2> QED
    BY <1>3, <1>4, <1>5 DEF Sums, Additive
<1> QED
  BY <1>6

(* A finite set has such a table.                                          *)
LEMMA SumsExist ==
    ASSUME NEW S, IsFiniteSet(S), NEW g \in [S -> Nat]
    PROVE  Sums(g, S) # {}
<1> DEFINE Bad == {R \in SUBSET S : Sums(g, R) = {}}
<1> SUFFICES ASSUME Bad # {} PROVE FALSE
  OBVIOUS
<1>0. Bad \in SUBSET SUBSET S
  OBVIOUS
<1>1. PICK R \in Bad : \A Q \in Bad : Q \subseteq R => Q = R
  <2> HIDE DEF Bad
  <2> QED
    BY <1>0, MinimalSubset
<1>2. CASE R = {}
  <2>1. [s \in SUBSET {} |-> 0] \in Sums(g, {})
    BY DEF Sums, Additive
  <2> QED
    BY <1>1, <1>2, <2>1
<1>3. CASE R # {}
  <2>1. PICK x \in R : TRUE
    BY <1>3
  <2>2. R \ {x} \notin Bad /\ R \ {x} \in SUBSET S
    BY <1>1, <2>1
  <2>3. PICK e \in Sums(g, R \ {x}) : TRUE
    BY <2>2
  <2>4. R \in SUBSET S
    BY <1>1
  <2>5. Sums(g, R) # {}
    BY <2>1, <2>3, <2>4, SumsGrow
  <2> QED
    BY <1>1, <2>5
<1> QED
  BY <1>2, <1>3

(* MapThenSumSet follows the table, in whatever order it takes elements.   *)
LEMMA SumIsAdditive ==
    ASSUME NEW Q, NEW g \in [Q -> Nat], NEW R \in SUBSET Q, IsFiniteSet(R),
           NEW f \in Sums(g, R), NEW S \in SUBSET R
    PROVE  SumOver(g, S) = f[S]
<1> DEFINE pick(s) == CHOOSE x \in s : TRUE
           D == SUBSET S
           Sum(h, s) == g[pick(s)] + h[s \ {pick(s)}]
           iter == CHOOSE h : h = [s \in D |-> IF s = {} THEN 0 ELSE Sum(h, s)]
           it == [s \in D |-> f[s]]
<1>1. SumOver(g, S) = iter[S]
  BY DEF SumOver, MapThenSumSet, MapThenFoldSet
<1>2. it = [s \in D |-> IF s = {} THEN 0 ELSE Sum(it, s)]
  <2>1. it[{}] = 0
    BY DEF Sums, Additive
  <2>2. ASSUME NEW s \in D, s # {} PROVE it[s] = Sum(it, s)
    <3>1. pick(s) \in s
      BY <2>2
    <3> DEFINE x == pick(s)
               u == s \ {x}
    <3>2. x \in s
      BY <3>1
    <3> HIDE DEF x
    <3>3. u \in SUBSET R /\ x \in R \ u /\ u \cup {x} = s /\ u \in D
      BY <3>2
    <3>4. f[s] = f[u] + g[x]
      BY <3>3 DEF Sums, Additive
    <3>5. f[u] \in Nat /\ g[x] \in Nat
      BY <3>3 DEF Sums, Additive
    <3>6. it[s] = g[x] + it[u]
      BY <3>3, <3>4, <3>5
    <3> QED
      BY <3>6 DEF x
  <2> QED
    BY <2>1, <2>2
<1>3. iter = [s \in D |-> IF s = {} THEN 0 ELSE Sum(iter, s)]
  BY <1>2
<1> HIDE DEF iter
<1>4. iter[{}] = 0 /\ \A s \in D : s # {} => iter[s] = Sum(iter, s)
  BY <1>3
<1> DEFINE Bad == {s \in D : iter[s] # f[s]}
<1>5. ASSUME Bad # {} PROVE FALSE
  <2>1. IsFiniteSet(S)
    BY FS_Subset
  <2>a. Bad \in SUBSET SUBSET S
    OBVIOUS
  <2>2. PICK s \in Bad : \A t \in Bad : t \subseteq s => t = s
    <3> HIDE DEF Bad
    <3> QED
      BY <1>5, <2>a, <2>1, MinimalSubset
  <2>3. s # {}
    BY <1>4, <2>2 DEF Sums, Additive
  <2> DEFINE x == pick(s)
  <2>4. x \in s
    BY <2>3
  <2>5. iter[s] = g[x] + iter[s \ {x}]
    BY <1>4, <2>2, <2>3
  <2> HIDE DEF x
  <2>6. s \ {x} \notin Bad /\ s \ {x} \in D
    BY <2>2, <2>4
  <2>7. iter[s \ {x}] = f[s \ {x}]
    BY <2>6
  <2>8. /\ s \ {x} \in SUBSET R /\ x \in R \ (s \ {x}) /\ (s \ {x}) \cup {x} = s
    BY <2>2, <2>4
  <2>9. f[s] = f[s \ {x}] + g[x]
    BY <2>8 DEF Sums, Additive
  <2>10. f[s \ {x}] \in Nat /\ g[x] \in Nat
    BY <2>8 DEF Sums, Additive
  <2> QED
    BY <2>2, <2>5, <2>7, <2>9, <2>10
<1> QED
  BY <1>1, <1>5

(* What the proofs use of sums.                                            *)
LEMMA SumFacts ==
    ASSUME NEW R, IsFiniteSet(R), NEW g \in [R -> Nat]
    PROVE  /\ SumOver(g, {}) = 0
           /\ \A S \in SUBSET R : SumOver(g, S) \in Nat
           /\ \A S \in SUBSET R : \A x \in R \ S :
                  SumOver(g, S \cup {x}) = SumOver(g, S) + g[x]
<1>1. PICK f \in Sums(g, R) : TRUE
  BY SumsExist
<1>2. \A S \in SUBSET R : SumOver(g, S) = f[S]
  BY SumIsAdditive
<1> QED
  BY <1>2 DEF Sums, Additive

(* A sum depends on what is summed only.                                   *)
LEMMA SumCongruent ==
    ASSUME NEW R, IsFiniteSet(R), NEW g \in [R -> Nat], NEW h \in [R -> Nat],
           NEW S \in SUBSET R, \A x \in S : g[x] = h[x]
    PROVE  SumOver(g, S) = SumOver(h, S)
<1>1. IsFiniteSet(S)
  BY FS_Subset
<1> DEFINE gS == [x \in S |-> g[x]]
<1>2. gS \in [S -> Nat]
  OBVIOUS
<1>3. PICK f \in Sums(gS, S) : TRUE
  <2> HIDE DEF gS
  <2> QED
    BY <1>1, <1>2, SumsExist
<1>4. f \in Sums(g, S) /\ f \in Sums(h, S)
  BY <1>3 DEF Sums, Additive
<1>5. SumOver(g, S) = f[S] /\ SumOver(h, S) = f[S]
  BY <1>1, <1>4, SumIsAdditive
<1> QED
  BY <1>5

(* Each element of U counts one and adds t.                                *)
LEMMA SumUnion ==
    ASSUME NEW R, IsFiniteSet(R), NEW g \in [R -> Nat], NEW S \in SUBSET R,
           NEW t \in Nat, NEW U \in SUBSET R, S \cap U = {}, \A x \in U : g[x] = t
    PROVE  /\ Cardinality(S \cup U) = Cardinality(S) + Cardinality(U)
           /\ SumOver(g, S \cup U) = SumOver(g, S) + Cardinality(U) * t
<1>1. IsFiniteSet(S) /\ IsFiniteSet(U)
  BY FS_Subset
<1>2. /\ Cardinality(S) \in Nat /\ Cardinality(U) \in Nat
      /\ Cardinality(S \cup U) = Cardinality(S) + Cardinality(U) - Cardinality(S \cap U)
  BY <1>1, FS_CardinalityType, FS_Union
<1>3. Cardinality(S \cap U) = 0
  BY FS_EmptySet
<1> DEFINE Bad == {V \in SUBSET U : SumOver(g, S \cup V) # SumOver(g, S) + Cardinality(V) * t}
<1>4. ASSUME Bad # {} PROVE FALSE
  <2>0. Bad \in SUBSET SUBSET U
    OBVIOUS
  <2>1. PICK V \in Bad : \A W \in Bad : W \subseteq V => W = V
    <3> HIDE DEF Bad
    <3> QED
      BY <1>1, <1>4, <2>0, MinimalSubset
  <2>s. SumOver(g, S) \in Nat
    BY SumFacts
  <2>2. CASE V = {}
    <3>1. S \cup V = S /\ Cardinality(V) = 0
      BY <2>2, FS_EmptySet
    <3>2. SumOver(g, S) = SumOver(g, S) + 0 * t
      BY <2>s
    <3> QED
      BY <2>1, <3>1, <3>2
  <2>3. CASE V # {}
    <3>1. PICK x \in V : TRUE
      BY <2>3
    <3> DEFINE W == V \ {x}
    <3>2. W \in SUBSET U /\ W \notin Bad
      BY <2>1, <3>1
    <3>3. SumOver(g, S \cup W) = SumOver(g, S) + Cardinality(W) * t
      BY <3>2
    <3>4. IsFiniteSet(V) /\ Cardinality(V) \in Nat /\ IsFiniteSet(W) /\ Cardinality(W) \in Nat
      BY <1>1, <2>1, <3>2, FS_Subset, FS_CardinalityType
    <3>5. Cardinality(W) = Cardinality(V) - 1
      BY <3>1, <3>4, FS_RemoveElement
    <3>6. S \cup W \in SUBSET R /\ x \in R \ (S \cup W) /\ (S \cup W) \cup {x} = S \cup V
      BY <2>1, <3>1
    <3> HIDE DEF W
    <3>7. SumOver(g, S \cup V) = SumOver(g, S \cup W) + g[x]
      <4>1. \A Q \in SUBSET R : \A y \in R \ Q : SumOver(g, Q \cup {y}) = SumOver(g, Q) + g[y]
        BY SumFacts
      <4>2. SumOver(g, (S \cup W) \cup {x}) = SumOver(g, S \cup W) + g[x]
        BY <3>6, <4>1
      <4> QED
        BY <3>6, <4>2
    <3>8. g[x] = t
      BY <2>1, <3>1
    <3>9. Cardinality(V) * t = Cardinality(W) * t + t
      BY <3>4, <3>5
    <3>10. SumOver(g, S \cup V) = SumOver(g, S) + Cardinality(V) * t
      <4>1. Cardinality(W) * t \in Nat
        BY <3>4
      <4> QED
        BY <2>s, <3>3, <3>7, <3>8, <3>9, <4>1
    <3> QED
      BY <2>1, <3>10
  <2> QED
    BY <2>2, <2>3
<1>5. U \notin Bad
  BY <1>4
<1>6. SumOver(g, S \cup U) = SumOver(g, S) + Cardinality(U) * t
  BY <1>5
<1> QED
  BY <1>2, <1>3, <1>6

-----------------------------------------------------------------------------
(* The counters of the worker.                                             *)

(* What the counters are about: requests whose batch is accounted for.     *)
Done == {r \in Requests : future[r] \in Finished \ {"throttled"}} \ Range(batch)

(* A batch is not empty, and every future of it that is set was set to     *)
(* what _run_batch returned or raised.                                     *)
OutcomeInv ==
    /\ \A i \in 1..resolved : /\ future[batch[i]] # "throttled"
                              /\ generated[batch[i]] = outcome.tokens
    /\ worker \in {"collect", "pop_more", "generate", "resolve"} => batch # <<>>

AccountInv == OutcomeInv /\ Accounting

(* A batch has as many requests as entries.                                *)
LEMMA BatchSize ==
    ASSUME WorkerTypes, Placement
    PROVE  /\ Range(batch) \in SUBSET Requests
           /\ Len(batch) \in Nat
           /\ Cardinality(Range(batch)) = Len(batch)
<1>1. batch \in Seq(Requests) /\ DOMAIN batch = 1..Len(batch) /\ Len(batch) \in Nat
  BY DEF WorkerTypes
<1>2. batch \in [1..Len(batch) -> Range(batch)]
  BY <1>1 DEF Range
<1>3. batch \in Bijection(1..Len(batch), Range(batch))
  BY <1>1, <1>2 DEF Placement, Range, Bijection, Injection, Surjection, IsInjective
<1>4. Cardinality(Range(batch)) = Cardinality(1..Len(batch))
  BY <1>1, <1>3, FS_Interval, FS_Bijection DEF ExistsBijection
<1> QED
  BY <1>1, <1>4, FS_Interval DEF Range

(* Futures of the batch are set from one outcome: it changes only while   *)
(* none of them is set.                                                   *)
LEMMA OutcomeNext ==
    ASSUME PlacementInv, OutcomeInv, [Next]_vars
    PROVE  OutcomeInv'
<1>t. RequestTypes /\ WorkerTypes /\ HandlerInv /\ ResolveInv /\ Placement
  BY DEF PlacementInv, TypeOK
<1>b. resolved \in 0..Len(batch) /\ Len(batch) \in Nat /\ \A i \in 1..Len(batch) : batch[i] \in Requests
  BY <1>t DEF WorkerTypes
<1>1. CASE UNCHANGED <<future, generated, worker, batch, outcome, resolved>>
  BY <1>1 DEF OutcomeInv
<1>2. ASSUME NEW r \in Requests, Throttle(r) \/ Enqueue(r)
      PROVE  OutcomeInv'
  <2>1. future[r] = "none"
    BY <1>2, <1>t DEF Throttle, Enqueue, HandlerInv
  <2>2. \A i \in 1..resolved : batch[i] # r
    BY <2>1, <1>t DEF ResolveInv, Finished
  <2>3. /\ UNCHANGED <<generated, worker, batch, outcome, resolved>>
        /\ \A s \in Requests \ {r} : future'[s] = future[s]
    BY <1>2, <1>t DEF Throttle, Enqueue, RequestTypes, workerVars
  <2>4. \A i \in 1..resolved : future'[batch[i]] = future[batch[i]]
    BY <2>2, <2>3, <1>b
  <2> QED
    BY <2>3, <2>4 DEF OutcomeInv
<1>3. CASE /\ worker # "resolve" /\ resolved' = resolved
           /\ worker' \in {"loop", "pop_first", "exited"} \/ batch' # <<>>
  BY <1>3, <1>t DEF ResolveInv, OutcomeInv
<1>4. ASSUME NEW r \in Requests, PopFirst(r) \/ PopMore(r)
      PROVE  OutcomeInv'
  <2>1. worker # "resolve" /\ resolved' = resolved /\ batch' = Append(batch, r)
    BY <1>4 DEF PopFirst, PopMore, Take, WorkerAt
  <2>2. batch' # <<>>
    BY <2>1, <1>t DEF WorkerTypes
  <2> QED
    BY <2>1, <2>2, <1>3
<1>5. ASSUME \/ LoopAgain \/ LoopExit \/ PopFirstTimesOut \/ CollectMore \/ CloseBatch
             \/ \E n \in UNION {1..m : m \in Lengths} : Generate(n)
             \/ \E kind \in {"runtime_error", "error"} : GenerateRaises(kind)
      PROVE  OutcomeInv'
  BY <1>5, <1>3
  DEF LoopAgain, LoopExit, PopFirstTimesOut, CollectMore, CloseBatch, Generate,
      GenerateRaises, WorkerAt, OutcomeInv
<1>6. CASE ResolveNext
  <2> DEFINE r == batch[resolved + 1]
  <2>1. /\ resolved + 1 \in 1..Len(batch) /\ r \in Requests
        /\ future' = [future EXCEPT ![r] = outcome.kind]
        /\ generated' = [generated EXCEPT ![r] = outcome.tokens]
        /\ resolved' = resolved + 1
        /\ UNCHANGED <<worker, batch, outcome>>
    BY <1>6, <1>b DEF ResolveNext
  <2>2. outcome.kind # "throttled"
    BY <1>t DEF WorkerTypes
  <2>3. \A i \in 1..resolved : batch[i] # r
    BY <2>1, <1>b, <1>t DEF Placement
  <2>4. \A i \in 1..resolved : /\ future'[batch[i]] = future[batch[i]]
                               /\ generated'[batch[i]] = generated[batch[i]]
    <3> HIDE DEF r
    <3> QED
      BY <2>1, <2>3, <1>b, <1>t DEF RequestTypes
  <2>5. future'[r] = outcome.kind /\ generated'[r] = outcome.tokens
    <3> HIDE DEF r
    <3> QED
      BY <2>1, <1>t DEF RequestTypes
  <2>6. \A i \in 1..(resolved + 1) : i \in 1..resolved \/ batch[i] = r
    BY <1>b
  <2> HIDE DEF r
  <2> QED
    BY <2>1, <2>2, <2>4, <2>5, <2>6 DEF OutcomeInv
<1>7. CASE Account
  BY <1>7 DEF Account, WorkerAt, OutcomeInv
<1> QED
  BY <1>1, <1>2, <1>4, <1>5, <1>6, <1>7
  DEF Next, vars, requestVars, workerVars, HandlerStep, Receive, Admit, Respond, GiveUp,
      WorkerStep, ServerStep, Configure, DrainCalled, DrainReturns, DrainTimesOut, Ready,
      StartupFails, Stop, StopReturns, LimiterStep

(* The sum and the counts that Accounting is about. *)
LEMMA AccountingIs ==
    Accounting <=> /\ requests_processed = Cardinality(Done)
                   /\ total_tokens_generated = SumOver(generated, Done)
                   /\ batches_processed <= requests_processed
  BY DEF Accounting, Done, SumOver

LEMMA AccountingIsNext ==
    (Accounting <=> /\ requests_processed = Cardinality(Done)
                    /\ total_tokens_generated = SumOver(generated, Done)
                    /\ batches_processed <= requests_processed)'
  BY AccountingIs, PTL

(* A step that neither ends a batch nor changes what the requests of ended *)
(* batches got.                                                            *)
LEMMA AccountingKept ==
    ASSUME TypeOK, RequestTypes', Accounting, UNCHANGED statsVars, Done' = Done,
           \A r \in Done : generated'[r] = generated[r]
    PROVE  Accounting'
<1>1. /\ IsFiniteSet(Requests) /\ Done \in SUBSET Requests
      /\ generated \in [Requests -> Nat] /\ generated' \in [Requests -> Nat]
  BY SchedulerAssumption DEF TypeOK, RequestTypes, Done
<1>2. SumOver(generated, Done) = SumOver(generated', Done)
  BY <1>1, SumCongruent
<1> QED
  BY <1>2, AccountingIs, AccountingIsNext DEF statsVars

(* The end of a batch: its requests become done, all with the same number  *)
(* of tokens.                                                              *)
LEMMA AccountAddsUp ==
    ASSUME PlacementInv, AccountInv, Account
    PROVE  Accounting'
<1>t. TypeOK /\ RequestTypes /\ WorkerTypes /\ ResolveInv /\ Placement /\ OutcomeInv
  BY DEF PlacementInv, TypeOK, AccountInv
<1> DEFINE B == Range(batch)
           n == Len(batch)
           t == outcome.tokens
<1>1. B \in SUBSET Requests /\ n \in Nat /\ Cardinality(B) = n /\ t \in Nat
  BY <1>t, BatchSize DEF WorkerTypes
<1>2. n # 0
  BY <1>t, <1>1 DEF Account, WorkerAt, OutcomeInv, WorkerTypes
<1>3. \A r \in B : future[r] \in Finished \ {"throttled"} /\ generated[r] = t
  <2>1. resolved = n /\ DOMAIN batch = 1..n
    BY <1>t DEF Account, WorkerTypes
  <2> QED
    BY <2>1, <1>t DEF ResolveInv, OutcomeInv, Range
<1>4. Done' = Done \cup B /\ Done \cap B = {}
  <2>1. batch' = <<>> /\ future' = future
    BY DEF Account, requestVars
  <2>2. Range(batch') = {}
    BY <2>1 DEF Range
  <2> QED
    BY <2>1, <2>2, <1>1, <1>3 DEF Done
<1>5. /\ requests_processed' = requests_processed + n
      /\ total_tokens_generated' = total_tokens_generated + n * t
      /\ batches_processed' = batches_processed + 1
      /\ generated' = generated
  BY DEF Account, requestVars
<1>6. /\ IsFiniteSet(Requests) /\ Done \in SUBSET Requests /\ generated \in [Requests -> Nat]
  BY <1>t, SchedulerAssumption DEF RequestTypes, Done
<1>7. /\ requests_processed \in Nat /\ batches_processed \in Nat
  BY <1>t DEF WorkerTypes
<1> HIDE DEF B, n, t
<1>8. /\ Cardinality(Done \cup B) = Cardinality(Done) + n
      /\ SumOver(generated, Done \cup B) = SumOver(generated, Done) + n * t
  <2>1. \A x \in B : generated[x] = t
    BY <1>3
  <2> QED
    BY <2>1, <1>1, <1>4, <1>6, SumUnion
<1>9. /\ requests_processed = Cardinality(Done)
      /\ total_tokens_generated = SumOver(generated, Done)
      /\ batches_processed <= requests_processed
  BY AccountingIs DEF AccountInv
<1>10. batches_processed' <= requests_processed'
  BY <1>1, <1>2, <1>5, <1>7, <1>9
<1>11. /\ requests_processed' = Cardinality(Done')
       /\ total_tokens_generated' = SumOver(generated', Done')
  BY <1>4, <1>5, <1>8, <1>9
<1> QED
  BY <1>10, <1>11, AccountingIsNext

(* Only the end of a batch changes the counters or what they are about.   *)
LEMMA AccountingNext ==
    ASSUME PlacementInv, AccountInv, [Next]_vars
    PROVE  Accounting'
<1>t. TypeOK /\ RequestTypes /\ WorkerTypes /\ HandlerInv /\ Placement /\ Accounting
  BY DEF PlacementInv, TypeOK, AccountInv
<1>n. RequestTypes'
  BY <1>t, RequestTypesNext
<1>k. ASSUME UNCHANGED statsVars, Done' = Done, \A r \in Done : generated'[r] = generated[r]
      PROVE  Accounting'
  BY <1>k, <1>t, <1>n, AccountingKept
<1>1. CASE UNCHANGED <<future, generated, batch, statsVars>>
  <2>1. Done' = Done
    BY <1>1 DEF Done
  <2> QED
    BY <2>1, <1>1, <1>k
<1>2. ASSUME NEW r \in Requests, Throttle(r) \/ Enqueue(r)
      PROVE  Accounting'
  <2>1. future[r] = "none"
    BY <1>2, <1>t DEF Throttle, Enqueue, HandlerInv
  <2>2. /\ UNCHANGED <<generated, batch, statsVars>>
        /\ \A s \in Requests \ {r} : future'[s] = future[s]
        /\ future'[r] \in {"throttled", "pending"}
    BY <1>2, <1>t DEF Throttle, Enqueue, RequestTypes, workerVars
  <2>3. Done' = Done
    BY <2>1, <2>2 DEF Done, Finished
  <2> QED
    BY <2>2, <2>3, <1>k
<1>3. ASSUME NEW r \in Requests, PopFirst(r) \/ PopMore(r)
      PROVE  Accounting'
  <2>1. /\ r \in queue /\ batch' = Append(batch, r)
        /\ UNCHANGED <<future, generated, resolved, statsVars>>
    BY <1>3 DEF PopFirst, PopMore, Take, Heads, requestVars
  <2>2. future[r] = "pending" /\ r \notin Range(batch)
    BY <2>1, <1>t DEF Placement
  <2>3. Range(batch') = Range(batch) \cup {r}
    BY <2>1, <2>2, <1>t, AppendInFlight
  <2>4. Done' = Done
    BY <2>1, <2>2, <2>3 DEF Done, Finished
  <2> QED
    BY <2>1, <2>4, <1>k
<1>4. CASE ResolveNext
  <2> DEFINE r == batch[resolved + 1]
  <2>1. /\ r \in Range(batch) /\ r \in Requests
        /\ future' = [future EXCEPT ![r] = outcome.kind]
        /\ generated' = [generated EXCEPT ![r] = outcome.tokens]
        /\ UNCHANGED <<batch, statsVars>>
    BY <1>4, <1>t DEF ResolveNext, WorkerTypes, Range
  <2> HIDE DEF r
  <2>2. \A s \in Requests \ {r} : future'[s] = future[s] /\ generated'[s] = generated[s]
    BY <2>1, <1>t DEF RequestTypes
  <2>3. Done' = Done
    BY <2>1, <2>2 DEF Done
  <2>4. \A s \in Done : s \in Requests \ {r}
    BY <2>1 DEF Done
  <2> QED
    BY <2>1, <2>2, <2>3, <2>4, <1>k
<1>5. CASE Account
  BY <1>5, AccountAddsUp
<1> QED
  BY <1>1, <1>2, <1>3, <1>4, <1>5
  DEF Next, vars, requestVars, workerVars, HandlerStep, Receive, Admit, Respond, GiveUp,
      WorkerStep, LoopAgain, LoopExit, PopFirstTimesOut, CollectMore, CloseBatch, Generate,
      GenerateRaises, ServerStep, Configure, DrainCalled, DrainReturns, DrainTimesOut, Ready,
      StartupFails, Stop, StopReturns, LimiterStep

(* The counters of stats() are the sums over the requests of ended batches *)
(* at every step of the worker, however handlers, drain and configuration  *)
(* interleave with it.                                                     *)
THEOREM CountersAddUp == Spec => []Accounting
<1>1. Init => AccountInv
  <2> SUFFICES ASSUME Init PROVE AccountInv
    OBVIOUS
  <2>1. Done = {} /\ OutcomeInv
    BY DEF Init, Done, Finished, OutcomeInv
  <2>2. Cardinality(Done) = 0
    BY <2>1, FS_EmptySet
  <2>3. IsFiniteSet(Requests) /\ generated \in [Requests -> Nat]
    BY SchedulerAssumption DEF Init
  <2>4. SumOver(generated, Done) = 0
    BY <2>1, <2>3, SumFacts
  <2> QED
    BY <2>1, <2>2, <2>4, AccountingIs DEF Init, AccountInv
<1>2. PlacementInv /\ AccountInv /\ [Next]_vars => AccountInv'
  BY OutcomeNext, AccountingNext DEF AccountInv
<1>3. AccountInv => Accounting
  BY DEF AccountInv
<1> QED
  BY <1>1, <1>2, <1>3, PlacementInvariant, PTL DEF Spec
=============================================================================
