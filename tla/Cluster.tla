------------------------------ MODULE Cluster -------------------------------
(***************************************************************************)
(* router/router.py and metrics/autoscaler.py, with the ring (HashRing)    *)
(* and what the heartbeat monitor promises (MonitorContract).              *)
(*                                                                         *)
(* The threads of the router process: the monitor and one short thread for *)
(* each callback it starts; the autoscaler, whose tick asks for more or    *)
(* fewer workers (when, is the subject of Control); one registration       *)
(* thread for each worker it started; a handler of POST /generate; and     *)
(* lifespan(), which ends them all.  Worker processes are no threads of    *)
(* the router: they load, crash, are restarted by their operator if they   *)
(* are static, finish their calls when told to stop, and outlive it.       *)
(***************************************************************************)
EXTENDS HashRing

CONSTANTS Static,      \* WORKER_NODES
          AutoNodes,   \* the k-th node that _scale_up() starts, on port 8002 + k
          MinWorkers,
          MaxWorkers,
          MaxFaults,   \* bound: crashes, and live nodes taken for dead
          MaxPending,  \* bound: callbacks of a kind waiting to run for a node
          None

ASSUME ClusterAssumption ==
    /\ IsFiniteSet(Nodes) /\ None \notin Nodes
    /\ AutoNodes \in Seq(Nodes) /\ IsInjective(AutoNodes)
    /\ Static = Nodes \ Range(AutoNodes) /\ Static # {}
    /\ {MinWorkers, MaxWorkers, MaxFaults, MaxPending} \subseteq Nat
    /\ Cardinality(Static) <= MaxWorkers

VARIABLES
    known, status,      \* the monitor's
    ups, downs,         \* on_node_up and on_node_down threads that have not run yet
    router,             \* the router's process
    process,            \* the worker process of a node
    workers,            \* Autoscaler._workers: no entry, None or a Popen handle
    next_auto,          \* _next_port - 8002
    joining,            \* program point of the registration thread of a node
    stopping,           \* the node _scale_down() is about to terminate
    at, candidates,     \* the handler: its program point, and the nodes to try
    steady,             \* history: nodes healthy since the handler's call
    reachable,          \* history: the nodes in the ring at the handler's call
    raced,              \* history: nodes scaled down while being registered
    faults

monitorVars == <<known, status, ups, downs>>
scalerVars == <<workers, next_auto, joining, stopping, raced>>
handlerVars == <<at, candidates, steady, reachable>>
clusterVars == <<ringVars, monitorVars, router, process, scalerVars, handlerVars, faults>>

Monitor == INSTANCE MonitorContract WITH InitialNodes <- Static

(* lifespan(), after start_cluster.py has seen the static workers answer. *)
ClusterInit ==
    /\ members = Static
    /\ ring = FoldLeft(WithNode, <<>>, SetToSeq(Static))
    /\ Monitor!MonitorInit
    /\ ups = [n \in Nodes |-> 0]
    /\ downs = [n \in Nodes |-> 0]
    /\ router = "serving"
    /\ process = [n \in Nodes |-> IF n \in Static THEN "up" ELSE "none"]
    /\ workers = [n \in Nodes |-> IF n \in Static THEN "external" ELSE "absent"]
    /\ next_auto = 1
    /\ joining = [n \in Nodes |-> "no"]
    /\ stopping = None
    /\ at = "idle" /\ candidates = <<>> /\ steady = {} /\ reachable = {}
    /\ raced = {}
    /\ faults = 0

-----------------------------------------------------------------------------
(* Worker processes.  One that SIGTERM told to stop ends when it has       *)
(* finished its calls, for which uvicorn waits as long as it takes.        *)

Runs(n, state) == process' = [process EXCEPT ![n] = state]

Fault == faults < MaxFaults /\ faults' = faults + 1

Loaded(n) ==
    /\ process[n] = "loading"
    /\ Runs(n, "up")
    /\ UNCHANGED <<ringVars, monitorVars, scalerVars, handlerVars, faults>>

Crash(n) ==
    /\ process[n] \in {"loading", "up"}
    /\ Fault
    /\ Runs(n, "dead")
    /\ UNCHANGED <<ringVars, monitorVars, scalerVars, handlerVars>>

Restart(n) ==
    /\ n \in Static /\ process[n] = "dead"
    /\ Runs(n, "loading")
    /\ UNCHANGED <<ringVars, monitorVars, scalerVars, handlerVars, faults>>

Exits(n) ==
    /\ process[n] = "stopping"
    /\ Runs(n, "dead")
    /\ UNCHANGED <<ringVars, monitorVars, scalerVars, handlerVars, faults>>

-----------------------------------------------------------------------------
(* The monitor, and its callbacks, which run in any order.  A death that   *)
(* comes between an answer and its record may as well come after both; a   *)
(* process told to stop may still answer what it has accepted.             *)

Answers(n) == process[n] \in {"up", "stopping"}

Plus(f, n, d) == [f EXCEPT ![n] = @ + d]

ComesUp(n) ==
    /\ Answers(n) /\ ups[n] < MaxPending
    /\ Monitor!ComeUp(n)
    /\ ups' = Plus(ups, n, 1)
    /\ UNCHANGED <<ringVars, downs, process, scalerVars, handlerVars, faults>>

GoesDown(n) ==
    /\ downs[n] < MaxPending
    /\ Monitor!GoDown(n)
    /\ downs' = Plus(downs, n, 1)
    /\ IF process[n] = "up" THEN Fault ELSE UNCHANGED faults
    /\ steady' = steady \ {n}
    /\ UNCHANGED <<ringVars, ups, process, scalerVars, at, candidates, reachable>>

(* Mistake: any node that comes up is put back, not just those of the start. *)
OnNodeUpForAll(n) ==
    /\ ups[n] > 0
    /\ ups' = Plus(ups, n, -1)
    /\ AddNode(n)
    /\ UNCHANGED <<known, status, downs, process, scalerVars, handlerVars, faults>>

(* next() finds the static nodes only; for others it raises StopIteration. *)
OnNodeUp(n) ==
    /\ ups[n] > 0
    /\ ups' = Plus(ups, n, -1)
    /\ IF n \in Static THEN AddNode(n) ELSE UNCHANGED ringVars
    /\ UNCHANGED <<known, status, downs, process, scalerVars, handlerVars, faults>>

OnNodeDown(n) ==
    /\ downs[n] > 0
    /\ downs' = Plus(downs, n, -1)
    /\ RemoveNode(n)
    /\ UNCHANGED <<known, status, ups, process, scalerVars, handlerVars, faults>>

-----------------------------------------------------------------------------
(* The autoscaler's thread: _tick() and what it calls.  Only this thread   *)
(* uses _workers after the start, so the sections that touch nothing else  *)
(* are part of the next step that others can see.                          *)

Headcount == Cardinality({n \in Nodes : workers[n] # "absent"})

Owned == {i \in DOMAIN AutoNodes : workers[AutoNodes[i]] = "owned"}

(* _loop() goes on, and the tick before has returned. *)
Ticks == router = "serving" /\ stopping = None

ScaleUp ==
    /\ Ticks
    /\ Headcount < MaxWorkers
    /\ next_auto \in DOMAIN AutoNodes
    /\ LET n == AutoNodes[next_auto] IN
        /\ Runs(n, "loading")
        /\ workers' = [workers EXCEPT ![n] = "owned"]
        /\ joining' = [joining EXCEPT ![n] = "polling"]
    /\ next_auto' = next_auto + 1
    /\ UNCHANGED <<ringVars, monitorVars, stopping, raced, handlerVars, faults>>

(* Popen raises: the port is used up, and _loop() goes on. *)
ScaleUpFails ==
    /\ Ticks
    /\ Headcount < MaxWorkers
    /\ next_auto \in DOMAIN AutoNodes
    /\ next_auto' = next_auto + 1
    /\ UNCHANGED <<ringVars, monitorVars, process, workers, joining, stopping, raced, handlerVars, faults>>

(* Mistake: the first worker goes, whoever started it. *)
ScaleDownAny ==
    /\ Ticks
    /\ Headcount > MinWorkers
    /\ \E n \in Nodes :
        /\ workers[n] # "absent"
        /\ workers' = [workers EXCEPT ![n] = "absent"]
        /\ stopping' = n
        /\ raced' = IF joining[n] = "no" THEN raced ELSE raced \cup {n}
        /\ RemoveNode(n)
    /\ UNCHANGED <<monitorVars, process, next_auto, joining, handlerVars, faults>>

(* The owned worker started first leaves _workers and the ring. *)
ScaleDown ==
    /\ Ticks
    /\ Headcount > MinWorkers
    /\ Owned # {}
    /\ LET n == AutoNodes[Min(Owned)] IN
        /\ workers' = [workers EXCEPT ![n] = "absent"]
        /\ stopping' = n
        /\ raced' = IF joining[n] = "no" THEN raced ELSE raced \cup {n}
        /\ RemoveNode(n)
    /\ UNCHANGED <<monitorVars, process, next_auto, joining, handlerVars, faults>>

(* Popen.terminate() sends SIGTERM and returns. *)
Terminate ==
    /\ stopping # None
    /\ Runs(stopping, IF process[stopping] = "dead" THEN "dead" ELSE "stopping")
    /\ stopping' = None
    /\ UNCHANGED <<ringVars, monitorVars, workers, next_auto, joining, raced, handlerVars, faults>>

-----------------------------------------------------------------------------
(* _register_when_ready() and _add_to_ring().                              *)

Joins(n, from, to) ==
    /\ joining[n] = from
    /\ joining' = [joining EXCEPT ![n] = to]
    /\ UNCHANGED <<process, workers, next_auto, stopping, raced, handlerVars, faults>>

HealthAnswered(n) ==
    /\ Answers(n)
    /\ Joins(n, "polling", "adding")
    /\ UNCHANGED <<ringVars, monitorVars>>

(* timeout_s has passed *)
PollingEnds(n) ==
    /\ Joins(n, "polling", "no")
    /\ UNCHANGED <<ringVars, monitorVars>>

JoinRing(n) ==
    /\ Joins(n, "adding", "registering")
    /\ AddNode(n)
    /\ UNCHANGED monitorVars

JoinMonitor(n) ==
    /\ Joins(n, "registering", "no")
    /\ Monitor!Register(n)
    /\ UNCHANGED <<ringVars, ups, downs>>

-----------------------------------------------------------------------------
(* generate(): route() and forward().                                      *)

Healthy == {n \in known : status[n] = "healthy"}

Route(k) ==
    /\ router = "serving" /\ at = "idle"
    /\ at' = "routing"
    /\ candidates' = NodesForKey(k, Cardinality(Static))
    /\ steady' = Healthy
    /\ reachable' = members
    /\ UNCHANGED <<ringVars, monitorVars, process, scalerVars, faults>>

(* One look at the monitor; the answer ends the search or goes on with it. *)
LookHealthy ==
    /\ at = "routing" /\ candidates # <<>>
    /\ candidates[1] \in Healthy
    /\ at' = "forwarding"
    /\ UNCHANGED <<ringVars, monitorVars, process, scalerVars, candidates, steady, reachable, faults>>

LookUnhealthy ==
    /\ at = "routing" /\ candidates # <<>>
    /\ candidates[1] \notin Healthy
    /\ candidates' = Tail(candidates)
    /\ UNCHANGED <<ringVars, monitorVars, process, scalerVars, at, steady, reachable, faults>>

(* "no healthy workers available" *)
Refuse ==
    /\ at = "routing" /\ candidates = <<>>
    /\ at' = "refused"
    /\ UNCHANGED <<ringVars, monitorVars, process, scalerVars, candidates, steady, reachable, faults>>

(* forward() has returned or raised 503 or 504, or the refusal is sent. *)
Answer ==
    /\ at \in {"forwarding", "refused"}
    /\ at' = "idle" /\ candidates' = <<>> /\ steady' = {} /\ reachable' = {}
    /\ UNCHANGED <<ringVars, monitorVars, process, scalerVars, faults>>

-----------------------------------------------------------------------------
(* lifespan() after its yield: the last handler has answered; stop() of    *)
(* the autoscaler waits for the tick in progress, which is at most between *)
(* two of its own steps.  With the process end the threads, and nothing is *)
(* done about worker processes.                                            *)

Shutdown ==
    /\ router = "serving" /\ at = "idle"
    /\ router' = "closing"
    /\ UNCHANGED <<ringVars, monitorVars, process, scalerVars, handlerVars, faults>>

ShutDown ==
    /\ router = "closing" /\ stopping = None
    /\ router' = "gone"
    /\ UNCHANGED <<ringVars, monitorVars, process, scalerVars, handlerVars, faults>>

-----------------------------------------------------------------------------
ProcessNext == \E n \in Nodes : Loaded(n) \/ Crash(n) \/ Restart(n) \/ Exits(n)

ThreadNext ==
    \/ \E n \in Nodes :
        \/ ComesUp(n) \/ GoesDown(n) \/ OnNodeUp(n) \/ OnNodeDown(n)
        \/ HealthAnswered(n) \/ PollingEnds(n) \/ JoinRing(n) \/ JoinMonitor(n)
    \/ ScaleUp \/ ScaleUpFails \/ ScaleDown \/ Terminate
    \/ \E k \in Keys : Route(k)
    \/ LookHealthy \/ LookUnhealthy \/ Refuse \/ Answer

ClusterNext ==
    \/ ProcessNext /\ UNCHANGED router
    \/ router # "gone" /\ ThreadNext /\ UNCHANGED router
    \/ Shutdown \/ ShutDown

ClusterSpec == ClusterInit /\ [][ClusterNext]_clusterVars

-----------------------------------------------------------------------------
(* Types, ring included. *)
ClusterTypeOK ==
    /\ RingTypeOK
    /\ known \subseteq Nodes
    /\ status \in [Nodes -> {"unknown", "healthy", "unhealthy"}]
    /\ ups \in [Nodes -> Nat] /\ downs \in [Nodes -> Nat]
    /\ router \in {"serving", "closing", "gone"}
    /\ process \in [Nodes -> {"none", "loading", "up", "stopping", "dead"}]
    /\ workers \in [Nodes -> {"absent", "external", "owned"}]
    /\ next_auto \in 1..Len(AutoNodes) + 1
    /\ joining \in [Nodes -> {"no", "polling", "adding", "registering"}]
    /\ stopping \in Nodes \cup {None}
    /\ at \in {"idle", "routing", "forwarding", "refused"}
    /\ candidates \in Seq(Nodes)
    /\ steady \subseteq Nodes /\ reachable \subseteq Nodes /\ raced \subseteq Nodes
    /\ faults \in 0..MaxFaults

(* Processes that run and were not told to stop. *)
Running == {n \in Nodes : process[n] \in {"loading", "up"}}

(***************************************************************************)
(* autoscaler.py:81: workers started by others are "never terminated by    *)
(* the autoscaler"; and it loses none of its own: a process it started is  *)
(* in _workers, or being told to stop, until it was told to.               *)
(***************************************************************************)
ProcessesOwned ==
    /\ stopping \notin Static
    /\ \A n \in Nodes : process[n] = "stopping" => workers[n] = "absent"
    /\ \A n \in Running : workers[n] = "absent" => stopping = n

(***************************************************************************)
(* A worker that was scaled down after its registration was over never     *)
(* returns to the ring, whatever callbacks are still to run.  (It does     *)
(* when the registration races the scaling: _add_to_ring() does not ask.)  *)
(***************************************************************************)
NoReturn == \A n \in members \ Static : workers[n] = "owned" \/ n \in raced

(***************************************************************************)
(* router.py:128: a call falls back through the ring.  While the ring has  *)
(* no more nodes than WORKER_NODES had, a call is refused only if no node  *)
(* that was in the ring when it came was healthy throughout.               *)
(***************************************************************************)
FallbackComplete ==
    at = "refused" /\ Cardinality(reachable) <= Cardinality(Static) => steady \cap reachable = {}

(***************************************************************************)
(* router.py:128: route() "falls back through ring order if primary is     *)
(* down", however many nodes the ring has, and it refuses with "no healthy *)
(* workers available".                                                     *)
(***************************************************************************)
FallbackThroughRing == at = "refused" => steady \cap reachable = {}
=============================================================================
