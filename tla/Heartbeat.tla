----------------------------- MODULE Heartbeat ------------------------------
(***************************************************************************)
(* router/heartbeat.py: class HeartbeatMonitor.                            *)
(*                                                                         *)
(* The thread "heartbeat" takes a snapshot of the registered nodes, checks *)
(* them one after the other and sleeps.  Whether GET /health answers 200   *)
(* in time is up to the node and the network: a check succeeds or fails.   *)
(* A check holds the lock while it updates the node's record, and nobody   *)
(* else writes the record of a registered node: a check is one step.       *)
(* Callbacks run in threads of their own; here they are only started.      *)
(***************************************************************************)
EXTENDS Integers

CONSTANTS Nodes,              \* node ids that are ever registered
          InitialNodes,       \* the ones that lifespan() registers before start()
          FailureThreshold,
          RecoveryThreshold,
          MaxChecks           \* bound: checks of one node

ASSUME HeartbeatAssumption ==
    /\ InitialNodes \subseteq Nodes
    /\ FailureThreshold \in Nat \ {0}
    /\ RecoveryThreshold \in Nat \ {0}
    /\ MaxChecks \in Nat

VARIABLES
    known,           \* keys of _nodes
    status,          \* "status" of a node
    streak,          \* "streak"
    total_checks,    \* "total_checks"
    total_failures,  \* "total_failures"
    todo,            \* nodes of the current round still to be checked
    ups, downs,      \* on_node_up and on_node_down threads started so far
    succs, fails     \* history: length of the present run of equal results

recordVars == <<status, streak, total_checks, total_failures, ups, downs, succs, fails>>
heartbeatVars == <<known, todo, recordVars>>

(* register() *)
HeartbeatInit ==
    /\ known = InitialNodes
    /\ status = [n \in Nodes |-> "unknown"]
    /\ streak = [n \in Nodes |-> 0]
    /\ total_checks = [n \in Nodes |-> 0]
    /\ total_failures = [n \in Nodes |-> 0]
    /\ todo = {}
    /\ ups = [n \in Nodes |-> 0]
    /\ downs = [n \in Nodes |-> 0]
    /\ succs = [n \in Nodes |-> 0]
    /\ fails = [n \in Nodes |-> 0]

(* register() of a node that was not known: its record is the initial one. *)
Register(n) ==
    /\ n \notin known
    /\ known' = known \cup {n}
    /\ UNCHANGED <<todo, recordVars>>

(* Mistake: nodes that are not registered are checked too. *)
RoundOfAll ==
    /\ todo = {}
    /\ todo' = Nodes
    /\ UNCHANGED <<known, recordVars>>

(* The snapshot at the start of a round of _loop. *)
Round ==
    /\ todo = {}
    /\ todo' = known
    /\ UNCHANGED <<known, recordVars>>

-----------------------------------------------------------------------------
(* _check.                                                                 *)

Plus(f, n) == [f EXCEPT ![n] = @ + 1]

(* What every check does to the counters, whatever its result. *)
CheckSucceeds(n) ==
    /\ n \in todo
    /\ total_checks[n] < MaxChecks
    /\ todo' = todo \ {n}
    /\ total_checks' = Plus(total_checks, n)
    /\ succs' = Plus(succs, n)
    /\ fails' = [fails EXCEPT ![n] = 0]
    /\ UNCHANGED <<known, total_failures, downs>>

CheckFails(n) ==
    /\ n \in todo
    /\ total_checks[n] < MaxChecks
    /\ todo' = todo \ {n}
    /\ total_checks' = Plus(total_checks, n)
    /\ total_failures' = Plus(total_failures, n)
    /\ fails' = Plus(fails, n)
    /\ succs' = [succs EXCEPT ![n] = 0]
    /\ UNCHANGED <<known, ups>>

(* Mistake: successes of a healthy node leave its streak alone. *)
StayUpFrozen(n) ==
    /\ CheckSucceeds(n)
    /\ status[n] = "healthy"
    /\ UNCHANGED <<streak, status, ups>>

(* A success of a healthy node. *)
StayUp(n) ==
    /\ CheckSucceeds(n)
    /\ status[n] = "healthy"
    /\ streak' = Plus(streak, n)
    /\ UNCHANGED <<status, ups>>

(* Mistake: a first success does not restart the count at one. *)
ClimbedSlowly(n) == streak[n] + 1

(* The streak after a success of a node that is not healthy. *)
Climbed(n) == IF streak[n] <= 0 THEN 1 ELSE streak[n] + 1

Climb(n) ==
    /\ CheckSucceeds(n)
    /\ status[n] # "healthy"
    /\ Climbed(n) < RecoveryThreshold
    /\ streak' = [streak EXCEPT ![n] = Climbed(n)]
    /\ UNCHANGED <<status, ups>>

ComeUp(n) ==
    /\ CheckSucceeds(n)
    /\ status[n] # "healthy"
    /\ Climbed(n) >= RecoveryThreshold
    /\ streak' = [streak EXCEPT ![n] = Climbed(n)]
    /\ status' = [status EXCEPT ![n] = "healthy"]
    /\ ups' = Plus(ups, n)

(* Mistake: failures of a node that is not healthy leave its streak alone. *)
SinkFrozen(n) ==
    /\ CheckFails(n)
    /\ status[n] # "healthy"
    /\ UNCHANGED <<streak, status, downs>>

(* A failure of a node that is not healthy: also of one still unknown. *)
Sink(n) ==
    /\ CheckFails(n)
    /\ status[n] # "healthy"
    /\ streak' = [streak EXCEPT ![n] = @ - 1]
    /\ UNCHANGED <<status, downs>>

(* Mistake: a first failure does not restart the count at minus one. *)
SunkSlowly(n) == streak[n] - 1

(* The streak after a failure of a healthy node. *)
Sunk(n) == IF streak[n] >= 0 THEN -1 ELSE streak[n] - 1

Falter(n) ==
    /\ CheckFails(n)
    /\ status[n] = "healthy"
    /\ -Sunk(n) < FailureThreshold
    /\ streak' = [streak EXCEPT ![n] = Sunk(n)]
    /\ UNCHANGED <<status, downs>>

(* Mistake: on_node_down is also started for a node already down. *)
GoDownAgain(n) ==
    /\ CheckFails(n)
    /\ -Sunk(n) >= FailureThreshold
    /\ streak' = [streak EXCEPT ![n] = Sunk(n)]
    /\ status' = [status EXCEPT ![n] = "unhealthy"]
    /\ downs' = Plus(downs, n)

GoDown(n) ==
    /\ CheckFails(n)
    /\ status[n] = "healthy"
    /\ -Sunk(n) >= FailureThreshold
    /\ streak' = [streak EXCEPT ![n] = Sunk(n)]
    /\ status' = [status EXCEPT ![n] = "unhealthy"]
    /\ downs' = Plus(downs, n)

Check(n) == StayUp(n) \/ Climb(n) \/ ComeUp(n) \/ Sink(n) \/ Falter(n) \/ GoDown(n)

HeartbeatNext ==
    \/ Round
    \/ \E n \in Nodes : Register(n) \/ Check(n)

HeartbeatSpec == HeartbeatInit /\ [][HeartbeatNext]_heartbeatVars

-----------------------------------------------------------------------------
(* Types, and a round checks registered nodes only. *)
HeartbeatTypeOK ==
    /\ known \in SUBSET Nodes
    /\ status \in [Nodes -> {"unknown", "healthy", "unhealthy"}]
    /\ streak \in [Nodes -> Int]
    /\ total_checks \in [Nodes -> Nat]
    /\ total_failures \in [Nodes -> Nat]
    /\ todo \in SUBSET known
    /\ ups \in [Nodes -> Nat]
    /\ downs \in [Nodes -> Nat]
    /\ succs \in [Nodes -> Nat]
    /\ fails \in [Nodes -> Nat]

(***************************************************************************)
(* Detection is never late: a node that still counts as healthy has failed *)
(* fewer than failure_threshold times in a row, whatever its streak was    *)
(* when the failures began.                                                *)
(***************************************************************************)
FailuresDetected == \A n \in Nodes : status[n] = "healthy" => fails[n] < FailureThreshold

(***************************************************************************)
(* Recovery is never late: a node that does not count as healthy has       *)
(* answered fewer than recovery_threshold times in a row, however many     *)
(* failures its streak had added up before.                                *)
(***************************************************************************)
RecoveryDetected == \A n \in Nodes : status[n] # "healthy" => succs[n] < RecoveryThreshold

(***************************************************************************)
(* on_node_up and on_node_down alternate for each node, up first, and the  *)
(* status says which was last: no node is removed from the ring or added   *)
(* to it twice in a row.                                                   *)
(***************************************************************************)
NotificationsAlternate ==
    \A n \in Nodes : ups[n] = downs[n] + (IF status[n] = "healthy" THEN 1 ELSE 0)

(***************************************************************************)
(* heartbeat.py:20: a node is marked healthy "after `recovery_threshold`   *)
(* consecutive successes", not sooner.  Holds for thresholds of one and of *)
(* two (the default and the router's value).                               *)
(***************************************************************************)
RecoveryEarned ==
    [][\A n \in Nodes : (status[n] # "healthy" /\ status'[n] = "healthy")
          => succs'[n] >= RecoveryThreshold]_heartbeatVars

(***************************************************************************)
(* A lone failed check never takes a healthy node down when the threshold  *)
(* is two or more, not even after failures that were followed by too few   *)
(* successes to bring the streak back to zero.                             *)
(***************************************************************************)
OneFailureIsForgiven ==
    [][\A n \in Nodes : (status[n] = "healthy" /\ status'[n] # "healthy")
          => fails'[n] >= 2 \/ FailureThreshold = 1]_heartbeatVars

(***************************************************************************)
(* What Cluster relies on: whatever the counting of checks does, a node's  *)
(* status changes only as MonitorContract says.                            *)
(***************************************************************************)
Contract == INSTANCE MonitorContract
ImplementsMonitor == Contract!MonitorSpec
=============================================================================
