---------------------------- MODULE MCHeartbeat ----------------------------
(* Instance of Heartbeat for TLC: one node of the cluster's start and one  *)
(* that the autoscaler registers later, with the router's thresholds.      *)
EXTENDS Heartbeat

CONSTANTS worker_a, worker_auto

MCNodes == {worker_a, worker_auto}
MCInitialNodes == {worker_a}
=============================================================================
