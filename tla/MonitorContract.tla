-------------------------- MODULE MonitorContract --------------------------
(***************************************************************************)
(* What the heartbeat monitor promises to the router: a node becomes known *)
(* when it is registered and stays so; its status is unknown until it      *)
(* comes up for the first time, and from then on it goes down and comes up *)
(* in turn, each time with a call of on_node_down or on_node_up.  When it  *)
(* does so is left open here.                                              *)
(***************************************************************************)
CONSTANTS Nodes, InitialNodes

VARIABLES known, status

MonitorInit ==
    /\ known = InitialNodes
    /\ status = [n \in Nodes |-> "unknown"]

Register(n) ==
    /\ n \notin known
    /\ known' = known \cup {n}
    /\ UNCHANGED status

ComeUp(n) ==
    /\ n \in known /\ status[n] # "healthy"
    /\ status' = [status EXCEPT ![n] = "healthy"]
    /\ UNCHANGED known

GoDown(n) ==
    /\ status[n] = "healthy"
    /\ status' = [status EXCEPT ![n] = "unhealthy"]
    /\ UNCHANGED known

MonitorNext == \E n \in Nodes : Register(n) \/ ComeUp(n) \/ GoDown(n)

MonitorSpec == MonitorInit /\ [][MonitorNext]_<<known, status>>
=============================================================================
