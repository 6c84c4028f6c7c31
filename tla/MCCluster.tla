----------------------------- MODULE MCCluster ------------------------------
(* Instance of Cluster for TLC: the two static workers and one that may be *)
(* started.  The virtual nodes of a and b meet at position 4, where one    *)
(* session is too; the other session is past the last of them.             *)
EXTENDS Cluster

CONSTANTS a, b, x

MCNodes == {a, b, x}
MCStatic == {a, b}
MCAuto == <<x>>
MCKeys == {4, 7}
MCKeyHash == [k \in MCKeys |-> k]
MCVnodeHash == (a :> <<1, 4>>) @@ (b :> <<4, 6>>) @@ (x :> <<2, 5>>)
MCIdOrder == (a :> 1) @@ (b :> 2) @@ (x :> 3)
=============================================================================
