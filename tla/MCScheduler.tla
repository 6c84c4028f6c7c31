---------------------------- MODULE MCScheduler ----------------------------
(* Instance of Scheduler for TLC.                                          *)
EXTENDS Scheduler, TLC

CONSTANTS w, a, b

MCRequests == {w, a, b}
MCPriorities == {0, 1}
MCLengths == {1, 2}
MCBatchSizes == {1, 2}
MCOneLength == {1}
MCClients == Permutations({a, b})
=============================================================================
