--------------------------- MODULE MCTokenBucket ---------------------------
(* Instance of TokenBucket for TLC: a request costs two units, so the rate *)
(* of one unit per tick pays for a request every other tick, and a full    *)
(* bucket for a burst of two.                                              *)
EXTENDS TokenBucket

MCRate == 1
MCCapacity == 4
MCCost == 2
MCMaxClock == 7
MCMaxCalls == 6
=============================================================================
