-------------------------- MODULE MCBlockAllocator --------------------------
(* Instance of BlockAllocator for TLC: more handles than blocks, so that   *)
(* the pool runs dry while blocks are copied.                              *)
EXTENDS BlockAllocator

CONSTANTS x1, x2, x3, x4, b1, b2, b3, h1, h2

MCHandles == {x1, x2, x3, x4}
MCBlocks == {b1, b2, b3}
MCHashes == {h1, h2}
=============================================================================
