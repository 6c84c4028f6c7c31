-------------------------- MODULE MCSequenceCache ---------------------------
(* Instance of SequenceCache for TLC: two caches of up to three calls in  *)
(* blocks of two tokens, in a pool of three blocks.                        *)
EXTENDS SequenceCache, TLC

CONSTANTS c1, c2, b1, b2, b3, i1, i2

MCCaches == {c1, c2}
MCBlocks == {b1, b2, b3}
MCIds == {i1, i2}
MCSymmetry == Permutations(MCCaches) \cup Permutations(MCIds) \cup Permutations(MCBlocks)
=============================================================================
