----------------------------- MODULE BlockPool ------------------------------
(***************************************************************************)
(* core/kv_cache.py: the state of class BlockAllocator, and what its two   *)
(* kinds of critical section do to it: hand out the block on top of the    *)
(* free list, and give up one reference to a block.                        *)
(***************************************************************************)
EXTENDS Integers, Sequences, FiniteSets, Functions

CONSTANTS Blocks,   \* _pool
          Hashes,   \* prefix hashes
          None      \* no block, no hash

VARIABLES
    ref_count,     \* PhysicalBlock.ref_count
    prefix_hash,   \* PhysicalBlock.prefix_hash
    free,          \* _free, a stack of block ids
    prefix_cache   \* _prefix_cache

poolVars == <<ref_count, prefix_hash, free, prefix_cache>>

(* No block is in use; the order of the free list does not matter. *)
PoolInit ==
    /\ ref_count = [b \in Blocks |-> 0]
    /\ prefix_hash = [b \in Blocks |-> None]
    /\ free \in [1..Cardinality(Blocks) -> Blocks] /\ IsInjective(free)
    /\ prefix_cache = [h \in Hashes |-> None]

Top == free[Len(free)]

(* The block on top of the free list is handed out with one reference. *)
TakeTop(hash) ==
    /\ free # <<>>
    /\ free' = SubSeq(free, 1, Len(free) - 1)
    /\ ref_count' = [ref_count EXCEPT ![Top] = 1]
    /\ prefix_hash' = [prefix_hash EXCEPT ![Top] = hash]

(* Mistake: the entry of the prefix cache outlives the block. *)
DropKeepingPrefix(b) ==
    /\ ref_count' = [ref_count EXCEPT ![b] = @ - 1]
    /\ UNCHANGED prefix_cache
    /\ IF ref_count[b] = 1
       THEN /\ free' = Append(free, b)
            /\ prefix_hash' = [prefix_hash EXCEPT ![b] = None]
       ELSE UNCHANGED <<free, prefix_hash>>

(* One reference to b is given up; the last one returns b to the pool. *)
Drop(b) ==
    /\ ref_count' = [ref_count EXCEPT ![b] = @ - 1]
    /\ IF ref_count[b] = 1
       THEN /\ free' = Append(free, b)
            /\ prefix_hash' = [prefix_hash EXCEPT ![b] = None]
            /\ prefix_cache' = [h \in Hashes |->
                   IF h = prefix_hash[b] THEN None ELSE prefix_cache[h]]
       ELSE UNCHANGED <<free, prefix_hash, prefix_cache>>
-----------------------------------------------------------------------------
(***************************************************************************)
(* The free list holds each unused block once and no block in use: nothing *)
(* is leaked, freed twice or handed out while somebody refers to it.       *)
(***************************************************************************)
FreeListExact ==
    /\ \A i, j \in 1..Len(free) : free[i] = free[j] => i = j
    /\ \A b \in Blocks : b \in Range(free) <=> ref_count[b] = 0
=============================================================================
