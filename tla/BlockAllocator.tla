--------------------------- MODULE BlockAllocator ---------------------------
(***************************************************************************)
(* core/kv_cache.py: class BlockAllocator, called by several threads.      *)
(*                                                                         *)
(* A handle is one reference to a block, as an entry of a block table is:  *)
(* its thread allocates a block (or gets a prefix block), asks for         *)
(* copy_on_write() before each write, writes, and frees it.  Every section *)
(* under _lock is one step; copy_on_write() has two, and reads ref_count   *)
(* before the first.  Tensors are left out: what matters is who may write  *)
(* into which block.  MemoryError leaves the state as it was.              *)
(***************************************************************************)
EXTENDS BlockPool

CONSTANT Handles  \* references a behaviour can hold at a time

ASSUME AllocatorAssumption ==
    /\ IsFiniteSet(Handles)
    /\ IsFiniteSet(Blocks)
    /\ None \notin Blocks \cup Hashes

VARIABLES
    pc,            \* program point of the thread of each handle
    held,          \* the block a handle refers to
    fresh          \* new_block while copy_on_write() runs

allocatorVars == <<poolVars, pc, held, fresh>>

AllocatorInit ==
    /\ PoolInit
    /\ pc = [x \in Handles |-> "idle"]
    /\ held = [x \in Handles |-> None]
    /\ fresh = [x \in Handles |-> None]

-----------------------------------------------------------------------------
Allocate(x) ==
    /\ pc[x] = "idle" /\ held[x] = None
    /\ TakeTop(None)
    /\ held' = [held EXCEPT ![x] = Top]
    /\ UNCHANGED <<prefix_cache, pc, fresh>>

(* Mistake: the hit does not count the new reference. *)
PrefixHitUncounted(x, h) ==
    /\ pc[x] = "idle" /\ held[x] = None
    /\ prefix_cache[h] # None
    /\ held' = [held EXCEPT ![x] = prefix_cache[h]]
    /\ UNCHANGED <<poolVars, pc, fresh>>

PrefixHit(x, h) ==
    /\ pc[x] = "idle" /\ held[x] = None
    /\ prefix_cache[h] # None
    /\ ref_count' = [ref_count EXCEPT ![prefix_cache[h]] = @ + 1]
    /\ held' = [held EXCEPT ![x] = prefix_cache[h]]
    /\ UNCHANGED <<prefix_hash, free, prefix_cache, pc, fresh>>

PrefixMiss(x, h) ==
    /\ pc[x] = "idle" /\ held[x] = None
    /\ prefix_cache[h] = None
    /\ TakeTop(h)
    /\ prefix_cache' = [prefix_cache EXCEPT ![h] = Top]
    /\ held' = [held EXCEPT ![x] = Top]
    /\ UNCHANGED <<pc, fresh>>

(* free() *)
Release(x) ==
    /\ pc[x] = "idle" /\ held[x] # None
    /\ Drop(held[x])
    /\ held' = [held EXCEPT ![x] = None]
    /\ UNCHANGED <<pc, fresh>>

(* copy_on_write(): ref_count <= 1, the caller may write where it is. *)
CowInPlace(x) ==
    /\ pc[x] = "idle" /\ held[x] # None
    /\ ref_count[held[x]] <= 1
    /\ pc' = [pc EXCEPT ![x] = "write"]
    /\ UNCHANGED <<poolVars, held, fresh>>

(* copy_on_write(): the block is shared. *)
CowShared(x) ==
    /\ pc[x] = "idle" /\ held[x] # None
    /\ ref_count[held[x]] > 1
    /\ pc' = [pc EXCEPT ![x] = "cow_allocate"]
    /\ UNCHANGED <<poolVars, held, fresh>>

(* Mistake: the copy inherits the prefix hash of the shared block. *)
CowAllocateInheriting(x) ==
    /\ pc[x] = "cow_allocate"
    /\ TakeTop(prefix_hash[held[x]])
    /\ fresh' = [fresh EXCEPT ![x] = Top]
    /\ pc' = [pc EXCEPT ![x] = "cow_drop"]
    /\ UNCHANGED <<prefix_cache, held>>

(* copy_on_write(), first section under the lock. *)
CowAllocate(x) ==
    /\ pc[x] = "cow_allocate"
    /\ TakeTop(None)
    /\ fresh' = [fresh EXCEPT ![x] = Top]
    /\ pc' = [pc EXCEPT ![x] = "cow_drop"]
    /\ UNCHANGED <<prefix_cache, held>>

(* MemoryError: the handle keeps the shared block. *)
CowFails(x) ==
    /\ pc[x] = "cow_allocate"
    /\ free = <<>>
    /\ pc' = [pc EXCEPT ![x] = "idle"]
    /\ UNCHANGED <<poolVars, held, fresh>>

(* Mistake: the caller is given the block it came with. *)
CowDropForgetting(x) ==
    /\ pc[x] = "cow_drop"
    /\ Drop(held[x])
    /\ fresh' = [fresh EXCEPT ![x] = None]
    /\ pc' = [pc EXCEPT ![x] = "write"]
    /\ UNCHANGED held

(* copy_on_write(), second section, after the copy: the caller gets the copy. *)
CowDrop(x) ==
    /\ pc[x] = "cow_drop"
    /\ Drop(held[x])
    /\ held' = [held EXCEPT ![x] = fresh[x]]
    /\ fresh' = [fresh EXCEPT ![x] = None]
    /\ pc' = [pc EXCEPT ![x] = "write"]

(* The caller has written into the block it was given. *)
Write(x) ==
    /\ pc[x] = "write"
    /\ pc' = [pc EXCEPT ![x] = "idle"]
    /\ UNCHANGED <<poolVars, held, fresh>>

AllocatorNext ==
    \E x \in Handles :
        \/ Allocate(x) \/ Release(x)
        \/ \E h \in Hashes : PrefixHit(x, h) \/ PrefixMiss(x, h)
        \/ CowInPlace(x) \/ CowShared(x) \/ CowAllocate(x) \/ CowFails(x) \/ CowDrop(x)
        \/ Write(x)

AllocatorSpec == AllocatorInit /\ [][AllocatorNext]_allocatorVars

-----------------------------------------------------------------------------
(* Types. *)
AllocatorTypeOK ==
    /\ ref_count \in [Blocks -> Nat]
    /\ prefix_hash \in [Blocks -> Hashes \cup {None}]
    /\ free \in Seq(Blocks)
    /\ prefix_cache \in [Hashes -> Blocks \cup {None}]
    /\ pc \in [Handles -> {"idle", "cow_allocate", "cow_drop", "write"}]
    /\ held \in [Handles -> Blocks \cup {None}]
    /\ fresh \in [Handles -> Blocks \cup {None}]

(* The handles that refer to b, a copy in progress included. *)
Holders(b) == {x \in Handles : held[x] = b \/ fresh[x] = b}

(***************************************************************************)
(* ref_count is the number of references, although copy_on_write() takes   *)
(* the lock twice and others allocate, hit and free in between.            *)
(***************************************************************************)
RefCounts == \A b \in Blocks : ref_count[b] = Cardinality(Holders(b))

(***************************************************************************)
(* The prefix cache and the prefix_hash fields are inverse to each other   *)
(* and name live blocks only: a hit never revives a block of the free      *)
(* list or one that was handed out for another purpose.                    *)
(***************************************************************************)
PrefixCacheSound ==
    \A h \in Hashes : \A b \in Blocks :
        /\ prefix_cache[h] = b <=> prefix_hash[b] = h
        /\ prefix_cache[h] = b => ref_count[b] > 0

(***************************************************************************)
(* A block that is not in the prefix cache has one holder at most, and     *)
(* whoever is about to write into such a block is that holder: the copies  *)
(* that copy_on_write() makes, and all blocks of allocate(), are private.  *)
(***************************************************************************)
PrivateBlocks ==
    /\ \A b \in Blocks : prefix_hash[b] = None => ref_count[b] <= 1
    /\ \A x \in Handles : (pc[x] = "write" /\ prefix_hash[held[x]] = None)
            => Holders(held[x]) = {x}
=============================================================================
