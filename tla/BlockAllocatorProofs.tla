------------------------ MODULE BlockAllocatorProofs ------------------------
(***************************************************************************)
(* Proofs about BlockAllocator, for every finite pool and any number of    *)
(* handles.                                                                *)
(***************************************************************************)
EXTENDS BlockAllocator, BlockPoolProofs

(* A block without prefix hash is not shared. *)
Unshared == \A b \in Blocks : prefix_hash[b] = None => ref_count[b] <= 1

(* What a handle refers to at each program point; the block that           *)
(* copy_on_write() has just taken belongs to nobody else and has no hash.  *)
HandleInv ==
    \A x \in Handles :
        /\ pc[x] = "cow_drop" <=> fresh[x] # None
        /\ pc[x] # "idle" => held[x] # None
        /\ fresh[x] # None => fresh[x] # held[x] /\ prefix_hash[fresh[x]] = None

PoolInv == FreeListExact /\ PrefixCacheSound /\ Unshared

AllocatorInv == AllocatorTypeOK /\ RefCounts /\ PoolInv /\ HandleInv

LEMMA HoldersFinite == \A b \in Blocks : IsFiniteSet(Holders(b)) /\ Holders(b) \subseteq Handles
<1> TAKE b \in Blocks
<1>1. Holders(b) \subseteq Handles
  BY DEF Holders
<1> QED
  BY <1>1, AllocatorAssumption, FS_Subset

(* The block on top of the free list is nobody's and not cached. *)
LEMMA TopIsFree ==
    ASSUME AllocatorInv, free # <<>>
    PROVE  /\ Top \in Blocks /\ ref_count[Top] = 0 /\ Holders(Top) = {}
           /\ prefix_hash[Top] = None
           /\ \A h \in Hashes : prefix_cache[h] # Top
<1>t. AllocatorTypeOK /\ RefCounts /\ FreeListExact /\ PrefixCacheSound
  BY DEF AllocatorInv, PoolInv
<1>1. FreeListOK
  BY <1>t DEF FreeListOK, AllocatorTypeOK
<1>2. Top \in Blocks /\ ref_count[Top] = 0
  BY <1>1, TopIsUnused
<1>3. Holders(Top) = {}
  BY <1>2, <1>t, HoldersFinite, FS_EmptySet DEF RefCounts
<1>4. \A h \in Hashes : prefix_cache[h] # Top
  BY <1>2, <1>t DEF PrefixCacheSound
<1>5. prefix_hash[Top] = None
  BY <1>2, <1>4, <1>t DEF PrefixCacheSound, AllocatorTypeOK
<1> QED
  BY <1>2, <1>3, <1>4, <1>5

(* Taking it keeps the free list exact. *)
LEMMA TakeTopOK ==
    ASSUME AllocatorInv, NEW hash \in Hashes \cup {None}, TakeTop(hash)
    PROVE  /\ ref_count' = [ref_count EXCEPT ![Top] = 1]
           /\ prefix_hash' = [prefix_hash EXCEPT ![Top] = hash]
           /\ ref_count' \in [Blocks -> Nat]
           /\ prefix_hash' \in [Blocks -> Hashes \cup {None}]
           /\ free' \in Seq(Blocks)
           /\ FreeListExact'
<1>t. AllocatorTypeOK /\ FreeListExact
  BY DEF AllocatorInv, PoolInv
<1>1. FreeListOK
  BY <1>t DEF FreeListOK, AllocatorTypeOK
<1>2. FreeListOK'
  BY <1>1, TakeTopKeepsFreeList
<1>3. /\ ref_count' = [ref_count EXCEPT ![Top] = 1]
      /\ prefix_hash' = [prefix_hash EXCEPT ![Top] = hash]
      /\ prefix_hash' \in [Blocks -> Hashes \cup {None}]
  BY <1>t DEF TakeTop, AllocatorTypeOK
<1> QED
  BY <1>2, <1>3 DEF FreeListOK

(* Giving up a reference keeps the pool in order. *)
LEMMA DropOK ==
    ASSUME AllocatorInv, NEW b \in Blocks, ref_count[b] > 0, Drop(b)
    PROVE  /\ ref_count' = [ref_count EXCEPT ![b] = @ - 1]
           /\ ref_count' \in [Blocks -> Nat]
           /\ prefix_hash' \in [Blocks -> Hashes \cup {None}]
           /\ prefix_cache' \in [Hashes -> Blocks \cup {None}]
           /\ free' \in Seq(Blocks)
           /\ PoolInv'
           /\ \A c \in Blocks : prefix_hash[c] = None => prefix_hash'[c] = None
<1>t. AllocatorTypeOK /\ FreeListExact /\ PrefixCacheSound /\ Unshared
  BY DEF AllocatorInv, PoolInv
<1>1. /\ ref_count' = [ref_count EXCEPT ![b] = @ - 1]
      /\ ref_count' \in [Blocks -> Nat]
      /\ ref_count'[b] = ref_count[b] - 1
      /\ \A c \in Blocks \ {b} : ref_count'[c] = ref_count[c]
  BY <1>t DEF Drop, AllocatorTypeOK
<1>f. FreeListOK'
  BY <1>t, DropKeepsFreeList DEF FreeListOK, AllocatorTypeOK
<1>2. CASE ref_count[b] = 1
  <2>1. /\ prefix_hash' = [prefix_hash EXCEPT ![b] = None]
        /\ prefix_cache' = [h \in Hashes |-> IF h = prefix_hash[b] THEN None ELSE prefix_cache[h]]
    BY <1>2 DEF Drop
  <2>2. /\ prefix_hash' \in [Blocks -> Hashes \cup {None}]
        /\ prefix_cache' \in [Hashes -> Blocks \cup {None}]
    BY <2>1, <1>t DEF AllocatorTypeOK
  <2>3. PrefixCacheSound'
    <3> SUFFICES ASSUME NEW h \in Hashes, NEW c \in Blocks
                 PROVE  /\ prefix_cache'[h] = c <=> prefix_hash'[c] = h
                        /\ prefix_cache'[h] = c => ref_count'[c] > 0
      BY DEF PrefixCacheSound
    <3>1. None \notin Blocks /\ None \notin Hashes
      BY AllocatorAssumption
    <3>2. CASE c = b
      BY <2>1, <3>1, <3>2, <1>t DEF PrefixCacheSound, AllocatorTypeOK
    <3>3. CASE c # b
      <4>1. prefix_hash'[c] = prefix_hash[c] /\ ref_count'[c] = ref_count[c]
        BY <1>1, <2>1, <3>3, <1>t DEF AllocatorTypeOK
      <4>2. prefix_cache'[h] = c <=> prefix_cache[h] = c
        BY <2>1, <3>1, <3>3, <1>t DEF PrefixCacheSound
      <4> QED
        BY <4>1, <4>2, <1>t DEF PrefixCacheSound
    <3> QED
      BY <3>2, <3>3
  <2>4. Unshared' /\ \A c \in Blocks : prefix_hash[c] = None => prefix_hash'[c] = None
    BY <1>1, <1>2, <2>1, <1>t DEF Unshared, AllocatorTypeOK
  <2> QED
    BY <1>1, <1>f, <2>2, <2>3, <2>4 DEF PoolInv, FreeListOK
<1>3. CASE ref_count[b] # 1
  <2>1. UNCHANGED <<free, prefix_hash, prefix_cache>>
    BY <1>3 DEF Drop
  <2>2. ref_count[b] \in Nat /\ ref_count'[b] > 0
    BY <1>1, <1>3, <1>t DEF AllocatorTypeOK
  <2>3. PrefixCacheSound'
    BY <1>1, <2>1, <2>2, <1>t DEF PrefixCacheSound
  <2>4. Unshared'
    BY <1>1, <2>1, <2>2, <1>t DEF Unshared
  <2> QED
    BY <1>1, <1>f, <2>1, <2>3, <2>4, <1>t DEF PoolInv, AllocatorTypeOK, FreeListOK
<1> QED
  BY <1>2, <1>3

(* One more, or one fewer, reference to b and one more, or one fewer, holder. *)
LEMMA OneMore ==
    ASSUME AllocatorInv, NEW x \in Handles, NEW b \in Blocks,
           x \notin Holders(b), Holders(b)' = Holders(b) \cup {x},
           \A c \in Blocks \ {b} : Holders(c)' = Holders(c) /\ ref_count'[c] = ref_count[c],
           ref_count'[b] = ref_count[b] + 1
    PROVE  RefCounts'
<1>1. RefCounts
  BY DEF AllocatorInv
<1>2. Cardinality(Holders(b) \cup {x}) = Cardinality(Holders(b)) + 1
  BY HoldersFinite, FS_AddElement
<1>3. ref_count'[b] = Cardinality(Holders(b)')
  BY <1>1, <1>2 DEF RefCounts
<1>4. \A c \in Blocks \ {b} : ref_count'[c] = Cardinality(Holders(c)')
  BY <1>1 DEF RefCounts
<1> QED
  BY <1>3, <1>4 DEF RefCounts

LEMMA OneFewer ==
    ASSUME AllocatorInv, NEW x \in Handles, NEW b \in Blocks,
           x \in Holders(b), Holders(b)' = Holders(b) \ {x},
           \A c \in Blocks \ {b} : Holders(c)' = Holders(c) /\ ref_count'[c] = ref_count[c],
           ref_count'[b] = ref_count[b] - 1
    PROVE  RefCounts'
<1>1. RefCounts
  BY DEF AllocatorInv
<1>2. Cardinality(Holders(b) \ {x}) = Cardinality(Holders(b)) - 1
  BY HoldersFinite, FS_RemoveElement
<1>3. ref_count'[b] = Cardinality(Holders(b)')
  BY <1>1, <1>2 DEF RefCounts
<1>4. \A c \in Blocks \ {b} : ref_count'[c] = Cardinality(Holders(c)')
  BY <1>1 DEF RefCounts
<1> QED
  BY <1>3, <1>4 DEF RefCounts

(* A block somebody holds has a positive count. *)
LEMMA HeldIsCounted ==
    ASSUME AllocatorInv, NEW x \in Handles, NEW b \in Blocks, x \in Holders(b)
    PROVE  ref_count[b] > 0
<1>1. Cardinality(Holders(b)) \in Nat /\ Cardinality(Holders(b)) # 0
  BY HoldersFinite, FS_CardinalityType, FS_EmptySet
<1> QED
  BY <1>1 DEF AllocatorInv, RefCounts

LEMMA AllocatorStart == AllocatorInit => AllocatorInv
<1> SUFFICES ASSUME AllocatorInit PROVE AllocatorInv
  OBVIOUS
<1>1. FreeListOK
  BY AllocatorAssumption, PoolStart DEF AllocatorInit
<1>2. AllocatorTypeOK
  BY <1>1 DEF AllocatorInit, PoolInit, AllocatorTypeOK, FreeListOK
<1>3. RefCounts
  <2> SUFFICES ASSUME NEW b \in Blocks PROVE ref_count[b] = Cardinality(Holders(b))
    BY DEF RefCounts
  <2>1. Holders(b) = {}
    BY AllocatorAssumption DEF AllocatorInit, PoolInit, Holders
  <2> QED
    BY <2>1, FS_EmptySet DEF AllocatorInit, PoolInit
<1>4. PrefixCacheSound /\ Unshared
  BY AllocatorAssumption DEF AllocatorInit, PoolInit, PrefixCacheSound, Unshared
<1>5. HandleInv
  BY DEF AllocatorInit, HandleInv
<1> QED
  BY <1>1, <1>2, <1>3, <1>4, <1>5 DEF AllocatorInv, PoolInv, FreeListOK

(* A handle that takes the top of the free list, as its block or as its copy. *)
LEMMA TakeForHandle ==
    ASSUME AllocatorInv, NEW x \in Handles, NEW hash \in Hashes \cup {None}, TakeTop(hash),
           NEW t \in Blocks, t = Top,
           Holders(t)' = Holders(t) \cup {x},
           \A c \in Blocks \ {t} : Holders(c)' = Holders(c)
    PROVE  RefCounts' /\ Unshared'
<1>t. AllocatorTypeOK /\ Unshared
  BY DEF AllocatorInv, PoolInv
<1>1. ref_count[t] = 0 /\ Holders(t) = {}
  BY TopIsFree DEF TakeTop
<1>2. /\ ref_count' = [ref_count EXCEPT ![t] = 1]
      /\ prefix_hash' = [prefix_hash EXCEPT ![t] = hash]
  BY TakeTopOK
<1>3. /\ ref_count'[t] = 1 /\ \A c \in Blocks \ {t} : ref_count'[c] = ref_count[c]
  BY <1>2, <1>t DEF AllocatorTypeOK
<1>4. RefCounts'
  BY <1>1, <1>3, OneMore
<1>5. Unshared'
  BY <1>2, <1>3, <1>t DEF Unshared, AllocatorTypeOK
<1> QED
  BY <1>4, <1>5

LEMMA AllocateStep ==
    ASSUME AllocatorInv, NEW x \in Handles, Allocate(x)
    PROVE  AllocatorInv'
<1>t. AllocatorTypeOK /\ PrefixCacheSound /\ HandleInv
  BY DEF AllocatorInv, PoolInv
<1>1. /\ pc[x] = "idle" /\ held[x] = None /\ fresh[x] = None
      /\ TakeTop(None) /\ free # <<>>
      /\ held' = [held EXCEPT ![x] = Top]
      /\ UNCHANGED <<prefix_cache, pc, fresh>>
  BY <1>t DEF Allocate, TakeTop, HandleInv
<1>2. PICK t \in Blocks : t = Top
  BY <1>1, TopIsFree
<1>3. /\ ref_count[t] = 0 /\ Holders(t) = {} /\ prefix_hash[t] = None
      /\ \A h \in Hashes : prefix_cache[h] # t
  BY <1>1, <1>2, TopIsFree
<1>4. /\ ref_count' = [ref_count EXCEPT ![t] = 1]
      /\ prefix_hash' = [prefix_hash EXCEPT ![t] = None]
      /\ ref_count' \in [Blocks -> Nat]
      /\ prefix_hash' \in [Blocks -> Hashes \cup {None}]
      /\ free' \in Seq(Blocks)
      /\ FreeListExact'
  BY <1>1, <1>2, TakeTopOK
<1>5. AllocatorTypeOK'
  BY <1>1, <1>2, <1>4, <1>t DEF AllocatorTypeOK
<1>6. /\ Holders(t)' = Holders(t) \cup {x}
      /\ \A c \in Blocks \ {t} : Holders(c)' = Holders(c)
  BY <1>1, <1>2, <1>t, AllocatorAssumption DEF Holders, AllocatorTypeOK
<1>7. RefCounts' /\ Unshared'
  BY <1>1, <1>2, <1>6, TakeForHandle
<1>8. PrefixCacheSound'
  BY <1>1, <1>3, <1>4, <1>t, AllocatorAssumption DEF PrefixCacheSound, AllocatorTypeOK
<1>9. HandleInv'
  BY <1>1, <1>2, <1>4, <1>t, AllocatorAssumption DEF HandleInv, AllocatorTypeOK
<1> QED
  BY <1>4, <1>5, <1>7, <1>8, <1>9 DEF AllocatorInv, PoolInv

LEMMA PrefixHitStep ==
    ASSUME AllocatorInv, NEW x \in Handles, NEW h \in Hashes, PrefixHit(x, h)
    PROVE  AllocatorInv'
<1>t. AllocatorTypeOK /\ FreeListExact /\ PrefixCacheSound /\ Unshared /\ HandleInv
  BY DEF AllocatorInv, PoolInv
<1>1. PICK b \in Blocks : b = prefix_cache[h]
  BY <1>t DEF PrefixHit, AllocatorTypeOK
<1>2. /\ pc[x] = "idle" /\ held[x] = None /\ fresh[x] = None
      /\ ref_count' = [ref_count EXCEPT ![b] = @ + 1]
      /\ held' = [held EXCEPT ![x] = b]
      /\ UNCHANGED <<prefix_hash, free, prefix_cache, pc, fresh>>
  BY <1>1, <1>t DEF PrefixHit, HandleInv
<1>3. prefix_hash[b] = h /\ ref_count[b] > 0 /\ h # None /\ ref_count[b] \in Nat
  BY <1>1, <1>t, AllocatorAssumption DEF PrefixCacheSound, AllocatorTypeOK
<1>4. /\ ref_count' \in [Blocks -> Nat] /\ ref_count'[b] = ref_count[b] + 1
      /\ \A c \in Blocks \ {b} : ref_count'[c] = ref_count[c]
  BY <1>2, <1>t DEF AllocatorTypeOK
<1>5. AllocatorTypeOK'
  BY <1>2, <1>4, <1>t DEF AllocatorTypeOK
<1>6. /\ x \notin Holders(b) /\ Holders(b)' = Holders(b) \cup {x}
      /\ \A c \in Blocks \ {b} : Holders(c)' = Holders(c)
  BY <1>2, <1>t, AllocatorAssumption DEF Holders, AllocatorTypeOK
<1>7. RefCounts'
  BY <1>4, <1>6, OneMore
<1>8. FreeListExact'
  BY <1>2, <1>3, <1>4, <1>t DEF FreeListExact, Range
<1>9. PrefixCacheSound' /\ Unshared'
  BY <1>2, <1>3, <1>4, <1>t DEF PrefixCacheSound, Unshared
<1>10. HandleInv'
  BY <1>2, <1>t, AllocatorAssumption DEF HandleInv, AllocatorTypeOK
<1> QED
  BY <1>5, <1>7, <1>8, <1>9, <1>10 DEF AllocatorInv, PoolInv

LEMMA PrefixMissStep ==
    ASSUME AllocatorInv, NEW x \in Handles, NEW h \in Hashes, PrefixMiss(x, h)
    PROVE  AllocatorInv'
<1>t. AllocatorTypeOK /\ PrefixCacheSound /\ HandleInv
  BY DEF AllocatorInv, PoolInv
<1>1. /\ pc[x] = "idle" /\ held[x] = None /\ fresh[x] = None /\ prefix_cache[h] = None
      /\ TakeTop(h) /\ free # <<>>
      /\ prefix_cache' = [prefix_cache EXCEPT ![h] = Top]
      /\ held' = [held EXCEPT ![x] = Top]
      /\ UNCHANGED <<pc, fresh>>
  BY <1>t DEF PrefixMiss, TakeTop, HandleInv
<1>2. PICK t \in Blocks : t = Top
  BY <1>1, TopIsFree
<1>3. /\ ref_count[t] = 0 /\ Holders(t) = {} /\ prefix_hash[t] = None
      /\ \A g \in Hashes : prefix_cache[g] # t
  BY <1>1, <1>2, TopIsFree
<1>4. /\ ref_count' = [ref_count EXCEPT ![t] = 1]
      /\ prefix_hash' = [prefix_hash EXCEPT ![t] = h]
      /\ ref_count' \in [Blocks -> Nat]
      /\ prefix_hash' \in [Blocks -> Hashes \cup {None}]
      /\ free' \in Seq(Blocks)
      /\ FreeListExact'
  BY <1>1, <1>2, TakeTopOK
<1>5. AllocatorTypeOK'
  BY <1>1, <1>2, <1>4, <1>t DEF AllocatorTypeOK
<1>6. /\ Holders(t)' = Holders(t) \cup {x}
      /\ \A c \in Blocks \ {t} : Holders(c)' = Holders(c)
  BY <1>1, <1>2, <1>t, AllocatorAssumption DEF Holders, AllocatorTypeOK
<1>7. RefCounts' /\ Unshared'
  BY <1>1, <1>2, <1>6, TakeForHandle
<1>8. PrefixCacheSound'
  <2> SUFFICES ASSUME NEW g \in Hashes, NEW c \in Blocks
               PROVE  /\ prefix_cache'[g] = c <=> prefix_hash'[c] = g
                      /\ prefix_cache'[g] = c => ref_count'[c] > 0
    BY DEF PrefixCacheSound
  <2>1. prefix_cache[g] = c <=> prefix_hash[c] = g
    BY <1>t DEF PrefixCacheSound
  <2>2. prefix_cache[g] = c => ref_count[c] > 0
    BY <1>t DEF PrefixCacheSound
  <2>3. prefix_cache' = [prefix_cache EXCEPT ![h] = t]
    BY <1>1, <1>2
  <2>4. CASE c = t
    BY <1>3, <1>4, <2>3, <2>4, <1>t DEF AllocatorTypeOK
  <2>5. CASE c # t
    BY <1>1, <1>4, <2>1, <2>2, <2>3, <2>5, <1>t, AllocatorAssumption DEF AllocatorTypeOK
  <2> QED
    BY <2>4, <2>5
<1>9. HandleInv'
  <2>1. \A y \in Handles : fresh[y] # t
    BY <1>3 DEF Holders
  <2> QED
    BY <1>1, <1>2, <1>4, <2>1, <1>t, AllocatorAssumption DEF HandleInv, AllocatorTypeOK
<1> QED
  BY <1>4, <1>5, <1>7, <1>8, <1>9 DEF AllocatorInv, PoolInv

LEMMA ReleaseStep ==
    ASSUME AllocatorInv, NEW x \in Handles, Release(x)
    PROVE  AllocatorInv'
<1>t. AllocatorTypeOK /\ HandleInv
  BY DEF AllocatorInv
<1>1. PICK b \in Blocks : b = held[x]
  BY <1>t DEF Release, AllocatorTypeOK
<1>2. /\ pc[x] = "idle" /\ fresh[x] = None /\ Drop(b)
      /\ held' = [held EXCEPT ![x] = None]
      /\ UNCHANGED <<pc, fresh>>
  BY <1>1, <1>t DEF Release, HandleInv
<1>3. x \in Holders(b) /\ ref_count[b] > 0
  BY <1>1, HeldIsCounted DEF Holders
<1>4. /\ ref_count' = [ref_count EXCEPT ![b] = @ - 1]
      /\ ref_count' \in [Blocks -> Nat]
      /\ prefix_hash' \in [Blocks -> Hashes \cup {None}]
      /\ prefix_cache' \in [Hashes -> Blocks \cup {None}]
      /\ free' \in Seq(Blocks)
      /\ PoolInv'
      /\ \A c \in Blocks : prefix_hash[c] = None => prefix_hash'[c] = None
  BY <1>2, <1>3, DropOK
<1>5. AllocatorTypeOK'
  BY <1>2, <1>4, <1>t DEF AllocatorTypeOK
<1>6. /\ Holders(b)' = Holders(b) \ {x}
      /\ \A c \in Blocks \ {b} : Holders(c)' = Holders(c)
  BY <1>1, <1>2, <1>t, AllocatorAssumption DEF Holders, AllocatorTypeOK
<1>7. /\ ref_count'[b] = ref_count[b] - 1
      /\ \A c \in Blocks \ {b} : ref_count'[c] = ref_count[c]
  BY <1>4, <1>t DEF AllocatorTypeOK
<1>8. RefCounts'
  BY <1>3, <1>6, <1>7, OneFewer
<1>9. HandleInv'
  BY <1>2, <1>4, <1>t, AllocatorAssumption DEF HandleInv, AllocatorTypeOK
<1> QED
  BY <1>4, <1>5, <1>8, <1>9 DEF AllocatorInv

LEMMA CowAllocateStep ==
    ASSUME AllocatorInv, NEW x \in Handles, CowAllocate(x)
    PROVE  AllocatorInv'
<1>t. AllocatorTypeOK /\ PrefixCacheSound /\ HandleInv
  BY DEF AllocatorInv, PoolInv
<1>1. /\ pc[x] = "cow_allocate" /\ held[x] # None /\ fresh[x] = None
      /\ TakeTop(None) /\ free # <<>>
      /\ fresh' = [fresh EXCEPT ![x] = Top]
      /\ pc' = [pc EXCEPT ![x] = "cow_drop"]
      /\ UNCHANGED <<prefix_cache, held>>
  BY <1>t DEF CowAllocate, TakeTop, HandleInv
<1>2. PICK t \in Blocks : t = Top
  BY <1>1, TopIsFree
<1>3. /\ ref_count[t] = 0 /\ Holders(t) = {} /\ prefix_hash[t] = None
      /\ \A h \in Hashes : prefix_cache[h] # t
  BY <1>1, <1>2, TopIsFree
<1>4. /\ ref_count' = [ref_count EXCEPT ![t] = 1]
      /\ prefix_hash' = [prefix_hash EXCEPT ![t] = None]
      /\ ref_count' \in [Blocks -> Nat]
      /\ prefix_hash' \in [Blocks -> Hashes \cup {None}]
      /\ free' \in Seq(Blocks)
      /\ FreeListExact'
  BY <1>1, <1>2, TakeTopOK
<1>5. AllocatorTypeOK'
  BY <1>1, <1>2, <1>4, <1>t DEF AllocatorTypeOK
<1>6. /\ Holders(t)' = Holders(t) \cup {x}
      /\ \A c \in Blocks \ {t} : Holders(c)' = Holders(c)
  BY <1>1, <1>2, <1>t, AllocatorAssumption DEF Holders, AllocatorTypeOK
<1>7. RefCounts' /\ Unshared'
  BY <1>1, <1>2, <1>6, TakeForHandle
<1>8. PrefixCacheSound'
  BY <1>1, <1>3, <1>4, <1>t, AllocatorAssumption DEF PrefixCacheSound, AllocatorTypeOK
<1>9. HandleInv'
  <2>1. held[x] # t
    BY <1>3 DEF Holders
  <2>2. /\ fresh'[x] = t /\ pc'[x] = "cow_drop" /\ t # None
        /\ \A y \in Handles \ {x} : fresh'[y] = fresh[y] /\ pc'[y] = pc[y]
    BY <1>1, <1>2, <1>t, AllocatorAssumption DEF AllocatorTypeOK
  <2>3. \A c \in Blocks : prefix_hash[c] = None => prefix_hash'[c] = None
    BY <1>4, <1>t DEF AllocatorTypeOK
  <2>4. \A y \in Handles : fresh[y] \in Blocks \cup {None}
    BY <1>t DEF AllocatorTypeOK
  <2>5. prefix_hash'[t] = None
    BY <1>3, <2>3
  <2> QED
    BY <1>1, <2>1, <2>2, <2>3, <2>4, <2>5, <1>t DEF HandleInv
<1> QED
  BY <1>4, <1>5, <1>7, <1>8, <1>9 DEF AllocatorInv, PoolInv

LEMMA CowDropStep ==
    ASSUME AllocatorInv, NEW x \in Handles, CowDrop(x)
    PROVE  AllocatorInv'
<1>t. AllocatorTypeOK /\ HandleInv
  BY DEF AllocatorInv
<1>1. PICK b \in Blocks : b = held[x]
  BY <1>t DEF CowDrop, AllocatorTypeOK, HandleInv
<1>2. /\ pc[x] = "cow_drop" /\ fresh[x] # None /\ fresh[x] # b /\ Drop(b)
      /\ held' = [held EXCEPT ![x] = fresh[x]]
      /\ fresh' = [fresh EXCEPT ![x] = None]
      /\ pc' = [pc EXCEPT ![x] = "write"]
  BY <1>1, <1>t DEF CowDrop, HandleInv
<1>3. x \in Holders(b) /\ ref_count[b] > 0
  BY <1>1, HeldIsCounted DEF Holders
<1>4. /\ ref_count' = [ref_count EXCEPT ![b] = @ - 1]
      /\ ref_count' \in [Blocks -> Nat]
      /\ prefix_hash' \in [Blocks -> Hashes \cup {None}]
      /\ prefix_cache' \in [Hashes -> Blocks \cup {None}]
      /\ free' \in Seq(Blocks)
      /\ PoolInv'
      /\ \A c \in Blocks : prefix_hash[c] = None => prefix_hash'[c] = None
  BY <1>2, <1>3, DropOK
<1>5. AllocatorTypeOK'
  BY <1>2, <1>4, <1>t DEF AllocatorTypeOK
<1>6. /\ Holders(b)' = Holders(b) \ {x}
      /\ \A c \in Blocks \ {b} : Holders(c)' = Holders(c)
  BY <1>1, <1>2, <1>t, AllocatorAssumption DEF Holders, AllocatorTypeOK
<1>7. /\ ref_count'[b] = ref_count[b] - 1
      /\ \A c \in Blocks \ {b} : ref_count'[c] = ref_count[c]
  BY <1>4, <1>t DEF AllocatorTypeOK
<1>8. RefCounts'
  BY <1>3, <1>6, <1>7, OneFewer
<1>9. HandleInv'
  <2>1. /\ pc'[x] = "write" /\ fresh'[x] = None /\ held'[x] = fresh[x]
        /\ \A y \in Handles \ {x} :
               fresh'[y] = fresh[y] /\ pc'[y] = pc[y] /\ held'[y] = held[y]
    BY <1>2, <1>t DEF AllocatorTypeOK
  <2>2. \A y \in Handles : fresh[y] \in Blocks \cup {None}
    BY <1>t DEF AllocatorTypeOK
  <2> QED
    BY <1>2, <1>4, <2>1, <2>2, <1>t DEF HandleInv
<1> QED
  BY <1>4, <1>5, <1>8, <1>9 DEF AllocatorInv

(* The steps outside the lock only move the program point of a thread. *)
LEMMA ControlStep ==
    ASSUME AllocatorInv, NEW x \in Handles,
           CowInPlace(x) \/ CowShared(x) \/ CowFails(x) \/ Write(x)
    PROVE  AllocatorInv'
<1>t. AllocatorTypeOK /\ RefCounts /\ PoolInv /\ HandleInv
  BY DEF AllocatorInv
<1>1. UNCHANGED <<ref_count, prefix_hash, free, prefix_cache, held, fresh>>
  BY DEF CowInPlace, CowShared, CowFails, Write, poolVars
<1>2. RefCounts' /\ PoolInv'
  <2>1. \A b \in Blocks : Holders(b)' = Holders(b)
    BY <1>1 DEF Holders
  <2>2. RefCounts'
    BY <1>1, <2>1, <1>t DEF RefCounts
  <2>3. PoolInv'
    BY <1>1, <1>t DEF PoolInv, FreeListExact, Range, PrefixCacheSound, Unshared
  <2> QED
    BY <2>2, <2>3
<1>3. PICK w \in {"idle", "cow_allocate", "write"} :
          /\ pc' = [pc EXCEPT ![x] = w] /\ pc[x] # "cow_drop"
          /\ w # "idle" => held[x] # None
  BY DEF CowInPlace, CowShared, CowFails, Write
<1>4. AllocatorTypeOK'
  BY <1>1, <1>3, <1>t DEF AllocatorTypeOK
<1>5. HandleInv'
  BY <1>1, <1>3, <1>t DEF HandleInv, AllocatorTypeOK
<1> QED
  BY <1>2, <1>4, <1>5 DEF AllocatorInv

LEMMA AllocatorStep == AllocatorInv /\ [AllocatorNext]_allocatorVars => AllocatorInv'
<1> SUFFICES ASSUME AllocatorInv, [AllocatorNext]_allocatorVars PROVE AllocatorInv'
  OBVIOUS
<1>1. CASE AllocatorNext
  <2> PICK x \in Handles :
          \/ Allocate(x) \/ Release(x)
          \/ \E h \in Hashes : PrefixHit(x, h) \/ PrefixMiss(x, h)
          \/ CowInPlace(x) \/ CowShared(x) \/ CowAllocate(x) \/ CowFails(x) \/ CowDrop(x)
          \/ Write(x)
    BY <1>1 DEF AllocatorNext
  <2> QED
    BY AllocateStep, ReleaseStep, PrefixHitStep, PrefixMissStep, CowAllocateStep,
       CowDropStep, ControlStep
<1>2. CASE UNCHANGED allocatorVars
  BY <1>2 DEF allocatorVars, poolVars, AllocatorInv, AllocatorTypeOK, RefCounts, Holders,
     PoolInv, FreeListExact, Range, PrefixCacheSound, Unshared, HandleInv
<1> QED
  BY <1>1, <1>2

LEMMA AllocatorInvariant == AllocatorSpec => []AllocatorInv
  BY AllocatorStart, AllocatorStep, PTL DEF AllocatorSpec

-----------------------------------------------------------------------------
(* Types, from kv_cache.py's declarations; a reference count is never      *)
(* negative.                                                               *)
THEOREM AllocatorTypes == AllocatorSpec => []AllocatorTypeOK
<1>1. AllocatorInv => AllocatorTypeOK
  BY DEF AllocatorInv
<1> QED
  BY <1>1, AllocatorInvariant, PTL

(* ref_count is the number of references to the block, at every moment and *)
(* for any number of threads (allocate, free, get_or_create_prefix_block,  *)
(* and copy_on_write between its two sections under the lock).             *)
THEOREM ReferencesAreCounted == AllocatorSpec => []RefCounts
<1>1. AllocatorInv => RefCounts
  BY DEF AllocatorInv
<1> QED
  BY <1>1, AllocatorInvariant, PTL

(* The free list holds each unused block once, and no other: no leak, no   *)
(* double free, no block in use handed out again.                          *)
THEOREM NoLeakNoDoubleFree == AllocatorSpec => []FreeListExact
<1>1. AllocatorInv => FreeListExact
  BY DEF AllocatorInv, PoolInv
<1> QED
  BY <1>1, AllocatorInvariant, PTL

(* The prefix cache names live blocks only and agrees with prefix_hash.    *)
THEOREM PrefixHitsAreLive == AllocatorSpec => []PrefixCacheSound
<1>1. AllocatorInv => PrefixCacheSound
  BY DEF AllocatorInv, PoolInv
<1> QED
  BY <1>1, AllocatorInvariant, PTL

(* Blocks outside the prefix cache are never shared, so a write into one   *)
(* of them, a copy made by copy_on_write() included, is seen by its holder *)
(* only.                                                                   *)
THEOREM CopiesArePrivate == AllocatorSpec => []PrivateBlocks
<1>1. AllocatorInv => PrivateBlocks
  <2> SUFFICES ASSUME AllocatorInv PROVE PrivateBlocks
    OBVIOUS
  <2>t. AllocatorTypeOK /\ RefCounts /\ Unshared /\ HandleInv
    BY DEF AllocatorInv, PoolInv
  <2> SUFFICES ASSUME NEW x \in Handles, pc[x] = "write", prefix_hash[held[x]] = None
               PROVE  Holders(held[x]) = {x}
    BY <2>t DEF PrivateBlocks, Unshared
  <2>1. PICK b \in Blocks : b = held[x]
    BY <2>t DEF AllocatorTypeOK, HandleInv
  <2>2. x \in Holders(b) /\ Cardinality(Holders(b)) <= 1
    BY <2>1, <2>t DEF Holders, RefCounts, Unshared
  <2>3. /\ IsFiniteSet(Holders(b) \ {x}) /\ Cardinality(Holders(b)) \in Nat
        /\ Cardinality(Holders(b) \ {x}) = Cardinality(Holders(b)) - 1
    BY <2>2, HoldersFinite, FS_RemoveElement, FS_CardinalityType
  <2>4. Cardinality(Holders(b) \ {x}) = 0
    BY <2>2, <2>3, FS_CardinalityType
  <2>5. Holders(b) \ {x} = {}
    BY <2>3, <2>4, FS_EmptySet
  <2> QED
    BY <2>1, <2>2, <2>5
<1> QED
  BY <1>1, AllocatorInvariant, PTL
=============================================================================
