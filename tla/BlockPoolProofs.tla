-------------------------- MODULE BlockPoolProofs ---------------------------
(***************************************************************************)
(* What the two kinds of critical section do to the free list: lemmas for  *)
(* the proofs about the modules built on BlockPool.                        *)
(***************************************************************************)
EXTENDS BlockPool, FiniteSetTheorems, TLAPS

(* All that the free list depends on. *)
FreeListOK ==
    /\ ref_count \in [Blocks -> Nat]
    /\ free \in Seq(Blocks)
    /\ FreeListExact

(* At first every block is free, once. *)
LEMMA PoolStart ==
    ASSUME IsFiniteSet(Blocks), PoolInit
    PROVE  FreeListOK
<1> DEFINE n == Cardinality(Blocks)
<1>1. n \in Nat
  BY FS_CardinalityType
<1>2. free \in [1..n -> Blocks] /\ free \in Seq(Blocks) /\ Len(free) = n
  BY <1>1 DEF PoolInit
<1>3. \A i, j \in 1..n : free[i] = free[j] => i = j
  BY <1>2 DEF PoolInit, IsInjective
<1>4. Range(free) = Blocks
  <2>1. IsFiniteSet(1..n) /\ Cardinality(1..n) = Cardinality(Blocks)
    BY <1>1, FS_Interval
  <2>2. free \in Injection(1..n, Blocks)
    BY <1>2 DEF PoolInit, Injection
  <2>3. free \in Surjection(1..n, Blocks)
    BY <2>1, <2>2, FS_Injection
  <2> QED
    BY <2>3, <1>2 DEF Surjection, Range
<1> QED
  BY <1>2, <1>3, <1>4 DEF FreeListOK, FreeListExact, PoolInit

(* The block on top of the free list is nobody's. *)
LEMMA TopIsUnused ==
    ASSUME FreeListOK, free # <<>>
    PROVE  Top \in Blocks /\ ref_count[Top] = 0
<1>1. Len(free) \in 1..Len(free) /\ Top = free[Len(free)] /\ Top \in Blocks
  BY DEF FreeListOK, Top
<1>2. Top \in Range(free)
  BY <1>1 DEF Range, FreeListOK
<1> QED
  BY <1>1, <1>2 DEF FreeListOK, FreeListExact

(* Taking it keeps the free list exact. *)
LEMMA TakeTopKeepsFreeList ==
    ASSUME FreeListOK, NEW hash, TakeTop(hash)
    PROVE  FreeListOK'
<1> DEFINE n == Len(free)
<1>1. free # <<>> /\ Top \in Blocks /\ ref_count[Top] = 0
  BY TopIsUnused DEF TakeTop
<1>2. /\ n \in Nat \ {0} /\ free' = SubSeq(free, 1, n - 1)
      /\ \A i \in 1..n : free[i] \in Blocks
  BY <1>1 DEF TakeTop, FreeListOK
<1>3. /\ free' \in Seq(Blocks) /\ Len(free') = n - 1
      /\ \A i \in 1..(n - 1) : free'[i] = free[i]
  <2>1. free \in Seq(Blocks) /\ 1 \in 1..(n + 1) /\ n - 1 \in 0..n
    BY <1>2 DEF FreeListOK
  <2> HIDE DEF n
  <2>2. /\ SubSeq(free, 1, n - 1) \in Seq(Blocks)
        /\ Len(SubSeq(free, 1, n - 1)) = n - 1
        /\ \A i \in 1..(n - 1) : SubSeq(free, 1, n - 1)[i] = free[i]
    BY <2>1, <1>2
  <2> QED
    BY <2>2, <1>2
<1>4. /\ ref_count' = [ref_count EXCEPT ![Top] = 1]
      /\ ref_count' \in [Blocks -> Nat]
  BY DEF TakeTop, FreeListOK
<1>5. \A i, j \in 1..n : free[i] = free[j] => i = j
  BY DEF FreeListOK, FreeListExact
<1>6. \A i, j \in 1..Len(free') : free'[i] = free'[j] => i = j
  BY <1>2, <1>3, <1>5
<1>7. Top = free[n] /\ Range(free) = {free[i] : i \in 1..n}
  BY DEF Top, Range, FreeListOK
<1>8. Range(free)' = {free[i] : i \in 1..(n - 1)}
  BY <1>3 DEF Range
<1> HIDE DEF n
<1>9. Range(free)' = Range(free) \ {Top}
  <2>1. 1..n = 1..(n - 1) \cup {n} /\ n \notin 1..(n - 1)
    BY <1>2
  <2>2. \A i \in 1..(n - 1) : free[i] # free[n]
    BY <1>2, <1>5, <2>1
  <2> QED
    BY <1>7, <1>8, <2>1, <2>2
<1>10. \A b \in Blocks : b \in Range(free)' <=> ref_count'[b] = 0
  BY <1>1, <1>4, <1>9 DEF FreeListOK, FreeListExact
<1> QED
  BY <1>3, <1>4, <1>6, <1>10 DEF FreeListOK, FreeListExact

(* Giving up a reference keeps it exact. *)
LEMMA DropKeepsFreeList ==
    ASSUME FreeListOK, NEW b \in Blocks, ref_count[b] > 0, Drop(b)
    PROVE  FreeListOK'
<1>1. /\ ref_count' = [ref_count EXCEPT ![b] = @ - 1]
      /\ ref_count' \in [Blocks -> Nat]
      /\ ref_count'[b] = ref_count[b] - 1
      /\ \A c \in Blocks \ {b} : ref_count'[c] = ref_count[c]
  BY DEF Drop, FreeListOK
<1>2. CASE ref_count[b] = 1
  <2> DEFINE n == Len(free)
  <2>1. free' = Append(free, b)
    BY <1>2 DEF Drop
  <2>2. free' \in Seq(Blocks)
    BY <2>1 DEF FreeListOK
  <2>3. /\ n \in Nat /\ Len(free') = n + 1 /\ free'[n + 1] = b
        /\ \A i \in 1..n : free'[i] = free[i]
        /\ Range(free) = {free[i] : i \in 1..n} /\ DOMAIN free' = 1..(n + 1)
    BY <2>1 DEF FreeListOK, Range
  <2>4. \A i \in 1..n : free[i] # b
    BY <1>2, <2>3 DEF FreeListOK, FreeListExact
  <2>5. \A i, j \in 1..n : free[i] = free[j] => i = j
    BY DEF FreeListOK, FreeListExact
  <2> HIDE DEF n
  <2>6. \A i, j \in 1..(n + 1) : free'[i] = free'[j] => i = j
    BY <2>3, <2>4, <2>5
  <2>7. Range(free)' = Range(free) \cup {b}
    <3>1. 1..(n + 1) = 1..n \cup {n + 1}
      BY <2>3
    <3>2. Range(free)' = {free'[i] : i \in 1..(n + 1)}
      BY <2>3 DEF Range
    <3> QED
      BY <2>3, <3>1, <3>2
  <2>8. \A c \in Blocks : c \in Range(free)' <=> ref_count'[c] = 0
    BY <1>1, <1>2, <2>7 DEF FreeListOK, FreeListExact
  <2> QED
    BY <1>1, <2>2, <2>3, <2>6, <2>8 DEF FreeListOK, FreeListExact
<1>3. CASE ref_count[b] # 1
  <2>1. free' = free
    BY <1>3 DEF Drop
  <2>2. \A c \in Blocks : c \in Range(free) <=> ref_count'[c] = 0
    BY <1>1, <1>3 DEF FreeListOK, FreeListExact
  <2> QED
    BY <1>1, <2>1, <2>2 DEF FreeListOK, FreeListExact
<1> QED
  BY <1>2, <1>3
=============================================================================
