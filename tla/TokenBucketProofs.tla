------------------------- MODULE TokenBucketProofs --------------------------
(***************************************************************************)
(* Proofs about TokenBucket, for every rate, capacity and cost and without *)
(* a bound on the clock or on the number of calls.                         *)
(***************************************************************************)
EXTENDS TokenBucket, TLAPS

(* What was granted since grant i, together with what is left, was paid by *)
(* a full bucket and the refills since grant i.                            *)
Credit ==
    \A i \in 1..Len(grants) :
        (Len(grants) - i + 1) * Cost + tokens
            <= Capacity + (last_refill - grants[i]) * Rate

(* Since the last grant the bucket lost nothing: it is full or holds all   *)
(* that the rate added.                                                    *)
NothingLost ==
    /\ grants = <<>> => tokens = Capacity
    /\ grants # <<>> => \/ tokens = Capacity
                        \/ tokens >= (last_refill - grants[Len(grants)]) * Rate

BucketInv == BucketTypeOK /\ Credit /\ WindowBound /\ NothingLost

(* A refill never takes tokens away, never adds more than the rate allows, *)
(* stays within the capacity and is exact below it.                        *)
LEMMA RefilledFacts ==
    ASSUME BucketTypeOK
    PROVE  /\ Refilled \in 0..Capacity
           /\ Refilled <= tokens + (clock - last_refill) * Rate
           /\ Refilled >= tokens
           /\ Refilled # Capacity => Refilled = tokens + (clock - last_refill) * Rate
<1>1. Rate \in Nat /\ Capacity \in Nat
  BY BucketAssumption
<1>2. clock - last_refill \in Nat /\ tokens \in 0..Capacity
  BY DEF BucketTypeOK
<1>3. (clock - last_refill) * Rate \in Nat
  BY <1>1, <1>2
<1> DEFINE added == (clock - last_refill) * Rate
<1>4. added \in Nat
  BY <1>3
<1>5. Refilled = IF tokens + added < Capacity THEN tokens + added ELSE Capacity
  BY DEF Refilled
<1> HIDE DEF added
<1>6. /\ Refilled \in 0..Capacity
      /\ Refilled <= tokens + added
      /\ Refilled >= tokens
      /\ Refilled # Capacity => Refilled = tokens + added
  BY <1>1, <1>2, <1>4, <1>5
<1> QED
  BY <1>6 DEF added

LEMMA BucketInitOK == BucketInit => BucketInv
  BY BucketAssumption
  DEF BucketInit, BucketInv, BucketTypeOK, Credit, WindowBound, NothingLost

(* A refill that grants nothing: a refused call, or a poll of stats(). *)
LEMMA RefillOK ==
    ASSUME BucketInv, Refill(Refilled), UNCHANGED <<clock, grants, total_allowed>>,
           total_rejected' \in Nat
    PROVE  BucketInv'
<1> USE BucketAssumption
<1>t. BucketTypeOK
  BY DEF BucketInv
<1>r. /\ Refilled \in 0..Capacity
      /\ Refilled <= tokens + (clock - last_refill) * Rate
      /\ Refilled # Capacity => Refilled = tokens + (clock - last_refill) * Rate
  BY <1>t, RefilledFacts
<1>s. tokens' = Refilled /\ last_refill' = clock
  BY DEF Refill
<1>1. BucketTypeOK'
  <2>1. 0..last_refill \subseteq 0..clock
    BY <1>t DEF BucketTypeOK
  <2>2. grants \in Seq(0..clock)
    BY <1>t, <2>1 DEF BucketTypeOK
  <2> QED
    BY <1>t, <1>r, <1>s, <2>2 DEF BucketTypeOK
<1>2. Credit'
  <2> SUFFICES ASSUME NEW i \in 1..Len(grants)
               PROVE  (Len(grants) - i + 1) * Cost + Refilled
                        <= Capacity + (clock - grants[i]) * Rate
    BY <1>s DEF Credit
  <2>1. (Len(grants) - i + 1) * Cost + tokens
            <= Capacity + (last_refill - grants[i]) * Rate
    BY DEF BucketInv, Credit
  <2>2. /\ grants[i] \in Nat /\ last_refill \in Nat /\ clock \in Nat /\ tokens \in Nat
        /\ Len(grants) \in Nat
    BY <1>t DEF BucketTypeOK
  <2>3. (last_refill - grants[i]) * Rate + (clock - last_refill) * Rate
            = (clock - grants[i]) * Rate
    BY <2>2
  <2>4. /\ (Len(grants) - i + 1) * Cost \in Int
        /\ (last_refill - grants[i]) * Rate \in Int
        /\ (clock - last_refill) * Rate \in Int
    BY <2>2
  <2> DEFINE spent  == (Len(grants) - i + 1) * Cost
             credit == (last_refill - grants[i]) * Rate
             added  == (clock - last_refill) * Rate
  <2>5. /\ spent \in Int /\ credit \in Int /\ added \in Int
        /\ spent + tokens <= Capacity + credit
        /\ Refilled <= tokens + added
    BY <1>r, <2>1, <2>4
  <2>6. credit + added = (clock - grants[i]) * Rate
    BY <2>3
  <2> HIDE DEF spent, credit, added
  <2>7. spent + Refilled <= Capacity + (credit + added)
    BY <1>r, <2>2, <2>5
  <2> QED
    BY <2>6, <2>7 DEF spent
<1>3. WindowBound'
  BY DEF BucketInv, WindowBound
<1>4. NothingLost'
  <2>1. CASE Refilled = Capacity
    BY <2>1, <1>s DEF NothingLost
  <2>2. CASE Refilled # Capacity
    <3>1. Refilled = tokens + (clock - last_refill) * Rate
      BY <1>r, <2>2
    <3>2. clock - last_refill \in Nat /\ tokens \in 0..Capacity /\ Len(grants) \in Nat
      BY <1>t DEF BucketTypeOK
    <3>3. (clock - last_refill) * Rate \in Nat
      BY <3>2
    <3>4. tokens # Capacity
      BY <1>r, <2>2, <3>1, <3>2, <3>3
    <3>5. grants # <<>> /\ tokens >= (last_refill - grants[Len(grants)]) * Rate
      BY <3>4 DEF BucketInv, NothingLost
    <3>6. grants[Len(grants)] \in Nat /\ last_refill \in Nat /\ clock \in Nat
      BY <1>t, <3>5 DEF BucketTypeOK
    <3>7. (last_refill - grants[Len(grants)]) * Rate + (clock - last_refill) * Rate
            = (clock - grants[Len(grants)]) * Rate
      BY <3>6
    <3>8. (last_refill - grants[Len(grants)]) * Rate \in Int
      BY <3>6
    <3>9. Refilled >= (clock - grants[Len(grants)]) * Rate
      BY <3>1, <3>2, <3>3, <3>5, <3>7, <3>8
    <3> QED
      BY <1>s, <3>5, <3>9 DEF NothingLost
  <2> QED
    BY <2>1, <2>2
<1> QED
  BY <1>1, <1>2, <1>3, <1>4 DEF BucketInv

LEMMA AdmitOK == ASSUME BucketInv, Admit PROVE BucketInv'
<1> USE BucketAssumption
<1>t. BucketTypeOK
  BY DEF BucketInv
<1>r. /\ Refilled \in 0..Capacity
      /\ Refilled <= tokens + (clock - last_refill) * Rate
  BY <1>t, RefilledFacts
<1>s. /\ tokens' = Refilled - Cost /\ last_refill' = clock /\ clock' = clock
      /\ grants' = Append(grants, clock) /\ Refilled >= Cost
      /\ total_allowed' = total_allowed + 1 /\ total_rejected' = total_rejected
  BY DEF Admit, Refill
<1> DEFINE n == Len(grants)
<1>n. /\ n \in Nat /\ clock \in Nat /\ last_refill \in 0..clock /\ tokens \in 0..Capacity
      /\ grants \in Seq(Nat)
      /\ \A i \in 1..n : grants[i] \in Nat
  BY <1>t DEF BucketTypeOK
<1>g. /\ Len(grants') = n + 1
      /\ grants'[n + 1] = clock
      /\ \A i \in 1..n : grants'[i] = grants[i]
  BY <1>s, <1>n
<1>1. BucketTypeOK'
  <2>1. 0..last_refill \subseteq 0..clock
    BY <1>n
  <2>2. grants \in Seq(0..clock) /\ clock \in 0..clock
    BY <1>t, <1>n, <2>1 DEF BucketTypeOK
  <2>3. Append(grants, clock) \in Seq(0..clock)
    BY <2>2
  <2>4. tokens' \in 0..Capacity
    BY <1>r, <1>s
  <2> QED
    BY <1>t, <1>s, <1>g, <2>3, <2>4 DEF BucketTypeOK
<1>2. Credit'
  <2> SUFFICES ASSUME NEW i \in 1..(n + 1)
               PROVE  (n + 1 - i + 1) * Cost + tokens'
                        <= Capacity + (clock - grants'[i]) * Rate
    BY <1>s, <1>g DEF Credit
  <2>1. CASE i = n + 1
    <3>1. (n + 1 - i + 1) * Cost = Cost /\ (clock - grants'[i]) * Rate = 0
      BY <2>1, <1>g, <1>n
    <3> QED
      BY <3>1, <1>r, <1>s
  <2>2. CASE i \in 1..n
    <3>1. (n - i + 1) * Cost + tokens <= Capacity + (last_refill - grants[i]) * Rate
      BY <2>2 DEF BucketInv, Credit
    <3>2. grants[i] \in Nat /\ grants'[i] = grants[i]
      BY <2>2, <1>n, <1>g
    <3>3. /\ (last_refill - grants[i]) * Rate + (clock - last_refill) * Rate
                = (clock - grants[i]) * Rate
          /\ (n + 1 - i + 1) * Cost = (n - i + 1) * Cost + Cost
      BY <1>n, <3>2
    <3>4. /\ (n - i + 1) * Cost \in Int
          /\ (last_refill - grants[i]) * Rate \in Int
          /\ (clock - last_refill) * Rate \in Int
      BY <1>n, <3>2
    <3> DEFINE spent  == (n - i + 1) * Cost
               credit == (last_refill - grants[i]) * Rate
               added  == (clock - last_refill) * Rate
    <3>5. /\ spent \in Int /\ credit \in Int /\ added \in Int
          /\ spent + tokens <= Capacity + credit
          /\ Refilled <= tokens + added
      BY <1>r, <3>1, <3>4
    <3>6. credit + added = (clock - grants'[i]) * Rate /\ (n + 1 - i + 1) * Cost = spent + Cost
      BY <3>2, <3>3
    <3> HIDE DEF spent, credit, added
    <3>7. (spent + Cost) + (Refilled - Cost) <= Capacity + (credit + added)
      BY <1>n, <1>r, <3>5
    <3> QED
      BY <1>s, <3>6, <3>7
  <2> QED
    BY <2>1, <2>2, <1>n
<1>3. WindowBound'
  <2> SUFFICES ASSUME NEW i \in 1..(n + 1), NEW j \in i..(n + 1)
               PROVE  (j - i + 1) * Cost <= Capacity + (grants'[j] - grants'[i]) * Rate
    BY <1>g DEF WindowBound
  <2>1. CASE j = n + 1
    <3>1. (n + 1 - i + 1) * Cost + tokens' <= Capacity + (clock - grants'[i]) * Rate
      BY <1>2, <1>s, <1>g DEF Credit
    <3>2. tokens' \in Nat /\ grants'[i] \in Nat
      BY <1>r, <1>s, <1>n, <1>g
    <3>3. (n + 1 - i + 1) * Cost \in Int /\ (clock - grants'[i]) * Rate \in Int
      BY <1>n, <3>2
    <3> QED
      BY <2>1, <1>g, <3>1, <3>2, <3>3
  <2>2. CASE j # n + 1
    <3>1. i \in 1..n /\ j \in i..n
      BY <2>2, <1>n
    <3>2. (j - i + 1) * Cost <= Capacity + (grants[j] - grants[i]) * Rate
      BY <3>1 DEF BucketInv, WindowBound
    <3>3. j \in 1..n
      BY <3>1, <1>n
    <3>4. grants'[i] = grants[i] /\ grants'[j] = grants[j]
      BY <3>1, <3>3, <1>g
    <3> QED
      BY <3>2, <3>4
  <2> QED
    BY <2>1, <2>2
<1>4. NothingLost'
  <2>1. grants' # <<>> /\ last_refill' = clock /\ grants'[Len(grants')] = clock
    BY <1>s, <1>g, <1>n
  <2>2. tokens' >= (clock - clock) * Rate
    BY <1>s, <1>r, <1>n
  <2> QED
    BY <2>1, <2>2 DEF NothingLost
<1> QED
  BY <1>1, <1>2, <1>3, <1>4 DEF BucketInv

LEMMA TickOK == ASSUME BucketInv, Tick PROVE BucketInv'
  BY BucketAssumption
  DEF Tick, BucketInv, BucketTypeOK, Credit, WindowBound, NothingLost

LEMMA BucketNextOK == BucketInv /\ [BucketNext]_bucketVars => BucketInv'
<1> SUFFICES ASSUME BucketInv, [BucketNext]_bucketVars PROVE BucketInv'
  OBVIOUS
<1>1. CASE Admit
  BY <1>1, AdmitOK
<1>2. CASE Reject
  BY <1>2, RefillOK DEF Reject, BucketInv, BucketTypeOK
<1>3. CASE Stats
  BY <1>3, RefillOK DEF Stats, BucketInv, BucketTypeOK
<1>4. CASE Tick
  BY <1>4, TickOK
<1>5. CASE UNCHANGED bucketVars
  BY <1>5 DEF bucketVars, BucketInv, BucketTypeOK, Credit, WindowBound, NothingLost
<1> QED
  BY <1>1, <1>2, <1>3, <1>4, <1>5 DEF BucketNext

(* The inductive invariant holds in every behaviour of the limiter. *)
THEOREM BucketInvariant == BucketSpec => []BucketInv
  BY BucketInitOK, BucketNextOK, PTL DEF BucketSpec

(* The limiter's state keeps its types and its counters agree with its     *)
(* history (TokenBucket of rate_limiter.py).                               *)
THEOREM BucketTypes == BucketSpec => []BucketTypeOK
<1>1. BucketInv => BucketTypeOK
  BY DEF BucketInv
<1> QED
  BY <1>1, BucketInvariant, PTL

(* acquire() never admits more than a full bucket plus the rate, in any    *)
(* window between two grants.                                              *)
THEOREM NoBurstBeyondCapacity == BucketSpec => []WindowBound
<1>1. BucketInv => WindowBound
  BY DEF BucketInv
<1> QED
  BY <1>1, BucketInvariant, PTL

(* acquire() refuses only when a recent grant has not been paid for yet.   *)
THEOREM RefusalsAreJustified == BucketSpec => RefusalJustified
<1> DEFINE A == (total_rejected' # total_rejected /\ Capacity >= Cost)
                  => /\ grants # <<>>
                     /\ (clock - grants[Len(grants)]) * Rate < Cost
<1>1. BucketInv /\ [BucketNext]_bucketVars => [A]_bucketVars
  <2> USE BucketAssumption
  <2> SUFFICES ASSUME BucketInv, BucketNext,
                      total_rejected' # total_rejected, Capacity >= Cost
               PROVE  /\ grants # <<>>
                      /\ (clock - grants[Len(grants)]) * Rate < Cost
    OBVIOUS
  <2>1. Reject
    BY DEF BucketNext, Admit, Stats, Tick
  <2>2. BucketInv'
    BY BucketNextOK
  <2>3. /\ tokens' < Cost /\ tokens' # Capacity /\ last_refill' = clock /\ grants' = grants
        /\ tokens' \in Nat
    BY <2>1, <2>2 DEF Reject, Refill, BucketInv, BucketTypeOK
  <2>4. grants # <<>> /\ tokens' >= (clock - grants[Len(grants)]) * Rate
    BY <2>2, <2>3 DEF BucketInv, NothingLost
  <2>5. grants[Len(grants)] \in Nat /\ clock \in Nat
    BY <2>4 DEF BucketInv, BucketTypeOK
  <2>6. (clock - grants[Len(grants)]) * Rate \in Int
    BY <2>5
  <2> QED
    BY <2>3, <2>4, <2>6
<1> QED
  BY <1>1, BucketInvariant, PTL DEF BucketSpec, RefusalJustified
=============================================================================
