--------------------------- MODULE ClusterProofs ----------------------------
(***************************************************************************)
(* Proofs about Cluster, for any number of workers and any ring.           *)
(***************************************************************************)
EXTENDS Cluster, FiniteSetTheorems, FunctionTheorems, SequenceTheorems,
        WellFoundedInduction, TLAPS

-----------------------------------------------------------------------------
(* Sets of numbers, and what a fold from left to right computes.           *)

(* Induction over the natural numbers, for sets rather than predicates. *)
LEMMA NatInductionSet ==
    ASSUME NEW T, 0 \in T, \A i \in Nat : i \in T => i + 1 \in T
    PROVE  Nat \subseteq T
<1> SUFFICES ASSUME NEW m \in Nat, m \notin T PROVE FALSE
  OBVIOUS
<1> DEFINE Lower == OpToRel(<, Nat)
           Missing == Nat \ T
<1>1. PICK i \in Missing : \A j \in Missing : <<j, i>> \notin Lower
  BY NatLessThanWellFounded, WFMin
<1>2. i \in Nat /\ i # 0 /\ i - 1 \in Nat
  OBVIOUS
<1>3. i - 1 \in Missing
  BY <1>2
<1>4. <<i - 1, i>> \in Lower
  BY <1>2 DEF OpToRel
<1> QED
  BY <1>1, <1>3, <1>4

LEMMA MaxIs ==
    ASSUME NEW s \in SUBSET Int, NEW m \in s, \A i \in s : i <= m
    PROVE  Max(s) = m
<1>1. m \in s /\ \A i \in s : m >= i
  OBVIOUS
<1>2. ASSUME NEW x \in s, \A i \in s : x >= i PROVE x = m
  <2>1. x \in Int /\ m \in Int /\ x >= m /\ m >= x
    BY <1>1, <1>2
  <2> QED
    BY <2>1
<1> QED
  BY <1>1, <1>2, Zenon DEF Max

LEMMA MaxIn ==
    ASSUME NEW n \in Nat, NEW s \in SUBSET (1..n), s # {}
    PROVE  Max(s) \in s /\ \A i \in s : i <= Max(s)
<1> DEFINE T == {m \in Nat : \A r \in SUBSET (1..m) :
                                 r # {} => \E x \in r : \A i \in r : i <= x}
<1>1. 0 \in T
  <2>1. \A r \in SUBSET (1..0) : r = {}
    OBVIOUS
  <2> QED
    BY <2>1
<1>2. ASSUME NEW m \in Nat, m \in T PROVE m + 1 \in T
  <2> SUFFICES ASSUME NEW r \in SUBSET (1..m+1), r # {}
               PROVE  \E x \in r : \A i \in r : i <= x
    OBVIOUS
  <2>1. CASE m + 1 \in r
    BY <2>1
  <2>2. CASE m + 1 \notin r
    <3>1. ASSUME NEW i \in r PROVE i \in 1..m
      BY <2>2, <3>1
    <3>2. r \in SUBSET (1..m)
      BY <3>1
    <3> QED
      BY <3>2, <1>2
  <2> QED
    BY <2>1, <2>2
<1>3. n \in T
  <2> HIDE DEF T
  <2> QED
    BY <1>1, <1>2, NatInductionSet
<1>4. PICK x \in s : \A i \in s : i <= x
  BY <1>3
<1>5. s \in SUBSET Int
  OBVIOUS
<1>6. Max(s) = x
  BY <1>4, <1>5, MaxIs
<1> QED
  BY <1>4, <1>6

(* The tables of what a fold over the indices 1..m gives for each set of   *)
(* indices, the greatest index last.                                       *)
FoldTables(m, V, base, step) ==
    {it \in [SUBSET (1..m) -> V] :
        /\ it[{}] = base
        /\ \A s \in SUBSET (1..m) : s # {} =>
               /\ Max(s) \in 1..m /\ it[s \ {Max(s)}] \in V
               /\ it[s] = step[<<Max(s), it[s \ {Max(s)}]>>]}

(* One more index: a set without it is looked up in the smaller table.     *)
LEMMA FoldTableGrows ==
    ASSUME NEW n \in Nat, NEW V, NEW base \in V, NEW step \in [(1..n) \X V -> V],
           NEW m \in Nat, m + 1 <= n, NEW it \in FoldTables(m, V, base, step)
    PROVE  FoldTables(m + 1, V, base, step) # {}
<1> DEFINE jt == [s \in SUBSET (1..m+1) |->
                     IF m + 1 \in s THEN step[<<m + 1, it[s \ {m + 1}]>>] ELSE it[s]]
<1>1. /\ it \in [SUBSET (1..m) -> V]
      /\ it[{}] = base
      /\ \A s \in SUBSET (1..m) : s # {} =>
             it[s] = step[<<Max(s), it[s \ {Max(s)}]>>]
  BY DEF FoldTables
<1>2. ASSUME NEW s \in SUBSET (1..m+1)
      PROVE  /\ s \ {m + 1} \in SUBSET (1..m)
             /\ m + 1 \notin s => s \in SUBSET (1..m)
  <2>1. ASSUME NEW i \in s, i # m + 1 PROVE i \in 1..m
    BY <2>1
  <2> QED
    BY <2>1
<1>3. jt \in [SUBSET (1..m+1) -> V]
  <2> SUFFICES ASSUME NEW s \in SUBSET (1..m+1)
               PROVE  (IF m + 1 \in s THEN step[<<m + 1, it[s \ {m + 1}]>>] ELSE it[s]) \in V
    OBVIOUS
  <2>1. it[s \ {m + 1}] \in V /\ m + 1 \in 1..n
    BY <1>1, <1>2
  <2>2. step[<<m + 1, it[s \ {m + 1}]>>] \in V
    BY <2>1
  <2> QED
    BY <2>2, <1>1, <1>2
<1>4. jt[{}] = base
  BY <1>1
<1>5. ASSUME NEW s \in SUBSET (1..m+1), s # {}
      PROVE  /\ Max(s) \in 1..m+1 /\ jt[s \ {Max(s)}] \in V
             /\ jt[s] = step[<<Max(s), jt[s \ {Max(s)}]>>]
  <2>1. Max(s) \in s
    <3>1. m + 1 \in Nat
      OBVIOUS
    <3> QED
      BY <1>5, <3>1, MaxIn
  <2>2. s \ {Max(s)} \in SUBSET (1..m+1)
    OBVIOUS
  <2>3. CASE m + 1 \in s
    <3>1. s \in SUBSET Int /\ \A i \in s : i <= m + 1
      OBVIOUS
    <3>2. Max(s) = m + 1
      BY <2>3, <3>1, MaxIs
    <3>3. jt[s \ {m + 1}] = it[s \ {m + 1}]
      BY <2>2, <3>2
    <3> QED
      BY <2>1, <2>2, <2>3, <3>2, <3>3, <1>3
  <2>4. CASE m + 1 \notin s
    <3>1. s \in SUBSET (1..m)
      BY <2>4, <1>2
    <3>2. jt[s] = it[s] /\ jt[s \ {Max(s)}] = it[s \ {Max(s)}]
      BY <2>2, <2>4
    <3>3. jt[s] = step[<<Max(s), jt[s \ {Max(s)}]>>]
      BY <3>1, <3>2, <1>1, <1>5
    <3> HIDE DEF jt
    <3> QED
      BY <2>1, <2>2, <3>3, <1>3
  <2> QED
    BY <2>3, <2>4
<1> HIDE DEF jt
<1>6. jt \in FoldTables(m + 1, V, base, step)
  BY <1>3, <1>4, <1>5 DEF FoldTables
<1> QED
  BY <1>6

LEMMA FoldTableExists ==
    ASSUME NEW n \in Nat, NEW V, NEW base \in V, NEW step \in [(1..n) \X V -> V]
    PROVE  FoldTables(n, V, base, step) # {}
<1> DEFINE T == {m \in Nat : m <= n => FoldTables(m, V, base, step) # {}}
<1>1. 0 \in T
  <2> DEFINE it == [s \in SUBSET (1..0) |-> base]
  <2>1. \A s \in SUBSET (1..0) : s = {}
    OBVIOUS
  <2>2. it \in FoldTables(0, V, base, step)
    BY <2>1 DEF FoldTables
  <2> QED
    BY <2>2
<1>2. ASSUME NEW m \in Nat, m \in T PROVE m + 1 \in T
  <2> SUFFICES ASSUME m + 1 <= n PROVE FoldTables(m + 1, V, base, step) # {}
    OBVIOUS
  <2>1. PICK it \in FoldTables(m, V, base, step) : TRUE
    BY <1>2
  <2> QED
    BY FoldTableGrows
<1>3. n \in T
  <2> HIDE DEF T
  <2> QED
    BY <1>1, <1>2, NatInductionSet
<1> QED
  BY <1>3

LEMMA MaxOfPrefix ==
    ASSUME NEW i \in Nat \ {0}
    PROVE  Max(1..i) = i /\ (1..i) \ {i} = 1..i-1 /\ 1..i # {}
<1>1. 1..i \in SUBSET Int /\ i \in 1..i /\ \A j \in 1..i : j <= i
  OBVIOUS
<1>2. Max(1..i) = i
  BY <1>1, MaxIs
<1>3. (1..i) \ {i} = 1..i-1
  OBVIOUS
<1> QED
  BY <1>1, <1>2, <1>3

(* A function that solves the equations of the fold where its values are   *)
(* of the type, and the intermediate results of the fold.                  *)
FoldSolves(it, n, V, base, step) ==
    /\ it[{}] = base
    /\ \A s \in SUBSET (1..n) : s # {} /\ it[s \ {Max(s)}] \in V =>
           it[s] = step[<<Max(s), it[s \ {Max(s)}]>>]

FoldRuns(it, n, V, base, step) ==
    {acc \in [0..n -> V] : /\ acc[0] = base
                           /\ \A i \in 1..n : acc[i] = step[<<i, acc[i-1]>>]
                           /\ acc[n] = it[1..n]}

(* A fold goes through its indices from the first to the last.             *)
LEMMA FoldRun ==
    ASSUME NEW n \in Nat, NEW V, NEW base \in V, NEW step \in [(1..n) \X V -> V],
           NEW it, FoldSolves(it, n, V, base, step)
    PROVE  FoldRuns(it, n, V, base, step) # {}
<1>0. /\ it[{}] = base
      /\ \A s \in SUBSET (1..n) : s # {} /\ it[s \ {Max(s)}] \in V =>
             it[s] = step[<<Max(s), it[s \ {Max(s)}]>>]
  BY DEF FoldSolves
<1> DEFINE T == {m \in Nat : m <= n => it[1..m] \in V}
           acc == [i \in 0..n |-> it[1..i]]
<1>1. 0 \in T /\ it[1..0] = base
  <2>1. 1..0 = {}
    OBVIOUS
  <2> QED
    BY <2>1, <1>0
<1>2. ASSUME NEW i \in 1..n, it[1..i-1] \in V
      PROVE  it[1..i] = step[<<i, it[1..i-1]>>]
  <2>0. i \in Nat \ {0}
    OBVIOUS
  <2>1. Max(1..i) = i /\ (1..i) \ {i} = 1..i-1 /\ 1..i # {}
    BY <2>0, MaxOfPrefix
  <2>2. 1..i \in SUBSET (1..n)
    OBVIOUS
  <2> QED
    BY <1>0, <1>2, <2>1, <2>2
<1>3. ASSUME NEW m \in Nat, m \in T PROVE m + 1 \in T
  <2> SUFFICES ASSUME m + 1 <= n PROVE it[1..m+1] \in V
    OBVIOUS
  <2>1. it[1..m] \in V /\ m + 1 \in 1..n /\ (m + 1) - 1 = m
    BY <1>3
  <2>2. it[1..m+1] = step[<<m + 1, it[1..m]>>]
    BY <2>1, <1>2
  <2> QED
    BY <2>1, <2>2
<1>4. \A i \in 0..n : it[1..i] \in V
  <2>1. Nat \subseteq T
    <3> HIDE DEF T
    <3> QED
      BY <1>1, <1>3, NatInductionSet
  <2> QED
    BY <2>1
<1>5. acc \in [0..n -> V] /\ acc[0] = base /\ acc[n] = it[1..n]
  BY <1>1, <1>4
<1>6. ASSUME NEW i \in 1..n PROVE acc[i] = step[<<i, acc[i-1]>>]
  <2>1. i \in 0..n /\ i - 1 \in 0..n
    OBVIOUS
  <2> QED
    BY <2>1, <1>2, <1>4
<1>7. acc \in FoldRuns(it, n, V, base, step)
  <2> HIDE DEF acc
  <2> QED
    BY <1>5, <1>6 DEF FoldRuns
<1> QED
  BY <1>7

-----------------------------------------------------------------------------
Vnodes == (0..RingSize-1) \X Nodes

Sorted(r) == \A i, j \in DOMAIN r : i < j => ~Below(r[j], r[i])

SortedRings == {r \in Seq(Vnodes) : Sorted(r)}

LEMMA VnodeFacts ==
    /\ RingSize \in Nat \ {0}
    /\ \A v \in Vnodes : Position(v) \in 0..RingSize-1 /\ Owner(v) \in Nodes
    /\ \A v \in Vnodes : v = <<Position(v), Owner(v)>>
    /\ IdOrder \in [Nodes -> Nat]
    /\ \A m, n \in Nodes : IdOrder[m] = IdOrder[n] => m = n
  BY HashRingAssumption DEF Vnodes, Position, Owner, IsInjective

(* "Not above" is a total order of the virtual nodes. *)
LEMMA BelowOrder ==
    ASSUME NEW v \in Vnodes, NEW w \in Vnodes, NEW x \in Vnodes
    PROVE  /\ ~Below(v, v)
           /\ Below(v, w) => ~Below(w, v)
           /\ ~Below(w, v) /\ ~Below(x, w) => ~Below(x, v)
<1>1. /\ Position(v) \in Int /\ Position(w) \in Int /\ Position(x) \in Int
      /\ IdOrder[Owner(v)] \in Int /\ IdOrder[Owner(w)] \in Int /\ IdOrder[Owner(x)] \in Int
  BY VnodeFacts
<1> QED
  BY <1>1 DEF Below

LEMMA DownwardClosed ==
    ASSUME NEW n \in Nat, NEW S \in SUBSET (1..n), \A i \in S : \A j \in 1..i : j \in S
    PROVE  Cardinality(S) \in 0..n /\ S = 1..Cardinality(S)
<1>1. CASE S = {}
  BY <1>1, FS_EmptySet
<1>2. CASE S # {}
  <2>1. PICK m \in S : \A i \in S : i <= m
    BY <1>2, MaxIn
  <2>2. m \in 1..n
    OBVIOUS
  <2>3. S = 1..m
    <3>1. ASSUME NEW i \in S PROVE i \in 1..m
      BY <2>1, <2>2
    <3>2. ASSUME NEW i \in 1..m PROVE i \in S
      BY <2>1
    <3> QED
      BY <3>1, <3>2
  <2>4. Cardinality(1..m) = m
    BY <2>2, FS_Interval
  <2> QED
    BY <2>2, <2>3, <2>4
<1> QED
  BY <1>1, <1>2

(* u is r with v put in at p. *)
Inserted(u, r, p, v) ==
    /\ Len(u) = Len(r) + 1
    /\ \A i \in 1..Len(r) + 1 :
           u[i] = IF i < p THEN r[i] ELSE IF i = p THEN v ELSE r[i-1]

LEMMA InsertAtFacts ==
    ASSUME NEW V, NEW r \in Seq(V), NEW v \in V, NEW p \in 1..Len(r) + 1
    PROVE  InsertAt(r, p, v) \in Seq(V) /\ Inserted(InsertAt(r, p, v), r, p, v)
<1> DEFINE a == SubSeq(r, 1, p - 1)
           b == SubSeq(r, p, Len(r))
           w == a \o <<v>>
           u == w \o b
<1>0. Len(r) \in Nat /\ p \in Nat /\ 1 <= p /\ p <= Len(r) + 1
  OBVIOUS
<1>1. a \in Seq(V) /\ Len(a) = p - 1 /\ \A i \in 1..p-1 : a[i] = r[i]
  BY <1>0
<1>2. b \in Seq(V) /\ Len(b) = Len(r) + 1 - p /\ \A i \in 1..Len(r) + 1 - p : b[i] = r[i + p - 1]
  BY <1>0
<1> HIDE DEF a, b
<1>3. w \in Seq(V) /\ Len(w) = p /\ \A i \in 1..p : w[i] = IF i < p THEN r[i] ELSE v
  BY <1>0, <1>1
<1> HIDE DEF w
<1>4. /\ u \in Seq(V) /\ Len(u) = Len(w) + Len(b)
      /\ \A i \in 1..Len(w) + Len(b) : u[i] = IF i <= Len(w) THEN w[i] ELSE b[i - Len(w)]
  BY <1>2, <1>3, ConcatProperties
<1>5. Len(w) + Len(b) = Len(r) + 1
  BY <1>0, <1>2, <1>3
<1>6. ASSUME NEW i \in 1..Len(r) + 1
      PROVE  u[i] = IF i < p THEN r[i] ELSE IF i = p THEN v ELSE r[i-1]
  <2>1. CASE i <= p
    BY <2>1, <1>0, <1>3, <1>4, <1>5
  <2>2. CASE p < i
    <3>1. i - p \in 1..Len(r) + 1 - p /\ (i - p) + p - 1 = i - 1
      BY <2>2, <1>0
    <3>2. u[i] = b[i - p]
      BY <2>2, <1>0, <1>3, <1>4, <1>5
    <3> QED
      BY <2>2, <3>1, <3>2, <1>2
  <2>3. i <= p \/ p < i
    BY <1>0
  <2> QED
    BY <2>1, <2>2, <2>3
<1>7. u = InsertAt(r, p, v)
  BY DEF InsertAt, a, b, w
<1> HIDE DEF u
<1> QED
  BY <1>4, <1>5, <1>6, <1>7 DEF Inserted

LEMMA InsortOK ==
    ASSUME NEW r \in SortedRings, NEW v \in Vnodes
    PROVE  Insort(r, v) \in SortedRings /\ Range(Insort(r, v)) = Range(r) \cup {v}
<1> DEFINE S == {i \in DOMAIN r : ~Below(v, r[i])}
           c == Cardinality(S)
           u == Insort(r, v)
<1>1. r \in Seq(Vnodes) /\ DOMAIN r = 1..Len(r) /\ Len(r) \in Nat /\ Sorted(r)
  BY DEF SortedRings
<1>2. \A i \in 1..Len(r) : r[i] \in Vnodes
  BY <1>1
<1>3. c \in 0..Len(r) /\ S = 1..c
  <2>1. ASSUME NEW i \in S, NEW j \in 1..i PROVE j \in S
    <3>1. i \in 1..Len(r) /\ j \in 1..Len(r)
      BY <1>1
    <3>2. ~Below(v, r[i]) /\ ~Below(r[i], r[j])
      BY <3>1, <1>1, <1>2, BelowOrder DEF Sorted
    <3> QED
      BY <3>1, <3>2, <1>1, <1>2, BelowOrder
  <2>2. S \in SUBSET (1..Len(r))
    BY <1>1
  <2> HIDE DEF S
  <2> QED
    BY <1>1, <2>1, <2>2, DownwardClosed
<1>4. u = InsertAt(r, 1 + c, v)
  BY DEF Insort
<1> HIDE DEF c, u
<1>5. /\ u \in Seq(Vnodes) /\ Len(u) = Len(r) + 1
      /\ \A i \in 1..Len(r) + 1 : u[i] =
             IF i <= c THEN r[i] ELSE IF i = c + 1 THEN v ELSE r[i-1]
  <2> DEFINE p == 1 + c
  <2>1. p \in 1..Len(r) + 1 /\ u = InsertAt(r, p, v)
    BY <1>1, <1>3, <1>4
  <2> HIDE DEF p
  <2>2. u \in Seq(Vnodes) /\ Inserted(u, r, p, v)
    BY <1>1, <2>1, InsertAtFacts
  <2> QED
    BY <1>1, <1>3, <2>2 DEF p, Inserted
<1>6. \A i \in 1..Len(r) : i <= c <=> ~Below(v, r[i])
  BY <1>1, <1>3
<1>7. Sorted(u)
  <2> SUFFICES ASSUME NEW i \in 1..Len(r) + 1, NEW j \in 1..Len(r) + 1, i < j
               PROVE  ~Below(u[j], u[i])
    BY <1>1, <1>5 DEF Sorted
  <2>1. CASE j = c + 1
    BY <2>1, <1>1, <1>3, <1>5, <1>6
  <2>2. CASE i = c + 1
    <3>1. u[i] = v /\ u[j] = r[j-1] /\ j-1 \in 1..Len(r) /\ ~(j-1 <= c)
      BY <2>2, <1>1, <1>3, <1>5
    <3> QED
      BY <3>1, <1>2, <1>6, BelowOrder
  <2>3. CASE i # c + 1 /\ j # c + 1
    <3> DEFINE before(x) == IF x <= c THEN x ELSE x - 1
    <3>1. /\ before(i) \in 1..Len(r) /\ before(j) \in 1..Len(r) /\ before(i) < before(j)
          /\ u[i] = r[before(i)] /\ u[j] = r[before(j)]
      BY <2>3, <1>1, <1>3, <1>5
    <3> HIDE DEF before
    <3> QED
      BY <3>1, <1>1 DEF Sorted
  <2> QED
    BY <2>1, <2>2, <2>3
<1>8. Range(u) = Range(r) \cup {v}
  <2>1. ASSUME NEW i \in 1..Len(u) PROVE u[i] \in Range(r) \cup {v}
    BY <1>1, <1>3, <1>5 DEF Range
  <2>2. v = u[c+1] /\ c + 1 \in 1..Len(u)
    BY <1>1, <1>3, <1>5
  <2>3. ASSUME NEW i \in 1..Len(r) PROVE \E j \in 1..Len(u) : u[j] = r[i]
    <3>1. CASE i <= c
      BY <3>1, <1>1, <1>3, <1>5
    <3>2. CASE ~(i <= c)
      <4>1. i + 1 \in 1..Len(u) /\ u[i+1] = r[i]
        BY <3>2, <1>1, <1>3, <1>5
      <4> QED
        BY <4>1
    <3> QED
      BY <3>1, <3>2
  <2>4. DOMAIN u = 1..Len(u)
    BY <1>5
  <2> QED
    BY <2>1, <2>2, <2>3, <2>4, <1>1 DEF Range
<1> QED
  BY <1>5, <1>7, <1>8 DEF SortedRings, u

(* add_node() inserts the virtual nodes one after the other. *)
LEMMA WithNodeFold ==
    ASSUME NEW n \in Nodes, NEW r \in SortedRings
    PROVE  \E acc \in [0..Len(VnodeHash[n]) -> SortedRings] :
               /\ acc[0] = r
               /\ \A i \in 1..Len(VnodeHash[n]) : acc[i] = Insort(acc[i-1], <<VnodeHash[n][i], n>>)
               /\ acc[Len(VnodeHash[n])] = WithNode(r, n)
<1> DEFINE q == VnodeHash[n]
           L == Len(q)
           D == SUBSET (1..L)
           V == SortedRings
           step == [x \in (1..L) \X V |-> Insort(x[2], <<q[x[1]], n>>)]
           Iterate(f, s) == Insort(f[s \ {Max(s)}], <<q[Max(s)], n>>)
           iter == CHOOSE f : f = [s \in D |-> IF s = {} THEN r ELSE Iterate(f, s)]
<1>1. L \in Nat /\ DOMAIN q = 1..L /\ \A i \in 1..L : <<q[i], n>> \in Vnodes
  BY HashRingAssumption DEF Vnodes
<1>2. WithNode(r, n) = iter[1..L]
  BY <1>1 DEF WithNode, FoldLeft, MapThenFoldSet
<1>3. step \in [(1..L) \X V -> V]
  BY <1>1, InsortOK
<1>4. \A i \in 1..L, s \in V : step[<<i, s>>] = Insort(s, <<q[i], n>>)
  OBVIOUS
<1> HIDE DEF step, L
<1>5. PICK it \in FoldTables(L, V, r, step) : TRUE
  BY <1>1, <1>3, FoldTableExists
<1>6. it = [s \in D |-> IF s = {} THEN r ELSE Iterate(it, s)]
  <2>1. /\ it \in [D -> V] /\ it[{}] = r
        /\ \A s \in D : s # {} => /\ Max(s) \in 1..L /\ it[s \ {Max(s)}] \in V
                                  /\ it[s] = step[<<Max(s), it[s \ {Max(s)}]>>]
    BY DEF FoldTables
  <2>2. ASSUME NEW s \in D, s # {} PROVE it[s] = Iterate(it, s)
    BY <2>1, <2>2, <1>4
  <2> QED
    BY <2>1, <2>2
<1>7. iter = [s \in D |-> IF s = {} THEN r ELSE Iterate(iter, s)]
  BY <1>6
<1> HIDE DEF iter
<1>8. iter[{}] = r /\ \A s \in D : s # {} => iter[s] = Iterate(iter, s)
  BY <1>7
<1>9. FoldSolves(iter, L, V, r, step)
  <2>1. ASSUME NEW s \in D, s # {}, iter[s \ {Max(s)}] \in V
        PROVE  iter[s] = step[<<Max(s), iter[s \ {Max(s)}]>>]
    <3>1. Max(s) \in 1..L
      BY <1>1, <2>1, MaxIn
    <3> QED
      BY <1>4, <1>8, <2>1, <3>1
  <2> QED
    BY <1>8, <2>1 DEF FoldSolves
<1>10. PICK acc \in FoldRuns(iter, L, V, r, step) : TRUE
  BY <1>1, <1>3, <1>9, FoldRun
<1>11. /\ acc \in [0..L -> V] /\ acc[0] = r /\ acc[L] = iter[1..L]
       /\ \A i \in 1..L : acc[i] = step[<<i, acc[i-1]>>]
  BY DEF FoldRuns
<1>12. ASSUME NEW i \in 1..L PROVE acc[i] = Insort(acc[i-1], <<q[i], n>>)
  <2>1. i - 1 \in 0..L
    BY <1>1
  <2>2. acc[i-1] \in V
    BY <2>1, <1>11
  <2> QED
    BY <2>2, <1>4, <1>11
<1> QED
  BY <1>2, <1>11, <1>12 DEF L

LEMMA WithNodeOK ==
    ASSUME NEW n \in Nodes, NEW r \in SortedRings
    PROVE  /\ WithNode(r, n) \in SortedRings
           /\ Range(WithNode(r, n)) = Range(r) \cup (Range(VnodeHash[n]) \X {n})
<1> DEFINE q == VnodeHash[n]
           L == Len(q)
<1>1. L \in Nat /\ DOMAIN q = 1..L /\ \A i \in 1..L : <<q[i], n>> \in Vnodes
  BY HashRingAssumption DEF Vnodes
<1>2. PICK acc \in [0..L -> SortedRings] :
          /\ acc[0] = r
          /\ \A i \in 1..L : acc[i] = Insort(acc[i-1], <<q[i], n>>)
          /\ acc[L] = WithNode(r, n)
  BY WithNodeFold
<1> DEFINE T == {m \in Nat : m <= L =>
                     Range(acc[m]) = Range(r) \cup {<<q[i], n>> : i \in 1..m}}
<1> HIDE DEF L
<1>3. 0 \in T
  BY <1>2
<1>4. ASSUME NEW m \in Nat, m \in T PROVE m + 1 \in T
  <2> SUFFICES ASSUME m + 1 <= L
               PROVE  Range(acc[m+1]) = Range(r) \cup {<<q[i], n>> : i \in 1..m+1}
    OBVIOUS
  <2>1. m + 1 \in 1..L /\ (m + 1) - 1 = m /\ m \in 0..L /\ m <= L
    BY <1>1
  <2>2. acc[m+1] = Insort(acc[m], <<q[m+1], n>>) /\ acc[m] \in SortedRings
    BY <2>1, <1>2
  <2>3. Range(acc[m+1]) = Range(acc[m]) \cup {<<q[m+1], n>>}
    BY <2>1, <2>2, <1>1, InsortOK
  <2>4. 1..m+1 = (1..m) \cup {m+1}
    OBVIOUS
  <2> QED
    BY <2>1, <2>3, <2>4, <1>4
<1>5. L \in T
  <2> HIDE DEF T
  <2> QED
    BY <1>1, <1>3, <1>4, NatInductionSet
<1>6. {<<q[i], n>> : i \in 1..L} = Range(q) \X {n}
  BY <1>1 DEF Range
<1>7. L \in 0..L
  BY <1>1
<1> QED
  BY <1>1, <1>2, <1>5, <1>6, <1>7

(* remove_node() keeps the others, in their order. *)
Keeps(n, v) == Owner(v) # n \/ Position(v) \notin Range(VnodeHash[n])

LEMMA WithoutNodeFold ==
    ASSUME NEW n, NEW r \in Seq(Vnodes)
    PROVE  \E acc \in [0..Len(r) -> Seq(Vnodes)] :
               /\ acc[0] = <<>>
               /\ \A i \in 1..Len(r) :
                      acc[i] = IF Keeps(n, r[i]) THEN Append(acc[i-1], r[i]) ELSE acc[i-1]
               /\ acc[Len(r)] = WithoutNode(r, n)
<1> DEFINE L == Len(r)
           V == Seq(Vnodes)
           D == SUBSET (1..L)
           step == [x \in (1..L) \X V |-> IF Keeps(n, r[x[1]]) THEN Append(x[2], r[x[1]]) ELSE x[2]]
           Iterate(f, s) == IF Keeps(n, r[Max(s)]) THEN Append(f[s \ {Max(s)}], r[Max(s)]) ELSE f[s \ {Max(s)}]
           iter == CHOOSE f : f = [s \in D |-> IF s = {} THEN <<>> ELSE Iterate(f, s)]
<1>1. L \in Nat /\ DOMAIN r = 1..L /\ \A i \in 1..L : r[i] \in Vnodes
  OBVIOUS
<1>2. WithoutNode(r, n) = iter[1..L]
  BY <1>1 DEF WithoutNode, FoldLeft, MapThenFoldSet, Keeps
<1>3. <<>> \in V /\ step \in [(1..L) \X V -> V]
  BY <1>1
<1>4. \A i \in 1..L, s \in V : step[<<i, s>>] = IF Keeps(n, r[i]) THEN Append(s, r[i]) ELSE s
  OBVIOUS
<1> HIDE DEF step, L, V
<1>5. PICK it \in FoldTables(L, V, <<>>, step) : TRUE
  BY <1>1, <1>3, FoldTableExists
<1>6. it = [s \in D |-> IF s = {} THEN <<>> ELSE Iterate(it, s)]
  <2>1. /\ it \in [D -> V] /\ it[{}] = <<>>
        /\ \A s \in D : s # {} => /\ Max(s) \in 1..L /\ it[s \ {Max(s)}] \in V
                                  /\ it[s] = step[<<Max(s), it[s \ {Max(s)}]>>]
    BY DEF FoldTables
  <2>2. ASSUME NEW s \in D, s # {} PROVE it[s] = Iterate(it, s)
    BY <2>1, <2>2, <1>4
  <2> QED
    BY <2>1, <2>2
<1>7. iter = [s \in D |-> IF s = {} THEN <<>> ELSE Iterate(iter, s)]
  BY <1>6
<1> HIDE DEF iter
<1>8. iter[{}] = <<>> /\ \A s \in D : s # {} => iter[s] = Iterate(iter, s)
  BY <1>7
<1>9. FoldSolves(iter, L, V, <<>>, step)
  <2>1. ASSUME NEW s \in D, s # {}, iter[s \ {Max(s)}] \in V
        PROVE  iter[s] = step[<<Max(s), iter[s \ {Max(s)}]>>]
    <3>1. Max(s) \in 1..L
      BY <1>1, <2>1, MaxIn
    <3> QED
      BY <1>4, <1>8, <2>1, <3>1
  <2> QED
    BY <1>8, <2>1 DEF FoldSolves
<1>10. PICK acc \in FoldRuns(iter, L, V, <<>>, step) : TRUE
  BY <1>1, <1>3, <1>9, FoldRun
<1>11. /\ acc \in [0..L -> V] /\ acc[0] = <<>> /\ acc[L] = iter[1..L]
       /\ \A i \in 1..L : acc[i] = step[<<i, acc[i-1]>>]
  BY DEF FoldRuns
<1>12. ASSUME NEW i \in 1..L PROVE acc[i] = IF Keeps(n, r[i]) THEN Append(acc[i-1], r[i]) ELSE acc[i-1]
  <2>1. i - 1 \in 0..L
    BY <1>1
  <2>2. acc[i-1] \in V
    BY <2>1, <1>11
  <2> QED
    BY <2>2, <1>4, <1>11
<1> QED
  BY <1>2, <1>11, <1>12 DEF L, V

LEMMA WithoutNodeOK ==
    ASSUME NEW n, NEW r \in SortedRings
    PROVE  /\ WithoutNode(r, n) \in SortedRings
           /\ Range(WithoutNode(r, n)) = {v \in Range(r) : Keeps(n, v)}
<1> DEFINE L == Len(r)
           Kept(m) == {v \in {r[i] : i \in 1..m} : Keeps(n, v)}
<1>1. /\ r \in Seq(Vnodes) /\ L \in Nat /\ DOMAIN r = 1..L /\ \A i \in 1..L : r[i] \in Vnodes
      /\ \A i, j \in 1..L : i < j => ~Below(r[j], r[i])
  BY DEF SortedRings, Sorted
<1>2. PICK acc \in [0..L -> Seq(Vnodes)] :
          /\ acc[0] = <<>>
          /\ \A i \in 1..L :
                 acc[i] = IF Keeps(n, r[i]) THEN Append(acc[i-1], r[i]) ELSE acc[i-1]
          /\ acc[L] = WithoutNode(r, n)
  BY <1>1, WithoutNodeFold
<1> DEFINE T == {m \in Nat : m <= L => Range(acc[m]) = Kept(m) /\ Sorted(acc[m])}
<1> HIDE DEF L
<1>3. 0 \in T
  BY <1>2 DEF Range, Sorted
<1>4. ASSUME NEW m \in Nat, m \in T PROVE m + 1 \in T
  <2> SUFFICES ASSUME m + 1 <= L
               PROVE  Range(acc[m+1]) = Kept(m+1) /\ Sorted(acc[m+1])
    OBVIOUS
  <2> DEFINE s == acc[m]
             v == r[m+1]
  <2>1. m + 1 \in 1..L /\ (m + 1) - 1 = m /\ m \in 0..L /\ m <= L
    BY <1>1
  <2>2. acc[m+1] = IF Keeps(n, v) THEN Append(s, v) ELSE s
    BY <2>1, <1>2
  <2>3. s \in Seq(Vnodes) /\ v \in Vnodes /\ Range(s) = Kept(m) /\ Sorted(s)
    BY <2>1, <1>1, <1>4, <1>2
  <2>4. Kept(m+1) = IF Keeps(n, v) THEN Kept(m) \cup {v} ELSE Kept(m)
    <3>1. 1..m+1 = (1..m) \cup {m+1}
      OBVIOUS
    <3> QED
      BY <3>1
  <2>5. \A x \in Range(s) : ~Below(v, x)
    <3> SUFFICES ASSUME NEW x \in Kept(m) PROVE ~Below(v, x)
      BY <2>3
    <3>1. PICK i \in 1..m : x = r[i]
      OBVIOUS
    <3>2. i \in 1..L /\ i < m + 1
      BY <2>1, <1>1
    <3> QED
      BY <3>1, <3>2, <2>1, <1>1
  <2> HIDE DEF s, v, Kept
  <2>6. CASE Keeps(n, v)
    <3> DEFINE t == Append(s, v)
    <3>1. /\ t \in Seq(Vnodes) /\ Len(t) = Len(s) + 1 /\ Len(s) \in Nat /\ DOMAIN s = 1..Len(s)
          /\ DOMAIN t = 1..Len(s) + 1
          /\ \A i \in 1..Len(s) : t[i] = s[i] /\ t[i] \in Range(s)
          /\ t[Len(s) + 1] = v
      BY <2>3 DEF Range
    <3> HIDE DEF t
    <3>2. Sorted(t)
      <4> SUFFICES ASSUME NEW i \in 1..Len(s) + 1, NEW j \in 1..Len(s) + 1, i < j
                   PROVE  ~Below(t[j], t[i])
        BY <3>1 DEF Sorted
      <4>1. i \in 1..Len(s)
        BY <3>1
      <4>2. CASE j = Len(s) + 1
        BY <4>1, <4>2, <3>1, <2>5
      <4>3. CASE j # Len(s) + 1
        <5>1. j \in 1..Len(s)
          BY <4>3, <3>1
        <5> QED
          BY <5>1, <4>1, <3>1, <2>3 DEF Sorted
      <4> QED
        BY <4>2, <4>3
    <3>3. Range(t) = Range(s) \cup {v}
      BY <3>1 DEF Range
    <3> QED
      BY <3>2, <3>3, <2>2, <2>3, <2>4, <2>6 DEF t
  <2>7. CASE ~Keeps(n, v)
    BY <2>2, <2>3, <2>4, <2>7
  <2> QED
    BY <2>6, <2>7
<1>5. L \in T
  <2> HIDE DEF T
  <2> QED
    BY <1>1, <1>3, <1>4, NatInductionSet
<1>6. {r[i] : i \in 1..L} = Range(r)
  BY <1>1 DEF Range
<1>7. L \in 0..L
  BY <1>1
<1> QED
  BY <1>1, <1>2, <1>5, <1>6, <1>7 DEF SortedRings

-----------------------------------------------------------------------------
(* Lookups. *)

(* The virtual nodes of a set of nodes. *)
VnodesOf(M) == UNION {Range(VnodeHash[n]) \X {n} : n \in M}

(* The ring is sorted and has the virtual nodes of its members. *)
RingOK ==
    /\ members \subseteq Nodes
    /\ ring \in SortedRings
    /\ Range(ring) = VnodesOf(members)

(* bisect_left: how many virtual nodes are below the key. *)
Index(k) == Cardinality({j \in DOMAIN ring : Position(ring[j]) < KeyHash[k]})

LEMMA RingFacts ==
    ASSUME RingOK
    PROVE  /\ ring \in Seq(Vnodes) /\ Len(ring) \in Nat /\ DOMAIN ring = 1..Len(ring)
           /\ \A i \in 1..Len(ring) : /\ ring[i] \in Vnodes
                                      /\ Position(ring[i]) \in 0..RingSize-1
                                      /\ Owner(ring[i]) \in members
                                      /\ Position(ring[i]) \in Range(VnodeHash[Owner(ring[i])])
           /\ \A n \in members : \A p \in Range(VnodeHash[n]) : \E i \in 1..Len(ring) : ring[i] = <<p, n>>
           /\ \A i, j \in 1..Len(ring) : i < j => ~Below(ring[j], ring[i])
<1>1. ring \in Seq(Vnodes) /\ Len(ring) \in Nat /\ DOMAIN ring = 1..Len(ring)
  BY DEF RingOK, SortedRings
<1>2. \A i, j \in 1..Len(ring) : i < j => ~Below(ring[j], ring[i])
  BY <1>1 DEF RingOK, SortedRings, Sorted
<1>3. ASSUME NEW i \in 1..Len(ring)
      PROVE  /\ ring[i] \in Vnodes /\ Position(ring[i]) \in 0..RingSize-1
             /\ Owner(ring[i]) \in members
             /\ Position(ring[i]) \in Range(VnodeHash[Owner(ring[i])])
  <2>1. ring[i] \in Vnodes /\ ring[i] \in Range(ring)
    BY <1>1 DEF Range
  <2>2. PICK n \in members : ring[i] \in Range(VnodeHash[n]) \X {n}
    BY <2>1 DEF RingOK, VnodesOf
  <2> QED
    BY <2>1, <2>2, VnodeFacts DEF Position, Owner
<1>4. ASSUME NEW n \in members, NEW p \in Range(VnodeHash[n])
      PROVE  \E i \in 1..Len(ring) : ring[i] = <<p, n>>
  <2>1. <<p, n>> \in Range(ring)
    BY DEF RingOK, VnodesOf
  <2> QED
    BY <2>1, <1>1 DEF Range
<1> QED
  BY <1>1, <1>2, <1>3, <1>4

LEMMA IndexFacts ==
    ASSUME RingOK, NEW k \in Keys
    PROVE  /\ Index(k) \in 0..Len(ring)
           /\ \A j \in 1..Len(ring) : j <= Index(k) <=> Position(ring[j]) < KeyHash[k]
<1> DEFINE S == {j \in DOMAIN ring : Position(ring[j]) < KeyHash[k]}
<1>1. KeyHash[k] \in Int
  BY HashRingAssumption
<1>2. ASSUME NEW i \in S, NEW j \in 1..i PROVE j \in S
  <2>1. /\ i \in 1..Len(ring) /\ j \in 1..Len(ring) /\ (i = j \/ j < i)
        /\ Position(ring[i]) \in Int /\ Position(ring[j]) \in Int
    BY RingFacts
  <2>2. Position(ring[j]) <= Position(ring[i])
    BY <2>1, RingFacts DEF Below
  <2> QED
    BY <1>1, <2>1, <2>2, RingFacts
<1>3. S \in SUBSET (1..Len(ring)) /\ Len(ring) \in Nat
  BY RingFacts
<1>4. Cardinality(S) \in 0..Len(ring) /\ S = 1..Cardinality(S)
  <2> HIDE DEF S
  <2> QED
    BY <1>2, <1>3, DownwardClosed
<1> QED
  BY <1>3, <1>4, RingFacts DEF Index

(* Where the i-th slot is: the ring wraps around at most once. *)
Wrapped(k, i) == IF Index(k) + i < Len(ring) THEN Index(k) + i + 1
                                             ELSE Index(k) + i + 1 - Len(ring)

LEMMA SlotFacts ==
    ASSUME RingOK, NEW k \in Keys, NEW i \in 0..Len(ring)-1
    PROVE  Wrapped(k, i) \in 1..Len(ring) /\ Slot(k, i) = ring[Wrapped(k, i)]
<1>1. Len(ring) \in Nat \ {0} /\ Index(k) \in 0..Len(ring)
  BY RingFacts, IndexFacts
<1>2. (Index(k) + i) % Len(ring) = IF Index(k) + i < Len(ring) THEN Index(k) + i
                                   ELSE Index(k) + i - Len(ring)
  <2> DEFINE L == Len(ring)
             x == Index(k) + i
  <2>1. L \in Nat \ {0} /\ x \in 0..2*L-1
    BY <1>1
  <2> HIDE DEF L, x
  <2>2. x % L = IF x < L THEN x ELSE x - L
    BY <2>1
  <2> QED
    BY <1>1, <2>2 DEF L, x
<1>3. Wrapped(k, i) \in 1..Len(ring)
  BY <1>1 DEF Wrapped
<1>4. Slot(k, i) = ring[((Index(k) + i) % Len(ring)) + 1]
  BY DEF Slot, Index
<1> QED
  BY <1>1, <1>2, <1>3, <1>4 DEF Wrapped

(* Every place of the ring is a slot. *)
LEMMA SlotExists ==
    ASSUME RingOK, NEW k \in Keys, NEW j \in 1..Len(ring)
    PROVE  \E i \in 0..Len(ring)-1 : Slot(k, i) = ring[j]
<1>1. Len(ring) \in Nat /\ Index(k) \in 0..Len(ring)
  BY RingFacts, IndexFacts
<1> DEFINE i == IF Index(k) < j THEN j - 1 - Index(k) ELSE j - 1 - Index(k) + Len(ring)
<1>2. i \in 0..Len(ring)-1
  BY <1>1
<1>3. Wrapped(k, i) = j
  BY <1>1 DEF Wrapped
<1> HIDE DEF i
<1> QED
  BY <1>2, <1>3, SlotFacts

Clockwise(k, p) == (p - KeyHash[k]) % RingSize

LEMMA ClockwiseFacts ==
    ASSUME NEW k \in Keys, NEW p \in 0..RingSize-1
    PROVE  /\ KeyHash[k] \in 0..RingSize-1
           /\ Clockwise(k, p) = IF p < KeyHash[k] THEN p - KeyHash[k] + RingSize ELSE p - KeyHash[k]
<1>1. RingSize \in Nat \ {0} /\ KeyHash[k] \in 0..RingSize-1
  BY HashRingAssumption
<1>2. CASE p < KeyHash[k]
  <2> DEFINE x == p - KeyHash[k]
  <2>1. x \in Int /\ -RingSize <= x /\ x < 0
    BY <1>1, <1>2
  <2> HIDE DEF x
  <2>2. x % RingSize = x + RingSize
    BY <2>1, <1>1
  <2> QED
    BY <2>2, <1>1, <1>2 DEF x, Clockwise
<1>3. CASE ~(p < KeyHash[k])
  <2> DEFINE x == p - KeyHash[k]
  <2>1. x \in 0..RingSize-1
    BY <1>1, <1>3
  <2> HIDE DEF x
  <2>2. x % RingSize = x
    BY <2>1, <1>1
  <2> QED
    BY <2>2, <1>1, <1>3 DEF x, Clockwise
<1> QED
  BY <1>1, <1>2, <1>3

(* The slots are in clockwise order. *)
LEMMA SlotsClockwise ==
    ASSUME RingOK, NEW k \in Keys,
           NEW i \in 0..Len(ring)-1, NEW j \in 0..Len(ring)-1, i < j
    PROVE  LET p == Position(Slot(k, i))
               q == Position(Slot(k, j))
           IN  \/ Clockwise(k, p) < Clockwise(k, q)
               \/ p = q /\ IdOrder[Owner(Slot(k, i))] <= IdOrder[Owner(Slot(k, j))]
<1> DEFINE x == Wrapped(k, i)
           y == Wrapped(k, j)
           v == ring[x]
           w == ring[y]
           h == KeyHash[k]
<1>1. /\ Len(ring) \in Nat /\ Index(k) \in 0..Len(ring)
      /\ x \in 1..Len(ring) /\ y \in 1..Len(ring)
      /\ Slot(k, i) = v /\ Slot(k, j) = w
  BY RingFacts, IndexFacts, SlotFacts
<1>2. \/ Index(k) < x /\ x < y
      \/ y <= Index(k) /\ Index(k) < x
      \/ x < y /\ y <= Index(k)
  BY <1>1 DEF Wrapped
<1> HIDE DEF x, y
<1>3. /\ Position(v) \in 0..RingSize-1 /\ Position(w) \in 0..RingSize-1
      /\ IdOrder[Owner(v)] \in Int /\ IdOrder[Owner(w)] \in Int
      /\ h \in 0..RingSize-1 /\ RingSize \in Nat
  BY <1>1, RingFacts, VnodeFacts, ClockwiseFacts
<1>4. /\ x <= Index(k) <=> Position(v) < h
      /\ y <= Index(k) <=> Position(w) < h
  BY <1>1, IndexFacts
<1>5. /\ Clockwise(k, Position(v)) = IF Position(v) < h THEN Position(v) - h + RingSize
                                                        ELSE Position(v) - h
      /\ Clockwise(k, Position(w)) = IF Position(w) < h THEN Position(w) - h + RingSize
                                                        ELSE Position(w) - h
  BY <1>3, ClockwiseFacts
<1>6. x < y => \/ Position(v) < Position(w)
               \/ /\ Position(v) = Position(w)
                  /\ IdOrder[Owner(v)] <= IdOrder[Owner(w)]
  <2>1. x < y => ~Below(w, v)
    BY <1>1, RingFacts
  <2> QED
    BY <2>1, <1>3 DEF Below
<1> HIDE DEF v, w, h
<1> QED
  BY <1>1, <1>2, <1>3, <1>4, <1>5, <1>6

(* The owner of the i-th virtual node that get_nodes_for_key() looks at.    *)
Visited(k, i) == Owner(Slot(k, i - 1))

LEMMA VisitedFacts ==
    ASSUME RingOK, NEW k \in Keys
    PROVE  /\ \A i \in 1..Len(ring) : Visited(k, i) \in members
           /\ \A m \in members : \E i \in 1..Len(ring) : Visited(k, i) = m
<1>1. ASSUME NEW i \in 1..Len(ring) PROVE Visited(k, i) \in members
  <2>1. i - 1 \in 0..Len(ring)-1
    BY RingFacts
  <2>2. Wrapped(k, i-1) \in 1..Len(ring) /\ Slot(k, i-1) = ring[Wrapped(k, i-1)]
    BY <2>1, SlotFacts
  <2> QED
    BY <2>2, RingFacts DEF Visited
<1>2. ASSUME NEW m \in members PROVE \E i \in 1..Len(ring) : Visited(k, i) = m
  <2>1. m \in Nodes /\ VnodeHash[m] \in Seq(0..RingSize-1) \ {<<>>}
    BY HashRingAssumption DEF RingOK
  <2>2. VnodeHash[m][1] \in Range(VnodeHash[m])
    BY <2>1 DEF Range
  <2>3. PICK j \in 1..Len(ring) : ring[j] = <<VnodeHash[m][1], m>>
    BY <2>2, RingFacts
  <2>4. PICK i \in 0..Len(ring)-1 : Slot(k, i) = ring[j]
    BY SlotExists
  <2>5. i + 1 \in 1..Len(ring) /\ (i + 1) - 1 = i
    BY RingFacts
  <2> QED
    BY <2>3, <2>4, <2>5 DEF Visited, Owner
<1> QED
  BY <1>1, <1>2

Full(s, n, node) == Len(s) = n \/ node \in Range(s)

LEMMA NodesForKeyFold ==
    ASSUME RingOK, NEW k \in Keys, NEW n
    PROVE  \E acc \in [0..Len(ring) -> Seq(Nodes)] :
               /\ acc[0] = <<>>
               /\ \A i \in 1..Len(ring) :
                      acc[i] = IF Full(acc[i-1], n, Visited(k, i)) THEN acc[i-1]
                               ELSE Append(acc[i-1], Visited(k, i))
               /\ acc[Len(ring)] = NodesForKey(k, n)
<1> DEFINE L == Len(ring)
           V == Seq(Nodes)
           q == [i \in 1..L |-> i]
           D == SUBSET (1..L)
           step == [x \in (1..L) \X V |-> IF Full(x[2], n, Visited(k, x[1])) THEN x[2] ELSE Append(x[2], Visited(k, x[1]))]
           Iterate(f, s) == IF Full(f[s \ {Max(s)}], n, Visited(k, q[Max(s)])) THEN f[s \ {Max(s)}] ELSE Append(f[s \ {Max(s)}], Visited(k, q[Max(s)]))
           iter == CHOOSE f : f = [s \in D |-> IF s = {} THEN <<>> ELSE Iterate(f, s)]
<1>1. L \in Nat /\ \A i \in 1..L : q[i] = i /\ Visited(k, i) \in Nodes
  BY RingFacts, VisitedFacts DEF RingOK
<1>2. NodesForKey(k, n) = iter[1..L]
  BY DEF NodesForKey, FoldLeft, MapThenFoldSet, Full, Visited
<1>3. <<>> \in V /\ step \in [(1..L) \X V -> V]
  BY <1>1
<1>4. \A i \in 1..L, s \in V : step[<<i, s>>] = IF Full(s, n, Visited(k, i)) THEN s ELSE Append(s, Visited(k, i))
  OBVIOUS
<1> HIDE DEF step, L, V, q
<1>5. PICK it \in FoldTables(L, V, <<>>, step) : TRUE
  BY <1>1, <1>3, FoldTableExists
<1>6. it = [s \in D |-> IF s = {} THEN <<>> ELSE Iterate(it, s)]
  <2>1. /\ it \in [D -> V] /\ it[{}] = <<>>
        /\ \A s \in D : s # {} => /\ Max(s) \in 1..L /\ it[s \ {Max(s)}] \in V
                                  /\ it[s] = step[<<Max(s), it[s \ {Max(s)}]>>]
    BY DEF FoldTables
  <2>2. ASSUME NEW s \in D, s # {} PROVE it[s] = Iterate(it, s)
    BY <2>1, <2>2, <1>1, <1>4
  <2> QED
    BY <2>1, <2>2
<1>7. iter = [s \in D |-> IF s = {} THEN <<>> ELSE Iterate(iter, s)]
  BY <1>6
<1> HIDE DEF iter
<1>8. iter[{}] = <<>> /\ \A s \in D : s # {} => iter[s] = Iterate(iter, s)
  BY <1>7
<1>9. FoldSolves(iter, L, V, <<>>, step)
  <2>1. ASSUME NEW s \in D, s # {}, iter[s \ {Max(s)}] \in V
        PROVE  iter[s] = step[<<Max(s), iter[s \ {Max(s)}]>>]
    <3>1. Max(s) \in 1..L
      BY <1>1, <2>1, MaxIn
    <3> QED
      BY <1>1, <1>4, <1>8, <2>1, <3>1
  <2> QED
    BY <1>8, <2>1 DEF FoldSolves
<1>10. PICK acc \in FoldRuns(iter, L, V, <<>>, step) : TRUE
  BY <1>1, <1>3, <1>9, FoldRun
<1>11. /\ acc \in [0..L -> V] /\ acc[0] = <<>> /\ acc[L] = iter[1..L]
       /\ \A i \in 1..L : acc[i] = step[<<i, acc[i-1]>>]
  BY DEF FoldRuns
<1>12. ASSUME NEW i \in 1..L PROVE acc[i] = IF Full(acc[i-1], n, Visited(k, i)) THEN acc[i-1] ELSE Append(acc[i-1], Visited(k, i))
  <2>1. i - 1 \in 0..L
    BY <1>1
  <2>2. acc[i-1] \in V
    BY <2>1, <1>11
  <2> QED
    BY <2>2, <1>4, <1>11
<1> QED
  BY <1>2, <1>11, <1>12 DEF L, V

(* What the list holds after i virtual nodes: each owner once, in the order *)
(* in which they were met; and all of them, unless it is full.             *)
Collected(s, k, n, i) ==
    /\ s \in Seq(Nodes) /\ Len(s) <= n
    /\ IsInjective(s) /\ Range(s) \subseteq members
    /\ Len(s) = n \/ \A u \in 1..i : Visited(k, u) \in Range(s)
    /\ \A p \in 1..Len(s) : \E t \in 1..i :
           /\ Visited(k, t) = s[p]
           /\ \A u \in 1..t : \E q \in 1..p : s[q] = Visited(k, u)

LEMMA CollectSkip ==
    ASSUME NEW k, NEW n, NEW i \in Nat, NEW s \in Seq(Nodes), Collected(s, k, n, i),
           Full(s, n, Visited(k, i + 1))
    PROVE  Collected(s, k, n, i + 1)
<1>1. 1..i+1 = (1..i) \cup {i+1}
  OBVIOUS
<1>2. Len(s) = n \/ \A u \in 1..i+1 : Visited(k, u) \in Range(s)
  BY <1>1 DEF Collected, Full
<1>3. \A p \in 1..Len(s) : \E t \in 1..i+1 :
          /\ Visited(k, t) = s[p]
          /\ \A u \in 1..t : \E q \in 1..p : s[q] = Visited(k, u)
  BY <1>1 DEF Collected
<1> QED
  BY <1>2, <1>3 DEF Collected

LEMMA CollectAppend ==
    ASSUME NEW k, NEW n \in Nat, NEW i \in Nat, NEW s \in Seq(Nodes), Collected(s, k, n, i),
           NEW v \in members, v \in Nodes, v = Visited(k, i + 1), ~Full(s, n, v)
    PROVE  Collected(Append(s, v), k, n, i + 1)
<1> DEFINE r == Append(s, v)
<1>1. /\ Len(s) \in Nat /\ Len(s) <= n /\ DOMAIN s = 1..Len(s)
      /\ IsInjective(s) /\ Range(s) \subseteq members
  BY DEF Collected
<1>2. Len(s) = n \/ \A u \in 1..i : Visited(k, u) \in Range(s)
  BY DEF Collected
<1>3. \A p \in 1..Len(s) : \E t \in 1..i :
           /\ Visited(k, t) = s[p]
           /\ \A u \in 1..t : \E q \in 1..p : s[q] = Visited(k, u)
  BY DEF Collected
<1>4. 1..i+1 = (1..i) \cup {i+1}
  OBVIOUS
<1>5. Len(s) # n /\ v \notin Range(s)
  BY DEF Full
<1>6. Len(s) + 1 <= n
  <2>1. Len(s) \in Nat /\ Len(s) <= n /\ Len(s) # n
    BY <1>1, <1>5
  <2> QED
    BY <2>1
<1>7. /\ r \in Seq(Nodes) /\ Len(r) = Len(s) + 1 /\ DOMAIN r = 1..Len(s) + 1
      /\ \A p \in 1..Len(s) : r[p] = s[p]
      /\ r[Len(s) + 1] = v
  BY <1>1
<1> HIDE DEF r
<1>8. \A p \in 1..Len(s) : s[p] \in Range(s)
  BY <1>1 DEF Range
<1>9. IsInjective(r)
  <2> SUFFICES ASSUME NEW x \in 1..Len(s) + 1, NEW y \in 1..Len(s) + 1, r[x] = r[y]
               PROVE  x = y
    BY <1>7 DEF IsInjective
  <2>1. x \in 1..Len(s) \/ x = Len(s) + 1
    BY <1>1
  <2>2. y \in 1..Len(s) \/ y = Len(s) + 1
    BY <1>1
  <2>3. CASE x \in 1..Len(s) /\ y \in 1..Len(s)
    BY <2>3, <1>1, <1>7 DEF IsInjective
  <2> QED
    BY <2>1, <2>2, <2>3, <1>5, <1>7, <1>8
<1>10. Range(r) = Range(s) \cup {v}
  <2>1. 1..Len(s) + 1 = (1..Len(s)) \cup {Len(s) + 1}
    BY <1>1
  <2> QED
    BY <2>1, <1>1, <1>7 DEF Range
<1>11. \A u \in 1..i+1 : Visited(k, u) \in Range(r)
  BY <1>2, <1>4, <1>5, <1>10
<1>12. ASSUME NEW p \in 1..Len(s) + 1
       PROVE  \E t \in 1..i+1 : /\ Visited(k, t) = r[p]
                                /\ \A u \in 1..t : \E q \in 1..p : r[q] = Visited(k, u)
  <2>1. CASE p = Len(s) + 1
    <3>1. i + 1 \in 1..i+1 /\ Visited(k, i + 1) = r[p]
      BY <2>1, <1>7
    <3>2. \A u \in 1..i+1 : \E q \in 1..p : r[q] = Visited(k, u)
      BY <1>7, <1>11, <2>1 DEF Range
    <3> QED
      BY <3>1, <3>2
  <2>2. CASE p \in 1..Len(s)
    <3>1. PICK t \in 1..i : /\ Visited(k, t) = s[p]
                            /\ \A u \in 1..t : \E q \in 1..p : s[q] = Visited(k, u)
      BY <1>3, <2>2
    <3>2. \A q \in 1..p : q \in 1..Len(s)
      BY <1>1, <2>2
    <3>3. \A u \in 1..t : \E q \in 1..p : r[q] = Visited(k, u)
      BY <3>1, <3>2, <1>7
    <3>4. Visited(k, t) = r[p] /\ t \in 1..i+1
      BY <3>1, <2>2, <1>4, <1>7
    <3> QED
      BY <3>3, <3>4
  <2> QED
    BY <2>1, <2>2, <1>1
<1>13. Range(r) \subseteq members /\ Len(r) <= n
  BY <1>1, <1>6, <1>7, <1>10
<1>14. Collected(r, k, n, i + 1)
  BY <1>7, <1>9, <1>11, <1>12, <1>13 DEF Collected
<1> QED
  BY <1>14 DEF r

LEMMA NodesForKeyOK ==
    ASSUME RingOK, NEW k \in Keys, NEW n \in Nat
    PROVE  Collected(NodesForKey(k, n), k, n, Len(ring))
<1>1. PICK acc \in [0..Len(ring) -> Seq(Nodes)] :
          /\ acc[0] = <<>>
          /\ \A i \in 1..Len(ring) :
                 acc[i] = IF Full(acc[i-1], n, Visited(k, i)) THEN acc[i-1]
                          ELSE Append(acc[i-1], Visited(k, i))
          /\ acc[Len(ring)] = NodesForKey(k, n)
  BY NodesForKeyFold
<1> DEFINE T == {m \in Nat : m <= Len(ring) => Collected(acc[m], k, n, m)}
<1>2. 0 \in T
  <2>1. Collected(<<>>, k, n, 0)
    BY DEF Collected, IsInjective, Range
  <2> QED
    BY <2>1, <1>1
<1>3. ASSUME NEW m \in Nat, m \in T PROVE m + 1 \in T
  <2> SUFFICES ASSUME m + 1 <= Len(ring) PROVE Collected(acc[m+1], k, n, m + 1)
    OBVIOUS
  <2>1. m + 1 \in 1..Len(ring) /\ (m + 1) - 1 = m /\ m <= Len(ring)
    BY RingFacts
  <2>2. acc[m+1] = IF Full(acc[m], n, Visited(k, m + 1)) THEN acc[m]
                   ELSE Append(acc[m], Visited(k, m + 1))
    BY <2>1, <1>1
  <2>3. Collected(acc[m], k, n, m)
    BY <2>1, <1>3
  <2>4. acc[m] \in Seq(Nodes)
    BY <2>1, <1>1
  <2>5. CASE Full(acc[m], n, Visited(k, m + 1))
    BY <2>2, <2>3, <2>4, <2>5, CollectSkip
  <2>6. CASE ~Full(acc[m], n, Visited(k, m + 1))
    <3>1. Visited(k, m + 1) \in members /\ Visited(k, m + 1) \in Nodes
      BY <2>1, VisitedFacts DEF RingOK
    <3> QED
      BY <2>2, <2>3, <2>4, <2>6, <3>1, CollectAppend
  <2> QED
    BY <2>5, <2>6
<1>4. Len(ring) \in Nat
  BY RingFacts
<1>5. Len(ring) \in T
  <2> HIDE DEF T
  <2> QED
    BY <1>2, <1>3, <1>4, NatInductionSet
<1> QED
  BY <1>1, <1>4, <1>5

-----------------------------------------------------------------------------
(* The ring through its operations. *)

(* The list has as many nodes as asked for or, when that is more than the  *)
(* ring has, all of them.                                                  *)
LEMMA NodesForKeyCount ==
    ASSUME RingOK, IsFiniteSet(Nodes), NEW k \in Keys, NEW n \in Nat
    PROVE  LET result == NodesForKey(k, n) IN
           /\ result \in Seq(Nodes) /\ IsInjective(result) /\ Range(result) \subseteq members
           /\ Len(result) = IF n < Cardinality(members) THEN n ELSE Cardinality(members)
           /\ Cardinality(members) <= n => Range(result) = members
<1> DEFINE result == NodesForKey(k, n)
           L == Len(result)
           R == Range(result)
<1>1. /\ result \in Seq(Nodes) /\ IsInjective(result) /\ R \subseteq members
      /\ L <= n
  BY NodesForKeyOK DEF Collected
<1>2. L = n \/ \A u \in 1..Len(ring) : Visited(k, u) \in R
  BY NodesForKeyOK DEF Collected
<1>3. IsFiniteSet(members) /\ IsFiniteSet(R) /\ Cardinality(members) \in Nat
      /\ Cardinality(R) <= Cardinality(members)
      /\ (Cardinality(R) = Cardinality(members) => R = members)
  BY <1>1, FS_Subset, FS_CardinalityType DEF RingOK
<1>4. L \in Nat /\ Cardinality(R) = L
  <2>1. L \in Nat /\ result \in [1..L -> R] /\ \A x \in R : \E i \in 1..L : result[i] = x
    BY <1>1 DEF Range
  <2>2. \A i, j \in 1..L : result[i] = result[j] => i = j
    BY <1>1, <2>1 DEF IsInjective
  <2>3. ExistsBijection(1..L, R)
    <3>1. result \in Injection(1..L, R)
      BY <2>1, <2>2, Fun_IsInj
    <3>2. result \in Surjection(1..L, R)
      BY <2>1, Fun_IsSurj
    <3>3. result \in Bijection(1..L, R)
      BY <3>1, <3>2 DEF Bijection
    <3> QED
      BY <3>3, Fun_ExistsBij
  <2> QED
    BY <2>1, <2>3, FS_CountingElements
<1>5. L = n \/ R = members
  BY <1>1, <1>2, VisitedFacts
<1> HIDE DEF result, L, R
<1>6. L = IF n < Cardinality(members) THEN n ELSE Cardinality(members)
  BY <1>1, <1>3, <1>4, <1>5
<1>7. Cardinality(members) <= n => R = members
  BY <1>3, <1>4, <1>6
<1> QED
  BY <1>1, <1>6, <1>7 DEF result, L, R

LEMMA NodesForKeyNearest ==
    ASSUME RingOK, NEW k \in Keys, NEW n \in Nat,
           NEW i \in DOMAIN NodesForKey(k, n),
           NEW m \in members \ {NodesForKey(k, n)[j] : j \in 1..i}
    PROVE  Nearer(k, NodesForKey(k, n)[i], m)
<1> DEFINE result == NodesForKey(k, n)
           a == result[i]
<1>1. result \in Seq(Nodes) /\ Range(result) \subseteq members
  BY NodesForKeyOK DEF Collected
<1>2. PICK t \in 1..Len(ring) : /\ Visited(k, t) = a
                                /\ \A u \in 1..t : \E q \in 1..i : result[q] = Visited(k, u)
  <2>1. i \in 1..Len(result)
    BY <1>1
  <2>2. \A p \in 1..Len(result) : \E t \in 1..Len(ring) :
            /\ Visited(k, t) = result[p]
            /\ \A u \in 1..t : \E q \in 1..p : result[q] = Visited(k, u)
    BY NodesForKeyOK DEF Collected
  <2> HIDE DEF result
  <2> QED
    BY <2>1, <2>2
<1>3. m \in members /\ \A u \in 1..t : Visited(k, u) # m
  BY <1>2
<1>4. a \in members /\ i \in 1..i
  BY <1>1 DEF Range
<1>5. a # m
  BY <1>3, <1>2
<1> HIDE DEF result, a
<1> DEFINE v == Slot(k, t-1)
           p == Position(v)
<1>6. Len(ring) \in Nat /\ t - 1 \in 0..Len(ring)-1
  BY RingFacts
<1>7. v \in Vnodes /\ p \in Range(VnodeHash[a])
  <2>1. Wrapped(k, t-1) \in 1..Len(ring) /\ v = ring[Wrapped(k, t-1)]
    BY <1>6, SlotFacts
  <2> QED
    BY <2>1, <1>2, RingFacts DEF Visited
<1>8. ASSUME NEW q \in Range(VnodeHash[m])
      PROVE  Clockwise(k, p) < Clockwise(k, q) \/ (p = q /\ IdOrder[a] < IdOrder[m])
  <2>1. PICK j \in 1..Len(ring) : ring[j] = <<q, m>>
    BY <1>3, RingFacts
  <2>2. PICK u \in 0..Len(ring)-1 : Slot(k, u) = <<q, m>>
    BY <2>1, SlotExists
  <2>3. Owner(Slot(k, u)) = m /\ Position(Slot(k, u)) = q
    BY <2>2 DEF Owner, Position
  <2>4. u + 1 \notin 1..t
    <3>1. (u + 1) - 1 = u
      BY <1>6
    <3> QED
      BY <3>1, <2>3, <1>3 DEF Visited
  <2>5. t - 1 < u
    BY <2>4, <1>6
  <2>6. Owner(v) = a
    BY <1>2 DEF Visited
  <2>7. Clockwise(k, p) < Clockwise(k, q) \/ (p = q /\ IdOrder[a] <= IdOrder[m])
    BY <2>3, <2>5, <2>6, <1>6, SlotsClockwise
  <2>8. a \in Nodes /\ m \in Nodes
    BY <1>3, <1>4 DEF RingOK
  <2> QED
    BY <2>7, <2>8, <1>5, VnodeFacts
<1>9. Nearer(k, a, m)
  BY <1>7, <1>8 DEF Nearer, Clockwise
<1> QED
  BY <1>9 DEF a, result

LEMMA GetNodeFirst ==
    ASSUME RingOK, IsFiniteSet(Nodes), members # {}, NEW k \in Keys, NEW n \in Nat \ {0}
    PROVE  1 \in DOMAIN NodesForKey(k, n) /\ GetNode(k) = NodesForKey(k, n)[1]
<1> DEFINE result == NodesForKey(k, n)
<1>1. result \in Seq(Nodes)
  BY NodesForKeyOK DEF Collected
<1>2. IsFiniteSet(members) /\ Cardinality(members) \in Nat \ {0}
  BY FS_Subset, FS_CardinalityType, FS_EmptySet DEF RingOK
<1>3. Len(result) = IF n < Cardinality(members) THEN n ELSE Cardinality(members)
  BY NodesForKeyCount
<1>4. Len(result) \in Nat \ {0} /\ 1 \in 1..Len(result) /\ DOMAIN result = 1..Len(result)
  BY <1>1, <1>2, <1>3
<1>5. PICK t \in 1..Len(ring) : \A u \in 1..t : \E q \in 1..1 : result[q] = Visited(k, u)
  BY <1>4, NodesForKeyOK DEF Collected
<1>6. result[1] = Visited(k, 1)
  BY <1>5
<1> HIDE DEF result
<1>7. GetNode(k) = Visited(k, 1)
  BY DEF GetNode, Visited
<1> QED
  BY <1>4, <1>6, <1>7 DEF result

LEMMA NearestFirstHolds == RingOK /\ IsFiniteSet(Nodes) => NearestFirst
<1> SUFFICES ASSUME RingOK, IsFiniteSet(Nodes), NEW k \in Keys, NEW n \in 1..Cardinality(Nodes)
             PROVE  LET result == NodesForKey(k, n) IN
                    /\ Len(result) = IF n < Cardinality(members) THEN n ELSE Cardinality(members)
                    /\ \A i \in DOMAIN result :
                           \A m \in members \ {result[j] : j \in 1..i} : Nearer(k, result[i], m)
                    /\ IsInjective(result) /\ Range(result) \subseteq members
                    /\ members # {} => GetNode(k) = result[1]
  BY DEF NearestFirst
<1>1. n \in Nat \ {0}
  BY FS_CardinalityType
<1>2. \A i \in DOMAIN NodesForKey(k, n) :
          \A m \in members \ {NodesForKey(k, n)[j] : j \in 1..i} : Nearer(k, NodesForKey(k, n)[i], m)
  BY <1>1, NodesForKeyNearest
<1>3. members # {} => GetNode(k) = NodesForKey(k, n)[1]
  BY <1>1, GetNodeFirst
<1> QED
  BY <1>1, <1>2, <1>3, NodesForKeyCount

(* The node of a session is the nearest of all; there is only one.          *)
LEMMA GetNodeNearest ==
    RingOK /\ IsFiniteSet(Nodes) /\ members # {} =>
        \A k \in Keys : /\ GetNode(k) \in members
                        /\ \A m \in members \ {GetNode(k)} : Nearer(k, GetNode(k), m)
<1> SUFFICES ASSUME RingOK, IsFiniteSet(Nodes), members # {}, NEW k \in Keys
             PROVE  /\ GetNode(k) \in members
                    /\ \A m \in members \ {GetNode(k)} : Nearer(k, GetNode(k), m)
  OBVIOUS
<1> DEFINE result == NodesForKey(k, 1)
<1>1. 1 \in DOMAIN result /\ GetNode(k) = result[1]
  BY GetNodeFirst
<1>2. Range(result) \subseteq members
  BY NodesForKeyOK DEF Collected
<1>3. GetNode(k) \in members
  BY <1>1, <1>2 DEF Range
<1>4. {result[j] : j \in 1..1} = {GetNode(k)}
  BY <1>1
<1> QED
  BY <1>1, <1>3, <1>4, NodesForKeyNearest

LEMMA GetNodeNearestNext ==
    (RingOK /\ IsFiniteSet(Nodes) /\ members # {} =>
        \A k \in Keys : /\ GetNode(k) \in members
                        /\ \A m \in members \ {GetNode(k)} : Nearer(k, GetNode(k), m))'
  BY GetNodeNearest, PTL

LEMMA RingAdd == \A n \in Nodes : RingOK /\ AddNode(n) => RingOK'
<1> SUFFICES ASSUME NEW n \in Nodes, RingOK, AddNode(n) PROVE RingOK'
  OBVIOUS
<1>1. CASE n \in members
  BY <1>1 DEF AddNode, RingOK, ringVars
<1>2. CASE n \notin members
  <2>1. members' = members \cup {n} /\ ring' = WithNode(ring, n)
    BY <1>2 DEF AddNode
  <2>2. ring' \in SortedRings /\ Range(ring') = Range(ring) \cup (Range(VnodeHash[n]) \X {n})
    BY <2>1, WithNodeOK DEF RingOK
  <2>3. VnodesOf(members \cup {n}) = VnodesOf(members) \cup (Range(VnodeHash[n]) \X {n})
    BY DEF VnodesOf
  <2>4. Range(ring) = VnodesOf(members) /\ members \subseteq Nodes
    BY DEF RingOK, VnodesOf
  <2> QED
    BY <2>1, <2>2, <2>3, <2>4 DEF RingOK, VnodesOf
<1> QED
  BY <1>1, <1>2

LEMMA RingRemove == \A n : RingOK /\ RemoveNode(n) => RingOK'
<1> SUFFICES ASSUME NEW n, RingOK, RemoveNode(n) PROVE RingOK'
  OBVIOUS
<1>1. CASE n \notin members
  BY <1>1 DEF RemoveNode, RingOK, ringVars
<1>2. CASE n \in members
  <2>1. members' = members \ {n} /\ ring' = WithoutNode(ring, n)
    BY <1>2 DEF RemoveNode
  <2>2. ring' \in SortedRings /\ Range(ring') = {v \in Range(ring) : Keeps(n, v)}
    BY <2>1, WithoutNodeOK DEF RingOK
  <2>3. Range(ring) = VnodesOf(members) /\ members \subseteq Nodes
    BY DEF RingOK, VnodesOf
  <2>4. ASSUME NEW v
        PROVE  v \in VnodesOf(members) /\ Keeps(n, v) <=> v \in VnodesOf(members \ {n})
    <3>1. ASSUME NEW m \in members, v \in Range(VnodeHash[m]) \X {m}
          PROVE  Keeps(n, v) <=> m # n
      BY <3>1 DEF Keeps, Owner, Position
    <3>2. v \in VnodesOf(members) <=> \E m \in members : v \in Range(VnodeHash[m]) \X {m}
      BY DEF VnodesOf
    <3>3. v \in VnodesOf(members \ {n})
              <=> \E m \in members \ {n} : v \in Range(VnodeHash[m]) \X {m}
      BY DEF VnodesOf
    <3> QED
      BY <3>1, <3>2, <3>3
  <2>5. {v \in VnodesOf(members) : Keeps(n, v)} = VnodesOf(members \ {n})
    BY <2>4
  <2> QED
    BY <2>1, <2>2, <2>3, <2>5 DEF RingOK, VnodesOf
<1> QED
  BY <1>1, <1>2

(* The nodes that the router starts with. *)
LEMMA StartFold ==
    ASSUME NEW q \in Seq(Nodes)
    PROVE  \E acc \in [0..Len(q) -> SortedRings] :
               /\ acc[0] = <<>>
               /\ \A i \in 1..Len(q) : acc[i] = WithNode(acc[i-1], q[i])
               /\ acc[Len(q)] = FoldLeft(WithNode, <<>>, q)
<1> DEFINE L == Len(q)
           V == SortedRings
           D == SUBSET (1..L)
           step == [x \in (1..L) \X V |-> WithNode(x[2], q[x[1]])]
           Iterate(f, s) == WithNode(f[s \ {Max(s)}], q[Max(s)])
           iter == CHOOSE f : f = [s \in D |-> IF s = {} THEN <<>> ELSE Iterate(f, s)]
<1>1. L \in Nat /\ DOMAIN q = 1..L /\ \A i \in 1..L : q[i] \in Nodes
  OBVIOUS
<1>2. FoldLeft(WithNode, <<>>, q) = iter[1..L]
  BY <1>1 DEF FoldLeft, MapThenFoldSet
<1>3. <<>> \in V /\ step \in [(1..L) \X V -> V]
  <2>1. <<>> \in V
    BY DEF SortedRings, Sorted
  <2>2. \A i \in 1..L, s \in V : WithNode(s, q[i]) \in V
    BY <1>1, WithNodeOK
  <2> QED
    BY <2>1, <2>2
<1>4. \A i \in 1..L, s \in V : step[<<i, s>>] = WithNode(s, q[i])
  OBVIOUS
<1> HIDE DEF step, L, V
<1>5. PICK it \in FoldTables(L, V, <<>>, step) : TRUE
  BY <1>1, <1>3, FoldTableExists
<1>6. it = [s \in D |-> IF s = {} THEN <<>> ELSE Iterate(it, s)]
  <2>1. /\ it \in [D -> V] /\ it[{}] = <<>>
        /\ \A s \in D : s # {} => /\ Max(s) \in 1..L /\ it[s \ {Max(s)}] \in V
                                  /\ it[s] = step[<<Max(s), it[s \ {Max(s)}]>>]
    BY DEF FoldTables
  <2>2. ASSUME NEW s \in D, s # {} PROVE it[s] = Iterate(it, s)
    BY <2>1, <2>2, <1>4
  <2> QED
    BY <2>1, <2>2
<1>7. iter = [s \in D |-> IF s = {} THEN <<>> ELSE Iterate(iter, s)]
  BY <1>6
<1> HIDE DEF iter
<1>8. iter[{}] = <<>> /\ \A s \in D : s # {} => iter[s] = Iterate(iter, s)
  BY <1>7
<1>9. FoldSolves(iter, L, V, <<>>, step)
  <2>1. ASSUME NEW s \in D, s # {}, iter[s \ {Max(s)}] \in V
        PROVE  iter[s] = step[<<Max(s), iter[s \ {Max(s)}]>>]
    <3>1. Max(s) \in 1..L
      BY <1>1, <2>1, MaxIn
    <3> QED
      BY <1>4, <1>8, <2>1, <3>1
  <2> QED
    BY <1>8, <2>1 DEF FoldSolves
<1>10. PICK acc \in FoldRuns(iter, L, V, <<>>, step) : TRUE
  BY <1>1, <1>3, <1>9, FoldRun
<1>11. /\ acc \in [0..L -> V] /\ acc[0] = <<>> /\ acc[L] = iter[1..L]
       /\ \A i \in 1..L : acc[i] = step[<<i, acc[i-1]>>]
  BY DEF FoldRuns
<1>12. ASSUME NEW i \in 1..L PROVE acc[i] = WithNode(acc[i-1], q[i])
  <2>1. i - 1 \in 0..L
    BY <1>1
  <2>2. acc[i-1] \in V
    BY <2>1, <1>11
  <2> QED
    BY <2>2, <1>4, <1>11
<1> QED
  BY <1>2, <1>11, <1>12 DEF L, V

LEMMA StartRing ==
    ASSUME NEW S \in SUBSET Nodes, IsFiniteSet(S)
    PROVE  LET r == FoldLeft(WithNode, <<>>, SetToSeq(S)) IN
           r \in SortedRings /\ Range(r) = VnodesOf(S)
<1> DEFINE c == Cardinality(S)
           q == SetToSeq(S)
<1>1. c \in Nat /\ q \in [1..c -> S] /\ IsInjective(q)
  <2>1. c \in Nat /\ ExistsBijection(1..c, S)
    BY FS_CardinalityType
  <2>2. \E f \in [1..c -> S] : IsInjective(f)
    BY <2>1 DEF ExistsBijection, Bijection, Injection
  <2> QED
    BY <2>1, <2>2 DEF SetToSeq
<1>2. {q[i] : i \in 1..c} = S
  <2>1. q \in Injection(1..c, S)
    BY <1>1 DEF Injection
  <2>2. IsFiniteSet(1..c) /\ Cardinality(1..c) = c
    BY <1>1, FS_Interval
  <2>3. q \in Surjection(1..c, S)
    BY <2>1, <2>2, FS_Injection
  <2> QED
    BY <2>3 DEF Surjection
<1>3. q \in Seq(Nodes) /\ Len(q) = c
  BY <1>1
<1> HIDE DEF q, c
<1>4. PICK acc \in [0..c -> SortedRings] :
          /\ acc[0] = <<>>
          /\ \A i \in 1..c : acc[i] = WithNode(acc[i-1], q[i])
          /\ acc[c] = FoldLeft(WithNode, <<>>, q)
  BY <1>3, StartFold
<1> DEFINE T == {m \in Nat : m <= c => Range(acc[m]) = VnodesOf({q[i] : i \in 1..m})}
<1>5. 0 \in T
  <2>1. Range(<<>>) = {} /\ VnodesOf({q[i] : i \in 1..0}) = {}
    BY DEF Range, VnodesOf
  <2> QED
    BY <2>1, <1>4
<1>6. ASSUME NEW m \in Nat, m \in T PROVE m + 1 \in T
  <2> SUFFICES ASSUME m + 1 <= c
               PROVE  Range(acc[m+1]) = VnodesOf({q[i] : i \in 1..m+1})
    OBVIOUS
  <2>1. m + 1 \in 1..c /\ (m + 1) - 1 = m /\ m \in 0..c /\ m <= c
    BY <1>1
  <2>2. acc[m+1] = WithNode(acc[m], q[m+1]) /\ acc[m] \in SortedRings /\ q[m+1] \in Nodes
    BY <2>1, <1>1, <1>4
  <2>3. Range(acc[m+1]) = Range(acc[m]) \cup (Range(VnodeHash[q[m+1]]) \X {q[m+1]})
    BY <2>2, WithNodeOK
  <2>4. {q[i] : i \in 1..m+1} = {q[i] : i \in 1..m} \cup {q[m+1]}
    <3>1. 1..m+1 = (1..m) \cup {m+1}
      OBVIOUS
    <3> QED
      BY <3>1
  <2>5. \A M : VnodesOf(M \cup {q[m+1]}) = VnodesOf(M) \cup (Range(VnodeHash[q[m+1]]) \X {q[m+1]})
    BY DEF VnodesOf
  <2>6. Range(acc[m]) = VnodesOf({q[i] : i \in 1..m})
    BY <2>1, <1>6
  <2> QED
    BY <2>3, <2>4, <2>5, <2>6
<1>7. c \in T
  <2> HIDE DEF T
  <2> QED
    BY <1>1, <1>5, <1>6, NatInductionSet
<1>8. c \in 0..c /\ c <= c
  BY <1>1
<1> QED
  BY <1>1, <1>2, <1>4, <1>7, <1>8 DEF q

-----------------------------------------------------------------------------
(* Workers: who started them, who runs them, who is in the ring.           *)

OwnershipTypes ==
    /\ members \subseteq Nodes
    /\ process \in [Nodes -> {"none", "loading", "up", "stopping", "dead"}]
    /\ workers \in [Nodes -> {"absent", "external", "owned"}]
    /\ joining \in [Nodes -> {"no", "polling", "adding", "registering"}]
    /\ stopping \in Nodes \cup {None}

Counted == {n \in Nodes : workers[n] # "absent"}

(* Who is on the autoscaler's books, and who runs.                         *)
OwnershipInv ==
    /\ \A n \in Nodes : workers[n] = "external" <=> n \in Static
    /\ stopping # None => workers[stopping] = "absent"
    /\ \A n \in Nodes : process[n] = "stopping" => workers[n] = "absent"
    /\ \A n \in Running : n \in Counted \/ stopping = n
    /\ Headcount + (IF stopping = None THEN 0 ELSE 1) <= MaxWorkers

(* Who is in the ring, or on the way there.                                *)
MembershipInv ==
    \A n \in Nodes : (n \in members \ Static \/ joining[n] # "no") =>
        workers[n] = "owned" \/ n \in raced

ClusterInv == OwnershipTypes /\ OwnershipInv /\ MembershipInv

LEMMA NodeFacts ==
    /\ Static \subseteq Nodes /\ None \notin Nodes
    /\ IsFiniteSet(Nodes)
    /\ \A i \in DOMAIN AutoNodes : AutoNodes[i] \in Nodes \ Static
    /\ DOMAIN AutoNodes \subseteq Nat
    /\ MaxWorkers \in Nat
  BY ClusterAssumption DEF Range

LEMMA CountedFinite ==
    /\ IsFiniteSet(Counted) /\ Cardinality(Counted) \in Nat
    /\ Headcount = Cardinality(Counted)
<1>1. Counted \subseteq Nodes
  BY DEF Counted
<1> QED
  BY <1>1, NodeFacts, FS_Subset, FS_CardinalityType DEF Counted, Headcount

LEMMA RingMembers ==
    ASSUME NEW n
    PROVE  /\ AddNode(n) => members' = members \cup {n}
           /\ RemoveNode(n) => members' = members \ {n}
  BY DEF AddNode, RemoveNode, ringVars

(* The worker that is scaled down exists. *)
LEMMA FirstOwned == Owned # {} => Min(Owned) \in Owned
<1> SUFFICES ASSUME Owned # {} PROVE Min(Owned) \in Owned
  OBVIOUS
<1> DEFINE Lower == OpToRel(<, Nat)
<1>1. Owned \subseteq Nat
  BY NodeFacts DEF Owned
<1>2. PICK i \in Owned : \A j \in Owned : <<j, i>> \notin Lower
  BY <1>1, NatLessThanWellFounded, WFMin
<1>3. \A j \in Owned : i <= j
  <2> SUFFICES ASSUME NEW j \in Owned, ~(i <= j) PROVE FALSE
    OBVIOUS
  <2>1. i \in Nat /\ j \in Nat /\ j < i
    BY <1>1
  <2>2. <<j, i>> \in Lower
    BY <2>1 DEF OpToRel
  <2> QED
    BY <2>2, <1>2
<1> QED
  BY <1>3 DEF Min

LEMMA ClusterStart == ClusterInit => ClusterInv
<1> SUFFICES ASSUME ClusterInit PROVE ClusterInv
  OBVIOUS
<1>1. OwnershipTypes
  BY NodeFacts DEF ClusterInit, OwnershipTypes
<1>2. Counted = Static
  BY NodeFacts DEF ClusterInit, Counted
<1>3. Headcount <= MaxWorkers /\ Headcount \in Nat
  BY <1>2, ClusterAssumption, CountedFinite
<1>4. OwnershipInv
  BY <1>2, <1>3, NodeFacts DEF ClusterInit, OwnershipInv, Running
<1>5. MembershipInv
  BY NodeFacts DEF ClusterInit, MembershipInv
<1> QED
  BY <1>1, <1>4, <1>5 DEF ClusterInv

-----------------------------------------------------------------------------
(* Steps that neither start nor stop a worker.                             *)

(* They move processes and registrations, and put nobody into the ring who *)
(* has no business there.                                                  *)
LEMMA BooksKept ==
    ASSUME ClusterInv, UNCHANGED <<workers, stopping, raced>>,
           process' \in [Nodes -> {"none", "loading", "up", "stopping", "dead"}],
           joining' \in [Nodes -> {"no", "polling", "adding", "registering"}],
           members' \subseteq Nodes,
           \A n \in Nodes :
               /\ process'[n] \in {"loading", "up"} => n \in Running \cup Static
               /\ process'[n] = "stopping" => process[n] = "stopping"
               /\ joining'[n] # "no" => joining[n] # "no"
               /\ n \in members' => n \in members \cup Static \/ joining[n] # "no"
    PROVE  ClusterInv'
<1>1. OwnershipTypes'
  BY DEF ClusterInv, OwnershipTypes
<1>2. Counted' = Counted /\ Headcount' = Headcount /\ Static \subseteq Counted
  BY NodeFacts DEF Counted, Headcount, ClusterInv, OwnershipInv, OwnershipTypes
<1>3. Running' \subseteq Running \cup Static
  BY DEF Running
<1>4. OwnershipInv'
  BY <1>2, <1>3 DEF ClusterInv, OwnershipInv
<1>5. MembershipInv'
  BY DEF ClusterInv, MembershipInv
<1> QED
  BY <1>1, <1>4, <1>5 DEF ClusterInv

LEMMA ProcessStep ==
    ASSUME ClusterInv, NEW n \in Nodes, Loaded(n) \/ Crash(n) \/ Restart(n) \/ Exits(n)
    PROVE  ClusterInv'
<1>1. UNCHANGED <<members, workers, joining, stopping, raced>>
  BY DEF Loaded, Crash, Restart, Exits, ringVars, scalerVars
<1>2. PICK state \in {"up", "dead", "loading"} :
          /\ process' = [process EXCEPT ![n] = state]
          /\ state # "dead" => n \in Running \cup Static
  BY DEF Loaded, Crash, Restart, Exits, Runs, Running
<1>3. process' \in [Nodes -> {"none", "loading", "up", "stopping", "dead"}]
  BY <1>2 DEF ClusterInv, OwnershipTypes
<1>4. \A m \in Nodes : /\ process'[m] \in {"loading", "up"} => m \in Running \cup Static
                       /\ process'[m] = "stopping" => process[m] = "stopping"
  BY <1>2 DEF ClusterInv, OwnershipTypes, Running
<1> QED
  BY <1>1, <1>3, <1>4, BooksKept DEF ClusterInv, OwnershipTypes

LEMMA MonitorStep ==
    ASSUME ClusterInv, NEW n \in Nodes,
           ComesUp(n) \/ GoesDown(n) \/ OnNodeUp(n) \/ OnNodeDown(n)
    PROVE  ClusterInv'
<1>1. UNCHANGED <<process, workers, joining, stopping, raced>>
  BY DEF ComesUp, GoesDown, OnNodeUp, OnNodeDown, scalerVars
<1>2. members' \subseteq members \cup Static
  BY RingMembers DEF ComesUp, GoesDown, OnNodeUp, OnNodeDown, ringVars
<1> QED
  BY <1>1, <1>2, NodeFacts, BooksKept DEF ClusterInv, OwnershipTypes, Running

LEMMA JoinStep ==
    ASSUME ClusterInv, NEW n \in Nodes,
           HealthAnswered(n) \/ PollingEnds(n) \/ JoinRing(n) \/ JoinMonitor(n)
    PROVE  ClusterInv'
<1>1. UNCHANGED <<process, workers, stopping, raced>>
  BY DEF HealthAnswered, PollingEnds, JoinRing, JoinMonitor, Joins
<1>2. PICK to \in {"no", "adding", "registering"} :
          joining[n] # "no" /\ joining' = [joining EXCEPT ![n] = to]
  BY DEF HealthAnswered, PollingEnds, JoinRing, JoinMonitor, Joins
<1>3. members' \subseteq members \cup {n}
  BY RingMembers DEF HealthAnswered, PollingEnds, JoinRing, JoinMonitor, ringVars
<1>4. joining' \in [Nodes -> {"no", "polling", "adding", "registering"}]
  BY <1>2 DEF ClusterInv, OwnershipTypes
<1>5. \A m \in Nodes : joining'[m] # "no" => joining[m] # "no"
  BY <1>2 DEF ClusterInv, OwnershipTypes
<1> QED
  BY <1>1, <1>2, <1>3, <1>4, <1>5, BooksKept DEF ClusterInv, OwnershipTypes, Running

LEMMA HandlerStep ==
    ASSUME ClusterInv,
           (\E k \in Keys : Route(k)) \/ LookHealthy \/ LookUnhealthy \/ Refuse \/ Answer
               \/ ScaleUpFails \/ Shutdown \/ ShutDown \/ UNCHANGED clusterVars
    PROVE  ClusterInv'
<1>1. UNCHANGED <<members, process, workers, joining, stopping, raced>>
  BY DEF Route, LookHealthy, LookUnhealthy, Refuse, Answer, ScaleUpFails, Shutdown, ShutDown,
         clusterVars, ringVars, scalerVars
<1> QED
  BY <1>1, BooksKept DEF ClusterInv, OwnershipTypes, Running

-----------------------------------------------------------------------------
(* Scaling.                                                                *)

LEMMA ScaleUpStep ==
    ASSUME ClusterInv, ScaleUp
    PROVE  ClusterInv'
<1>t. OwnershipTypes /\ OwnershipInv /\ MembershipInv
  BY DEF ClusterInv
<1>1. PICK n \in Nodes \ Static : n = AutoNodes[next_auto]
  BY NodeFacts DEF ScaleUp
<1>2. /\ stopping = None /\ Headcount < MaxWorkers
      /\ process' = [process EXCEPT ![n] = "loading"]
      /\ workers' = [workers EXCEPT ![n] = "owned"]
      /\ joining' = [joining EXCEPT ![n] = "polling"]
      /\ UNCHANGED <<members, stopping, raced>>
  BY <1>1 DEF ScaleUp, Ticks, Runs, ringVars
<1>3. OwnershipTypes'
  BY <1>2, <1>t DEF OwnershipTypes
<1>4. Counted' = Counted \cup {n}
  BY <1>2, <1>t DEF Counted, OwnershipTypes
<1>5. Headcount' \in Nat /\ Headcount' <= MaxWorkers
  <2> DEFINE count == Cardinality(Counted)
  <2>1. Headcount' = Cardinality(Counted \cup {n})
    BY <1>4 DEF Headcount, Counted
  <2>2. Cardinality(Counted \cup {n}) = count \/ Cardinality(Counted \cup {n}) = count + 1
    BY CountedFinite, FS_AddElement
  <2>3. count \in Nat /\ count < MaxWorkers /\ MaxWorkers \in Nat
    BY <1>2, CountedFinite, NodeFacts
  <2> HIDE DEF count
  <2> QED
    BY <2>1, <2>2, <2>3
<1>6. Running' \subseteq Running \cup {n}
  BY <1>2, <1>t DEF Running, OwnershipTypes
<1>7. \A m \in Nodes : workers'[m] = "external" <=> m \in Static
  BY <1>1, <1>2, <1>t DEF OwnershipInv, OwnershipTypes
<1>8. OwnershipInv'
  <2>1. \A m \in Running' : m \in Counted' \/ stopping' = m
    BY <1>2, <1>4, <1>6, <1>t DEF OwnershipInv
  <2>2. stopping' = None /\ Headcount' + 0 <= MaxWorkers
    BY <1>2, <1>5
  <2>3. \A m \in Nodes : process'[m] = "stopping" => workers'[m] = "absent"
    BY <1>2, <1>t DEF OwnershipInv, OwnershipTypes
  <2> QED
    BY <2>1, <2>2, <2>3, <1>7 DEF OwnershipInv
<1>9. MembershipInv'
  BY <1>2, <1>t DEF MembershipInv, OwnershipTypes
<1> QED
  BY <1>3, <1>8, <1>9 DEF ClusterInv

LEMMA ScaleDownStep ==
    ASSUME ClusterInv, ScaleDown
    PROVE  ClusterInv'
<1>t. OwnershipTypes /\ OwnershipInv /\ MembershipInv
  BY DEF ClusterInv
<1>1. PICK n \in Nodes \ Static : n = AutoNodes[Min(Owned)] /\ workers[n] = "owned"
  BY NodeFacts, FirstOwned DEF ScaleDown, Owned
<1>2. /\ stopping = None
      /\ workers' = [workers EXCEPT ![n] = "absent"]
      /\ stopping' = n
      /\ raced' = IF joining[n] = "no" THEN raced ELSE raced \cup {n}
      /\ members' = members \ {n}
      /\ UNCHANGED <<process, joining>>
  BY <1>1, RingMembers DEF ScaleDown, Ticks
<1>3. OwnershipTypes'
  BY <1>2, <1>t DEF OwnershipTypes
<1>4. Counted' = Counted \ {n} /\ n \in Counted
  BY <1>1, <1>2, <1>t DEF Counted, OwnershipTypes
<1>5. Headcount' + 1 <= MaxWorkers
  <2> DEFINE count == Cardinality(Counted)
  <2>1. Headcount' = Cardinality(Counted \ {n})
    BY <1>4 DEF Headcount, Counted
  <2>2. Cardinality(Counted \ {n}) = count - 1
    BY <1>4, CountedFinite, FS_RemoveElement
  <2>3. count \in Nat /\ count <= MaxWorkers /\ MaxWorkers \in Nat
    BY <1>2, <1>t, CountedFinite, NodeFacts DEF OwnershipInv
  <2> HIDE DEF count
  <2> QED
    BY <2>1, <2>2, <2>3
<1>6. Running' = Running
  BY <1>2 DEF Running
<1>7. workers'[n] = "absent" /\ n # None
  BY <1>2, <1>t, NodeFacts DEF OwnershipTypes
<1>8. \A m \in Nodes : workers'[m] = "external" <=> m \in Static
  BY <1>1, <1>2, <1>t DEF OwnershipInv, OwnershipTypes
<1>9. \A m \in Running : m \in Counted' \/ m = n
  BY <1>2, <1>4, <1>t, NodeFacts DEF OwnershipInv, Running
<1>10. OwnershipInv'
  <2>1. \A m \in Nodes : process'[m] = "stopping" => workers'[m] = "absent"
    BY <1>2, <1>t DEF OwnershipInv, OwnershipTypes
  <2> QED
    BY <2>1, <1>2, <1>5, <1>6, <1>7, <1>8, <1>9 DEF OwnershipInv
<1>11. MembershipInv'
  <2> SUFFICES ASSUME NEW m \in Nodes, m \in members' \ Static \/ joining'[m] # "no"
               PROVE  workers'[m] = "owned" \/ m \in raced'
    BY DEF MembershipInv
  <2>1. CASE m = n
    BY <2>1, <1>2
  <2>2. CASE m # n
    BY <2>2, <1>2, <1>t DEF MembershipInv, OwnershipTypes
  <2> QED
    BY <2>1, <2>2
<1> QED
  BY <1>3, <1>10, <1>11 DEF ClusterInv

LEMMA TerminateStep ==
    ASSUME ClusterInv, Terminate
    PROVE  ClusterInv'
<1>t. OwnershipTypes /\ OwnershipInv /\ MembershipInv
  BY DEF ClusterInv
<1>1. PICK n \in Nodes : n = stopping
  BY <1>t DEF Terminate, OwnershipTypes
<1>2. /\ process' = [process EXCEPT ![n] = IF process[n] = "dead" THEN "dead" ELSE "stopping"]
      /\ stopping' = None
      /\ UNCHANGED <<members, workers, joining, raced>>
  BY <1>1 DEF Terminate, Runs, ringVars
<1>3. OwnershipTypes'
  BY <1>2, <1>t DEF OwnershipTypes
<1>4. Running' = Running \ {n}
  BY <1>2, <1>t DEF Running, OwnershipTypes
<1>5. Counted' = Counted /\ Headcount' = Headcount
  BY <1>2 DEF Counted, Headcount
<1>6. Headcount <= MaxWorkers
  BY <1>t, CountedFinite, NodeFacts DEF OwnershipInv
<1>7. OwnershipInv'
  <2>1. \A m \in Nodes : process'[m] = "stopping" => workers'[m] = "absent"
    BY <1>1, <1>2, <1>t, NodeFacts DEF OwnershipInv, OwnershipTypes
  <2> QED
    BY <2>1, <1>1, <1>2, <1>4, <1>5, <1>6, <1>t, CountedFinite DEF OwnershipInv
<1>8. MembershipInv'
  BY <1>2, <1>t DEF MembershipInv
<1> QED
  BY <1>3, <1>7, <1>8 DEF ClusterInv

-----------------------------------------------------------------------------
(* The books, the processes and the ring agree in every behaviour of the   *)
(* router: the invariant both theorems below follow from.                  *)
THEOREM ClusterInvariant == ClusterSpec => []ClusterInv
<1>1. ClusterInv /\ [ClusterNext]_clusterVars => ClusterInv'
  BY ProcessStep, MonitorStep, JoinStep, HandlerStep, ScaleUpStep, ScaleDownStep, TerminateStep
     DEF ClusterNext, ProcessNext, ThreadNext
<1> QED
  BY <1>1, ClusterStart, PTL DEF ClusterSpec

(* The autoscaler stops no worker it did not start, and every process that *)
(* runs is on its books, being told to stop or told to: whatever the order *)
(* of scaling, registration, crashes, restarts, late exits and the         *)
(* shutdown of the router.                                                 *)
THEOREM ClusterProcessesOwned == ClusterSpec => []ProcessesOwned
<1>1. ClusterInv => ProcessesOwned
  <2> SUFFICES ASSUME ClusterInv PROVE ProcessesOwned
    OBVIOUS
  <2>t. OwnershipTypes /\ OwnershipInv
    BY DEF ClusterInv
  <2>1. stopping \notin Static
    BY <2>t, NodeFacts DEF OwnershipInv, OwnershipTypes
  <2>2. /\ \A n \in Running : workers[n] = "absent" => stopping = n
        /\ \A n \in Nodes : process[n] = "stopping" => workers[n] = "absent"
    BY <2>t DEF OwnershipInv, Counted
  <2> QED
    BY <2>1, <2>2 DEF ProcessesOwned
<1> QED
  BY <1>1, ClusterInvariant, PTL

(* No more than max_workers processes ever run that were not told to stop. *)
(* (Those that were may still be finishing their calls when others are     *)
(* started.)                                                               *)
THEOREM ClusterWithinLimit == ClusterSpec => [](Cardinality(Running) <= MaxWorkers)
<1>1. ClusterInv => Cardinality(Running) <= MaxWorkers
  <2> SUFFICES ASSUME ClusterInv PROVE Cardinality(Running) <= MaxWorkers
    OBVIOUS
  <2>t. OwnershipTypes /\ OwnershipInv
    BY DEF ClusterInv
  <2>1. CASE stopping = None
    <3>1. Running \subseteq Counted
      BY <2>1, <2>t, NodeFacts DEF OwnershipInv, Running
    <3>2. IsFiniteSet(Running) /\ Cardinality(Running) <= Headcount
      BY <3>1, CountedFinite, FS_Subset
    <3> QED
      BY <2>1, <3>2, <2>t, CountedFinite, NodeFacts, FS_CardinalityType DEF OwnershipInv
  <2>2. CASE stopping # None
    <3>1. Running \subseteq Counted \cup {stopping}
      BY <2>t DEF OwnershipInv
    <3> DEFINE count == Cardinality(Counted)
    <3>2. /\ IsFiniteSet(Counted \cup {stopping})
          /\ Cardinality(Counted \cup {stopping}) = count \/ Cardinality(Counted \cup {stopping}) = count + 1
      BY CountedFinite, FS_AddElement
    <3>3. IsFiniteSet(Running) /\ Cardinality(Running) <= Cardinality(Counted \cup {stopping})
      BY <3>1, <3>2, FS_Subset
    <3>4. count \in Nat /\ count + 1 <= MaxWorkers /\ MaxWorkers \in Nat
      BY <2>2, <2>t, CountedFinite, NodeFacts DEF OwnershipInv
    <3>5. Cardinality(Running) \in Nat
      BY <3>3, FS_CardinalityType
    <3> HIDE DEF count
    <3> QED
      BY <3>2, <3>3, <3>4, <3>5
  <2> QED
    BY <2>1, <2>2
<1> QED
  BY <1>1, ClusterInvariant, PTL

(* A worker that was scaled down after its registration was over never     *)
(* returns to the ring, whatever callbacks are still to run.               *)
THEOREM ClusterNoReturn == ClusterSpec => []NoReturn
<1>1. ClusterInv => NoReturn
  BY DEF ClusterInv, MembershipInv, OwnershipTypes, NoReturn
<1> QED
  BY <1>1, ClusterInvariant, PTL

-----------------------------------------------------------------------------
(* Types, the ring and the lookups, in every behaviour. *)

ClusterTypes ==
    /\ RingOK
    /\ known \subseteq Nodes
    /\ status \in [Nodes -> {"unknown", "healthy", "unhealthy"}]
    /\ ups \in [Nodes -> Nat] /\ downs \in [Nodes -> Nat]
    /\ process \in [Nodes -> {"none", "loading", "up", "stopping", "dead"}]
    /\ workers \in [Nodes -> {"absent", "external", "owned"}]
    /\ next_auto \in 1..Len(AutoNodes) + 1
    /\ joining \in [Nodes -> {"no", "polling", "adding", "registering"}]
    /\ stopping \in Nodes \cup {None}
    /\ at \in {"idle", "routing", "forwarding", "refused"}
    /\ candidates \in Seq(Nodes)
    /\ steady \subseteq Nodes /\ reachable \subseteq Nodes /\ raced \subseteq Nodes
    /\ faults \in 0..MaxFaults

(* What the handler still has to try, and what it cannot have missed.      *)
FallbackInv ==
    /\ steady \subseteq Healthy
    /\ Cardinality(reachable) <= Cardinality(Static) =>
           /\ at = "routing" => steady \cap reachable \subseteq Range(candidates)
           /\ at = "refused" => steady \cap reachable = {}

LookupInv == ClusterTypes /\ FallbackInv

LEMMA LookupStart == ClusterInit => LookupInv
<1> SUFFICES ASSUME ClusterInit PROVE LookupInv
  OBVIOUS
<1>1. Static \in SUBSET Nodes /\ IsFiniteSet(Static)
  BY NodeFacts, FS_Subset
<1>2. RingOK
  BY <1>1, StartRing DEF ClusterInit, RingOK
<1>3. Len(AutoNodes) \in Nat /\ MaxFaults \in Nat
  BY ClusterAssumption
<1>4. ClusterTypes
  BY <1>1, <1>2, <1>3 DEF ClusterInit, ClusterTypes, Monitor!MonitorInit
<1>5. FallbackInv
  BY DEF ClusterInit, FallbackInv
<1> QED
  BY <1>4, <1>5 DEF LookupInv

(* Steps that leave the handler alone: its nodes stay healthy, or leave    *)
(* the set of those that were so throughout.                               *)
LEMMA FallbackKept ==
    ASSUME FallbackInv, UNCHANGED <<at, candidates, reachable>>,
           steady' \subseteq steady, steady' \subseteq Healthy'
    PROVE  FallbackInv'
  BY DEF FallbackInv

LEMMA HealthyKept == UNCHANGED <<known, status>> => Healthy' = Healthy
  BY DEF Healthy

LEMMA ProcessLookup ==
    ASSUME LookupInv, NEW n \in Nodes, Loaded(n) \/ Crash(n) \/ Restart(n) \/ Exits(n)
    PROVE  LookupInv'
<1>1. UNCHANGED <<ringVars, monitorVars, scalerVars, handlerVars>>
  BY DEF Loaded, Crash, Restart, Exits
<1>2. process' \in [Nodes -> {"none", "loading", "up", "stopping", "dead"}]
  BY DEF Loaded, Crash, Restart, Exits, Runs, LookupInv, ClusterTypes
<1>3. faults' \in 0..MaxFaults
  <2>1. MaxFaults \in Nat /\ faults \in 0..MaxFaults
    BY ClusterAssumption DEF LookupInv, ClusterTypes
  <2>2. faults' = faults \/ (faults < MaxFaults /\ faults' = faults + 1)
    BY DEF Loaded, Crash, Restart, Exits, Fault
  <2> QED
    BY <2>1, <2>2
<1>4. RingOK'
  BY <1>1 DEF RingOK, ringVars, LookupInv, ClusterTypes
<1>5. ClusterTypes'
  BY <1>1, <1>2, <1>3, <1>4 DEF ClusterTypes, LookupInv, monitorVars, scalerVars, handlerVars
<1>6. FallbackInv'
  BY <1>1, HealthyKept, FallbackKept DEF LookupInv, FallbackInv, monitorVars, handlerVars
<1> QED
  BY <1>5, <1>6 DEF LookupInv

LEMMA MonitorLookup ==
    ASSUME LookupInv, NEW n \in Nodes,
           ComesUp(n) \/ GoesDown(n) \/ OnNodeUp(n) \/ OnNodeDown(n)
    PROVE  LookupInv'
<1>t. ClusterTypes /\ FallbackInv
  BY DEF LookupInv
<1>1. CASE ComesUp(n)
  <2>1. /\ UNCHANGED <<ringVars, known, downs, process, scalerVars, handlerVars, faults>>
        /\ status' = [status EXCEPT ![n] = "healthy"]
        /\ ups' = [ups EXCEPT ![n] = @ + 1]
    BY <1>1 DEF ComesUp, Monitor!ComeUp, Plus
  <2>2. RingOK'
    BY <2>1, <1>t DEF RingOK, ringVars, ClusterTypes
  <2>3. ClusterTypes'
    BY <2>1, <2>2, <1>t DEF ClusterTypes, scalerVars, handlerVars
  <2>4. Healthy \subseteq Healthy'
    BY <2>1, <1>t DEF Healthy, ClusterTypes
  <2>5. FallbackInv'
    BY <2>1, <2>4, <1>t, FallbackKept DEF FallbackInv, handlerVars
  <2> QED
    BY <2>3, <2>5 DEF LookupInv
<1>2. CASE GoesDown(n)
  <2>1. /\ UNCHANGED <<ringVars, known, ups, process, scalerVars, at, candidates, reachable>>
        /\ status' = [status EXCEPT ![n] = "unhealthy"]
        /\ downs' = [downs EXCEPT ![n] = @ + 1]
        /\ steady' = steady \ {n}
        /\ Fault \/ UNCHANGED faults
    BY <1>2 DEF GoesDown, Monitor!GoDown, Plus
  <2>2. RingOK'
    BY <2>1, <1>t DEF RingOK, ringVars, ClusterTypes
  <2>3. faults' \in 0..MaxFaults
    BY <2>1, <1>t, ClusterAssumption DEF Fault, ClusterTypes
  <2>4. ClusterTypes'
    BY <2>1, <2>2, <2>3, <1>t DEF ClusterTypes, scalerVars
  <2>5. steady \ {n} \subseteq Healthy'
    BY <2>1, <1>t DEF Healthy, ClusterTypes, FallbackInv
  <2>6. FallbackInv'
    BY <2>1, <2>5, <1>t, FallbackKept
  <2> QED
    BY <2>4, <2>6 DEF LookupInv
<1>3. CASE OnNodeUp(n) \/ OnNodeDown(n)
  <2>1. /\ UNCHANGED <<known, status, process, scalerVars, handlerVars, faults>>
        /\ AddNode(n) \/ RemoveNode(n) \/ UNCHANGED ringVars
    BY <1>3 DEF OnNodeUp, OnNodeDown
  <2>2. RingOK'
    <3>1. RingOK
      BY <1>t DEF ClusterTypes
    <3>2. UNCHANGED ringVars => RingOK'
      BY <3>1 DEF RingOK, ringVars
    <3> QED
      BY <2>1, <3>1, <3>2, RingAdd, RingRemove
  <2>3. ups' \in [Nodes -> Nat] /\ downs' \in [Nodes -> Nat]
    <3>1. ups \in [Nodes -> Nat] /\ downs \in [Nodes -> Nat]
      BY <1>t DEF ClusterTypes
    <3>2. CASE OnNodeUp(n)
      <4>1. ups[n] > 0 /\ ups' = [ups EXCEPT ![n] = @ + (-1)] /\ UNCHANGED downs
        BY <3>2 DEF OnNodeUp, Plus
      <4> QED
        BY <3>1, <4>1
    <3>3. CASE OnNodeDown(n)
      <4>1. downs[n] > 0 /\ downs' = [downs EXCEPT ![n] = @ + (-1)] /\ UNCHANGED ups
        BY <3>3 DEF OnNodeDown, Plus
      <4> QED
        BY <3>1, <4>1
    <3> QED
      BY <1>3, <3>2, <3>3
  <2>4. ClusterTypes'
    BY <2>1, <2>2, <2>3, <1>t DEF ClusterTypes, scalerVars, handlerVars
  <2>5. FallbackInv'
    BY <2>1, <1>t, HealthyKept, FallbackKept DEF FallbackInv, handlerVars
  <2> QED
    BY <2>4, <2>5 DEF LookupInv
<1> QED
  BY <1>1, <1>2, <1>3

LEMMA ScalerLookup ==
    ASSUME LookupInv, ScaleUp \/ ScaleUpFails \/ ScaleDown \/ Terminate
    PROVE  LookupInv'
<1>t. ClusterTypes /\ FallbackInv /\ RingOK
  BY DEF LookupInv, ClusterTypes
<1>1. /\ UNCHANGED <<monitorVars, handlerVars, faults>>
      /\ UNCHANGED ringVars \/ \E n : RemoveNode(n)
  BY DEF ScaleUp, ScaleUpFails, ScaleDown, Terminate
<1>2. RingOK'
  <2>1. UNCHANGED ringVars => RingOK'
    BY <1>t DEF RingOK, ringVars
  <2> QED
    BY <1>1, <1>t, <2>1, RingRemove
<1>3. FallbackInv'
  BY <1>1, <1>t, HealthyKept, FallbackKept DEF FallbackInv, handlerVars, monitorVars
<1>4. Len(AutoNodes) \in Nat /\ DOMAIN AutoNodes = 1..Len(AutoNodes)
      /\ \A i \in DOMAIN AutoNodes : AutoNodes[i] \in Nodes
  BY ClusterAssumption
<1>5. /\ process' \in [Nodes -> {"none", "loading", "up", "stopping", "dead"}]
      /\ workers' \in [Nodes -> {"absent", "external", "owned"}]
      /\ joining' \in [Nodes -> {"no", "polling", "adding", "registering"}]
      /\ next_auto' \in 1..Len(AutoNodes) + 1
      /\ stopping' \in Nodes \cup {None} /\ raced' \subseteq Nodes
  <2>1. CASE ScaleUp
    BY <2>1, <1>4, <1>t DEF ScaleUp, Runs, ClusterTypes
  <2>2. CASE ScaleUpFails
    BY <2>2, <1>4, <1>t DEF ScaleUpFails, ClusterTypes
  <2>3. CASE ScaleDown
    <3> DEFINE n == AutoNodes[Min(Owned)]
    <3>1. n \in Nodes
      BY <2>3, <1>4, FirstOwned DEF ScaleDown, Owned
    <3>2. /\ workers' = [workers EXCEPT ![n] = "absent"]
          /\ stopping' = n
          /\ raced' = raced \/ raced' = raced \cup {n}
          /\ UNCHANGED <<process, next_auto, joining>>
      BY <2>3 DEF ScaleDown
    <3> HIDE DEF n
    <3> QED
      BY <3>1, <3>2, <1>t DEF ClusterTypes
  <2>4. CASE Terminate
    BY <2>4, <1>t DEF Terminate, Runs, ClusterTypes
  <2> QED
    BY <2>1, <2>2, <2>3, <2>4
<1>6. ClusterTypes'
  BY <1>1, <1>2, <1>5, <1>t DEF ClusterTypes, monitorVars, handlerVars
<1> QED
  BY <1>3, <1>6 DEF LookupInv

LEMMA JoinLookup ==
    ASSUME LookupInv, NEW n \in Nodes,
           HealthAnswered(n) \/ PollingEnds(n) \/ JoinRing(n) \/ JoinMonitor(n)
    PROVE  LookupInv'
<1>t. ClusterTypes /\ FallbackInv /\ RingOK
  BY DEF LookupInv, ClusterTypes
<1>1. /\ UNCHANGED <<process, workers, next_auto, stopping, raced, handlerVars, faults, ups, downs, status>>
      /\ UNCHANGED known \/ known' = known \cup {n}
      /\ UNCHANGED ringVars \/ AddNode(n)
      /\ joining' \in [Nodes -> {"no", "polling", "adding", "registering"}]
  BY <1>t DEF HealthAnswered, PollingEnds, JoinRing, JoinMonitor, Joins, monitorVars,
              Monitor!Register, ClusterTypes
<1>2. RingOK'
  <2>1. UNCHANGED ringVars => RingOK'
    BY <1>t DEF RingOK, ringVars
  <2> QED
    BY <1>1, <1>t, <2>1, RingAdd
<1>3. Healthy \subseteq Healthy'
  BY <1>1 DEF Healthy
<1>4. FallbackInv'
  BY <1>1, <1>3, <1>t, FallbackKept DEF FallbackInv, handlerVars
<1>5. ClusterTypes'
  BY <1>1, <1>2, <1>t DEF ClusterTypes, handlerVars
<1> QED
  BY <1>4, <1>5 DEF LookupInv

LEMMA RouteLookup ==
    ASSUME LookupInv, NEW k \in Keys, Route(k)
    PROVE  LookupInv'
<1>t. ClusterTypes /\ FallbackInv /\ RingOK
  BY DEF LookupInv, ClusterTypes
<1>1. /\ UNCHANGED <<ringVars, monitorVars, process, scalerVars, faults>>
      /\ at' = "routing" /\ steady' = Healthy /\ reachable' = members
      /\ candidates' = NodesForKey(k, Cardinality(Static))
  BY DEF Route
<1>2. Cardinality(Static) \in Nat
  BY NodeFacts, FS_Subset, FS_CardinalityType
<1>3. /\ candidates' \in Seq(Nodes)
      /\ Cardinality(members) <= Cardinality(Static) => Range(candidates') = members
  BY <1>1, <1>2, <1>t, NodeFacts, NodesForKeyCount
<1>4. RingOK'
  BY <1>1, <1>t DEF RingOK, ringVars
<1>5. ClusterTypes'
  BY <1>1, <1>3, <1>4, <1>t DEF ClusterTypes, monitorVars, scalerVars, Healthy, RingOK
<1>6. Healthy' = Healthy
  BY <1>1, HealthyKept DEF monitorVars
<1>7. FallbackInv'
  BY <1>1, <1>3, <1>6 DEF FallbackInv
<1> QED
  BY <1>5, <1>7 DEF LookupInv

LEMMA HandlerLookup ==
    ASSUME LookupInv, LookHealthy \/ LookUnhealthy \/ Refuse \/ Answer
    PROVE  LookupInv'
<1>t. ClusterTypes /\ FallbackInv /\ RingOK
  BY DEF LookupInv, ClusterTypes
<1>1. UNCHANGED <<ringVars, monitorVars, process, scalerVars, faults>>
  BY DEF LookHealthy, LookUnhealthy, Refuse, Answer
<1>2. RingOK' /\ Healthy' = Healthy
  BY <1>1, <1>t, HealthyKept DEF RingOK, ringVars, monitorVars
<1>3. ASSUME at' \in {"idle", "routing", "forwarding", "refused"}, candidates' \in Seq(Nodes),
             steady' \subseteq Nodes, reachable' \subseteq Nodes
      PROVE  ClusterTypes'
  BY <1>1, <1>2, <1>3, <1>t DEF ClusterTypes, monitorVars, scalerVars
<1>4. CASE LookHealthy
  <2>1. at' = "forwarding" /\ UNCHANGED <<candidates, steady, reachable>>
    BY <1>4 DEF LookHealthy
  <2>2. ClusterTypes'
    BY <2>1, <1>3, <1>t DEF ClusterTypes
  <2>3. FallbackInv'
    BY <2>1, <1>2, <1>t DEF FallbackInv
  <2> QED
    BY <2>2, <2>3 DEF LookupInv
<1>5. CASE LookUnhealthy
  <2>1. /\ at = "routing" /\ candidates # <<>> /\ candidates[1] \notin Healthy
        /\ candidates' = Tail(candidates) /\ UNCHANGED <<at, steady, reachable>>
    BY <1>5 DEF LookUnhealthy
  <2>2. candidates \in Seq(Nodes) /\ steady \subseteq Healthy
    BY <1>t DEF ClusterTypes, FallbackInv
  <2>3. candidates' \in Seq(Nodes) /\ Range(candidates) \subseteq Range(candidates') \cup {candidates[1]}
    <3>1. /\ Tail(candidates) \in Seq(Nodes) /\ Len(Tail(candidates)) = Len(candidates) - 1
          /\ \A i \in 1..Len(Tail(candidates)) : Tail(candidates)[i] = candidates[i+1]
      BY <2>1, <2>2, HeadTailProperties
    <3>2. ASSUME NEW i \in 1..Len(candidates), i # 1
          PROVE  candidates[i] \in Range(Tail(candidates))
      <4>1. i - 1 \in 1..Len(Tail(candidates)) /\ (i - 1) + 1 = i
        BY <3>1, <3>2, <2>2
      <4>2. candidates[i] = Tail(candidates)[i-1]
        BY <3>1, <4>1
      <4>3. i - 1 \in DOMAIN Tail(candidates)
        BY <3>1, <4>1
      <4> QED
        BY <4>2, <4>3 DEF Range
    <3> QED
      BY <2>1, <2>2, <3>1, <3>2 DEF Range
  <2>4. ClusterTypes'
    BY <2>1, <2>3, <1>3, <1>t DEF ClusterTypes
  <2>5. FallbackInv'
    BY <2>1, <2>2, <2>3, <1>2, <1>t DEF FallbackInv
  <2> QED
    BY <2>4, <2>5 DEF LookupInv
<1>6. CASE Refuse
  <2>1. at = "routing" /\ candidates = <<>> /\ at' = "refused" /\ UNCHANGED <<candidates, steady, reachable>>
    BY <1>6 DEF Refuse
  <2>2. ClusterTypes'
    BY <2>1, <1>3, <1>t DEF ClusterTypes
  <2>3. Range(candidates) = {}
    BY <2>1 DEF Range
  <2>4. FallbackInv'
    BY <2>1, <2>3, <1>2, <1>t DEF FallbackInv
  <2> QED
    BY <2>2, <2>4 DEF LookupInv
<1>7. CASE Answer
  <2>1. at' = "idle" /\ candidates' = <<>> /\ steady' = {} /\ reachable' = {}
    BY <1>7 DEF Answer
  <2>2. ClusterTypes'
    BY <2>1, <1>3
  <2>3. FallbackInv'
    BY <2>1 DEF FallbackInv
  <2> QED
    BY <2>2, <2>3 DEF LookupInv
<1> QED
  BY <1>4, <1>5, <1>6, <1>7

LEMMA LookupInvariant == ClusterSpec => []LookupInv
<1>1. LookupInv /\ (UNCHANGED clusterVars \/ Shutdown \/ ShutDown) => LookupInv'
  BY DEF LookupInv, ClusterTypes, RingOK, FallbackInv, Healthy, clusterVars, ringVars,
         monitorVars, scalerVars, handlerVars, Shutdown, ShutDown
<1>2. LookupInv /\ [ClusterNext]_clusterVars => LookupInv'
  BY <1>1, ProcessLookup, MonitorLookup, ScalerLookup, JoinLookup, RouteLookup, HandlerLookup
     DEF ClusterNext, ProcessNext, ThreadNext
<1> QED
  BY <1>2, LookupStart, PTL DEF ClusterSpec

(* The types of everything, and with them: the ring is sorted and has the  *)
(* virtual nodes of its members and nothing else, whatever sequence of     *)
(* additions and removals the threads make.                                *)
THEOREM ClusterTypeCorrect == ClusterSpec => []ClusterTypeOK
<1> DEFINE RouterOK == router \in {"serving", "closing", "gone"}
<1>0. ClusterSpec => []RouterOK
  <2>1. ClusterInit => RouterOK
    BY DEF ClusterInit
  <2>2. RouterOK /\ [ClusterNext]_clusterVars => RouterOK'
    BY DEF ClusterNext, Shutdown, ShutDown, clusterVars
  <2> QED
    BY <2>1, <2>2, PTL DEF ClusterSpec
<1>1. LookupInv /\ RouterOK => ClusterTypeOK
  <2> SUFFICES ASSUME LookupInv, RouterOK PROVE ClusterTypeOK
    OBVIOUS
  <2>1. RingTypeOK
    BY DEF LookupInv, ClusterTypes, RingOK, SortedRings, Sorted, RingTypeOK, VnodesOf
  <2> QED
    BY <2>1 DEF LookupInv, ClusterTypes, ClusterTypeOK, RingOK
<1> QED
  BY <1>0, <1>1, LookupInvariant, PTL

(* A lookup gives the members nearest to the key, nearest first, each once *)
(* and as many as were asked for: bisection, wrap-around and               *)
(* de-duplication are right on every ring, virtual nodes that collide      *)
(* included.                                                               *)
THEOREM ClusterNearestFirst == ClusterSpec => []NearestFirst
<1>1. LookupInv => NearestFirst
  BY NearestFirstHolds, NodeFacts DEF LookupInv, ClusterTypes
<1> QED
  BY <1>1, LookupInvariant, PTL

(* While the ring has no more nodes than WORKER_NODES had, a call is       *)
(* refused only if no node that was in the ring when it came was healthy   *)
(* throughout.                                                             *)
THEOREM ClusterFallback == ClusterSpec => []FallbackComplete
<1>1. LookupInv => FallbackComplete
  BY DEF LookupInv, FallbackInv, FallbackComplete
<1> QED
  BY <1>1, LookupInvariant, PTL

LEMMA NearerAsymmetric ==
    ASSUME NEW k \in Keys, NEW a \in Nodes, NEW b \in Nodes, a # b,
           Nearer(k, a, b), Nearer(k, b, a)
    PROVE  FALSE
<1>1. PICK p \in Range(VnodeHash[a]) : \A q \in Range(VnodeHash[b]) :
          Clockwise(k, p) < Clockwise(k, q) \/ (p = q /\ IdOrder[a] < IdOrder[b])
  BY DEF Nearer, Clockwise
<1>2. PICK q \in Range(VnodeHash[b]) : \A x \in Range(VnodeHash[a]) :
          Clockwise(k, q) < Clockwise(k, x) \/ (q = x /\ IdOrder[b] < IdOrder[a])
  BY DEF Nearer, Clockwise
<1>3. p \in 0..RingSize-1 /\ q \in 0..RingSize-1
  BY HashRingAssumption DEF Range
<1>4. Clockwise(k, p) \in Int /\ Clockwise(k, q) \in Int
  BY <1>3, ClockwiseFacts, VnodeFacts
<1>5. IdOrder[a] \in Int /\ IdOrder[b] \in Int
  BY VnodeFacts
<1> QED
  BY <1>1, <1>2, <1>4, <1>5

(* Whoever changes the ring adds a node or removes one.                    *)
LEMMA RingMoves ==
    ASSUME [ClusterNext]_clusterVars, ring' # ring
    PROVE  \E n \in Nodes : AddNode(n) \/ RemoveNode(n)
<1>1. CASE UNCHANGED clusterVars
  BY <1>1 DEF clusterVars, ringVars
<1>2. ASSUME NEW n \in Nodes,
             \/ Loaded(n) \/ Crash(n) \/ Restart(n) \/ Exits(n)
             \/ ComesUp(n) \/ GoesDown(n) \/ OnNodeUp(n) \/ OnNodeDown(n)
             \/ HealthAnswered(n) \/ PollingEnds(n) \/ JoinRing(n) \/ JoinMonitor(n)
      PROVE  AddNode(n) \/ RemoveNode(n)
  BY <1>2 DEF Loaded, Crash, Restart, Exits, ComesUp, GoesDown, OnNodeUp, OnNodeDown,
              HealthAnswered, PollingEnds, JoinRing, JoinMonitor, ringVars
<1>3. CASE ScaleDown
  <2>1. AutoNodes[Min(Owned)] \in Nodes
    BY <1>3, NodeFacts, FirstOwned DEF ScaleDown, Owned
  <2> QED
    BY <1>3, <2>1 DEF ScaleDown
<1>4. ASSUME Shutdown \/ ShutDown \/ ScaleUp \/ ScaleUpFails \/ Terminate \/ (\E k \in Keys : Route(k))
             \/ LookHealthy \/ LookUnhealthy \/ Refuse \/ Answer
      PROVE  FALSE
  BY <1>4 DEF Shutdown, ShutDown, ScaleUp, ScaleUpFails, Terminate, Route, LookHealthy, LookUnhealthy, Refuse,
              Answer, ringVars
<1> QED
  BY <1>1, <1>2, <1>3, <1>4 DEF ClusterNext, ProcessNext, ThreadNext

Nearest(k, g, M) == g \in M /\ \A m \in M \ {g} : Nearer(k, g, m)

(* If two owners of a key differ, the change of members is about one.      *)
LEMMA OwnersDiffer ==
    ASSUME NEW k \in Keys, NEW n, NEW M \in SUBSET Nodes, NEW N \in SUBSET Nodes,
           NEW g, Nearest(k, g, M), NEW h, Nearest(k, h, N), g # h,
           \/ N = M \cup {n} /\ n \notin M
           \/ N = M \ {n} /\ n \in M
    PROVE  (N = M \cup {h} /\ h \notin M) \/ N = M \ {g}
<1>1. ASSUME g \in N, h \in M PROVE FALSE
  <2>1. Nearer(k, g, h) /\ Nearer(k, h, g)
    BY <1>1 DEF Nearest
  <2> QED
    BY <1>1, <2>1, NearerAsymmetric
<1> QED
  BY <1>1 DEF Nearest

(* The sessions that change their node when one joins or leaves.           *)
LEMMA RemapStep ==
    ASSUME RingOK, RingOK', NEW n \in Nodes, AddNode(n) \/ RemoveNode(n),
           ring' # ring, members # {}, members' # {},
           NEW k \in Keys, (GetNode(k))' # GetNode(k)
    PROVE  \/ members' = members \cup {(GetNode(k))'} /\ (GetNode(k))' \notin members
           \/ members' = members \ {GetNode(k)}
<1>1. Nearest(k, GetNode(k), members)
  BY NodeFacts, GetNodeNearest DEF Nearest
<1>2. Nearest(k, (GetNode(k))', members')
  BY NodeFacts, GetNodeNearestNext DEF Nearer, Nearest
<1>3. \/ members' = members \cup {n} /\ n \notin members
      \/ members' = members \ {n} /\ n \in members
  BY DEF AddNode, RemoveNode, ringVars
<1>4. members \in SUBSET Nodes /\ members' \in SUBSET Nodes
  BY DEF RingOK
<1> QED
  BY <1>1, <1>2, <1>3, <1>4, OwnersDiffer

(* Adding or removing a node remaps only the keys in its arc: a session    *)
(* changes its node only to the one that has just joined, or from the one  *)
(* that has just left.                                                     *)
THEOREM ClusterRemap == ClusterSpec => RemapOnlyOwn
<1> DEFINE Remap == (ring' # ring /\ members # {} /\ members' # {}) =>
               \A k \in Keys : GetNode(k)' # GetNode(k) =>
                   \/ members' = members \cup {GetNode(k)'} /\ GetNode(k)' \notin members
                   \/ members' = members \ {GetNode(k)}
<1>1. ASSUME LookupInv, LookupInv', [ClusterNext]_clusterVars
      PROVE  [Remap]_ringVars
  <2> SUFFICES ASSUME ring' # ring PROVE Remap
    BY DEF ringVars
  <2>1. \E n \in Nodes : AddNode(n) \/ RemoveNode(n)
    BY <1>1, RingMoves
  <2>2. RingOK /\ RingOK'
    BY <1>1 DEF LookupInv, ClusterTypes
  <2> QED
    BY <2>1, <2>2, RemapStep
<1> QED
  BY <1>1, LookupInvariant, PTL DEF ClusterSpec, RemapOnlyOwn
=============================================================================
