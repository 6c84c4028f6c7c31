------------------------------ MODULE HashRing ------------------------------
(***************************************************************************)
(* router/hash_ring.py: class ConsistentHashRing.                          *)
(*                                                                         *)
(* _ring is a sorted list of <<position, node>>; hashing is a parameter.   *)
(* Every method holds the lock throughout, so the methods are operators on *)
(* the two variables for the threads of the router to use.                 *)
(***************************************************************************)
EXTENDS Integers, Sequences, SequencesExt

CONSTANTS Nodes,      \* nodes that are ever in the ring
          Keys,       \* session ids
          RingSize,   \* 2^32 in the code
          VnodeHash,  \* the positions of a node's virtual nodes
          KeyHash,    \* the position of a key
          IdOrder     \* rank of a node id in the order of strings

ASSUME HashRingAssumption ==
    /\ RingSize \in Nat \ {0}
    /\ VnodeHash \in [Nodes -> Seq(0..RingSize-1) \ {<<>>}]
    /\ KeyHash \in [Keys -> 0..RingSize-1]
    /\ IdOrder \in [Nodes -> Nat] /\ IsInjective(IdOrder)

VARIABLES ring,    \* _ring
          members  \* keys of _nodes

ringVars == <<ring, members>>

Position(vnode) == vnode[1]
Owner(vnode) == vnode[2]

(* Tuples of Python compare by position, then by node id. *)
Below(v, w) ==
    \/ Position(v) < Position(w)
    \/ Position(v) = Position(w) /\ IdOrder[Owner(v)] < IdOrder[Owner(w)]

(* bisect.insort: to the right of what is not above v. *)
Insort(r, v) == InsertAt(r, 1 + Cardinality({i \in DOMAIN r : ~Below(v, r[i])}), v)

WithNode(r, n) == FoldLeft(LAMBDA s, p : Insort(s, <<p, n>>), r, VnodeHash[n])

(* add_node() *)
AddNode(n) ==
    IF n \in members THEN UNCHANGED ringVars
    ELSE /\ members' = members \cup {n}
         /\ ring' = WithNode(ring, n)

(* Mistake: virtual nodes are removed by position, whoever owns them. *)
RemoveByPosition(n) ==
    IF n \notin members THEN UNCHANGED ringVars
    ELSE /\ members' = members \ {n}
         /\ ring' = SelectSeq(ring, LAMBDA v : Position(v) \notin Range(VnodeHash[n]))

WithoutNode(r, n) ==
    FoldLeft(LAMBDA s, v : IF Owner(v) # n \/ Position(v) \notin Range(VnodeHash[n])
                           THEN Append(s, v) ELSE s,
             <<>>, r)

(* remove_node() *)
RemoveNode(n) ==
    IF n \notin members THEN UNCHANGED ringVars
    ELSE /\ members' = members \ {n}
         /\ ring' = WithoutNode(ring, n)

(* Mistake: no wrap-around, keys above the last position go nowhere near it. *)
SlotClamped(k, i) ==
    LET idx == Cardinality({j \in DOMAIN ring : Position(ring[j]) < KeyHash[k]})
    IN  ring[IF idx + i < Len(ring) THEN idx + i + 1 ELSE Len(ring)]

(* The i-th virtual node clockwise from key k, bisect_left's being the 0-th. *)
Slot(k, i) ==
    LET idx == Cardinality({j \in DOMAIN ring : Position(ring[j]) < KeyHash[k]})
    IN  ring[((idx + i) % Len(ring)) + 1]

(* get_node() of a ring that is not empty *)
GetNode(k) == Owner(Slot(k, 0))

(* Mistake: a node is listed once for each of its virtual nodes. *)
NodesForKeyRepeated(k, n) ==
    FoldLeft(LAMBDA result, i : IF Len(result) = n THEN result
                                ELSE Append(result, Owner(Slot(k, i - 1))),
             <<>>, [i \in 1..Len(ring) |-> i])

(* get_nodes_for_key(), for n > 0 *)
NodesForKey(k, n) ==
    FoldLeft(LAMBDA result, i :
                 IF Len(result) = n \/ Owner(Slot(k, i - 1)) \in Range(result) THEN result
                 ELSE Append(result, Owner(Slot(k, i - 1))),
             <<>>, [i \in 1..Len(ring) |-> i])

-----------------------------------------------------------------------------
(* Types, and the ring has the virtual nodes of the members, sorted. *)
RingTypeOK ==
    /\ members \subseteq Nodes
    /\ \A i, j \in DOMAIN ring : i < j => ~Below(ring[j], ring[i])
    /\ Range(ring) = UNION {Range(VnodeHash[n]) \X {n} : n \in members}

(* m has a virtual node clockwise from k before all those of n. *)
Nearer(k, m, n) ==
    LET Clockwise(p) == (p - KeyHash[k]) % RingSize
    IN  \E p \in Range(VnodeHash[m]) : \A q \in Range(VnodeHash[n]) :
            \/ Clockwise(p) < Clockwise(q)
            \/ p = q /\ IdOrder[m] < IdOrder[n]

(***************************************************************************)
(* Lookup by bisection, wrap-around and de-duplication gives the members   *)
(* nearest to the key, nearest first, each once and as many as asked for;  *)
(* get_node() is the first of them.                                        *)
(***************************************************************************)
NearestFirst ==
    \A k \in Keys : \A n \in 1..Cardinality(Nodes) :
        LET result == NodesForKey(k, n) IN
        /\ Len(result) = IF n < Cardinality(members) THEN n ELSE Cardinality(members)
        /\ \A i \in DOMAIN result :
            \A m \in members \ {result[j] : j \in 1..i} : Nearer(k, result[i], m)
        /\ IsInjective(result) /\ Range(result) \subseteq members
        /\ members # {} => GetNode(k) = result[1]

(***************************************************************************)
(* hash_ring.py:29: "Adding/removing a node only remaps keys in its arc".  *)
(* A session changes its node only to the node that has just joined, or    *)
(* from the one that has just left.                                        *)
(***************************************************************************)
RemapOnlyOwn ==
    [][(ring' # ring /\ members # {} /\ members' # {}) =>
        \A k \in Keys : GetNode(k)' # GetNode(k) =>
            \/ members' = members \cup {GetNode(k)'} /\ GetNode(k)' \notin members
            \/ members' = members \ {GetNode(k)}]_ringVars
=============================================================================
