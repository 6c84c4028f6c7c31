------------------------ MODULE SequenceCacheProofs -------------------------
(***************************************************************************)
(* Proofs about SequenceCache, for any number of sequences, any pool, any  *)
(* block size and any number of (layer, head) pairs.                       *)
(***************************************************************************)
EXTENDS SequenceCache, BlockPoolProofs

(* A cache is registered under its own id, and until free() begins; before *)
(* that it is empty.                                                       *)
RegistryInv ==
    /\ \A id \in Ids : sequences[id] # None =>
           /\ seq_id[sequences[id]] = id /\ freeing[sequences[id]] = 0
           /\ at[sequences[id]] \notin {"new", "creating"}
    /\ \A c \in Caches : at[c] \in {"new", "creating"} =>
           freeing[c] = 0 /\ block_table[c] = <<>> /\ num_cached_tokens[c] = 0
    /\ \A c \in Caches : at[c] = "creating" => seq_id[c] \in Ids

(* What a caller can rely on between two steps: nobody else extends its    *)
(* table, and only free() empties it.                                      *)
CallerInv ==
    \A c \in Caches :
        /\ at[c] \in Appending => calls[c] < MaxCalls
        /\ at[c] \in Appending /\ freeing[c] # 0 => c \in overtaken
        /\ at[c] \in {"test", "read", "assign", "write"} /\ freeing[c] = 0 =>
               block_table[c] # <<>>
        /\ at[c] \in {"extend", "assign", "write"} => hand[c] \in Blocks
        /\ at[c] \in {"assign", "write"} /\ block_table[c] # <<>> =>
               hand[c] = block_table[c][Len(block_table[c])]
        /\ c \notin overtaken /\ freeing[c] \in {-2, -3} => block_table[c] = <<>>

(* Cache c has b: in an entry of its table, or, at 0, in its caller's hand *)
Has(c, i, b) ==
    \/ i \in LiveEntries(c) /\ block_table[c][i] = b
    \/ i = 0 /\ InHand(c, b)

(* A block has one reference if a cache has it, and then no other has it.  *)
PlaceInv ==
    \A b \in Blocks, c \in Caches : \A i \in Nat : Has(c, i, b) =>
        /\ ref_count[b] = 1 /\ taker[b] = c
        /\ authors[b] \subseteq {c} \cup overtaken
        /\ \A d \in Caches : \A j \in Nat : Has(d, j, b) => d = c /\ j = i

(* A block in use is had by the cache that took it, or that was overtaken. *)
LeakInv ==
    \A b \in Blocks : ref_count[b] = 1 =>
        \/ taker[b] \in overtaken
        \/ \E c \in Caches : taker[b] = c /\ \E i \in Nat : Has(c, i, b)

SequenceInv ==
    SequenceTypeOK /\ FreeListOK /\ RegistryInv /\ CallerInv /\ PlaceInv /\ LeakInv

LEMMA SequenceStart == SequenceInit => SequenceInv
<1> SUFFICES ASSUME SequenceInit PROVE SequenceInv
  OBVIOUS
<1>1. FreeListOK
  BY SequenceAssumption, PoolStart DEF SequenceInit
<1>2. SequenceTypeOK
  BY <1>1, SequenceAssumption
  DEF SequenceInit, PoolInit, SequenceTypeOK, FreeListOK, Appending, Freed
<1>3. RegistryInv /\ CallerInv
  BY DEF SequenceInit, RegistryInv, CallerInv, Appending
<1>4. \A c \in Caches : LiveEntries(c) = {} /\ at[c] # "extend"
  BY DEF SequenceInit, LiveEntries
<1>5. PlaceInv /\ LeakInv
  BY <1>4 DEF SequenceInit, PoolInit, PlaceInv, LeakInv, Has, InHand
<1> QED
  BY <1>1, <1>2, <1>3, <1>5 DEF SequenceInv

(* Where an entry is, and what is in it. *)
LEMMA EntryFacts ==
    ASSUME SequenceTypeOK, NEW c \in Caches
    PROVE  /\ block_table[c] \in Seq(Blocks) /\ Len(block_table[c]) \in Nat
           /\ DOMAIN block_table[c] = 1..Len(block_table[c])
           /\ \A i \in 1..Len(block_table[c]) : block_table[c][i] \in Blocks
           /\ LiveEntries(c) \subseteq 1..Len(block_table[c])
           /\ freeing[c] = 0 => LiveEntries(c) = 1..Len(block_table[c])
           /\ block_table[c] = <<>> <=> Len(block_table[c]) = 0
<1>1. /\ block_table[c] \in Seq(Blocks) /\ Len(block_table[c]) \in Nat
      /\ DOMAIN block_table[c] = 1..Len(block_table[c])
  BY DEF SequenceTypeOK
<1> QED
  BY <1>1 DEF LiveEntries

-----------------------------------------------------------------------------
(* Registry, callers and places under the various steps.                   *)

(* Nothing new is had, and what is had has lost neither its reference nor  *)
(* its privacy.                                                            *)
LEMMA PlacesKept ==
    ASSUME PlaceInv, overtaken \subseteq overtaken',
           \A b \in Blocks, c \in Caches : \A i \in Nat : Has(c, i, b)' =>
               /\ Has(c, i, b)
               /\ ref_count'[b] = ref_count[b] /\ taker'[b] = taker[b]
               /\ authors'[b] \subseteq authors[b] \cup {c} \cup overtaken'
    PROVE  PlaceInv'
  BY DEF PlaceInv

(* Nothing is given up, and no block is taken. *)
LEMMA LeaksKept ==
    ASSUME LeakInv, overtaken \subseteq overtaken',
           \A b \in Blocks, c \in Caches : \A i \in Nat : Has(c, i, b) => Has(c, i, b)',
           UNCHANGED <<ref_count, taker>>
    PROVE  LeakInv'
  BY DEF LeakInv

(* A step of which neither tables nor hands nor the pool see anything. *)
LEMMA NothingMoved ==
    ASSUME PlaceInv, LeakInv, FreeListOK, overtaken \subseteq overtaken',
           UNCHANGED <<poolVars, taker, authors>>,
           \A c \in Caches : /\ LiveEntries(c)' = LiveEntries(c)
                             /\ \A b \in Blocks : InHand(c, b)' = InHand(c, b)
                             /\ \A i \in LiveEntries(c) : block_table'[c][i] = block_table[c][i]
    PROVE  PlaceInv' /\ LeakInv' /\ FreeListOK'
<1>1. \A b \in Blocks, c \in Caches : \A i \in Nat : Has(c, i, b)' <=> Has(c, i, b)
  BY DEF Has
<1>2. UNCHANGED <<ref_count, free>>
  BY DEF poolVars
<1>3. PlaceInv'
  BY <1>1, <1>2, PlacesKept
<1>4. LeakInv'
  BY <1>1, <1>2, LeaksKept
<1>5. FreeListOK'
  BY <1>2 DEF FreeListOK, FreeListExact, Range
<1> QED
  BY <1>3, <1>4, <1>5

(* A caller moves on: what it has to keep to at its new point. *)
LEMMA CallerMoves ==
    ASSUME RegistryInv, CallerInv, SequenceTypeOK, NEW c \in Caches, NEW to,
           at[c] \notin {"new", "creating"}, to \notin {"new", "creating"},
           at' = [at EXCEPT ![c] = to],
           \A d \in Caches \ {c} : /\ hand'[d] = hand[d] /\ calls'[d] = calls[d]
                                   /\ block_table'[d] = block_table[d]
                                   /\ num_cached_tokens'[d] = num_cached_tokens[d],
           overtaken \subseteq overtaken',
           UNCHANGED <<registryVars, freeing>>,
           to \in Appending => calls'[c] < MaxCalls,
           to \in Appending /\ freeing[c] # 0 => c \in overtaken',
           to \in {"test", "read", "assign", "write"} /\ freeing[c] = 0 => block_table'[c] # <<>>,
           to \in {"extend", "assign", "write"} => hand'[c] \in Blocks,
           to \in {"assign", "write"} /\ block_table'[c] # <<>> =>
               hand'[c] = block_table'[c][Len(block_table'[c])],
           c \notin overtaken' /\ freeing[c] \in {-2, -3} => block_table'[c] = <<>>
    PROVE  RegistryInv' /\ CallerInv'
<1>1. at'[c] = to /\ \A d \in Caches \ {c} : at'[d] = at[d]
  BY DEF SequenceTypeOK
<1>2. RegistryInv'
  BY <1>1 DEF RegistryInv, SequenceTypeOK, registryVars
<1>3. CallerInv'
  BY <1>1 DEF CallerInv
<1> QED
  BY <1>2, <1>3

(* free() moves on: it may empty the table, and its caller is overtaken    *)
(* if it is in a call.                                                     *)
LEMMA FreeMoves ==
    ASSUME RegistryInv, CallerInv, SequenceTypeOK, NEW c \in Caches, freeing[c] # 0,
           freeing'[c] # 0, \A d \in Caches \ {c} : freeing'[d] = freeing[d],
           freeing'[c] \in {-2, -3} /\ c \notin overtaken => block_table'[c] = <<>>,
           block_table'[c] \in {block_table[c], <<>>},
           \A d \in Caches \ {c} : /\ block_table'[d] = block_table[d]
                                   /\ num_cached_tokens'[d] = num_cached_tokens[d],
           UNCHANGED <<registryVars, callerVars, overtaken>>
    PROVE  RegistryInv' /\ CallerInv'
<1>1. UNCHANGED <<sequences, seq_id, at, hand, calls>>
  BY DEF registryVars, callerVars
<1>2. at[c] \notin {"new", "creating"}
  BY DEF RegistryInv
<1>3. RegistryInv'
  BY <1>1, <1>2 DEF RegistryInv, SequenceTypeOK
<1>4. CallerInv'
  BY <1>1 DEF CallerInv
<1> QED
  BY <1>3, <1>4

-----------------------------------------------------------------------------
(* Steps of the manager.                                                   *)

LEMMA CreateStep ==
    ASSUME SequenceInv, NEW c \in Caches, NEW id \in Ids, Create(c, id)
    PROVE  SequenceInv'
<1>t. SequenceTypeOK /\ FreeListOK /\ RegistryInv /\ CallerInv /\ PlaceInv /\ LeakInv
  BY DEF SequenceInv
<1>1. /\ at[c] = "new" /\ at' = [at EXCEPT ![c] = "creating"]
      /\ seq_id' = [seq_id EXCEPT ![c] = id]
      /\ UNCHANGED <<poolVars, sequences, block_table, num_cached_tokens, hand, calls, freeing,
                     overtaken, taker, authors>>
  BY DEF Create, Move, tableVars, historyVars
<1>2. SequenceTypeOK'
  BY <1>1, <1>t DEF SequenceTypeOK, poolVars
<1>3. RegistryInv'
  <2>1. \A i \in Ids : sequences[i] # None => sequences[i] \in Caches \ {c}
    BY <1>1, <1>t DEF RegistryInv, SequenceTypeOK
  <2>2. at'[c] = "creating" /\ seq_id'[c] = id
    BY <1>1, <1>t DEF SequenceTypeOK
  <2>3. \A d \in Caches \ {c} : at'[d] = at[d] /\ seq_id'[d] = seq_id[d]
    BY <1>1, <1>t DEF SequenceTypeOK
  <2> QED
    BY <1>1, <2>1, <2>2, <2>3, <1>t DEF RegistryInv
<1>4. CallerInv'
  BY <1>1, <1>t DEF CallerInv, SequenceTypeOK, Appending
<1>5. PlaceInv' /\ LeakInv' /\ FreeListOK'
  <2>1. \A d \in Caches : /\ LiveEntries(d)' = LiveEntries(d)
                          /\ \A b \in Blocks : InHand(d, b)' = InHand(d, b)
    BY <1>1, <1>t DEF LiveEntries, InHand, SequenceTypeOK
  <2> QED
    BY <2>1, <1>1, <1>t, NothingMoved
<1> QED
  BY <1>2, <1>3, <1>4, <1>5 DEF SequenceInv

LEMMA InsertStep ==
    ASSUME SequenceInv, NEW c \in Caches, Insert(c)
    PROVE  SequenceInv'
<1>t. SequenceTypeOK /\ FreeListOK /\ RegistryInv /\ CallerInv /\ PlaceInv /\ LeakInv
  BY DEF SequenceInv
<1>1. /\ at[c] = "creating" /\ at' = [at EXCEPT ![c] = "idle"]
      /\ sequences' = [sequences EXCEPT ![seq_id[c]] = c]
      /\ UNCHANGED <<poolVars, seq_id, block_table, num_cached_tokens, hand, calls, freeing,
                     overtaken, taker, authors>>
  BY DEF Insert, Move, tableVars, historyVars
<1>2. seq_id[c] \in Ids /\ freeing[c] = 0
  BY <1>1, <1>t DEF RegistryInv
<1>3. SequenceTypeOK'
  BY <1>1, <1>2, <1>t DEF SequenceTypeOK, poolVars
<1>4. at'[c] = "idle" /\ \A d \in Caches \ {c} : at'[d] = at[d]
  BY <1>1, <1>t DEF SequenceTypeOK
<1>5. RegistryInv'
  <2>1. /\ sequences'[seq_id[c]] = c
        /\ \A i \in Ids \ {seq_id[c]} : sequences'[i] = sequences[i]
    BY <1>1, <1>2, <1>t DEF SequenceTypeOK
  <2>2. ASSUME NEW i \in Ids, sequences'[i] # None
        PROVE  /\ seq_id'[sequences'[i]] = i /\ freeing'[sequences'[i]] = 0
               /\ at'[sequences'[i]] \notin {"new", "creating"}
    <3>1. CASE i = seq_id[c]
      BY <3>1, <2>1, <1>1, <1>2, <1>4
    <3>2. CASE i # seq_id[c]
      <4>1. sequences'[i] = sequences[i] /\ sequences[i] \in Caches
        BY <2>1, <2>2, <3>2, <1>t DEF SequenceTypeOK
      <4> QED
        BY <4>1, <2>2, <1>1, <1>4, <1>t DEF RegistryInv
    <3> QED
      BY <3>1, <3>2
  <2> QED
    BY <2>2, <1>1, <1>4, <1>t DEF RegistryInv
<1>6. CallerInv'
  BY <1>1, <1>4, <1>t DEF CallerInv, Appending
<1>7. PlaceInv' /\ LeakInv' /\ FreeListOK'
  <2>1. \A d \in Caches : /\ LiveEntries(d)' = LiveEntries(d)
                          /\ \A b \in Blocks : InHand(d, b)' = InHand(d, b)
    BY <1>1, <1>4 DEF LiveEntries, InHand
  <2> QED
    BY <2>1, <1>1, <1>t, NothingMoved
<1> QED
  BY <1>3, <1>5, <1>6, <1>7 DEF SequenceInv

LEMMA PopStep ==
    ASSUME SequenceInv, NEW id \in Ids, Pop(id)
    PROVE  SequenceInv'
<1>t. SequenceTypeOK /\ FreeListOK /\ RegistryInv /\ CallerInv /\ PlaceInv /\ LeakInv
  BY DEF SequenceInv
<1>1. PICK c \in Caches : c = sequences[id] /\ c # None
  BY <1>t DEF Pop, SequenceTypeOK
<1>2. /\ sequences' = [sequences EXCEPT ![id] = None]
      /\ freeing' = [freeing EXCEPT ![c] = 1]
      /\ overtaken' = IF at[c] \in Appending THEN overtaken \cup {c} ELSE overtaken
      /\ UNCHANGED <<poolVars, seq_id, block_table, num_cached_tokens, at, hand, calls,
                     taker, authors>>
  BY <1>1 DEF Pop, Overtake, callerVars, tableVars
<1>3. seq_id[c] = id /\ freeing[c] = 0 /\ at[c] \notin {"new", "creating"}
  BY <1>1, <1>t DEF RegistryInv
<1>4. SequenceTypeOK'
  BY <1>2, <1>t DEF SequenceTypeOK, poolVars
<1>5. freeing'[c] = 1 /\ \A d \in Caches \ {c} : freeing'[d] = freeing[d]
  BY <1>2, <1>t DEF SequenceTypeOK
<1>6. RegistryInv'
  <2>1. \A i \in Ids : sequences'[i] # None =>
            sequences'[i] = sequences[i] /\ sequences[i] \in Caches \ {c}
    BY <1>2, <1>3, <1>t DEF RegistryInv, SequenceTypeOK
  <2> QED
    BY <2>1, <1>2, <1>3, <1>5, <1>t DEF RegistryInv
<1>7. CallerInv'
  BY <1>2, <1>5, <1>t DEF CallerInv
<1>8. PlaceInv' /\ LeakInv' /\ FreeListOK'
  <2>1. LiveEntries(c)' = LiveEntries(c)
    <3>1. DOMAIN block_table[c] = 1..Len(block_table[c])
      BY <1>t, EntryFacts
    <3> QED
      BY <3>1, <1>2, <1>3, <1>5 DEF LiveEntries
  <2>2. \A d \in Caches \ {c} : LiveEntries(d)' = LiveEntries(d)
    BY <1>2, <1>5 DEF LiveEntries
  <2>3. \A d \in Caches, b \in Blocks : InHand(d, b)' = InHand(d, b)
    BY <1>2 DEF InHand
  <2> QED
    BY <2>1, <2>2, <2>3, <1>2, <1>t, NothingMoved
<1> QED
  BY <1>4, <1>6, <1>7, <1>8 DEF SequenceInv

LEMMA LoopEndsStep ==
    ASSUME SequenceInv, NEW c \in Caches, LoopEnds(c) \/ Clear(c) \/ ZeroCount(c)
    PROVE  SequenceInv'
<1>t. SequenceTypeOK /\ FreeListOK /\ RegistryInv /\ CallerInv /\ PlaceInv /\ LeakInv
  BY DEF SequenceInv
<1>e. /\ Len(block_table[c]) \in Nat /\ DOMAIN block_table[c] = 1..Len(block_table[c])
  BY <1>t, EntryFacts
<1>1. PICK k \in Freed :
        /\ freeing' = [freeing EXCEPT ![c] = k]
        /\ \/ /\ k = -1 /\ freeing[c] = Len(block_table[c]) + 1
              /\ UNCHANGED <<block_table, num_cached_tokens>>
           \/ /\ k = -2 /\ freeing[c] = -1
              /\ block_table' = [block_table EXCEPT ![c] = <<>>]
              /\ UNCHANGED num_cached_tokens
           \/ /\ k = -3 /\ freeing[c] = -2
              /\ UNCHANGED block_table
              /\ num_cached_tokens' \in {num_cached_tokens, [num_cached_tokens EXCEPT ![c] = 0]}
  BY DEF LoopEnds, Clear, ZeroCount, Freed, tableVars
<1>2. UNCHANGED <<poolVars, registryVars, callerVars, historyVars>>
  BY DEF LoopEnds, Clear, ZeroCount
<1>3. UNCHANGED <<sequences, seq_id, at, hand, calls, overtaken, taker, authors>>
  BY <1>2 DEF registryVars, callerVars, historyVars
<1>4. block_table' \in [Caches -> Seq(Blocks)] /\ num_cached_tokens' \in [Caches -> Nat]
  <2>1. block_table \in [Caches -> Seq(Blocks)] /\ num_cached_tokens \in [Caches -> Nat]
    BY <1>t DEF SequenceTypeOK
  <2>2. [block_table EXCEPT ![c] = <<>>] \in [Caches -> Seq(Blocks)]
    BY <2>1
  <2>3. [num_cached_tokens EXCEPT ![c] = 0] \in [Caches -> Nat]
    BY <2>1
  <2>4. block_table' \in {block_table, [block_table EXCEPT ![c] = <<>>]}
    BY <1>1
  <2>5. num_cached_tokens' \in {num_cached_tokens, [num_cached_tokens EXCEPT ![c] = 0]}
    BY <1>1
  <2> QED
    BY <2>1, <2>2, <2>3, <2>4, <2>5
<1>5. SequenceTypeOK'
  BY <1>1, <1>2, <1>3, <1>4, <1>t DEF SequenceTypeOK, poolVars
<1>6. /\ freeing'[c] = k /\ freeing[c] # 0
      /\ \A d \in Caches \ {c} : /\ freeing'[d] = freeing[d]
                                 /\ block_table'[d] = block_table[d]
                                 /\ num_cached_tokens'[d] = num_cached_tokens[d]
      /\ block_table'[c] = IF k = -2 THEN <<>> ELSE block_table[c]
  BY <1>1, <1>e, <1>t DEF SequenceTypeOK
<1>7. RegistryInv' /\ CallerInv'
  <2>1. k \in {-2, -3} /\ c \notin overtaken => block_table'[c] = <<>>
    BY <1>1, <1>6, <1>t DEF CallerInv
  <2>2. k # 0
    BY DEF Freed
  <2> QED
    BY <2>1, <2>2, <1>2, <1>3, <1>6, <1>t, FreeMoves
<1>8. PlaceInv' /\ LeakInv' /\ FreeListOK'
  <2>1. LiveEntries(c)' = LiveEntries(c) /\ (k = -2 => LiveEntries(c) = {})
    <3>1. CASE k = -1
      BY <3>1, <1>1, <1>6, <1>e DEF LiveEntries
    <3>2. CASE k = -2
      BY <3>2, <1>1, <1>6, <1>e DEF LiveEntries
    <3>3. CASE k = -3
      BY <3>3, <1>1, <1>6, <1>e DEF LiveEntries
    <3> QED
      BY <3>1, <3>2, <3>3 DEF Freed
  <2>2. \A d \in Caches \ {c} : LiveEntries(d)' = LiveEntries(d)
    BY <1>6 DEF LiveEntries
  <2>3. \A d \in Caches, b \in Blocks : InHand(d, b)' = InHand(d, b)
    BY <1>3 DEF InHand
  <2> QED
    BY <2>1, <2>2, <2>3, <1>2, <1>3, <1>6, <1>t, NothingMoved
<1> QED
  BY <1>5, <1>7, <1>8 DEF SequenceInv

(* free() gives up the one reference that its entry is. *)
LEMMA FreeBlockStep ==
    ASSUME SequenceInv, NEW c \in Caches, FreeBlock(c)
    PROVE  SequenceInv'
<1> DEFINE k == freeing[c]
           b == block_table[c][k]
<1>t. SequenceTypeOK /\ FreeListOK /\ RegistryInv /\ CallerInv /\ PlaceInv /\ LeakInv
  BY DEF SequenceInv
<1>e. /\ Len(block_table[c]) \in Nat /\ DOMAIN block_table[c] = 1..Len(block_table[c])
      /\ \A i \in 1..Len(block_table[c]) : block_table[c][i] \in Blocks
  BY <1>t, EntryFacts
<1>1. k \in 1..Len(block_table[c]) /\ k \in Nat /\ k > 0 /\ b \in Blocks
  BY <1>e DEF FreeBlock
<1>2. /\ Drop(b) /\ ref_count' = [ref_count EXCEPT ![b] = @ - 1]
      /\ freeing' = [freeing EXCEPT ![c] = k + 1]
      /\ UNCHANGED <<sequences, seq_id, block_table, num_cached_tokens, at, hand, calls,
                     overtaken, taker, authors>>
  BY DEF FreeBlock, Drop, registryVars, tableVars, callerVars, historyVars
<1>3. Has(c, k, b)
  BY <1>1, <1>e DEF Has, LiveEntries
<1>4. /\ ref_count[b] = 1 /\ taker[b] = c
      /\ \A d \in Caches : \A j \in Nat : Has(d, j, b) => d = c /\ j = k
  BY <1>1, <1>3, <1>t DEF PlaceInv
<1>5. /\ ref_count' \in [Blocks -> {0, 1}] /\ ref_count'[b] = 0
      /\ \A x \in Blocks \ {b} : ref_count'[x] = ref_count[x]
  BY <1>1, <1>2, <1>4, <1>t DEF SequenceTypeOK
<1>6. FreeListOK'
  BY <1>1, <1>2, <1>4, <1>t, DropKeepsFreeList
<1>7. freeing'[c] = k + 1 /\ \A d \in Caches \ {c} : freeing'[d] = freeing[d]
  BY <1>2, <1>t DEF SequenceTypeOK
<1>8. SequenceTypeOK'
  <2>1. freeing' \in [Caches -> Nat \cup Freed] /\ free' \in Seq(Blocks)
    BY <1>1, <1>2, <1>6, <1>t DEF SequenceTypeOK, FreeListOK
  <2> QED
    BY <2>1, <1>2, <1>5, <1>t DEF SequenceTypeOK
<1>9. LiveEntries(c)' = LiveEntries(c) \ {k}
  BY <1>1, <1>2, <1>7, <1>e DEF LiveEntries
<1>10. \A d \in Caches \ {c} : LiveEntries(d)' = LiveEntries(d)
  BY <1>2, <1>7 DEF LiveEntries
<1>11. \A d \in Caches, x \in Blocks : InHand(d, x)' = InHand(d, x)
  BY <1>2 DEF InHand
<1> HIDE DEF k, b
<1>12. \A x \in Blocks, d \in Caches : \A i \in Nat :
          Has(d, i, x)' <=> Has(d, i, x) /\ x # b
  <2> SUFFICES ASSUME NEW x \in Blocks, NEW d \in Caches, NEW i \in Nat
               PROVE  Has(d, i, x)' <=> Has(d, i, x) /\ x # b
    OBVIOUS
  <2>1. CASE d # c
    <3>1. Has(d, i, x)' <=> Has(d, i, x)
      BY <2>1, <1>2, <1>10, <1>11 DEF Has
    <3>2. ~Has(d, i, b)
      BY <2>1, <1>4
    <3> QED
      BY <3>1, <3>2
  <2>2. CASE d = c /\ i # k
    <3>1. Has(d, i, x)' <=> Has(d, i, x)
      BY <2>2, <1>2, <1>9, <1>11 DEF Has
    <3>2. ~Has(d, i, b)
      BY <2>2, <1>4
    <3> QED
      BY <3>1, <3>2
  <2>3. CASE d = c /\ i = k
    <3>1. ~Has(d, i, x)'
      BY <2>3, <1>1, <1>9 DEF Has
    <3>2. Has(d, i, x) => x = b
      BY <2>3, <1>1 DEF Has, b
    <3> QED
      BY <3>1, <3>2
  <2> QED
    BY <2>1, <2>2, <2>3
<1>13. PlaceInv'
  BY <1>2, <1>5, <1>12, <1>t, PlacesKept
<1>14. LeakInv'
  BY <1>2, <1>5, <1>12, <1>t DEF LeakInv
<1>15. RegistryInv' /\ CallerInv'
  <2>1. freeing[c] # 0 /\ freeing'[c] # 0 /\ freeing'[c] \notin {-2, -3}
    BY <1>1, <1>7 DEF k
  <2> QED
    BY <2>1, <1>2, <1>7, <1>t, FreeMoves DEF registryVars, callerVars
<1> QED
  BY <1>6, <1>8, <1>13, <1>14, <1>15 DEF SequenceInv

-----------------------------------------------------------------------------
(* Steps of the caller.                                                    *)

(* Most of them touch neither tables nor the pool, nor make or end a hand  *)
(* that has a block.                                                       *)
LEMMA CallerKeepsPlaces ==
    ASSUME SequenceTypeOK, FreeListOK, PlaceInv, LeakInv, NEW c \in Caches, NEW to,
           at[c] # "extend", to # "extend",
           at' = [at EXCEPT ![c] = to],
           \A d \in Caches \ {c} : hand'[d] = hand[d],
           overtaken \subseteq overtaken',
           UNCHANGED <<poolVars, block_table, freeing, taker, authors>>
    PROVE  PlaceInv' /\ LeakInv' /\ FreeListOK'
<1>1. at'[c] = to /\ \A d \in Caches \ {c} : at'[d] = at[d]
  BY DEF SequenceTypeOK
<1>2. \A d \in Caches : /\ LiveEntries(d)' = LiveEntries(d)
                        /\ \A b \in Blocks : InHand(d, b)' = InHand(d, b)
  BY <1>1 DEF LiveEntries, InHand
<1> QED
  BY <1>2, NothingMoved

LEMMA LookStep ==
    ASSUME SequenceInv, NEW c \in Caches, AppendCalled(c) \/ Test(c)
    PROVE  SequenceInv'
<1>t. SequenceTypeOK /\ FreeListOK /\ RegistryInv /\ CallerInv /\ PlaceInv /\ LeakInv
  BY DEF SequenceInv
<1>1. PICK to \in {"allocate", "test", "read"} :
        /\ at' = [at EXCEPT ![c] = to]
        /\ at[c] \in {"idle", "test"}
        /\ at[c] = "test" => to # "test"
        /\ to \in {"test", "read"} /\ at[c] = "idle" => block_table[c] # <<>>
        /\ at[c] = "idle" => calls[c] < MaxCalls /\ to # "read"
  BY DEF AppendCalled, Test, Move
<1>2. /\ overtaken \subseteq overtaken' /\ overtaken' \subseteq Caches
      /\ at[c] = "idle" /\ freeing[c] # 0 => c \in overtaken'
      /\ at[c] = "test" => UNCHANGED overtaken
      /\ UNCHANGED <<poolVars, registryVars, tableVars, hand, calls, freeing, taker, authors>>
  BY <1>t DEF AppendCalled, Test, Move, historyVars, SequenceTypeOK
<1>3. UNCHANGED <<block_table, num_cached_tokens>>
  BY <1>2 DEF tableVars
<1>4. SequenceTypeOK'
  BY <1>1, <1>2, <1>3, <1>t DEF SequenceTypeOK, poolVars, registryVars, Appending
<1>5. PlaceInv' /\ LeakInv' /\ FreeListOK'
  <2>1. at[c] # "extend" /\ to # "extend"
    BY <1>1
  <2> QED
    BY <2>1, <1>1, <1>2, <1>3, <1>t, CallerKeepsPlaces
<1>6. RegistryInv' /\ CallerInv'
  <2>1. at[c] \notin {"new", "creating"} /\ to \notin {"new", "creating"}
    BY <1>1
  <2>2. calls[c] < MaxCalls
    BY <1>1, <1>t DEF CallerInv, Appending
  <2>3. freeing[c] # 0 => c \in overtaken'
    BY <1>1, <1>2, <1>t DEF CallerInv, Appending
  <2>4. to \in {"test", "read"} /\ freeing[c] = 0 => block_table[c] # <<>>
    BY <1>1, <1>t DEF CallerInv
  <2>5. c \notin overtaken' /\ freeing[c] \in {-2, -3} => block_table[c] = <<>>
    BY <1>2, <1>t DEF CallerInv
  <2> QED
    BY <2>1, <2>2, <2>3, <2>4, <2>5, <1>1, <1>2, <1>3, <1>t, CallerMoves
<1> QED
  BY <1>4, <1>5, <1>6 DEF SequenceInv

(* Raise and Increment lead out of the call. *)
LEMMA LeaveStep ==
    ASSUME SequenceInv, NEW c \in Caches, Raise(c) \/ Increment(c)
    PROVE  SequenceInv'
<1>t. SequenceTypeOK /\ FreeListOK /\ RegistryInv /\ CallerInv /\ PlaceInv /\ LeakInv
  BY DEF SequenceInv
<1>1. PICK to \in {"failed", "idle"} :
        /\ at' = [at EXCEPT ![c] = to]
        /\ at[c] \in {"allocate", "read", "assign", "count"}
  BY DEF Raise, Increment, Move
<1>2. /\ UNCHANGED <<poolVars, registryVars, block_table, calls, freeing, historyVars>>
      /\ hand' \in {hand, [hand EXCEPT ![c] = None]}
      /\ num_cached_tokens' \in {num_cached_tokens, [num_cached_tokens EXCEPT ![c] = @ + 1]}
  BY DEF Raise, Increment, tableVars
<1>3. UNCHANGED <<sequences, seq_id, overtaken, taker, authors>>
  BY <1>2 DEF registryVars, historyVars
<1>4. /\ hand' \in [Caches -> Blocks \cup {None}] /\ num_cached_tokens' \in [Caches -> Nat]
      /\ \A d \in Caches \ {c} : hand'[d] = hand[d] /\ num_cached_tokens'[d] = num_cached_tokens[d]
  <2>1. hand \in [Caches -> Blocks \cup {None}] /\ num_cached_tokens \in [Caches -> Nat]
    BY <1>t DEF SequenceTypeOK
  <2>2. [hand EXCEPT ![c] = None] \in [Caches -> Blocks \cup {None}]
    BY <2>1
  <2>3. [num_cached_tokens EXCEPT ![c] = @ + 1] \in [Caches -> Nat]
    BY <2>1
  <2> QED
    BY <2>1, <2>2, <2>3, <1>2
<1>5. SequenceTypeOK'
  BY <1>1, <1>2, <1>3, <1>4, <1>t DEF SequenceTypeOK, poolVars
<1>6. PlaceInv' /\ LeakInv' /\ FreeListOK'
  <2>1. at[c] # "extend" /\ to # "extend"
    BY <1>1
  <2> QED
    BY <2>1, <1>1, <1>2, <1>3, <1>4, <1>t, CallerKeepsPlaces
<1>7. RegistryInv' /\ CallerInv'
  <2>1. /\ at[c] \notin {"new", "creating"} /\ to \notin {"new", "creating"}
        /\ to \notin Appending
    BY <1>1 DEF Appending
  <2>2. c \notin overtaken' /\ freeing[c] \in {-2, -3} => block_table[c] = <<>>
    BY <1>3, <1>t DEF CallerInv
  <2>3. to \notin {"test", "read", "assign", "write", "extend"}
    BY <1>1
  <2> QED
    BY <2>1, <2>2, <2>3, <1>1, <1>2, <1>3, <1>4, <1>t, CallerMoves
<1> QED
  BY <1>5, <1>6, <1>7 DEF SequenceInv

LEMMA ReadLastStep ==
    ASSUME SequenceInv, NEW c \in Caches, ReadLast(c)
    PROVE  SequenceInv'
<1> DEFINE b == block_table[c][Len(block_table[c])]
<1>t. SequenceTypeOK /\ FreeListOK /\ RegistryInv /\ CallerInv /\ PlaceInv /\ LeakInv
  BY DEF SequenceInv
<1>1. /\ at[c] = "read" /\ at' = [at EXCEPT ![c] = "assign"]
      /\ block_table[c] # <<>>
      /\ hand' = [hand EXCEPT ![c] = b]
      /\ UNCHANGED <<poolVars, registryVars, tableVars, calls, freeing, historyVars>>
  BY DEF ReadLast, Move
<1>2. UNCHANGED <<sequences, seq_id, block_table, num_cached_tokens, overtaken, taker, authors>>
  BY <1>1 DEF registryVars, tableVars, historyVars
<1>3. b \in Blocks
  BY <1>1, <1>t, EntryFacts
<1>4. /\ hand'[c] = b /\ \A d \in Caches \ {c} : hand'[d] = hand[d]
      /\ hand' \in [Caches -> Blocks \cup {None}]
  BY <1>1, <1>3, <1>t DEF SequenceTypeOK
<1>5. SequenceTypeOK'
  BY <1>1, <1>2, <1>4, <1>t DEF SequenceTypeOK, poolVars, Appending
<1>6. PlaceInv' /\ LeakInv' /\ FreeListOK'
  BY <1>1, <1>2, <1>4, <1>t, CallerKeepsPlaces
<1>7. RegistryInv' /\ CallerInv'
  <2>1. calls[c] < MaxCalls /\ (freeing[c] # 0 => c \in overtaken)
    BY <1>1, <1>t DEF CallerInv, Appending
  <2>2. c \notin overtaken /\ freeing[c] \in {-2, -3} => block_table[c] = <<>>
    BY <1>t DEF CallerInv
  <2> QED
    BY <2>1, <2>2, <1>1, <1>2, <1>3, <1>4, <1>t, CallerMoves
<1> QED
  BY <1>5, <1>6, <1>7 DEF SequenceInv

(* The entry is replaced by what it was read to be. *)
LEMMA AssignStep ==
    ASSUME SequenceInv, NEW c \in Caches, Assign(c)
    PROVE  SequenceInv' /\ UNCHANGED block_table
<1>t. SequenceTypeOK /\ FreeListOK /\ RegistryInv /\ CallerInv /\ PlaceInv /\ LeakInv
  BY DEF SequenceInv
<1>1. /\ at[c] = "assign" /\ at' = [at EXCEPT ![c] = "write"]
      /\ block_table[c] # <<>>
      /\ block_table' = [block_table EXCEPT ![c][Len(block_table[c])] = hand[c]]
      /\ UNCHANGED <<poolVars, registryVars, num_cached_tokens, hand, calls, freeing, historyVars>>
  BY DEF Assign, Move
<1>2. UNCHANGED <<sequences, seq_id, overtaken, taker, authors>>
  BY <1>1 DEF registryVars, historyVars
<1>3. hand[c] \in Blocks /\ hand[c] = block_table[c][Len(block_table[c])]
  BY <1>1, <1>t DEF CallerInv
<1>4. UNCHANGED block_table
  <2>1. block_table[c] = [block_table[c] EXCEPT ![Len(block_table[c])] = hand[c]]
    BY <1>3, <1>t DEF SequenceTypeOK
  <2> QED
    BY <2>1, <1>1, <1>t DEF SequenceTypeOK
<1>5. SequenceTypeOK'
  BY <1>1, <1>2, <1>4, <1>t DEF SequenceTypeOK, poolVars, Appending
<1>6. PlaceInv' /\ LeakInv' /\ FreeListOK'
  BY <1>1, <1>2, <1>4, <1>t, CallerKeepsPlaces
<1>7. RegistryInv' /\ CallerInv'
  <2>1. calls[c] < MaxCalls /\ (freeing[c] # 0 => c \in overtaken)
    BY <1>1, <1>t DEF CallerInv, Appending
  <2>2. c \notin overtaken /\ freeing[c] \in {-2, -3} => block_table[c] = <<>>
    BY <1>t DEF CallerInv
  <2> QED
    BY <2>1, <2>2, <1>1, <1>2, <1>3, <1>4, <1>t, CallerMoves
<1> QED
  BY <1>4, <1>5, <1>6, <1>7 DEF SequenceInv

(* The block is the caller's own, or the caller is overtaken. *)
LEMMA WriteStep ==
    ASSUME SequenceInv, NEW c \in Caches, Write(c)
    PROVE  SequenceInv'
<1> DEFINE b == hand[c]
<1>t. SequenceTypeOK /\ FreeListOK /\ RegistryInv /\ CallerInv /\ PlaceInv /\ LeakInv
  BY DEF SequenceInv
<1>1. /\ at[c] = "write" /\ calls' = [calls EXCEPT ![c] = @ + 1]
      /\ authors' = [authors EXCEPT ![b] = @ \cup {c}]
      /\ hand' = [hand EXCEPT ![c] = None]
      /\ UNCHANGED <<poolVars, registryVars, tableVars, freeing, overtaken, taker>>
  BY DEF Write, Move
<1>2. PICK to \in {"idle", "count"} : at' = [at EXCEPT ![c] = to]
  BY DEF Write, Move
<1>3. UNCHANGED <<sequences, seq_id, block_table, num_cached_tokens>>
  BY <1>1 DEF registryVars, tableVars
<1>4. b \in Blocks /\ calls[c] < MaxCalls
  BY <1>1, <1>t DEF CallerInv, Appending
<1>5. calls' \in [Caches -> 0..MaxCalls] /\ \A d \in Caches \ {c} : calls'[d] = calls[d]
  <2>1. calls[c] + 1 \in 0..MaxCalls
    BY <1>4, <1>t, SequenceAssumption DEF SequenceTypeOK
  <2> QED
    BY <2>1, <1>1, <1>t DEF SequenceTypeOK
<1>6. /\ hand' \in [Caches -> Blocks \cup {None}]
      /\ \A d \in Caches \ {c} : hand'[d] = hand[d]
  BY <1>1, <1>t DEF SequenceTypeOK
<1>7. /\ authors' \in [Blocks -> SUBSET Caches]
      /\ authors'[b] = authors[b] \cup {c}
      /\ \A x \in Blocks \ {b} : authors'[x] = authors[x]
  BY <1>1, <1>4, <1>t DEF SequenceTypeOK
<1>8. SequenceTypeOK'
  BY <1>1, <1>2, <1>3, <1>5, <1>6, <1>7, <1>t DEF SequenceTypeOK, poolVars
<1>9. at'[c] = to /\ \A d \in Caches \ {c} : at'[d] = at[d]
  BY <1>2, <1>t DEF SequenceTypeOK
<1>10. \A x \in Blocks, d \in Caches : \A i \in Nat : Has(d, i, x)' <=> Has(d, i, x)
  <2>1. \A d \in Caches : LiveEntries(d)' = LiveEntries(d)
    BY <1>1, <1>3 DEF LiveEntries
  <2>2. \A d \in Caches, x \in Blocks : InHand(d, x)' <=> InHand(d, x)
    BY <1>1, <1>2, <1>6, <1>9 DEF InHand
  <2> QED
    BY <2>1, <2>2, <1>3 DEF Has
<1> HIDE DEF b
<1>11. c \notin overtaken => \E i \in Nat : Has(c, i, b)
  <2> SUFFICES ASSUME c \notin overtaken PROVE \E i \in Nat : Has(c, i, b)
    OBVIOUS
  <2>1. freeing[c] = 0
    BY <1>1, <1>t DEF CallerInv, Appending
  <2>2. block_table[c] # <<>> /\ b = block_table[c][Len(block_table[c])]
    BY <2>1, <1>1, <1>t DEF CallerInv, b
  <2>3. Len(block_table[c]) \in LiveEntries(c) /\ Len(block_table[c]) \in Nat
    BY <2>1, <2>2, <1>t, EntryFacts
  <2> QED
    BY <2>2, <2>3 DEF Has
<1>12. PlaceInv'
  <2>1. ASSUME NEW x \in Blocks, NEW d \in Caches, NEW i \in Nat, Has(d, i, x)
        PROVE  authors'[x] \subseteq authors[x] \cup {d} \cup overtaken
    <3>1. CASE x # b
      BY <3>1, <1>7
    <3>2. CASE x = b /\ c \in overtaken
      BY <3>2, <1>7
    <3>3. CASE x = b /\ c \notin overtaken
      <4>1. d = c
        BY <2>1, <3>3, <1>4, <1>11, <1>t DEF PlaceInv
      <4> QED
        BY <4>1, <3>3, <1>7
    <3> QED
      BY <3>1, <3>2, <3>3
  <2>2. UNCHANGED <<ref_count, overtaken, taker>>
    BY <1>1 DEF poolVars
  <2> QED
    BY <2>1, <2>2, <1>10, <1>t, PlacesKept
<1>13. LeakInv'
  <2>1. UNCHANGED <<ref_count, overtaken, taker>>
    BY <1>1 DEF poolVars
  <2> QED
    BY <2>1, <1>10, <1>t, LeaksKept
<1>14. FreeListOK'
  BY <1>1, <1>t DEF FreeListOK, FreeListExact, Range, poolVars
<1>15. RegistryInv' /\ CallerInv'
  <2>1. /\ at[c] \notin {"new", "creating"} /\ to \notin {"new", "creating"}
        /\ to \notin Appending /\ to \notin {"test", "read", "assign", "write", "extend"}
    BY <1>1 DEF Appending
  <2>2. c \notin overtaken /\ freeing[c] \in {-2, -3} => block_table[c] = <<>>
    BY <1>t DEF CallerInv
  <2> QED
    BY <2>1, <2>2, <1>1, <1>2, <1>3, <1>5, <1>6, <1>t, CallerMoves
<1> QED
  BY <1>8, <1>12, <1>13, <1>14, <1>15 DEF SequenceInv

(* The block on top of the free list was had by nobody. *)
LEMMA AllocateStep ==
    ASSUME SequenceInv, NEW c \in Caches, Allocate(c)
    PROVE  SequenceInv'
<1>t. SequenceTypeOK /\ FreeListOK /\ RegistryInv /\ CallerInv /\ PlaceInv /\ LeakInv
  BY DEF SequenceInv
<1>1. free # <<>> /\ TakeTop(None)
  BY DEF Allocate, TakeTop
<1>2. PICK t \in Blocks : t = Top /\ ref_count[t] = 0
  BY <1>1, <1>t, TopIsUnused
<1>3. /\ at[c] = "allocate" /\ at' = [at EXCEPT ![c] = "extend"]
      /\ ref_count' = [ref_count EXCEPT ![t] = 1]
      /\ hand' = [hand EXCEPT ![c] = t]
      /\ taker' = [taker EXCEPT ![t] = c]
      /\ authors' = [authors EXCEPT ![t] = {}]
      /\ UNCHANGED <<sequences, seq_id, block_table, num_cached_tokens, calls, freeing, overtaken>>
  BY <1>2 DEF Allocate, TakeTop, Move, registryVars, tableVars
<1>4. FreeListOK'
  BY <1>1, <1>t, TakeTopKeepsFreeList
<1>5. /\ ref_count' \in [Blocks -> {0, 1}] /\ ref_count'[t] = 1
      /\ taker'[t] = c /\ authors'[t] = {}
      /\ \A x \in Blocks \ {t} : /\ ref_count'[x] = ref_count[x] /\ taker'[x] = taker[x]
                                 /\ authors'[x] = authors[x]
  BY <1>3, <1>t DEF SequenceTypeOK
<1>6. /\ at'[c] = "extend" /\ hand'[c] = t
      /\ \A d \in Caches \ {c} : at'[d] = at[d] /\ hand'[d] = hand[d]
  BY <1>3, <1>t DEF SequenceTypeOK
<1>7. SequenceTypeOK'
  <2>1. /\ at' \in [Caches -> {"new", "creating", "idle", "count", "failed"} \cup Appending]
        /\ hand' \in [Caches -> Blocks \cup {None}]
    BY <1>3, <1>t DEF SequenceTypeOK, Appending
  <2>2. taker' \in [Blocks -> Caches \cup {None}] /\ authors' \in [Blocks -> SUBSET Caches]
    BY <1>3, <1>t DEF SequenceTypeOK
  <2>3. free' \in Seq(Blocks)
    BY <1>4 DEF FreeListOK
  <2> QED
    BY <2>1, <2>2, <2>3, <1>3, <1>5, <1>t DEF SequenceTypeOK
<1>8. \A d \in Caches : LiveEntries(d)' = LiveEntries(d) /\ 0 \notin LiveEntries(d)
  BY <1>3, <1>t, EntryFacts DEF LiveEntries
<1>9. \A d \in Caches : \A i \in Nat : ~Has(d, i, t)
  BY <1>2, <1>t DEF PlaceInv
<1>10. \A x \in Blocks, d \in Caches : \A i \in Nat :
          Has(d, i, x)' <=> Has(d, i, x) \/ (d = c /\ i = 0 /\ x = t)
  <2> SUFFICES ASSUME NEW x \in Blocks, NEW d \in Caches, NEW i \in Nat
               PROVE  Has(d, i, x)' <=> Has(d, i, x) \/ (d = c /\ i = 0 /\ x = t)
    OBVIOUS
  <2>1. InHand(d, x)' <=> InHand(d, x) \/ (d = c /\ x = t)
    BY <1>3, <1>6 DEF InHand
  <2> QED
    BY <2>1, <1>3, <1>8 DEF Has
<1>11. PlaceInv'
  <2> SUFFICES ASSUME NEW x \in Blocks, NEW d \in Caches, NEW i \in Nat, Has(d, i, x)'
               PROVE  /\ ref_count'[x] = 1 /\ taker'[x] = d
                      /\ authors'[x] \subseteq {d} \cup overtaken'
                      /\ \A e \in Caches : \A j \in Nat : Has(e, j, x)' => e = d /\ j = i
    BY DEF PlaceInv
  <2>1. CASE x = t
    BY <2>1, <1>5, <1>9, <1>10
  <2>2. CASE x # t
    BY <2>2, <1>3, <1>5, <1>10, <1>t DEF PlaceInv
  <2> QED
    BY <2>1, <2>2
<1>12. LeakInv'
  <2> SUFFICES ASSUME NEW x \in Blocks, ref_count'[x] = 1
               PROVE  \/ taker'[x] \in overtaken'
                      \/ \E d \in Caches : taker'[x] = d /\ \E i \in Nat : Has(d, i, x)'
    BY DEF LeakInv
  <2>1. CASE x = t
    <3>1. Has(c, 0, t)'
      BY <1>10
    <3> QED
      BY <2>1, <3>1, <1>5
  <2>2. CASE x # t
    BY <2>2, <1>3, <1>5, <1>10, <1>t DEF LeakInv
  <2> QED
    BY <2>1, <2>2
<1>13. RegistryInv' /\ CallerInv'
  <2>1. calls[c] < MaxCalls /\ (freeing[c] # 0 => c \in overtaken)
    BY <1>3, <1>t DEF CallerInv, Appending
  <2>2. c \notin overtaken /\ freeing[c] \in {-2, -3} => block_table[c] = <<>>
    BY <1>t DEF CallerInv
  <2> QED
    BY <2>1, <2>2, <1>3, <1>6, <1>t, CallerMoves DEF registryVars
<1> QED
  BY <1>4, <1>7, <1>11, <1>12, <1>13 DEF SequenceInv

(* It goes from the hand to the end of the table, unless free() has passed *)
(* the end and not cleared the table yet: then nobody has it any more.     *)
LEMMA ExtendStep ==
    ASSUME SequenceInv, NEW c \in Caches, Extend(c)
    PROVE  /\ SequenceInv'
           /\ block_table'[c] \in Seq(Blocks)
           /\ Len(block_table'[c]) = Len(block_table[c]) + 1
           /\ \A d \in Caches \ {c} : block_table'[d] = block_table[d]
<1>t. SequenceTypeOK /\ FreeListOK /\ RegistryInv /\ CallerInv /\ PlaceInv /\ LeakInv
  BY DEF SequenceInv
<1>1. /\ at[c] = "extend" /\ at' = [at EXCEPT ![c] = "read"]
      /\ block_table' = [block_table EXCEPT ![c] = Append(@, hand[c])]
      /\ hand' = [hand EXCEPT ![c] = None]
      /\ UNCHANGED <<poolVars, sequences, seq_id, num_cached_tokens, calls, freeing,
                     overtaken, taker, authors>>
  BY DEF Extend, Move, registryVars, historyVars
<1>2. PICK t \in Blocks : t = hand[c]
  BY <1>1, <1>t DEF CallerInv
<1>e. PICK n \in Nat : /\ n = Len(block_table[c]) /\ block_table[c] \in Seq(Blocks)
                       /\ DOMAIN block_table[c] = 1..n
  BY <1>t, EntryFacts
<1>3. /\ block_table'[c] = Append(block_table[c], t)
      /\ \A d \in Caches \ {c} : block_table'[d] = block_table[d]
  BY <1>1, <1>2, <1>t DEF SequenceTypeOK
<1>4. /\ block_table'[c] \in Seq(Blocks) /\ Len(block_table'[c]) = n + 1
      /\ DOMAIN block_table'[c] = 1..(n + 1) /\ block_table'[c][n + 1] = t
      /\ \A i \in 1..n : block_table'[c][i] = block_table[c][i]
  BY <1>2, <1>3, <1>e
<1>5. block_table' \in [Caches -> Seq(Blocks)]
  BY <1>1, <1>2, <1>t DEF SequenceTypeOK
<1>6. /\ at'[c] = "read" /\ \A d \in Caches \ {c} : at'[d] = at[d] /\ hand'[d] = hand[d]
      /\ hand' \in [Caches -> Blocks \cup {None}]
  BY <1>1, <1>t DEF SequenceTypeOK
<1>7. SequenceTypeOK'
  BY <1>1, <1>5, <1>6, <1>t DEF SequenceTypeOK, poolVars, Appending
<1>8. \A d \in Caches \ {c} : LiveEntries(d)' = LiveEntries(d)
  BY <1>1, <1>3 DEF LiveEntries
<1>9. /\ LiveEntries(c) \subseteq 1..n
      /\ \A i \in 1..n : i \in LiveEntries(c)' <=> i \in LiveEntries(c)
      /\ LiveEntries(c)' \subseteq 1..(n + 1)
      /\ freeing[c] = 0 => n + 1 \in LiveEntries(c)'
  BY <1>1, <1>4, <1>e DEF LiveEntries
<1>10. \A d \in Caches, x \in Blocks : InHand(d, x)' <=> InHand(d, x) /\ d # c
  BY <1>1, <1>6 DEF InHand
(* Who has what. *)
<1>11. \A x \in Blocks, d \in Caches : \A i \in Nat :
          Has(d, i, x)' <=> \/ Has(d, i, x) /\ (d # c \/ i # 0)
                            \/ d = c /\ i = n + 1 /\ x = t /\ n + 1 \in LiveEntries(c)'
  <2> SUFFICES ASSUME NEW x \in Blocks, NEW d \in Caches, NEW i \in Nat
               PROVE  Has(d, i, x)' <=> \/ Has(d, i, x) /\ (d # c \/ i # 0)
                                        \/ d = c /\ i = n + 1 /\ x = t /\ n + 1 \in LiveEntries(c)'
    OBVIOUS
  <2>1. CASE d # c
    BY <2>1, <1>3, <1>8, <1>10 DEF Has
  <2>2. CASE d = c /\ i = 0
    <3>1. i \notin LiveEntries(c)' /\ i # n + 1
      BY <2>2, <1>9, <1>e
    <3> QED
      BY <2>2, <3>1, <1>10 DEF Has
  <2>3. CASE d = c /\ i \in 1..n
    <3>1. i # 0 /\ i # n + 1
      BY <2>3, <1>e
    <3> QED
      BY <2>3, <3>1, <1>4, <1>9 DEF Has
  <2>4. CASE d = c /\ i = n + 1
    <3>1. i # 0 /\ i \notin LiveEntries(c)
      BY <2>4, <1>9, <1>e
    <3> QED
      BY <2>4, <3>1, <1>4, <1>9 DEF Has
  <2>5. CASE d = c /\ i # 0 /\ i \notin 1..(n + 1)
    <3>1. i \notin LiveEntries(c) /\ i \notin LiveEntries(c)' /\ i # n + 1
      BY <2>5, <1>9, <1>e
    <3> QED
      BY <2>5, <3>1 DEF Has
  <2> QED
    BY <2>1, <2>2, <2>3, <2>4, <2>5, <1>e
<1>12. Has(c, 0, t)
  BY <1>1, <1>2 DEF Has, InHand
<1>13. /\ ref_count[t] = 1 /\ taker[t] = c /\ authors[t] \subseteq {c} \cup overtaken
       /\ \A d \in Caches : \A j \in Nat : Has(d, j, t) => d = c /\ j = 0
  BY <1>2, <1>12, <1>t DEF PlaceInv
<1>14. UNCHANGED ref_count
  BY <1>1 DEF poolVars
<1>15. PlaceInv'
  <2> SUFFICES ASSUME NEW x \in Blocks, NEW d \in Caches, NEW i \in Nat, Has(d, i, x)'
               PROVE  /\ ref_count'[x] = 1 /\ taker'[x] = d
                      /\ authors'[x] \subseteq {d} \cup overtaken'
                      /\ \A e \in Caches : \A j \in Nat : Has(e, j, x)' => e = d /\ j = i
    BY DEF PlaceInv
  <2>1. CASE x = t
    <3>1. \A e \in Caches : \A j \in Nat : Has(e, j, t)' => e = c /\ j = n + 1
      BY <1>2, <1>11, <1>13
    <3> QED
      BY <2>1, <3>1, <1>1, <1>13, <1>14
  <2>2. CASE x # t
    <3>1. Has(d, i, x)
      BY <2>2, <1>11
    <3>2. /\ ref_count[x] = 1 /\ taker[x] = d /\ authors[x] \subseteq {d} \cup overtaken
          /\ \A e \in Caches : \A j \in Nat : Has(e, j, x) => e = d /\ j = i
      BY <3>1, <1>t DEF PlaceInv
    <3> QED
      BY <2>2, <3>2, <1>1, <1>11, <1>14
  <2> QED
    BY <2>1, <2>2
<1>16. LeakInv'
  <2> SUFFICES ASSUME NEW x \in Blocks, ref_count[x] = 1, taker[x] \notin overtaken
               PROVE  \E d \in Caches : taker[x] = d /\ \E i \in Nat : Has(d, i, x)'
    BY <1>1, <1>14 DEF LeakInv
  <2>1. CASE x = t
    <3>1. freeing[c] = 0
      BY <2>1, <1>1, <1>13, <1>t DEF CallerInv, Appending
    <3>2. Has(c, n + 1, t)' /\ n + 1 \in Nat
      BY <3>1, <1>2, <1>9, <1>11, <1>e
    <3> QED
      BY <2>1, <3>2, <1>13
  <2>2. CASE x # t
    <3>1. PICK d \in Caches : taker[x] = d /\ \E i \in Nat : Has(d, i, x)
      BY <1>t DEF LeakInv
    <3>2. PICK i \in Nat : Has(d, i, x)
      BY <3>1
    <3>3. ~(d = c /\ i = 0)
      <4>1. \A b \in Blocks : Has(c, 0, b) => b = t
        BY <1>2, <1>e, <1>9 DEF Has, InHand
      <4> QED
        BY <4>1, <2>2, <3>2
    <3> QED
      BY <3>1, <3>2, <3>3, <1>11
  <2> QED
    BY <2>1, <2>2
<1>17. FreeListOK'
  BY <1>1, <1>t DEF FreeListOK, FreeListExact, Range, poolVars
<1>18. RegistryInv' /\ CallerInv'
  <2>1. calls[c] < MaxCalls /\ (freeing[c] # 0 => c \in overtaken)
    BY <1>1, <1>t DEF CallerInv, Appending
  <2>2. block_table'[c] # <<>>
    BY <1>4, <1>e
  <2>3. c \notin overtaken' => freeing[c] \notin {-2, -3}
    BY <2>1, <1>1
  <2>4. registryVars' = registryVars
    BY <1>1 DEF registryVars
  <2> QED
    BY <2>1, <2>2, <2>3, <2>4, <1>1, <1>3, <1>6, <1>t, CallerMoves
<1> QED
  BY <1>e, <1>3, <1>4, <1>7, <1>15, <1>16, <1>17, <1>18 DEF SequenceInv

-----------------------------------------------------------------------------
(* Registry, callers, tables and pool agree in every behaviour of the      *)
(* cache manager: the invariant the theorems below follow from.            *)
LEMMA SequenceInvNext ==
    ASSUME SequenceInv, [SequenceNext]_sequenceVars
    PROVE  SequenceInv'
<1>1. ASSUME NEW c \in Caches, NEW id \in Ids, Create(c, id) PROVE SequenceInv'
  BY <1>1, CreateStep
<1>2. ASSUME NEW c \in Caches, Insert(c) PROVE SequenceInv'
  BY <1>2, InsertStep
<1>3. ASSUME NEW c \in Caches, Caller(c) PROVE SequenceInv'
  BY <1>3, LookStep, AllocateStep, ExtendStep, ReadLastStep, AssignStep, WriteStep, LeaveStep
  DEF Caller
<1>4. ASSUME NEW c \in Caches, FreeBlock(c) \/ LoopEnds(c) \/ Clear(c) \/ ZeroCount(c)
      PROVE  SequenceInv'
  BY <1>4, FreeBlockStep, LoopEndsStep
<1>5. ASSUME NEW id \in Ids, Pop(id) PROVE SequenceInv'
  BY <1>5, PopStep
<1>6. CASE UNCHANGED sequenceVars
  <2>1. UNCHANGED <<poolVars, registryVars, block_table, num_cached_tokens, at, hand, calls,
                    freeing, overtaken, taker, authors>>
    BY <1>6 DEF sequenceVars, tableVars, callerVars, historyVars
  <2>2. SequenceTypeOK' /\ RegistryInv' /\ CallerInv'
    BY <2>1 DEF registryVars, poolVars, SequenceInv, SequenceTypeOK, RegistryInv, CallerInv
  <2>3. \A c \in Caches :
            /\ LiveEntries(c)' = LiveEntries(c)
            /\ \A b \in Blocks : InHand(c, b)' = InHand(c, b)
            /\ \A i \in LiveEntries(c) : block_table'[c][i] = block_table[c][i]
    BY <2>1 DEF LiveEntries, InHand
  <2>4. UNCHANGED <<poolVars, taker, authors>> /\ overtaken \subseteq overtaken'
    BY <2>1
  <2>5. PlaceInv /\ LeakInv /\ FreeListOK
    BY DEF SequenceInv
  <2>6. PlaceInv' /\ LeakInv' /\ FreeListOK'
    BY <2>3, <2>4, <2>5, NothingMoved
  <2> QED
    BY <2>2, <2>6 DEF SequenceInv
<1> QED
  BY <1>1, <1>2, <1>3, <1>4, <1>5, <1>6 DEF SequenceNext

THEOREM SequenceInvariant == SequenceSpec => []SequenceInv
  BY SequenceStart, SequenceInvNext, PTL DEF SequenceSpec

(* Types: in particular no block of a table ever has two references. *)
THEOREM SequenceTypes == SequenceSpec => []SequenceTypeOK
<1>1. SequenceInv => SequenceTypeOK
  BY DEF SequenceInv
<1> QED
  BY <1>1, SequenceInvariant, PTL

(* The free list of the pool stays exact, whatever free() overtakes: no    *)
(* block is handed out while it is in use, and none is freed twice.        *)
THEOREM SequenceFreeList == SequenceSpec => []FreeListExact
<1>1. SequenceInv => FreeListExact
  BY DEF SequenceInv, FreeListOK
<1> QED
  BY <1>1, SequenceInvariant, PTL

(* Tables and hands share no block, and only a caller that some free() has *)
(* overtaken writes into a block that is not its own.                      *)
THEOREM SequenceTablesPrivate == SequenceSpec => []TablesPrivate
<1>1. ASSUME SequenceInv PROVE TablesPrivate
  <2>t. SequenceTypeOK /\ CallerInv /\ PlaceInv
    BY <1>1 DEF SequenceInv
  <2>1. \A c \in Caches : \A i \in LiveEntries(c) :
            i \in Nat /\ i # 0 /\ block_table[c][i] \in Blocks /\ Has(c, i, block_table[c][i])
    BY <2>t, EntryFacts DEF Has
  <2>2. \A c \in Caches, b \in Blocks : InHand(c, b) => Has(c, 0, b)
    BY DEF Has
  <2>3. EntriesPrivate
    <3> SUFFICES ASSUME NEW c \in Caches, NEW i \in LiveEntries(c), NEW d \in Caches
                 PROVE  /\ ref_count[block_table[c][i]] = 1
                        /\ ~InHand(d, block_table[c][i])
                        /\ \A j \in LiveEntries(d) :
                              block_table[d][j] = block_table[c][i] => d = c /\ j = i
      BY DEF EntriesPrivate
    <3>1. /\ ref_count[block_table[c][i]] = 1
          /\ \A j \in Nat : Has(d, j, block_table[c][i]) => d = c /\ j = i
      BY <2>1, <2>t DEF PlaceInv
    <3>2. ~InHand(d, block_table[c][i])
      BY <3>1, <2>1, <2>2
    <3> QED
      BY <3>1, <3>2, <2>1
  <2>4. HandsPrivate
    <3> SUFFICES ASSUME NEW c \in Caches, at[c] = "extend", NEW d \in Caches
                 PROVE  ref_count[hand[c]] = 1 /\ (InHand(d, hand[c]) => d = c)
      BY DEF HandsPrivate
    <3>1. hand[c] \in Blocks /\ Has(c, 0, hand[c])
      BY <2>t DEF CallerInv, Has, InHand
    <3> QED
      BY <3>1, <2>2, <2>t DEF PlaceInv
  <2>5. WritesOwned
    <3>1. ASSUME NEW c \in Caches \ overtaken, at[c] = "write"
          PROVE  \E i \in LiveEntries(c) : block_table[c][i] = hand[c]
      <4>1. freeing[c] = 0
        BY <3>1, <2>t DEF CallerInv, Appending
      <4>2. block_table[c] # <<>> /\ hand[c] = block_table[c][Len(block_table[c])]
        BY <3>1, <4>1, <2>t DEF CallerInv
      <4>3. Len(block_table[c]) \in LiveEntries(c)
        BY <4>1, <4>2, <2>t, EntryFacts
      <4> QED
        BY <4>2, <4>3
    <3>2. ASSUME NEW c \in Caches, NEW i \in LiveEntries(c)
          PROVE  authors[block_table[c][i]] \subseteq {c} \cup overtaken
      BY <2>1, <2>t DEF PlaceInv
    <3> QED
      BY <3>1, <3>2 DEF WritesOwned
  <2> QED
    BY <2>3, <2>4, <2>5 DEF TablesPrivate
<1>2. SequenceInv => TablesPrivate
  BY <1>1
<1> QED
  BY <1>2, SequenceInvariant, PTL

(* A block in use that no registered sequence has, and no free() is about  *)
(* to reach, was taken for a cache that was overtaken or replaced.         *)
THEOREM SequenceNothingLeaks == SequenceSpec => []NothingLeaks
<1>1. ASSUME SequenceInv PROVE NothingLeaks
  <2>t. SequenceTypeOK /\ RegistryInv /\ CallerInv /\ LeakInv
    BY <1>1 DEF SequenceInv
  <2> SUFFICES ASSUME NEW b \in Blocks, ref_count[b] = 1,
                      taker[b] \notin overtaken, ~Replaced(taker[b])
               PROVE  \E c \in Caches :
                        /\ Registered(c) \/ freeing[c] > 0
                        /\ InHand(c, b) \/ \E i \in LiveEntries(c) : block_table[c][i] = b
    BY DEF NothingLeaks
  <2>1. PICK c \in Caches : c = taker[b] /\ \E i \in Nat : Has(c, i, b)
    BY <2>t DEF LeakInv
  <2>2. PICK i \in Nat : Has(c, i, b)
    BY <2>1
  <2>3. InHand(c, b) \/ \E j \in LiveEntries(c) : block_table[c][j] = b
    BY <2>2 DEF Has
  <2>4. at[c] \notin {"new", "creating"}
    <3> SUFFICES ASSUME at[c] \in {"new", "creating"} PROVE FALSE
      OBVIOUS
    <3>1. ~InHand(c, b) /\ Len(block_table[c]) = 0
      BY <2>t, EntryFacts DEF RegistryInv, InHand
    <3> QED
      BY <3>1, <2>3, <2>t, EntryFacts
  <2>5. freeing[c] = 0 => Registered(c)
    BY <2>1, <2>4 DEF Replaced
  <2>6. freeing[c] # 0 => freeing[c] > 0
    <3> SUFFICES ASSUME freeing[c] # 0, ~(freeing[c] > 0) PROVE FALSE
      OBVIOUS
    <3>1. freeing[c] \in Freed
      BY <2>t DEF SequenceTypeOK
    <3>2. ~InHand(c, b)
      BY <2>1, <2>t DEF InHand, CallerInv, Appending
    <3>3. LiveEntries(c) = {}
      <4>1. CASE freeing[c] = -1
        BY <4>1 DEF LiveEntries
      <4>2. CASE freeing[c] \in {-2, -3}
        <5>1. Len(block_table[c]) = 0
          BY <4>2, <2>1, <2>t, EntryFacts DEF CallerInv
        <5> QED
          BY <5>1, <2>t, EntryFacts
      <4> QED
        BY <4>1, <4>2, <3>1 DEF Freed
    <3> QED
      BY <3>2, <3>3, <2>3
  <2> QED
    BY <2>3, <2>5, <2>6
<1>2. SequenceInv => NothingLeaks
  BY <1>1
<1> QED
  BY <1>2, SequenceInvariant, PTL

-----------------------------------------------------------------------------
(* With one (layer, head) pair, the table has as many blocks as its tokens *)
(* take up.                                                                *)

(* n tokens fill the k blocks of a table, the last one at least in part. *)
Fits(n, k) == (k - 1) * BlockSize < n /\ n <= k * BlockSize

(* The same at each program point of a caller that no free() disturbs. *)
LayoutAt(c) ==
    LET n == num_cached_tokens[c]
        k == Len(block_table[c])
    IN  /\ at[c] \in {"idle", "test"} => Fits(n, k)
        /\ at[c] \in {"allocate", "extend"} => n = k * BlockSize
        /\ at[c] \in {"read", "assign", "write", "count"} => Fits(n + 1, k)

LayoutInv == \A c \in Caches : freeing[c] = 0 => LayoutAt(c)

LEMMA FitsFacts ==
    ASSUME NEW n \in Nat, NEW k \in Nat
    PROVE  /\ Fits(0, 0)
           /\ Fits(n, 0) => n = 0
           /\ Fits(n, k) /\ n % BlockSize = 0 => n = k * BlockSize
           /\ Fits(n, k) /\ n % BlockSize # 0 =>
                  Fits(n + 1, k) /\ n = (k - 1) * BlockSize + (n % BlockSize)
           /\ n = k * BlockSize => Fits(n + 1, k + 1)
           /\ n % BlockSize \in 0..BlockSize-1
<1> DEFINE q == n \div BlockSize
           r == n % BlockSize
<1>b. BlockSize \in Nat /\ BlockSize > 0
  BY SequenceAssumption
<1>1. q \in Nat /\ r \in 0..BlockSize-1 /\ n = BlockSize * q + r
  BY <1>b
<1> HIDE DEF q, r
<1>2. Fits(0, 0) /\ (Fits(n, 0) => n = 0) /\ (n = k * BlockSize => Fits(n + 1, k + 1))
  BY <1>b DEF Fits
<1>3. ASSUME Fits(n, k) PROVE q = IF r = 0 THEN k ELSE k - 1
  <2>1. (k - 1) * BlockSize < BlockSize * q + r /\ BlockSize * q + r <= k * BlockSize
    BY <1>1, <1>3 DEF Fits
  <2>2. q <= k
    <3> SUFFICES ASSUME q >= k + 1 PROVE FALSE
      BY <1>1
    <3>1. BlockSize * q >= BlockSize * (k + 1)
      BY <1>1, <1>b
    <3> QED
      BY <3>1, <2>1, <1>1, <1>b
  <2>3. q >= k - 1
    <3> SUFFICES ASSUME q + 1 <= k - 1 PROVE FALSE
      BY <1>1
    <3>1. BlockSize * (q + 1) <= BlockSize * (k - 1)
      BY <1>1, <1>b
    <3> QED
      BY <3>1, <2>1, <1>1, <1>b
  <2>4. q \in {k - 1, k}
    BY <2>2, <2>3, <1>1
  <2>5. q = k => r = 0
    BY <2>1, <1>1, <1>b
  <2>6. q = k - 1 => r # 0
    BY <2>1, <1>1, <1>b
  <2> QED
    BY <2>4, <2>5, <2>6
<1>4. Fits(n, k) /\ r = 0 => n = k * BlockSize
  BY <1>1, <1>3, <1>b
<1>5. Fits(n, k) /\ r # 0 => n = (k - 1) * BlockSize + r
  BY <1>1, <1>3, <1>b
<1>6. Fits(n, k) /\ r # 0 => Fits(n + 1, k)
  BY <1>5, <1>1, <1>b DEF Fits
<1> QED
  BY <1>1, <1>2, <1>4, <1>5, <1>6 DEF r

(* Between two calls: what a caller sees, and what get_kv() assembles. *)
LEMMA LayoutSeen ==
    ASSUME SequenceTypeOK, NEW c \in Caches, Fits(num_cached_tokens[c], Len(block_table[c]))
    PROVE  /\ block_table[c] = <<>> => num_cached_tokens[c] = Len(block_table[c]) * BlockSize
           /\ block_table[c] # <<>> /\ LastBlockFull(c) =>
                  num_cached_tokens[c] = Len(block_table[c]) * BlockSize
           /\ ~LastBlockFull(c) /\ block_table[c] # <<>> =>
                  Fits(num_cached_tokens[c] + 1, Len(block_table[c]))
           /\ GetKvLength(c) = num_cached_tokens[c]
<1> DEFINE n == num_cached_tokens[c]
           k == Len(block_table[c])
<1>1. n \in Nat /\ k \in Nat /\ (block_table[c] = <<>> <=> k = 0)
  BY EntryFacts DEF SequenceTypeOK
<1>b. BlockSize \in Nat /\ BlockSize > 0
  BY SequenceAssumption
<1>f. Fits(n, k)
  OBVIOUS
<1> HIDE DEF n, k
<1>2. /\ k = 0 => n = 0
      /\ n % BlockSize = 0 => n = k * BlockSize
      /\ n % BlockSize # 0 => Fits(n + 1, k) /\ n = (k - 1) * BlockSize + (n % BlockSize)
      /\ n % BlockSize \in 0..BlockSize-1
  BY <1>1, <1>f, FitsFacts
<1>3. block_table[c] # <<>> =>
          TokensInLastBlock(c) = IF n % BlockSize # 0 THEN n % BlockSize ELSE BlockSize
  BY DEF TokensInLastBlock, n
<1>4. block_table[c] # <<>> => (LastBlockFull(c) <=> n % BlockSize = 0)
  BY <1>2, <1>3, <1>b DEF LastBlockFull
<1>5. GetKvLength(c) = n
  <2>1. CASE block_table[c] = <<>>
    BY <2>1, <1>1, <1>2 DEF GetKvLength
  <2>2. CASE block_table[c] # <<>> /\ n % BlockSize # 0
    <3>1. TokensInLastBlock(c) = n % BlockSize /\ TokensInLastBlock(c) # 0
      BY <2>2, <1>3
    <3> QED
      BY <3>1, <2>2, <1>2 DEF GetKvLength, k
  <2>3. CASE block_table[c] # <<>> /\ n % BlockSize = 0
    <3>1. GetKvLength(c) = (k - 1) * BlockSize + BlockSize
      BY <2>3, <1>3, <1>b DEF GetKvLength, k
    <3>2. (k - 1) * BlockSize + BlockSize = k * BlockSize
      BY <1>1, <1>b
    <3> QED
      BY <3>1, <3>2, <2>3, <1>2
  <2> QED
    BY <2>1, <2>2, <2>3
<1>6. k = 0 => n = k * BlockSize
  BY <1>2, <1>b
<1> QED
  BY <1>1, <1>2, <1>4, <1>5, <1>6 DEF n, k

(* A step of somebody else, or of free(). *)
LEMMA LayoutElsewhere ==
    ASSUME LayoutInv, NEW c \in Caches,
           freeing'[c] = 0 => LayoutAt(c)',
           \A d \in Caches \ {c} : /\ at'[d] = at[d] /\ freeing'[d] = freeing[d]
                                   /\ block_table'[d] = block_table[d]
                                   /\ num_cached_tokens'[d] = num_cached_tokens[d]
    PROVE  LayoutInv'
  BY DEF LayoutInv, LayoutAt

(* The steps of a caller that change the layout it has to keep to. *)
LEMMA LayoutCaller ==
    ASSUME Pairs = 1, SequenceInv, SequenceInv', LayoutInv, NEW c \in Caches, Caller(c)
    PROVE  LayoutInv'
<1> DEFINE n == num_cached_tokens[c]
           k == Len(block_table[c])
<1>t. SequenceTypeOK /\ SequenceTypeOK'
  BY DEF SequenceInv
<1>n. n \in Nat /\ k \in Nat
  BY <1>t, EntryFacts DEF SequenceTypeOK
<1>1. /\ UNCHANGED freeing
      /\ \A d \in Caches \ {c} : num_cached_tokens'[d] = num_cached_tokens[d]
  BY <1>t DEF Caller, AppendCalled, Test, Allocate, Extend, ReadLast, Assign, Write, Raise,
              Increment, tableVars, SequenceTypeOK
<1>2. \A d \in Caches \ {c} : at'[d] = at[d]
  BY <1>t DEF Caller, AppendCalled, Test, Allocate, Extend, ReadLast, Assign, Write, Raise,
              Increment, Move, SequenceTypeOK
<1>3. \A d \in Caches \ {c} : block_table'[d] = block_table[d]
  BY <1>t DEF Caller, AppendCalled, Test, Allocate, Extend, ReadLast, Assign, Write, Raise,
              Increment, tableVars, SequenceTypeOK
<1>4. ASSUME freeing[c] = 0 PROVE LayoutAt(c)'
  <2>l. LayoutAt(c)
    BY <1>4 DEF LayoutInv
  <2>1. CASE AppendCalled(c)
    <3>1. /\ at[c] = "idle" /\ at'[c] = IF block_table[c] = <<>> THEN "allocate" ELSE "test"
          /\ UNCHANGED <<num_cached_tokens, block_table>>
      BY <2>1, <1>t DEF AppendCalled, Move, tableVars, SequenceTypeOK
    <3>2. Fits(n, k) /\ (block_table[c] = <<>> => n = k * BlockSize)
      BY <3>1, <2>l, <1>t, LayoutSeen DEF LayoutAt
    <3> QED
      BY <3>1, <3>2 DEF LayoutAt
  <2>2. CASE Test(c)
    <3>1. /\ at[c] = "test" /\ at'[c] = IF LastBlockFull(c) THEN "allocate" ELSE "read"
          /\ UNCHANGED <<num_cached_tokens, block_table>>
      BY <2>2, <1>t DEF Test, Move, tableVars, SequenceTypeOK
    <3>2. block_table[c] # <<>>
      BY <3>1, <1>4 DEF SequenceInv, CallerInv
    <3>3. /\ LastBlockFull(c) => n = k * BlockSize
          /\ ~LastBlockFull(c) => Fits(n + 1, k)
      BY <3>1, <3>2, <2>l, <1>t, LayoutSeen DEF LayoutAt
    <3> QED
      BY <3>1, <3>3 DEF LayoutAt
  <2>3. CASE Allocate(c)
    <3>1. /\ at[c] = "allocate" /\ at'[c] = "extend"
          /\ UNCHANGED <<num_cached_tokens, block_table>>
      BY <2>3, <1>t DEF Allocate, Move, tableVars, SequenceTypeOK
    <3> QED
      BY <3>1, <2>l DEF LayoutAt
  <2>4. CASE Extend(c)
    <3>1. at[c] = "extend" /\ at'[c] = "read" /\ UNCHANGED num_cached_tokens
      BY <2>4, <1>t DEF Extend, Move, SequenceTypeOK
    <3>2. Len(block_table'[c]) = k + 1
      BY <2>4, ExtendStep
    <3>3. Fits(n + 1, k + 1)
      BY <3>1, <2>l, <1>n, FitsFacts DEF LayoutAt
    <3> QED
      BY <3>1, <3>2, <3>3 DEF LayoutAt
  <2>5. CASE ReadLast(c) \/ Assign(c)
    <3>1. /\ at[c] \in {"read", "assign"} /\ at'[c] \in {"assign", "write"}
          /\ UNCHANGED num_cached_tokens
      BY <2>5, <1>t DEF ReadLast, Assign, Move, tableVars, SequenceTypeOK
    <3>2. UNCHANGED block_table
      BY <2>5, AssignStep DEF ReadLast, tableVars
    <3> QED
      BY <3>1, <3>2, <2>l DEF LayoutAt
  <2>6. CASE Write(c)
    <3>1. calls'[c] % Pairs = 0
      <4>1. calls'[c] \in Nat
        BY <1>t, SequenceAssumption DEF SequenceTypeOK
      <4> QED
        BY <4>1
    <3>2. /\ at[c] = "write" /\ at'[c] = "count"
          /\ UNCHANGED <<num_cached_tokens, block_table>>
      BY <2>6, <3>1, <1>t DEF Write, Move, tableVars, SequenceTypeOK
    <3> QED
      BY <3>2, <2>l DEF LayoutAt
  <2>7. CASE Raise(c)
    <3>1. at'[c] = "failed"
      BY <2>7, <1>t DEF Raise, Move, SequenceTypeOK
    <3> QED
      BY <3>1 DEF LayoutAt
  <2>8. CASE Increment(c)
    <3>1. /\ at[c] = "count" /\ at'[c] = "idle" /\ num_cached_tokens'[c] = n + 1
          /\ UNCHANGED block_table
      BY <2>8, <1>t DEF Increment, Move, SequenceTypeOK
    <3> QED
      BY <3>1, <2>l DEF LayoutAt
  <2> QED
    BY <2>1, <2>2, <2>3, <2>4, <2>5, <2>6, <2>7, <2>8 DEF Caller
<1> QED
  BY <1>1, <1>2, <1>3, <1>4, LayoutElsewhere

LEMMA LayoutStep ==
    ASSUME Pairs = 1, SequenceInv, SequenceInv', LayoutInv, [SequenceNext]_sequenceVars
    PROVE  LayoutInv'
<1>t. SequenceTypeOK
  BY DEF SequenceInv
<1>1. ASSUME NEW c \in Caches, NEW id \in Ids, Create(c, id) PROVE LayoutInv'
  <2>1. /\ at'[c] = "creating" /\ \A d \in Caches \ {c} : at'[d] = at[d]
        /\ UNCHANGED <<block_table, num_cached_tokens, freeing>>
    BY <1>1, <1>t DEF Create, Move, tableVars, SequenceTypeOK
  <2>2. LayoutAt(c)'
    BY <2>1 DEF LayoutAt
  <2> QED
    BY <2>1, <2>2, LayoutElsewhere
<1>2. ASSUME NEW c \in Caches, Insert(c) PROVE LayoutInv'
  <2>1. /\ at[c] = "creating" /\ at'[c] = "idle" /\ \A d \in Caches \ {c} : at'[d] = at[d]
        /\ UNCHANGED <<block_table, num_cached_tokens, freeing>>
    BY <1>2, <1>t DEF Insert, Move, tableVars, SequenceTypeOK
  <2>2. num_cached_tokens[c] = 0 /\ Len(block_table[c]) = 0
    BY <2>1, <1>t, EntryFacts DEF SequenceInv, RegistryInv
  <2>3. LayoutAt(c)'
    BY <2>1, <2>2, FitsFacts DEF LayoutAt
  <2> QED
    BY <2>1, <2>3, LayoutElsewhere
<1>3. ASSUME NEW c \in Caches, Caller(c) PROVE LayoutInv'
  BY <1>3, LayoutCaller
<1>4. ASSUME NEW c \in Caches, FreeBlock(c) \/ LoopEnds(c) \/ Clear(c) \/ ZeroCount(c)
      PROVE  LayoutInv'
  <2>1. /\ UNCHANGED at /\ freeing'[c] # 0
        /\ \A d \in Caches \ {c} : freeing'[d] = freeing[d]
    BY <1>4, <1>t DEF FreeBlock, LoopEnds, Clear, ZeroCount, callerVars, SequenceTypeOK
  <2>2. \A d \in Caches \ {c} : /\ block_table'[d] = block_table[d]
                               /\ num_cached_tokens'[d] = num_cached_tokens[d]
    BY <1>4, <1>t DEF FreeBlock, LoopEnds, Clear, ZeroCount, tableVars, SequenceTypeOK
  <2> QED
    BY <2>1, <2>2, LayoutElsewhere
<1>5. ASSUME NEW id \in Ids, Pop(id) PROVE LayoutInv'
  <2>1. PICK c \in Caches : c = sequences[id]
    BY <1>5, <1>t DEF Pop, SequenceTypeOK
  <2>2. /\ UNCHANGED <<at, block_table, num_cached_tokens>>
        /\ freeing' = [freeing EXCEPT ![c] = 1]
    BY <1>5, <2>1 DEF Pop, callerVars, tableVars
  <2>3. freeing'[c] # 0 /\ \A d \in Caches \ {c} : freeing'[d] = freeing[d]
    BY <2>2, <1>t DEF SequenceTypeOK
  <2> QED
    BY <2>2, <2>3, LayoutElsewhere
<1>6. CASE UNCHANGED sequenceVars
  BY <1>6 DEF sequenceVars, tableVars, callerVars, LayoutInv, LayoutAt
<1> QED
  BY <1>1, <1>2, <1>3, <1>4, <1>5, <1>6 DEF SequenceNext

(* For one (layer, head) pair, get_kv() assembles as many tokens as were   *)
(* counted, whatever other callers, creations and flushes do meanwhile.    *)
(* With two pairs this is false: the run sequence_cache_length.            *)
THEOREM SequenceAssembled ==
    ASSUME Pairs = 1
    PROVE  SequenceSpec => []AssembledTokens
<1>1. SequenceInit => LayoutInv
  <2> SUFFICES ASSUME SequenceInit, NEW c \in Caches PROVE LayoutAt(c)
    BY DEF LayoutInv
  <2> QED
    BY DEF SequenceInit, LayoutAt
<1>2. SequenceInv /\ SequenceInv' /\ LayoutInv /\ [SequenceNext]_sequenceVars => LayoutInv'
  BY LayoutStep
<1>3. SequenceInv /\ LayoutInv => AssembledTokens
  <2> SUFFICES ASSUME SequenceInv, LayoutInv, NEW c \in Caches, Registered(c), at[c] = "idle"
               PROVE  GetKvLength(c) = num_cached_tokens[c]
    BY DEF AssembledTokens
  <2>1. freeing[c] = 0
    BY SequenceAssumption DEF Registered, SequenceInv, RegistryInv
  <2>2. Fits(num_cached_tokens[c], Len(block_table[c]))
    BY <2>1 DEF LayoutInv, LayoutAt
  <2> QED
    BY <2>2, LayoutSeen DEF SequenceInv
<1> QED
  BY <1>1, <1>2, <1>3, SequenceInvariant, PTL DEF SequenceSpec
=============================================================================
