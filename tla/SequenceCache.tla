--------------------------- MODULE SequenceCache ----------------------------
(***************************************************************************)
(* core/cache_manager.py: SequenceCache and CacheManager on a block pool.  *)
(*                                                                         *)
(* Neither class has a lock, so a step ends wherever the registry, a       *)
(* table, a count or the pool is touched next.  free_sequence() may run at *)
(* any moment: DELETE /cache/flush (server/api.py) frees every registered  *)
(* sequence in a thread of its own.                                        *)
(*                                                                         *)
(* Nothing under src/ creates a sequence or appends to one.  Assumed of    *)
(* the caller: it appends the K and V of every (layer, head) pair of a     *)
(* token, then counts the token, in one thread for each cache, and ends    *)
(* with the first exception.  Prefix blocks are not used here: no block    *)
(* has two references, and copy_on_write() returns the block it is given.  *)
(***************************************************************************)
EXTENDS BlockPool

CONSTANTS Caches,     \* SequenceCache objects a behaviour can create
          Ids,        \* sequence ids
          BlockSize,  \* config.block_size
          Pairs,      \* (layer, head) pairs of a token
          MaxCalls    \* bound: append_token_kv() calls of one caller

ASSUME SequenceAssumption ==
    /\ IsFiniteSet(Caches) /\ IsFiniteSet(Blocks)
    /\ None \notin Caches \cup Ids \cup Blocks
    /\ {BlockSize, Pairs, MaxCalls} \subseteq Nat \ {0}

VARIABLES
    sequences,          \* _sequences
    seq_id,             \* seq_id of a cache, None before it is created
    block_table,        \* block_table
    num_cached_tokens,  \* num_cached_tokens
    at,                 \* program point of a cache's caller
    hand,               \* the block its call took, or is about to write into
    calls,              \* append_token_kv() calls completed
    freeing,            \* next index of the loop of free(); 0 before it, then Freed
    overtaken,          \* history: caches whose free() overlaps or precedes an append
    taker,              \* history: the cache a block was last taken for
    authors             \* history: the caches written into a block since

registryVars == <<sequences, seq_id>>
tableVars == <<block_table, num_cached_tokens>>
callerVars == <<at, hand, calls>>
historyVars == <<overtaken, taker, authors>>
sequenceVars == <<poolVars, registryVars, tableVars, callerVars, freeing, historyVars>>

SequenceInit ==
    /\ PoolInit
    /\ sequences = [id \in Ids |-> None]
    /\ seq_id = [c \in Caches |-> None]
    /\ block_table = [c \in Caches |-> <<>>]
    /\ num_cached_tokens = [c \in Caches |-> 0]
    /\ at = [c \in Caches |-> "new"]
    /\ hand = [c \in Caches |-> None]
    /\ calls = [c \in Caches |-> 0]
    /\ freeing = [c \in Caches |-> 0]
    /\ overtaken = {}
    /\ taker = [b \in Blocks |-> None]
    /\ authors = [b \in Blocks |-> {}]

(* free() after its loop: about to clear the table, to zero the count, done *)
Freed == {-1, -2, -3}

(* The points of a call of append_token_kv(). *)
Appending == {"test", "allocate", "extend", "read", "assign", "write"}

Move(c, from, to) == at[c] = from /\ at' = [at EXCEPT ![c] = to]

Registered(c) == \E id \in Ids : sequences[id] = c

-----------------------------------------------------------------------------
(* create_sequence(): ValueError, and no change, for an id in use; but the *)
(* entry is made later, and replaces one that was made meanwhile.          *)

Create(c, id) ==
    /\ Move(c, "new", "creating")
    /\ sequences[id] = None
    /\ seq_id' = [seq_id EXCEPT ![c] = id]
    /\ UNCHANGED <<poolVars, sequences, tableVars, hand, calls, freeing, historyVars>>

Insert(c) ==
    /\ Move(c, "creating", "idle")
    /\ sequences' = [sequences EXCEPT ![seq_id[c]] = c]
    /\ UNCHANGED <<poolVars, seq_id, tableVars, hand, calls, freeing, historyVars>>

-----------------------------------------------------------------------------
(* append_token_kv() and increment_token_count().                          *)

TokensInLastBlock(c) ==
    LET remainder == num_cached_tokens[c] % BlockSize IN
    IF remainder # 0 THEN remainder ELSE IF block_table[c] = <<>> THEN 0 ELSE BlockSize

LastBlockFull(c) == TokensInLastBlock(c) = BlockSize

(* Tokens in the tensors get_kv() returns: the last block counts in part. *)
GetKvLength(c) ==
    IF block_table[c] = <<>> THEN 0
    ELSE (Len(block_table[c]) - 1) * BlockSize
           + (IF TokensInLastBlock(c) = 0 THEN BlockSize ELSE TokensInLastBlock(c))

(* _last_block_full() looks at the table first, and then at the count. *)
AppendCalled(c) ==
    /\ Move(c, "idle", IF block_table[c] = <<>> THEN "allocate" ELSE "test")
    /\ calls[c] < MaxCalls
    /\ overtaken' = IF freeing[c] = 0 THEN overtaken ELSE overtaken \cup {c}
    /\ UNCHANGED <<poolVars, registryVars, tableVars, hand, calls, freeing, taker, authors>>

Test(c) ==
    /\ Move(c, "test", IF LastBlockFull(c) THEN "allocate" ELSE "read")
    /\ UNCHANGED <<poolVars, registryVars, tableVars, hand, calls, freeing, historyVars>>

Allocate(c) ==
    /\ Move(c, "allocate", "extend")
    /\ TakeTop(None)
    /\ hand' = [hand EXCEPT ![c] = Top]
    /\ taker' = [taker EXCEPT ![Top] = c]
    /\ authors' = [authors EXCEPT ![Top] = {}]
    /\ UNCHANGED <<prefix_cache, registryVars, tableVars, calls, freeing, overtaken>>

Extend(c) ==
    /\ Move(c, "extend", "read")
    /\ block_table' = [block_table EXCEPT ![c] = Append(@, hand[c])]
    /\ hand' = [hand EXCEPT ![c] = None]
    /\ UNCHANGED <<poolVars, registryVars, num_cached_tokens, calls, freeing, historyVars>>

(* block_table[-1], as copy_on_write() returns it *)
ReadLast(c) ==
    /\ Move(c, "read", "assign")
    /\ block_table[c] # <<>>
    /\ hand' = [hand EXCEPT ![c] = block_table[c][Len(block_table[c])]]
    /\ UNCHANGED <<poolVars, registryVars, tableVars, calls, freeing, historyVars>>

Assign(c) ==
    /\ Move(c, "assign", "write")
    /\ block_table[c] # <<>>
    /\ block_table' = [block_table EXCEPT ![c][Len(block_table[c])] = hand[c]]
    /\ UNCHANGED <<poolVars, registryVars, num_cached_tokens, hand, calls, freeing, historyVars>>

Write(c) ==
    /\ calls' = [calls EXCEPT ![c] = @ + 1]
    /\ Move(c, "write", IF calls'[c] % Pairs = 0 THEN "count" ELSE "idle")
    /\ authors' = [authors EXCEPT ![hand[c]] = @ \cup {c}]
    /\ hand' = [hand EXCEPT ![c] = None]
    /\ UNCHANGED <<poolVars, registryVars, tableVars, freeing, overtaken, taker>>

(* MemoryError from an empty pool, IndexError from a table that was cleared *)
Raise(c) ==
    /\ \/ at[c] = "allocate" /\ free = <<>>
       \/ at[c] \in {"read", "assign"} /\ block_table[c] = <<>>
    /\ Move(c, at[c], "failed")
    /\ hand' = [hand EXCEPT ![c] = None]
    /\ UNCHANGED <<poolVars, registryVars, tableVars, calls, freeing, historyVars>>

Increment(c) ==
    /\ Move(c, "count", "idle")
    /\ num_cached_tokens' = [num_cached_tokens EXCEPT ![c] = @ + 1]
    /\ UNCHANGED <<poolVars, registryVars, block_table, hand, calls, freeing, historyVars>>

Caller(c) ==
    \/ AppendCalled(c) \/ Test(c) \/ Allocate(c) \/ Extend(c) \/ ReadLast(c) \/ Assign(c)
    \/ Write(c) \/ Raise(c) \/ Increment(c)

-----------------------------------------------------------------------------
(* free_sequence(), by cache_flush() or anyone else who knows the id.      *)

Overtake(c) ==
    overtaken' = IF at[c] \in Appending THEN overtaken \cup {c} ELSE overtaken

(* Mistake: the sequence is looked up, and removed only when it is freed. *)
PopLate(id) ==
    LET c == sequences[id] IN
    /\ c # None
    /\ freeing' = [freeing EXCEPT ![c] = 1]
    /\ Overtake(c)
    /\ UNCHANGED <<poolVars, registryVars, tableVars, callerVars, taker, authors>>

Pop(id) ==
    LET c == sequences[id] IN
    /\ c # None
    /\ sequences' = [sequences EXCEPT ![id] = None]
    /\ freeing' = [freeing EXCEPT ![c] = 1]
    /\ Overtake(c)
    /\ UNCHANGED <<poolVars, seq_id, tableVars, callerVars, taker, authors>>

FreeBlock(c) ==
    /\ freeing[c] \in 1..Len(block_table[c])
    /\ Drop(block_table[c][freeing[c]])
    /\ freeing' = [freeing EXCEPT ![c] = @ + 1]
    /\ UNCHANGED <<registryVars, tableVars, callerVars, historyVars>>

(* Mistake: the loop leaves out the last block of the table. *)
LoopEndsEarly(c) ==
    /\ freeing[c] >= 1 /\ freeing[c] >= Len(block_table[c])
    /\ freeing' = [freeing EXCEPT ![c] = -1]
    /\ UNCHANGED <<poolVars, registryVars, tableVars, callerVars, historyVars>>

LoopEnds(c) ==
    /\ freeing[c] = Len(block_table[c]) + 1
    /\ freeing' = [freeing EXCEPT ![c] = -1]
    /\ UNCHANGED <<poolVars, registryVars, tableVars, callerVars, historyVars>>

(* Mistake: the table is left as it is. *)
ClearNothing(c) ==
    /\ freeing[c] = -1
    /\ freeing' = [freeing EXCEPT ![c] = -2]
    /\ UNCHANGED <<poolVars, registryVars, tableVars, callerVars, historyVars>>

Clear(c) ==
    /\ freeing[c] = -1
    /\ block_table' = [block_table EXCEPT ![c] = <<>>]
    /\ freeing' = [freeing EXCEPT ![c] = -2]
    /\ UNCHANGED <<poolVars, registryVars, num_cached_tokens, callerVars, historyVars>>

(* The zero is lost if the caller is between reading and writing the count. *)
ZeroCount(c) ==
    /\ freeing[c] = -2
    /\ \/ num_cached_tokens' = [num_cached_tokens EXCEPT ![c] = 0]
       \/ at[c] = "count" /\ UNCHANGED num_cached_tokens
    /\ freeing' = [freeing EXCEPT ![c] = -3]
    /\ UNCHANGED <<poolVars, registryVars, block_table, callerVars, historyVars>>

SequenceNext ==
    \/ \E c \in Caches :
        \/ \E id \in Ids : Create(c, id)
        \/ Insert(c)
        \/ Caller(c)
        \/ FreeBlock(c) \/ LoopEnds(c) \/ Clear(c) \/ ZeroCount(c)
    \/ \E id \in Ids : Pop(id)

SequenceSpec == SequenceInit /\ [][SequenceNext]_sequenceVars

-----------------------------------------------------------------------------
(* Types, and no block ever has two references. *)
SequenceTypeOK ==
    /\ ref_count \in [Blocks -> {0, 1}]
    /\ free \in Seq(Blocks)
    /\ sequences \in [Ids -> Caches \cup {None}]
    /\ seq_id \in [Caches -> Ids \cup {None}]
    /\ block_table \in [Caches -> Seq(Blocks)]
    /\ num_cached_tokens \in [Caches -> Nat]
    /\ at \in [Caches -> {"new", "creating", "idle", "count", "failed"} \cup Appending]
    /\ hand \in [Caches -> Blocks \cup {None}]
    /\ calls \in [Caches -> 0..MaxCalls]
    /\ freeing \in [Caches -> Nat \cup Freed]
    /\ overtaken \subseteq Caches
    /\ taker \in [Blocks -> Caches \cup {None}]
    /\ authors \in [Blocks -> SUBSET Caches]

(* The entries of a table that free() has not given up yet, or that were   *)
(* made after it had cleared the table.                                    *)
LiveEntries(c) ==
    {i \in DOMAIN block_table[c] : freeing[c] # -1 /\ (freeing[c] > 0 => freeing[c] <= i)}

(* A caller has taken b and not put it into its table yet. *)
InHand(c, b) == at[c] = "extend" /\ hand[c] = b

(***************************************************************************)
(* Whatever overlaps: an entry that is not given up yet, or a block on its *)
(* way to the table, is the only reference to its block.  Only callers     *)
(* that a free() has overtaken write into a block that is not, or no       *)
(* longer, theirs.                                                         *)
(***************************************************************************)
EntriesPrivate ==
    \A c \in Caches : \A i \in LiveEntries(c) :
        LET b == block_table[c][i] IN
        /\ ref_count[b] = 1
        /\ \A d \in Caches :
            /\ ~InHand(d, b)
            /\ \A j \in LiveEntries(d) : block_table[d][j] = b => d = c /\ j = i

HandsPrivate ==
    \A c \in Caches : at[c] = "extend" =>
        /\ ref_count[hand[c]] = 1
        /\ \A d \in Caches : InHand(d, hand[c]) => d = c

WritesOwned ==
    /\ \A c \in Caches \ overtaken : at[c] = "write" =>
           \E i \in LiveEntries(c) : block_table[c][i] = hand[c]
    /\ \A c \in Caches : \A i \in LiveEntries(c) :
           authors[block_table[c][i]] \subseteq {c} \cup overtaken

TablesPrivate == EntriesPrivate /\ HandsPrivate /\ WritesOwned

(***************************************************************************)
(* server/api.py:348: a flush frees the active sequences.  Each block in   *)
(* use is in the hand or the table of a registered sequence, or still to   *)
(* come in the loop of a free(); the blocks that are not were taken for a  *)
(* cache whose caller was overtaken by its free(), or whose entry another  *)
(* cache with the same id has replaced.                                    *)
(***************************************************************************)
Replaced(c) == at[c] \notin {"new", "creating"} /\ freeing[c] = 0 /\ ~Registered(c)

NothingLeaks ==
    \A b \in Blocks : ref_count[b] = 1 =>
        \/ \E c \in Caches :
            /\ Registered(c) \/ freeing[c] > 0
            /\ InHand(c, b) \/ \E i \in LiveEntries(c) : block_table[c][i] = b
        \/ taker[b] \in overtaken
        \/ Replaced(taker[b])

(***************************************************************************)
(* cache_manager.py:56: between two tokens, what get_kv() assembles is     *)
(* num_cached_tokens long.                                                 *)
(***************************************************************************)
AssembledTokens ==
    \A c \in Caches : (Registered(c) /\ at[c] = "idle" /\ calls[c] % Pairs = 0) =>
        GetKvLength(c) = num_cached_tokens[c]
=============================================================================
