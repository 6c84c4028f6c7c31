---------------------------- MODULE TokenBucket ----------------------------
(***************************************************************************)
(* scheduler/rate_limiter.py: class TokenBucket.                           *)
(*                                                                         *)
(* Time is a discrete clock (time.perf_counter is monotone) and tokens are *)
(* counted in integral units, Cost of them per request, so that a rate     *)
(* below one request per tick is expressible.  Every method holds _lock    *)
(* from its first to its last statement: each is one atomic step.          *)
(***************************************************************************)
EXTENDS Integers, Sequences

CONSTANTS Rate,      \* units added per clock tick (self.rate)
          Capacity,  \* burst ceiling in units (self.capacity)
          Cost,      \* units one request costs (the cost argument of acquire)
          MaxClock,  \* bound: last instant of the clock
          MaxCalls   \* bound: number of acquire() calls

ASSUME BucketAssumption ==
    /\ Rate \in Nat /\ Capacity \in Nat /\ Cost \in Nat
    /\ MaxClock \in Nat /\ MaxCalls \in Nat

VARIABLES clock,           \* time.perf_counter()
          tokens,          \* _tokens
          last_refill,     \* _last_refill
          total_allowed,   \* _total_allowed
          total_rejected,  \* _total_rejected
          grants           \* history: the instants at which acquire() said True

bucketVars == <<clock, tokens, last_refill, total_allowed, total_rejected, grants>>

BucketInit ==
    /\ clock = 0
    /\ tokens = Capacity
    /\ last_refill = 0
    /\ total_allowed = 0
    /\ total_rejected = 0
    /\ grants = <<>>

(* Mistake: the min(self.capacity, ...) of _refill is forgotten. *)
RefilledUncapped == tokens + (clock - last_refill) * Rate

(* What _refill leaves in _tokens when it runs now. *)
Refilled ==
    LET topped == tokens + (clock - last_refill) * Rate
    IN  IF topped < Capacity THEN topped ELSE Capacity

Refill(left) ==
    /\ tokens' = left
    /\ last_refill' = clock

CallsLeft == total_allowed + total_rejected < MaxCalls

(* acquire() that returns True. *)
Admit ==
    /\ CallsLeft
    /\ Refilled >= Cost
    /\ Refill(Refilled - Cost)
    /\ total_allowed' = total_allowed + 1
    /\ grants' = Append(grants, clock)
    /\ UNCHANGED <<clock, total_rejected>>

(* Mistake: a refused call moves _last_refill but does not keep the refill. *)
RejectLosingCredit ==
    /\ CallsLeft
    /\ Refilled < Cost
    /\ Refill(tokens)
    /\ total_rejected' = total_rejected + 1
    /\ UNCHANGED <<clock, total_allowed, grants>>

(* acquire() that returns False: the refill is kept, nothing is consumed. *)
Reject ==
    /\ CallsLeft
    /\ Refilled < Cost
    /\ Refill(Refilled)
    /\ total_rejected' = total_rejected + 1
    /\ UNCHANGED <<clock, total_allowed, grants>>

(* stats() refills too. *)
Stats ==
    /\ Refill(Refilled)
    /\ UNCHANGED <<clock, total_allowed, total_rejected, grants>>

Tick ==
    /\ clock < MaxClock
    /\ clock' = clock + 1
    /\ UNCHANGED <<tokens, last_refill, total_allowed, total_rejected, grants>>

BucketNext == Admit \/ Reject \/ Stats \/ Tick

BucketSpec == BucketInit /\ [][BucketNext]_bucketVars

-----------------------------------------------------------------------------
(* Types, and the counters agree with the history of grants. *)
BucketTypeOK ==
    /\ clock \in Nat
    /\ tokens \in 0..Capacity
    /\ last_refill \in 0..clock
    /\ total_allowed \in Nat
    /\ total_rejected \in Nat
    /\ grants \in Seq(0..last_refill)
    /\ total_allowed = Len(grants)

(***************************************************************************)
(* Between any two grants, however long the limiter idled before, no more  *)
(* is admitted than a full bucket plus what the rate adds in that window:  *)
(* rate_limiter.py promises "a short burst before throttling kicks in".    *)
(***************************************************************************)
WindowBound ==
    \A i \in 1..Len(grants) : \A j \in i..Len(grants) :
        (j - i + 1) * Cost <= Capacity + (grants[j] - grants[i]) * Rate

(***************************************************************************)
(* A call is refused only if an earlier grant is so recent that the rate   *)
(* has not paid for another one: the refills that rejected calls and       *)
(* stats() polls perform never lose credit, so polling cannot starve       *)
(* a caller.                                                               *)
(***************************************************************************)
RefusalJustified ==
    [][ (total_rejected' # total_rejected /\ Capacity >= Cost)
        => /\ grants # <<>>
           /\ (clock - grants[Len(grants)]) * Rate < Cost ]_bucketVars

=============================================================================
