------------------------- MODULE InferenceContract --------------------------
(***************************************************************************)
(* What a worker node promises for each POST /generate, whatever threads,  *)
(* locks and batches it uses: a request is refused at once or queued; a    *)
(* queued request is started when nothing queued is more urgent (lower     *)
(* priority value, then earlier arrival); a started request is finished    *)
(* exactly once and never goes back.                                       *)
(***************************************************************************)
EXTENDS Integers

CONSTANT Requests

VARIABLES stage,    \* where each request stands
          priority, \* lower is more urgent
          arrival   \* instant the request was built

contractVars == <<stage, priority, arrival>>

Stages == {"idle", "queued", "started", "finished", "refused"}

MoreUrgent(r, s) ==
    \/ priority[r] < priority[s]
    \/ priority[r] = priority[s] /\ arrival[r] < arrival[s]

ContractInit ==
    /\ stage = [r \in Requests |-> "idle"]
    /\ priority \in [Requests -> Nat]
    /\ arrival \in [Requests -> Nat]

Moves(r, from, to) ==
    /\ stage[r] = from
    /\ stage' = [stage EXCEPT ![r] = to]
    /\ UNCHANGED <<priority, arrival>>

(* The request reaches the node, which stamps it. *)
Arrive(r) ==
    /\ stage[r] = "idle"
    /\ arrival' \in [Requests -> Nat]
    /\ \A s \in Requests \ {r} : arrival'[s] = arrival[s]
    /\ UNCHANGED <<stage, priority>>

Refuse(r) == Moves(r, "idle", "refused")

Queue(r) == Moves(r, "idle", "queued")

StartRequest(r) ==
    /\ \A s \in Requests : stage[s] = "queued" => ~MoreUrgent(s, r)
    /\ Moves(r, "queued", "started")

Finish(r) == Moves(r, "started", "finished")

ContractNext ==
    \E r \in Requests :
        Arrive(r) \/ Refuse(r) \/ Queue(r) \/ StartRequest(r) \/ Finish(r)

ContractSpec == ContractInit /\ [][ContractNext]_contractVars
=============================================================================
