-------------------------- MODULE HeartbeatProofs ---------------------------
(***************************************************************************)
(* Proofs about Heartbeat, for every set of nodes and every threshold (the *)
(* one about recovery: for thresholds up to two), without a bound on the   *)
(* number of checks.                                                       *)
(***************************************************************************)
EXTENDS Heartbeat, TLAPS

(* What the streak of a healthy node says of its last checks.              *)
HealthyStreak(n) ==
    status[n] = "healthy" =>
        /\ -streak[n] < FailureThreshold
        /\ fails[n] > 0 => streak[n] <= -fails[n]
        /\ (-streak[n] = FailureThreshold - 1 /\ FailureThreshold >= 2) => fails[n] >= 1

(* What the streak of any other node says of its last checks.              *)
OtherStreak(n) ==
    status[n] # "healthy" =>
        /\ streak[n] < RecoveryThreshold
        /\ succs[n] > 0 => streak[n] >= succs[n]
        /\ (streak[n] >= 1 /\ RecoveryThreshold <= 2) => succs[n] >= 1

(* A run is a run of successes or of failures. *)
OneRun(n) == succs[n] = 0 \/ fails[n] = 0

HeartbeatInv ==
    /\ HeartbeatTypeOK
    /\ NotificationsAlternate
    /\ \A n \in Nodes : HealthyStreak(n) /\ OtherStreak(n) /\ OneRun(n)

LEMMA HeartbeatInitOK == HeartbeatInit => HeartbeatInv
  BY HeartbeatAssumption
  DEF HeartbeatInit, HeartbeatInv, HeartbeatTypeOK, NotificationsAlternate, HealthyStreak,
      OtherStreak, OneRun

(* A check of m writes the record of m only, and counts its run. *)
LEMMA CheckSucceedsFacts ==
    ASSUME HeartbeatTypeOK, NEW m \in Nodes, CheckSucceeds(m)
    PROVE  /\ succs' \in [Nodes -> Nat] /\ fails' \in [Nodes -> Nat]
           /\ total_checks' \in [Nodes -> Nat] /\ total_failures' \in [Nodes -> Nat]
           /\ known' \in SUBSET Nodes /\ todo' \in SUBSET known'
           /\ downs' = downs
           /\ succs'[m] = succs[m] + 1 /\ fails'[m] = 0
           /\ \A n \in Nodes \ {m} : succs'[n] = succs[n] /\ fails'[n] = fails[n]
  BY DEF CheckSucceeds, Plus, HeartbeatTypeOK

LEMMA CheckFailsFacts ==
    ASSUME HeartbeatTypeOK, NEW m \in Nodes, CheckFails(m)
    PROVE  /\ succs' \in [Nodes -> Nat] /\ fails' \in [Nodes -> Nat]
           /\ total_checks' \in [Nodes -> Nat] /\ total_failures' \in [Nodes -> Nat]
           /\ known' \in SUBSET Nodes /\ todo' \in SUBSET known'
           /\ ups' = ups
           /\ fails'[m] = fails[m] + 1 /\ succs'[m] = 0
           /\ \A n \in Nodes \ {m} : succs'[n] = succs[n] /\ fails'[n] = fails[n]
  BY DEF CheckFails, Plus, HeartbeatTypeOK

LEMMA CheckOK ==
    ASSUME HeartbeatInv, NEW m \in Nodes, Check(m)
    PROVE  HeartbeatInv'
<1> USE HeartbeatAssumption
<1>t. /\ HeartbeatTypeOK /\ NotificationsAlternate
      /\ \A n \in Nodes : HealthyStreak(n) /\ OtherStreak(n) /\ OneRun(n)
  BY DEF HeartbeatInv
<1>m. /\ streak[m] \in Int /\ succs[m] \in Nat /\ fails[m] \in Nat
      /\ ups[m] \in Nat /\ downs[m] \in Nat
  BY <1>t DEF HeartbeatTypeOK
<1>s. Climbed(m) \in Int /\ Sunk(m) \in Int
  BY <1>m DEF Climbed, Sunk
(* It is enough to look at the record of m. *)
<1>o. ASSUME HeartbeatTypeOK',
             \A n \in Nodes \ {m} :
                /\ status'[n] = status[n] /\ streak'[n] = streak[n]
                /\ succs'[n] = succs[n] /\ fails'[n] = fails[n]
                /\ ups'[n] = ups[n] /\ downs'[n] = downs[n],
             ups'[m] = downs'[m] + (IF status'[m] = "healthy" THEN 1 ELSE 0),
             HealthyStreak(m)' /\ OtherStreak(m)' /\ OneRun(m)'
      PROVE  HeartbeatInv'
  <2>1. NotificationsAlternate'
    BY <1>o, <1>t DEF NotificationsAlternate
  <2>2. \A n \in Nodes \ {m} : HealthyStreak(n)' /\ OtherStreak(n)' /\ OneRun(n)'
    BY <1>o, <1>t DEF HealthyStreak, OtherStreak, OneRun
  <2> QED
    BY <1>o, <2>1, <2>2 DEF HeartbeatInv
<1>a. ups[m] = downs[m] + (IF status[m] = "healthy" THEN 1 ELSE 0)
  BY <1>t DEF NotificationsAlternate
<1>1. CASE StayUp(m)
  <2>1. CheckSucceeds(m)
    BY <1>1 DEF StayUp
  <2>2. HeartbeatTypeOK'
    BY <1>1, <2>1, <1>t, CheckSucceedsFacts DEF StayUp, Plus, HeartbeatTypeOK
  <2>3. HealthyStreak(m)' /\ OtherStreak(m)' /\ OneRun(m)'
    BY <1>1, <2>1, <1>t, <1>m, CheckSucceedsFacts
    DEF StayUp, Plus, HeartbeatTypeOK, HealthyStreak, OtherStreak, OneRun
  <2> QED
    BY <1>1, <2>1, <2>2, <2>3, <1>a, <1>t, <1>o, CheckSucceedsFacts
    DEF StayUp, Plus, HeartbeatTypeOK
<1>2. CASE Climb(m)
  <2>1. CheckSucceeds(m)
    BY <1>2 DEF Climb
  <2>2. HeartbeatTypeOK'
    BY <1>2, <2>1, <1>t, <1>s, CheckSucceedsFacts DEF Climb, HeartbeatTypeOK
  <2>3. HealthyStreak(m)' /\ OtherStreak(m)' /\ OneRun(m)'
    BY <1>2, <2>1, <1>t, <1>m, CheckSucceedsFacts
    DEF Climb, Climbed, HeartbeatTypeOK, HealthyStreak, OtherStreak, OneRun
  <2> QED
    BY <1>2, <2>1, <2>2, <2>3, <1>a, <1>t, <1>o, CheckSucceedsFacts
    DEF Climb, HeartbeatTypeOK
<1>3. CASE ComeUp(m)
  <2>1. CheckSucceeds(m)
    BY <1>3 DEF ComeUp
  <2>2. HeartbeatTypeOK'
    BY <1>3, <2>1, <1>t, <1>s, CheckSucceedsFacts DEF ComeUp, Plus, HeartbeatTypeOK
  <2>3. HealthyStreak(m)' /\ OtherStreak(m)' /\ OneRun(m)'
    BY <1>3, <2>1, <1>t, <1>m, CheckSucceedsFacts
    DEF ComeUp, Climbed, HeartbeatTypeOK, HealthyStreak, OtherStreak, OneRun
  <2>4. ups'[m] = ups[m] + 1 /\ status'[m] = "healthy" /\ status[m] # "healthy"
    BY <1>3, <1>t DEF ComeUp, Plus, HeartbeatTypeOK
  <2> QED
    BY <1>3, <2>1, <2>2, <2>3, <2>4, <1>a, <1>t, <1>o, CheckSucceedsFacts
    DEF ComeUp, Plus, HeartbeatTypeOK
<1>4. CASE Sink(m)
  <2>1. CheckFails(m)
    BY <1>4 DEF Sink
  <2>2. HeartbeatTypeOK'
    BY <1>4, <2>1, <1>t, CheckFailsFacts DEF Sink, HeartbeatTypeOK
  <2>3. HealthyStreak(m)' /\ OtherStreak(m)' /\ OneRun(m)'
    BY <1>4, <2>1, <1>t, <1>m, CheckFailsFacts
    DEF Sink, HeartbeatTypeOK, HealthyStreak, OtherStreak, OneRun
  <2> QED
    BY <1>4, <2>1, <2>2, <2>3, <1>a, <1>t, <1>o, CheckFailsFacts DEF Sink, HeartbeatTypeOK
<1>5. CASE Falter(m)
  <2>1. CheckFails(m)
    BY <1>5 DEF Falter
  <2>2. HeartbeatTypeOK'
    BY <1>5, <2>1, <1>t, <1>s, CheckFailsFacts DEF Falter, HeartbeatTypeOK
  <2>3. HealthyStreak(m)' /\ OtherStreak(m)' /\ OneRun(m)'
    BY <1>5, <2>1, <1>t, <1>m, CheckFailsFacts
    DEF Falter, Sunk, HeartbeatTypeOK, HealthyStreak, OtherStreak, OneRun
  <2> QED
    BY <1>5, <2>1, <2>2, <2>3, <1>a, <1>t, <1>o, CheckFailsFacts DEF Falter, HeartbeatTypeOK
<1>6. CASE GoDown(m)
  <2>1. CheckFails(m)
    BY <1>6 DEF GoDown
  <2>2. HeartbeatTypeOK'
    BY <1>6, <2>1, <1>t, <1>s, CheckFailsFacts DEF GoDown, Plus, HeartbeatTypeOK
  <2>3. HealthyStreak(m)' /\ OtherStreak(m)' /\ OneRun(m)'
    BY <1>6, <2>1, <1>t, <1>m, CheckFailsFacts
    DEF GoDown, Sunk, HeartbeatTypeOK, HealthyStreak, OtherStreak, OneRun
  <2>4. downs'[m] = downs[m] + 1 /\ status'[m] = "unhealthy" /\ status[m] = "healthy"
    BY <1>6, <1>t DEF GoDown, Plus, HeartbeatTypeOK
  <2> QED
    BY <1>6, <2>1, <2>2, <2>3, <2>4, <1>a, <1>m, <1>t, <1>o, CheckFailsFacts
    DEF GoDown, Plus, HeartbeatTypeOK
<1> QED
  BY <1>1, <1>2, <1>3, <1>4, <1>5, <1>6 DEF Check

LEMMA HeartbeatNextOK == HeartbeatInv /\ [HeartbeatNext]_heartbeatVars => HeartbeatInv'
<1> SUFFICES ASSUME HeartbeatInv, [HeartbeatNext]_heartbeatVars PROVE HeartbeatInv'
  OBVIOUS
<1>1. CASE UNCHANGED recordVars /\ known' \in SUBSET Nodes /\ todo' \in SUBSET known'
  BY <1>1
  DEF recordVars, HeartbeatInv, HeartbeatTypeOK, NotificationsAlternate, HealthyStreak,
      OtherStreak, OneRun
<1>2. ASSUME NEW n \in Nodes, Check(n) PROVE HeartbeatInv'
  BY <1>2, CheckOK
<1>3. HeartbeatTypeOK
  BY DEF HeartbeatInv
<1> QED
  BY <1>1, <1>2, <1>3
  DEF HeartbeatNext, heartbeatVars, Round, Register, HeartbeatTypeOK

LEMMA HeartbeatInvariant == HeartbeatSpec => []HeartbeatInv
  BY HeartbeatInitOK, HeartbeatNextOK, PTL DEF HeartbeatSpec

(* Types; a round checks registered nodes only, so that the look-up in the *)
(* second half of _check finds its record.                                 *)
THEOREM HeartbeatTypes == HeartbeatSpec => []HeartbeatTypeOK
<1>1. HeartbeatInv => HeartbeatTypeOK
  BY DEF HeartbeatInv
<1> QED
  BY <1>1, HeartbeatInvariant, PTL

(* A node that fails failure_threshold checks in a row is down.            *)
THEOREM DetectionIsTimely == HeartbeatSpec => []FailuresDetected
<1>1. HeartbeatInv => FailuresDetected
  BY HeartbeatAssumption DEF HeartbeatInv, HeartbeatTypeOK, HealthyStreak, FailuresDetected
<1> QED
  BY <1>1, HeartbeatInvariant, PTL

(* A node that answers recovery_threshold checks in a row is up.           *)
THEOREM RecoveryIsTimely == HeartbeatSpec => []RecoveryDetected
<1>1. HeartbeatInv => RecoveryDetected
  BY HeartbeatAssumption DEF HeartbeatInv, HeartbeatTypeOK, OtherStreak, RecoveryDetected
<1> QED
  BY <1>1, HeartbeatInvariant, PTL

(* The callbacks of a node alternate and agree with its status.            *)
THEOREM CallbacksAlternate == HeartbeatSpec => []NotificationsAlternate
<1>1. HeartbeatInv => NotificationsAlternate
  BY DEF HeartbeatInv
<1> QED
  BY <1>1, HeartbeatInvariant, PTL

(* Coming up takes recovery_threshold successes in a row if that is 1 or 2. *)
THEOREM RecoveryIsEarned ==
    ASSUME RecoveryThreshold <= 2
    PROVE  HeartbeatSpec => RecoveryEarned
<1> DEFINE A == \A n \in Nodes : (status[n] # "healthy" /\ status'[n] = "healthy")
                    => succs'[n] >= RecoveryThreshold
<1>1. HeartbeatInv /\ [HeartbeatNext]_heartbeatVars => [A]_heartbeatVars
  <2> SUFFICES ASSUME HeartbeatInv, HeartbeatNext, NEW n \in Nodes,
                      status[n] # "healthy", status'[n] = "healthy"
               PROVE  succs'[n] >= RecoveryThreshold
    OBVIOUS
  <2>t. HeartbeatTypeOK /\ OtherStreak(n)
    BY DEF HeartbeatInv
  <2>1. PICK m \in Nodes : ComeUp(m)
    BY <2>t DEF HeartbeatNext, Round, Register, recordVars, Check, StayUp, Climb, Sink, Falter,
           GoDown, HeartbeatTypeOK
  <2>2. m = n
    BY <2>1, <2>t DEF ComeUp, HeartbeatTypeOK
  <2>3. succs'[n] = succs[n] + 1 /\ Climbed(n) >= RecoveryThreshold
    BY <2>1, <2>2, <2>t, CheckSucceedsFacts DEF ComeUp
  <2>4. streak[n] \in Int /\ succs[n] \in Nat
    BY <2>t DEF HeartbeatTypeOK
  <2> QED
    BY <2>3, <2>4, <2>t, HeartbeatAssumption DEF Climbed, OtherStreak
<1> QED
  BY <1>1, HeartbeatInvariant, PTL DEF HeartbeatSpec, RecoveryEarned

(* Going down takes two failures in a row at least, if not just one.       *)
THEOREM LoneFailureIsForgiven == HeartbeatSpec => OneFailureIsForgiven
<1> DEFINE A == \A n \in Nodes : (status[n] = "healthy" /\ status'[n] # "healthy")
                    => fails'[n] >= 2 \/ FailureThreshold = 1
<1>1. HeartbeatInv /\ [HeartbeatNext]_heartbeatVars => [A]_heartbeatVars
  <2> SUFFICES ASSUME HeartbeatInv, HeartbeatNext, NEW n \in Nodes,
                      status[n] = "healthy", status'[n] # "healthy", FailureThreshold # 1
               PROVE  fails'[n] >= 2
    OBVIOUS
  <2>t. HeartbeatTypeOK /\ HealthyStreak(n)
    BY DEF HeartbeatInv
  <2>1. PICK m \in Nodes : GoDown(m)
    BY <2>t DEF HeartbeatNext, Round, Register, recordVars, Check, StayUp, Climb, Sink, Falter,
           ComeUp, HeartbeatTypeOK
  <2>2. m = n
    BY <2>1, <2>t DEF GoDown, HeartbeatTypeOK
  <2>3. fails'[n] = fails[n] + 1 /\ -Sunk(n) >= FailureThreshold
    BY <2>1, <2>2, <2>t, CheckFailsFacts DEF GoDown
  <2>4. streak[n] \in Int /\ fails[n] \in Nat
    BY <2>t DEF HeartbeatTypeOK
  <2> QED
    BY <2>3, <2>4, <2>t, HeartbeatAssumption DEF Sunk, HealthyStreak
<1> QED
  BY <1>1, HeartbeatInvariant, PTL DEF HeartbeatSpec, OneFailureIsForgiven

(* A step of the monitor is a step of its contract, or changes nothing     *)
(* the contract speaks of.                                                 *)
LEMMA CheckImplements ==
    ASSUME HeartbeatTypeOK, NEW m \in Nodes, Check(m)
    PROVE  [Contract!MonitorNext]_<<known, status>>
<1>1. m \in known /\ known' = known
  BY DEF Check, StayUp, Climb, ComeUp, Sink, Falter, GoDown, CheckSucceeds, CheckFails,
         HeartbeatTypeOK
<1>2. CASE ComeUp(m)
  <2>1. Contract!ComeUp(m)
    BY <1>1, <1>2 DEF ComeUp, Contract!ComeUp
  <2> QED
    BY <2>1 DEF Contract!MonitorNext
<1>3. CASE GoDown(m)
  <2>1. Contract!GoDown(m)
    BY <1>1, <1>3 DEF GoDown, Contract!GoDown
  <2> QED
    BY <2>1 DEF Contract!MonitorNext
<1>4. CASE StayUp(m) \/ Climb(m) \/ Sink(m) \/ Falter(m)
  BY <1>1, <1>4 DEF StayUp, Climb, Sink, Falter
<1> QED
  BY <1>2, <1>3, <1>4 DEF Check

(* The monitor keeps the contract that Cluster is built on.                *)
THEOREM MonitorImplementsContract == HeartbeatSpec => ImplementsMonitor
<1>1. HeartbeatInit => Contract!MonitorInit
  BY DEF HeartbeatInit, Contract!MonitorInit
<1>2. HeartbeatInv /\ [HeartbeatNext]_heartbeatVars => [Contract!MonitorNext]_<<known, status>>
  <2> SUFFICES ASSUME HeartbeatInv, [HeartbeatNext]_heartbeatVars
               PROVE  [Contract!MonitorNext]_<<known, status>>
    OBVIOUS
  <2>1. CASE Round \/ UNCHANGED heartbeatVars
    BY <2>1 DEF Round, recordVars, heartbeatVars
  <2>2. ASSUME NEW n \in Nodes, Register(n) PROVE Contract!MonitorNext
    BY <2>2 DEF Register, recordVars, Contract!Register, Contract!MonitorNext
  <2>3. ASSUME NEW n \in Nodes, Check(n) PROVE [Contract!MonitorNext]_<<known, status>>
    BY <2>3, CheckImplements DEF HeartbeatInv
  <2> QED
    BY <2>1, <2>2, <2>3 DEF HeartbeatNext
<1> QED
  BY <1>1, <1>2, HeartbeatInvariant, PTL DEF HeartbeatSpec, ImplementsMonitor, Contract!MonitorSpec
=============================================================================
