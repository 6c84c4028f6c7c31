--------------------------- MODULE ControlProofs ----------------------------
(***************************************************************************)
(* Proofs about Control, for any gains, targets, loads and cooldowns.      *)
(***************************************************************************)
EXTENDS Control, FiniteSetTheorems, WellFoundedInduction, TLAPS

(* A finite set of natural numbers has a greatest element.                 *)
LEMMA GreatestExists ==
    ASSUME NEW S, S \subseteq Nat, IsFiniteSet(S), S # {}
    PROVE  \E x \in S : \A y \in S : y <= x
<1> DEFINE Above(x) == {y \in S : y > x}
           Lower == OpToRel(<, Nat)
           T == {n \in Nat : \E x \in S : n = Cardinality(Above(x))}
<1>1. \A x \in S : IsFiniteSet(Above(x)) /\ Cardinality(Above(x)) \in Nat
  BY FS_Subset, FS_CardinalityType
<1>2. T \subseteq Nat /\ T # {}
  BY <1>1
<1>3. PICK n \in T : \A m \in T : <<m, n>> \notin Lower
  <2> HIDE DEF T
  <2> QED
    BY <1>2, NatLessThanWellFounded, WFMin
<1>4. PICK x \in S : n = Cardinality(Above(x))
  OBVIOUS
<1>5. ASSUME NEW y \in S, ~(y <= x) PROVE FALSE
  <2>1. y > x /\ x \in Nat /\ y \in Nat
    BY <1>5
  <2>2. Above(y) \subseteq Above(x) /\ y \in Above(x) /\ y \notin Above(y)
    <3>1. \A z \in S : z \in Nat /\ (z > y => z > x)
      BY <2>1
    <3>2. ~(y > y)
      BY <2>1
    <3> QED
      BY <2>1, <3>1, <3>2, Zenon
  <2>3. /\ Cardinality(Above(y)) \in Nat /\ Cardinality(Above(x)) \in Nat
        /\ Cardinality(Above(y)) < Cardinality(Above(x))
    <3> HIDE DEF Above
    <3>1. /\ Cardinality(Above(y)) <= Cardinality(Above(x))
          /\ Cardinality(Above(x)) = Cardinality(Above(y)) => Above(x) = Above(y)
      BY <1>1, <2>2, FS_Subset
    <3> QED
      BY <1>1, <2>2, <3>1
  <2>4. Cardinality(Above(y)) \in T
    BY <2>3
  <2>5. <<Cardinality(Above(y)), n>> \in Lower
    <3> HIDE DEF Above, T
    <3> QED
      BY <1>4, <2>3 DEF OpToRel
  <2> QED
    BY <1>3, <2>4, <2>5
<1> QED
  BY <1>5

LEMMA LongestCooldown ==
    Max(Cooldowns) \in Nat /\ \A c \in Cooldowns : c <= Max(Cooldowns)
<1>1. PICK x \in Cooldowns : \A c \in Cooldowns : c <= x
  BY ControlAssumption, GreatestExists
<1> QED
  BY <1>1, ControlAssumption DEF Max

LEMMA PassedTime ==
    ASSUME NEW s \in 0..Max(Cooldowns)
    PROVE  /\ Passed(s) \in 0..Max(Cooldowns)
           /\ \A t \in 0..s : Passed(t) <= Passed(s)
  BY LongestCooldown, PIDAssumption DEF Passed

LEMMA LaterTick ==
    ASSUME NEW ago \in 0..Linger+1
    PROVE  /\ Later(ago) \in 1..Linger+1
           /\ ago <= Linger => Later(ago) = ago + 1
           /\ ago > Linger => Later(ago) = ago /\ ago = Linger + 1
  BY ControlAssumption DEF Later

-----------------------------------------------------------------------------
(* The controller.                                                         *)

LEMMA Clamped ==
    ASSUME NEW x \in Int, NEW bound \in Nat
    PROVE  /\ Clamp(x, bound) \in -bound..bound
           /\ Clamp(x, bound) <= x \/ Clamp(x, bound) = -bound
           /\ Clamp(-x, bound) = -Clamp(x, bound)
  BY DEF Clamp

(* What the leak does to an integral. *)
LEMMA Leaks ==
    ASSUME NEW x \in Int
    PROVE  /\ Scaled(x, 95, 100) \in Int
           /\ x <= 0 => Scaled(x, 95, 100) <= 0
           /\ x >= 0 => Scaled(x, 95, 100) \in 0..x
           /\ Scaled(-x, 95, 100) = -Scaled(x, 95, 100)
           /\ x \in 0..100 => x - 5 <= Scaled(x, 95, 100)
           /\ \A y \in Nat : x \in 0..y => Scaled(x, 95, 100) <= Scaled(y, 95, 100)
  BY DEF Scaled

(* The integral x after s seconds with the error err. *)
After(x, err, s) ==
    IF err \in -4..4 THEN Scaled(Clamp(x + err * s, IntegralMax), 95, 100)
    ELSE Clamp(x + err * s, IntegralMax)

LEMMA AfterBounded ==
    ASSUME NEW x \in Int, NEW err \in Int, NEW s \in Nat
    PROVE  After(x, err, s) \in -IntegralMax..IntegralMax
<1> DEFINE sum == Clamp(x + err * s, IntegralMax)
<1>1. x + err * s \in Int
  OBVIOUS
<1>2. sum \in -100..100
  BY <1>1, Clamped DEF IntegralMax
<1> HIDE DEF sum
<1>3. Scaled(sum, 95, 100) \in -100..100
  BY <1>2 DEF Scaled
<1> QED
  BY <1>2, <1>3 DEF After, sum, IntegralMax

(* The controller treats errors of both signs alike. *)
LEMMA AfterMirrored ==
    ASSUME NEW x \in Int, NEW err \in Int, NEW s \in Nat
    PROVE  After(-x, -err, s) = -After(x, err, s)
<1>1. -x + (-err) * s = -(x + err * s) /\ x + err * s \in Int
  OBVIOUS
<1>2. Clamp(-x + (-err) * s, IntegralMax) = -Clamp(x + err * s, IntegralMax)
  BY <1>1, Clamped DEF IntegralMax
<1>3. Clamp(x + err * s, IntegralMax) \in Int
  BY <1>1, Clamped DEF IntegralMax
<1>4. Scaled(-Clamp(x + err * s, IntegralMax), 95, 100) = -Scaled(Clamp(x + err * s, IntegralMax), 95, 100)
  BY <1>3, Leaks
<1>5. -err \in -4..4 <=> err \in -4..4
  OBVIOUS
<1> QED
  BY <1>2, <1>4, <1>5 DEF After

(* An error that is not above 0 takes at least as much from the integral   *)
(* as the leak does.                                                       *)
LEMMA AfterFalls ==
    ASSUME NEW x \in -IntegralMax..IntegralMax, NEW err \in Int, err <= 0, NEW s \in Nat,
           s >= 1 \/ x = 0
    PROVE  \/ After(x, err, s) <= 0
           \/ x > 0 /\ After(x, err, s) <= Scaled(x, 95, 100)
<1> DEFINE sum == Clamp(x + err * s, IntegralMax)
<1>1. x \in -100..100 /\ x + err * s \in Int
  BY DEF IntegralMax
<1>2. err * s \in Int /\ err * s <= 0 /\ (s >= 1 => err * s <= err)
  OBVIOUS
<1>3. /\ sum \in -100..100
      /\ sum <= x + err * s \/ sum = -100
  BY <1>1, <1>2, Clamped DEF IntegralMax
<1>4. sum <= x
  BY <1>1, <1>2, <1>3
<1>5. s >= 1 => sum <= x + err \/ sum = -100
  BY <1>1, <1>2, <1>3
<1>6. CASE err \in -4..4
  <2>1. After(x, err, s) = Scaled(sum, 95, 100)
    BY <1>6 DEF After
  <2> HIDE DEF sum
  <2>2. CASE sum <= 0
    BY <1>3, <2>1, <2>2, Leaks
  <2>3. CASE sum > 0
    <3>1. sum \in 0..x /\ x \in Nat /\ sum \in Int
      BY <1>1, <1>3, <1>4, <2>3
    <3>2. Scaled(sum, 95, 100) <= Scaled(x, 95, 100)
      BY <3>1, Leaks
    <3> QED
      BY <1>4, <1>3, <1>1, <2>1, <2>3, <3>2
  <2> QED
    BY <1>3, <2>2, <2>3
<1>7. CASE err \notin -4..4
  <2>1. After(x, err, s) = sum /\ err <= -5
    BY <1>7 DEF After
  <2> HIDE DEF sum
  <2>2. CASE sum <= 0
    BY <2>1, <2>2
  <2>3. CASE sum > 0
    <3>1. x > 0 /\ s >= 1 /\ x \in 0..100
      BY <1>1, <1>3, <1>4, <2>3
    <3>2. sum <= x - 5
      BY <1>1, <1>3, <1>5, <2>1, <2>3, <3>1
    <3>3. x - 5 <= Scaled(x, 95, 100) /\ Scaled(x, 95, 100) \in Int
      BY <1>1, <3>1, Leaks
    <3> QED
      BY <1>1, <1>3, <2>1, <3>1, <3>2, <3>3
  <2> QED
    BY <1>3, <2>2, <2>3
<1> QED
  BY <1>6, <1>7

LEMMA IntegratedIs == Integrated = After(integral, e, dt)
  BY DEF Integrated, After

LEMMA DerivativeType ==
    ASSUME PIDTypeOK PROVE Derivative \in Int
<1>1. kd \in Nat /\ e \in Int /\ last_error \in Int /\ dt \in Nat
  BY PIDAssumption DEF PIDTypeOK
<1>2. kd * (e - last_error) \in Int
  BY <1>1
<1>3. kd * (e - last_error) * 100000 \in Int
  BY <1>2, SMT
<1>4. \A x \in Int, n \in Nat \ {0} : Scaled(x, 1, n) \in Int
  <2> SUFFICES ASSUME NEW x \in Int, NEW n \in Nat \ {0} PROVE Scaled(x, 1, n) \in Int
    OBVIOUS
  <2>1. x \div n \in Int /\ (-x) \div n \in Int
    OBVIOUS
  <2> QED
    BY <2>1 DEF Scaled
<1>5. CASE dt = 0
  BY <1>3, <1>5, SMT DEF Derivative
<1>6. CASE dt # 0
  <2>1. dt \in Nat \ {0}
    BY <1>1, <1>6
  <2>2. Scaled(kd * (e - last_error), 1, dt) \in Int
    BY <1>2, <1>4, <2>1
  <2> QED
    BY <1>6, <2>2, SMT DEF Derivative
<1> QED
  BY <1>5, <1>6

-----------------------------------------------------------------------------
(* Types.                                                                  *)

LEMMA ControlStart == ControlInit => ControlTypeOK
<1> SUFFICES ASSUME ControlInit PROVE ControlTypeOK
  OBVIOUS
<1>1. PIDTypeOK
  BY PIDAssumption DEF ControlInit, PIDInit, PIDTypeOK, IntegralMax
<1>2. Headcount <= MaxWorkers
  BY ControlAssumption DEF ControlInit, Headcount
<1> QED
  BY <1>1, <1>2, LongestCooldown, ControlAssumption DEF ControlInit, ControlTypeOK

LEMMA CollectTypes ==
    ASSUME ControlTypeOK, Collect
    PROVE  ControlTypeOK'
  BY DEF Collect, ControlTypeOK, PIDTypeOK, Headcount, pidVars, gains, stateVars, localVars,
         scalingVars, configVars, signVars

LEMMA ConfigureTypes ==
    ASSUME ControlTypeOK, Configure
    PROVE  ControlTypeOK'
<1>1. UNCHANGED <<localVars, snapshot, scalingVars, tick_at, signVars>>
  BY DEF Configure, SetKp, SetKi, SetKd, SetTarget, SetCooldown, ConfigReset, ConfigStep
<1>2. /\ kp' \in Kps /\ ki' \in Kis /\ kd' \in Kds /\ target' \in Targets
      /\ cooldown' \in Cooldowns
  BY DEF Configure, SetKp, SetKi, SetKd, SetTarget, SetCooldown, ConfigReset, Reset, gains,
         ControlTypeOK, PIDTypeOK
<1>3. /\ integral' \in -IntegralMax..IntegralMax
      /\ last_error' \in Int /\ fresh' \in BOOLEAN
  <2>1. CASE ConfigReset
    BY <2>1 DEF ConfigReset, Reset, IntegralMax
  <2>2. CASE SetKp \/ SetKi \/ SetKd \/ SetTarget \/ SetCooldown
    <3>1. UNCHANGED stateVars
      BY <2>2 DEF SetKp, SetKi, SetKd, SetTarget, SetCooldown
    <3> QED
      BY <3>1 DEF stateVars, ControlTypeOK, PIDTypeOK
  <2> QED
    BY <2>1, <2>2 DEF Configure
<1>4. /\ configs' \in 0..MaxConfigs
      /\ config_at' \in {"idle", "ki", "kd", "target", "cooldown", "reset"}
  BY ControlAssumption
  DEF ControlTypeOK, Configure, SetKp, SetKi, SetKd, SetTarget, SetCooldown, ConfigReset, ConfigStep
<1> QED
  BY <1>1, <1>2, <1>3, <1>4 DEF ControlTypeOK, PIDTypeOK, Headcount, localVars, scalingVars, signVars

LEMMA MeasureTypes ==
    ASSUME ControlTypeOK, Measure
    PROVE  ControlTypeOK'
<1>1. snapshot \in Nat /\ target \in Int /\ kp \in Nat
  BY ControlAssumption, PIDAssumption DEF ControlTypeOK, PIDTypeOK
<1>2. dt' \in 0..Period
  BY PIDAssumption DEF Measure, UpdateError, Dts
<1>3. e' \in Int /\ p' \in Int
  BY <1>1 DEF Measure, UpdateError, Error
<1> QED
  BY <1>2, <1>3
  DEF Measure, UpdateError, ControlTypeOK, PIDTypeOK, Headcount, gains, stateVars, scalingVars,
      configVars, signVars

LEMMA IntegrateTypes ==
    ASSUME ControlTypeOK, Integrate
    PROVE  ControlTypeOK'
<1>1. integral \in Int /\ e \in Int /\ dt \in Nat /\ ki \in Nat
  BY PIDAssumption DEF ControlTypeOK, PIDTypeOK, IntegralMax
<1>2. integral' \in -IntegralMax..IntegralMax
  BY <1>1, AfterBounded, IntegratedIs DEF Integrate, UpdateIntegral
<1>3. i' \in Int
  <2>1. integral' \in Int /\ i' = ki * integral'
    BY <1>2 DEF Integrate, UpdateIntegral, IntegralMax
  <2> QED
    BY <1>1, <2>1
<1>4. above_ago' \in 0..Linger+1 /\ below_ago' \in 0..Linger+1
  BY <1>1, LaterTick, ControlAssumption DEF ControlTypeOK, Integrate
<1> QED
  BY <1>2, <1>3, <1>4
  DEF Integrate, UpdateIntegral, ControlTypeOK, PIDTypeOK, Headcount, gains, scalingVars, configVars

LEMMA DeriveTypes ==
    ASSUME ControlTypeOK, Derive
    PROVE  ControlTypeOK'
<1>1. d' \in Int
  BY DerivativeType DEF ControlTypeOK, Derive, UpdateDerivative
<1> QED
  BY <1>1
  DEF Derive, UpdateDerivative, ControlTypeOK, PIDTypeOK, Headcount, gains, scalingVars, configVars,
      signVars

LEMMA DecideTypes ==
    ASSUME ControlTypeOK, Decide
    PROVE  ControlTypeOK'
<1>1. Passed(elapsed) \in 0..Max(Cooldowns) /\ Passed(scaled_ago) \in 0..Max(Cooldowns)
      /\ 0 \in 0..Max(Cooldowns)
  BY LongestCooldown, PassedTime DEF ControlTypeOK
<1>2. /\ owned \in Nat /\ Headcount <= MaxWorkers /\ failures \in 0..MaxFailures
      /\ Cardinality(Static) \in Nat /\ MaxWorkers \in Nat /\ MaxFailures \in Nat
  BY ControlAssumption, FS_CardinalityType DEF ControlTypeOK
<1>3. /\ owned' \in Nat /\ Headcount' <= MaxWorkers
      /\ elapsed' \in 0..Max(Cooldowns) /\ failures' \in 0..MaxFailures
  <2>1. CASE ScaleUp
    BY <1>1, <1>2, <2>1 DEF ScaleUp, WantsMore, Headcount
  <2>2. CASE ScaleUpFails
    BY <1>1, <1>2, <2>2 DEF ScaleUpFails, Headcount
  <2>3. CASE ScaleDown
    BY <1>1, <1>2, <2>3 DEF ScaleDown, Headcount
  <2>4. CASE Rest
    BY <1>1, <1>2, <2>4 DEF Rest, Headcount
  <2> QED
    BY <2>1, <2>2, <2>3, <2>4 DEF Decide
<1>4. scaled_ago' \in 0..Max(Cooldowns)
  BY <1>1 DEF Decide
<1>5. PIDTypeOK'
  BY PIDAssumption DEF Decide, Returned, ControlTypeOK, PIDTypeOK, gains, stateVars
<1> QED
  BY <1>3, <1>4, <1>5 DEF Decide, ControlTypeOK, configVars, signVars

(* Whatever the load, the gains and the retuning, amid an update too: the  *)
(* integral keeps to its clamp and the number of workers to its limits.    *)
THEOREM ControlTypes == ControlSpec => []ControlTypeOK
<1>1. ControlTypeOK /\ [ControlNext]_controlVars => ControlTypeOK'
  <2> SUFFICES ASSUME ControlTypeOK, [ControlNext]_controlVars PROVE ControlTypeOK'
    OBVIOUS
  <2>1. CASE UNCHANGED controlVars
    BY <2>1 DEF controlVars, pidVars, gains, stateVars, localVars, scalingVars, configVars, signVars,
                ControlTypeOK, PIDTypeOK, Headcount
  <2> QED
    BY <2>1, CollectTypes, ConfigureTypes, MeasureTypes, IntegrateTypes, DeriveTypes, DecideTypes
    DEF ControlNext, Tick
<1> QED
  BY <1>1, ControlStart, PTL DEF ControlSpec

-----------------------------------------------------------------------------
(* The cooldown.                                                           *)

(* _last_scale is not earlier than the last start or stop. *)
Timed == elapsed <= scaled_ago

LEMMA TimedStep ==
    ASSUME ControlTypeOK, Timed, [ControlNext]_controlVars
    PROVE  Timed'
<1>1. elapsed \in 0..Max(Cooldowns) /\ scaled_ago \in 0..Max(Cooldowns) /\ Max(Cooldowns) \in Nat
  BY LongestCooldown DEF ControlTypeOK
<1>2. CASE Decide
  <2>1. /\ Passed(elapsed) \in 0..Max(Cooldowns) /\ Passed(scaled_ago) \in 0..Max(Cooldowns)
        /\ Passed(elapsed) <= Passed(scaled_ago)
    <3>1. elapsed \in 0..scaled_ago
      BY <1>1 DEF Timed
    <3> QED
      BY <1>1, <3>1, PassedTime
  <2>2. \/ elapsed' = 0
        \/ elapsed' = Passed(elapsed) /\ owned' = owned
    BY <1>2 DEF Decide, ScaleUp, ScaleUpFails, ScaleDown, Rest
  <2>3. scaled_ago' = IF owned' # owned THEN 0 ELSE Passed(scaled_ago)
    BY <1>2 DEF Decide
  <2> QED
    BY <1>1, <2>1, <2>2, <2>3 DEF Timed
<1>3. CASE UNCHANGED scalingVars
  BY <1>3 DEF Timed, scalingVars
<1> QED
  BY <1>2, <1>3
  DEF ControlNext, Tick, Configure, controlVars, Collect, Measure, Integrate, Derive, SetKp, SetKi, SetKd,
      SetTarget, SetCooldown, ConfigReset, ConfigStep

(* Between two starts or stops of a worker the cooldown passes that is set *)
(* at the time of the second, whatever else is retuned and fails.          *)
THEOREM CooldownIsKept == ControlSpec => CooldownKept
<1>1. ControlInit => Timed
  BY LongestCooldown DEF ControlInit, Timed
<1>2. ControlTypeOK /\ Timed /\ [ControlNext]_controlVars => Timed'
  BY TimedStep
<1>3. ControlTypeOK /\ Timed /\ [ControlNext]_controlVars =>
        [owned' # owned => Passed(scaled_ago) >= cooldown]_controlVars
  <2> SUFFICES ASSUME ControlTypeOK, Timed, ControlNext, owned' # owned
               PROVE  Passed(scaled_ago) >= cooldown
    OBVIOUS
  <2>1. Decide /\ ~Rest
    BY DEF ControlNext, Tick, Configure, Collect, Measure, Integrate, Derive, SetKp, SetKi, SetKd,
           SetTarget, SetCooldown, ConfigReset, ConfigStep, scalingVars, Rest
  <2>2. ~InCooldown
    BY <2>1 DEF Decide, ScaleUp, WantsMore, ScaleUpFails, ScaleDown, WantsFewer
  <2>3. elapsed \in 0..scaled_ago /\ scaled_ago \in 0..Max(Cooldowns)
        /\ cooldown \in Nat /\ Max(Cooldowns) \in Nat
    BY LongestCooldown, ControlAssumption DEF ControlTypeOK, Timed
  <2>4. elapsed \in 0..Max(Cooldowns)
    BY <2>3
  <2>5. /\ Passed(elapsed) <= Passed(scaled_ago)
        /\ Passed(elapsed) \in Int /\ Passed(scaled_ago) \in Int
    BY <2>3, <2>4, PassedTime
  <2> QED
    BY <2>2, <2>3, <2>5 DEF InCooldown
<1> QED
  BY <1>1, <1>2, <1>3, ControlTypes, PTL DEF ControlSpec, CooldownKept

-----------------------------------------------------------------------------
(* Why workers are started and stopped.                                    *)

(* What the integral may hold in favour of more workers, and of fewer; the *)
(* terms of an update that is under way say no more than that.             *)
FadeInv(envelope) ==
    /\ fresh /\ tick_at # "derive" => integral = 0
    /\ integral <= envelope[above_ago] /\ -integral <= envelope[below_ago]
    /\ tick_at = "integrate" => dt = Period \/ fresh
    /\ tick_at # "idle" => (e <= 0 => p <= 0) /\ (e >= 0 => p >= 0)
    /\ tick_at \in {"derive", "decide"} =>
         /\ e > 0 => above_ago = 0
         /\ e < 0 => below_ago = 0
         /\ \E k \in Kis : i <= k * envelope[above_ago] /\ -i <= k * envelope[below_ago]

LEMMA Monotone ==
    ASSUME NEW k \in Nat, NEW x \in Int, NEW y \in Int, x <= y
    PROVE  k * x <= k * y
  OBVIOUS

LEMMA EnvelopeType ==
    ASSUME NEW envelope, Fades(envelope), NEW n \in 0..Linger+1
    PROVE  envelope[n] \in Nat
  BY ControlAssumption DEF Fades

(* The integral x, which the envelope bounds, stays within it for one tick *)
(* more if the error is not above 0, and within its clamp at any rate.     *)
LEMMA EnvelopeKept ==
    ASSUME NEW envelope, Fades(envelope), NEW ago \in 0..Linger+1,
           NEW x \in -IntegralMax..IntegralMax, x <= envelope[ago],
           NEW err \in Int, NEW s \in Nat, s >= 1 \/ x = 0
    PROVE  After(x, err, s) <= envelope[IF err > 0 THEN 0 ELSE Later(ago)]
<1>1. /\ After(x, err, s) \in -100..100 /\ x \in Int /\ x <= 100
      /\ envelope[0] = 100 /\ envelope[ago] \in Nat
  <2>1. x \in Int /\ x <= 100
    BY DEF IntegralMax
  <2>2. After(x, err, s) \in -100..100
    BY <2>1, AfterBounded DEF IntegralMax
  <2>3. envelope[0] = 100
    BY DEF Fades, IntegralMax
  <2> QED
    BY <2>1, <2>2, <2>3, EnvelopeType
<1>2. CASE err > 0
  BY <1>1, <1>2
<1>3. CASE ~(err > 0)
  <2>1. Later(ago) \in 0..Linger+1 /\ envelope[Later(ago)] \in Nat
    BY ControlAssumption, LaterTick, EnvelopeType
  <2>2. CASE After(x, err, s) <= 0
    BY <1>1, <1>3, <2>1, <2>2
  <2>3. CASE x > 0 /\ After(x, err, s) <= Scaled(x, 95, 100)
    <3>1. x \in 0..envelope[ago] /\ envelope[ago] \in Nat
      BY <1>1, <2>3
    <3>2. /\ Scaled(x, 95, 100) \in 0..x
          /\ Scaled(x, 95, 100) <= Scaled(envelope[ago], 95, 100)
          /\ Scaled(envelope[ago], 95, 100) \in Int
      BY <1>1, <3>1, Leaks
    <3>3. CASE ago <= Linger
      <4>1. Later(ago) = ago + 1 /\ ago \in 0..Linger
        BY <3>3, LaterTick, ControlAssumption
      <4>2. Scaled(envelope[ago], 95, 100) <= envelope[ago+1]
        BY <4>1 DEF Fades
      <4> QED
        BY <1>1, <1>3, <2>1, <2>3, <3>2, <4>1, <4>2
    <3>4. CASE ~(ago <= Linger)
      <4>1. Later(ago) = ago
        BY <3>4, LaterTick, ControlAssumption
      <4> QED
        BY <1>1, <1>3, <2>3, <3>1, <3>2, <4>1
    <3> QED
      BY <3>3, <3>4
  <2> QED
    BY <1>3, <2>2, <2>3, AfterFalls
<1> QED
  BY <1>2, <1>3

LEMMA FadeStart ==
    ASSUME NEW envelope, Fades(envelope), ControlInit
    PROVE  FadeInv(envelope)
<1>1. Linger + 1 \in 0..Linger+1
  BY ControlAssumption
<1>2. envelope[Linger+1] \in Nat
  BY <1>1, EnvelopeType
<1> QED
  BY <1>2 DEF ControlInit, PIDInit, FadeInv

LEMMA FadeMeasure ==
    ASSUME NEW envelope, Fades(envelope), ControlTypeOK, FadeInv(envelope), Measure
    PROVE  FadeInv(envelope)'
<1>1. /\ UNCHANGED <<integral, fresh, above_ago, below_ago>>
      /\ tick_at = "idle" /\ tick_at' = "integrate"
      /\ dt' = Period \/ fresh
      /\ p' = kp * e'
  BY DEF Measure, UpdateError, Dts, stateVars, signVars
<1>2. kp \in Nat /\ e' \in Int
  BY MeasureTypes, PIDAssumption DEF ControlTypeOK, PIDTypeOK
<1>3. (e' <= 0 => kp * e' <= 0) /\ (e' >= 0 => kp * e' >= 0)
  <2>1. \A x \in Int : (x <= 0 => kp * x <= kp * 0) /\ (x >= 0 => kp * 0 <= kp * x)
    BY <1>2, Monotone
  <2>2. kp * 0 = 0
    BY <1>2
  <2> QED
    BY <1>2, <2>1, <2>2
<1> QED
  BY <1>1, <1>3 DEF FadeInv

LEMMA FadeIntegrate ==
    ASSUME NEW envelope, Fades(envelope), ControlTypeOK, FadeInv(envelope), Integrate
    PROVE  FadeInv(envelope)'
<1>1. /\ tick_at = "integrate" /\ tick_at' = "derive"
      /\ integral' = After(integral, e, dt) /\ i' = ki * integral'
      /\ above_ago' = IF e > 0 THEN 0 ELSE Later(above_ago)
      /\ below_ago' = IF e < 0 THEN 0 ELSE Later(below_ago)
      /\ UNCHANGED <<e, p>>
  BY IntegratedIs DEF Integrate, UpdateIntegral
<1>2. /\ integral \in -IntegralMax..IntegralMax /\ e \in Int /\ dt \in Nat
      /\ integral \in Int /\ -integral \in -IntegralMax..IntegralMax /\ -e \in Int
      /\ above_ago \in 0..Linger+1 /\ below_ago \in 0..Linger+1
      /\ ki \in Kis /\ ki \in Nat
  BY PIDAssumption DEF ControlTypeOK, PIDTypeOK, IntegralMax
<1>3. dt >= 1 \/ integral = 0
  BY <1>1, PIDAssumption DEF FadeInv
<1>4. integral' <= envelope[above_ago']
  BY <1>1, <1>2, <1>3, EnvelopeKept DEF FadeInv
<1>5. -integral' <= envelope[below_ago']
  <2>1. After(-integral, -e, dt) = -integral'
    BY <1>1, <1>2, AfterMirrored
  <2>2. dt >= 1 \/ -integral = 0
    BY <1>3
  <2>3. -integral <= envelope[below_ago]
    BY DEF FadeInv
  <2>4. After(-integral, -e, dt) <= envelope[IF -e > 0 THEN 0 ELSE Later(below_ago)]
    BY <1>2, <2>2, <2>3, EnvelopeKept
  <2>5. -e > 0 <=> e < 0
    BY <1>2
  <2> QED
    BY <1>1, <2>1, <2>4, <2>5
<1>6. i' <= ki * envelope[above_ago'] /\ -i' <= ki * envelope[below_ago']
  <2>1. above_ago' \in 0..Linger+1 /\ below_ago' \in 0..Linger+1 /\ integral' \in Int
    BY IntegrateTypes DEF ControlTypeOK, PIDTypeOK, IntegralMax
  <2>2. envelope[above_ago'] \in Nat /\ envelope[below_ago'] \in Nat
    BY <2>1, EnvelopeType
  <2> DEFINE top == envelope[above_ago']
             bottom == envelope[below_ago']
  <2>3. top \in Nat /\ bottom \in Nat /\ integral' <= top /\ -integral' <= bottom
    BY <1>4, <1>5, <2>2
  <2> HIDE DEF top, bottom
  <2>4. ki * integral' <= ki * top /\ ki * (-integral') <= ki * bottom
    <3>1. \A x \in Int, y \in Int : x <= y => ki * x <= ki * y
      BY <1>2, Monotone
    <3>2. integral' \in Int /\ -integral' \in Int /\ top \in Int /\ bottom \in Int
      BY <2>1, <2>3
    <3>3. ki * integral' <= ki * top
      BY <2>3, <3>1, <3>2
    <3>4. ki * (-integral') <= ki * bottom
      BY <2>3, <3>1, <3>2
    <3> QED
      BY <3>3, <3>4
  <2>5. ki * (-integral') = -(ki * integral')
    BY <1>2, <2>1
  <2> QED
    BY <1>1, <2>4, <2>5 DEF top, bottom
<1> QED
  BY <1>1, <1>2, <1>4, <1>5, <1>6 DEF FadeInv

LEMMA FadeReset ==
    ASSUME NEW envelope, Fades(envelope), ControlTypeOK, FadeInv(envelope), ConfigReset
    PROVE  FadeInv(envelope)'
<1>1. /\ integral' = 0 /\ tick_at \in {"idle", "decide"}
      /\ UNCHANGED <<localVars, tick_at, signVars>>
  BY DEF ConfigReset, ConfigStep, Reset
<1>2. envelope[above_ago] \in Nat /\ envelope[below_ago] \in Nat
  BY EnvelopeType DEF ControlTypeOK
<1> QED
  BY <1>1, <1>2 DEF FadeInv, localVars, signVars

LEMMA FadeStep ==
    ASSUME NEW envelope, Fades(envelope), ControlTypeOK, FadeInv(envelope),
           [ControlNext]_controlVars
    PROVE  FadeInv(envelope)'
<1>1. CASE Measure
  BY <1>1, FadeMeasure
<1>2. CASE Integrate
  BY <1>2, FadeIntegrate
<1>3. CASE Derive
  BY <1>3 DEF Derive, UpdateDerivative, signVars, FadeInv
<1>4. CASE Decide
  BY <1>4 DEF Decide, Returned, stateVars, signVars, FadeInv
<1>5. CASE ConfigReset
  BY <1>5, FadeReset
<1>6. CASE UNCHANGED <<stateVars, localVars, tick_at, signVars>>
  BY <1>6 DEF stateVars, localVars, signVars, FadeInv
<1> QED
  BY <1>1, <1>2, <1>3, <1>4, <1>5, <1>6
  DEF ControlNext, Tick, Configure, controlVars, pidVars, Collect, SetKp, SetKi, SetKd, SetTarget,
      SetCooldown, ConfigStep

(* What a decision is based on once the queue has long kept to one side of *)
(* the target.                                                             *)
LEMMA FadedAbove ==
    ASSUME NEW envelope, Fades(envelope), ControlTypeOK, FadeInv(envelope), tick_at = "decide",
           above_ago > Linger
    PROVE  p <= 0 /\ i < ScaleUpThreshold
<1>1. above_ago = Linger + 1 /\ above_ago # 0 /\ e \in Int /\ i \in Int
  BY ControlAssumption DEF ControlTypeOK, PIDTypeOK
<1>2. p <= 0
  BY <1>1 DEF FadeInv
<1>3. PICK k \in Kis : i <= k * envelope[Linger+1]
  BY <1>1 DEF FadeInv
<1>4. k * envelope[Linger+1] < 600 /\ k * envelope[Linger+1] \in Int
  <2>1. k \in Nat /\ envelope[Linger+1] \in Nat
    BY <1>1, PIDAssumption, EnvelopeType DEF ControlTypeOK
  <2> QED
    BY <2>1 DEF Fades, ScaleUpThreshold
<1> QED
  BY <1>1, <1>2, <1>3, <1>4 DEF ScaleUpThreshold

LEMMA FadedBelow ==
    ASSUME NEW envelope, Fades(envelope), ControlTypeOK, FadeInv(envelope), tick_at = "decide",
           below_ago > Linger
    PROVE  p >= 0 /\ i > ScaleDownThreshold
<1>1. below_ago = Linger + 1 /\ below_ago # 0 /\ e \in Int /\ i \in Int
  BY ControlAssumption DEF ControlTypeOK, PIDTypeOK
<1>2. p >= 0
  BY <1>1 DEF FadeInv
<1>3. PICK k \in Kis : -i <= k * envelope[Linger+1]
  BY <1>1 DEF FadeInv
<1>4. k * envelope[Linger+1] < 600 /\ k * envelope[Linger+1] \in Int
  <2>1. k \in Nat /\ envelope[Linger+1] \in Nat
    BY <1>1, PIDAssumption, EnvelopeType DEF ControlTypeOK
  <2> QED
    BY <2>1 DEF Fades, ScaleUpThreshold
<1> QED
  BY <1>1, <1>2, <1>3, <1>4 DEF ScaleDownThreshold

(* Whatever the load and the target, however the settings are rewritten    *)
(* amid the updates, if the leak Fades under all of them within Linger     *)
(* ticks: a worker is started only within that time of a queue above the   *)
(* target, and stopped only within that time of one below it, unless the   *)
(* error has just risen, or fallen.                                        *)
THEOREM ScalingIsJustified ==
    ASSUME NEW CONSTANT envelope, Fades(envelope)
    PROVE  ControlSpec => ScalingJustified
<1>1. ControlInit => FadeInv(envelope)
  BY FadeStart
<1>2. ControlTypeOK /\ FadeInv(envelope) /\ [ControlNext]_controlVars => FadeInv(envelope)'
  BY FadeStep
<1>3. ControlTypeOK /\ FadeInv(envelope) /\ [ControlNext]_controlVars =>
        [/\ owned' > owned => above_ago <= Linger \/ d > 0
         /\ owned' < owned => below_ago <= Linger \/ d < 0]_controlVars
  <2> SUFFICES ASSUME ControlTypeOK, FadeInv(envelope), ControlNext
               PROVE  /\ owned' > owned => above_ago <= Linger \/ d > 0
                      /\ owned' < owned => below_ago <= Linger \/ d < 0
    OBVIOUS
  <2>1. owned \in Nat /\ Linger \in Nat /\ above_ago \in Nat /\ below_ago \in Nat
        /\ p \in Int /\ i \in Int /\ d \in Int
    BY ControlAssumption DEF ControlTypeOK, PIDTypeOK
  <2>2. CASE owned' = owned
    BY <2>1, <2>2
  <2>3. CASE owned' # owned
    <3>1. Decide
      BY <2>3 DEF ControlNext, Tick, Configure, Collect, Measure, Integrate, Derive, SetKp, SetKi,
                  SetKd, SetTarget, SetCooldown, ConfigReset, ConfigStep, scalingVars
    <3>2. /\ owned' > owned => Output >= ScaleUpThreshold
          /\ owned' < owned => Output <= ScaleDownThreshold
      BY <2>1, <3>1 DEF Decide, ScaleUp, WantsMore, ScaleUpFails, ScaleDown, WantsFewer, Rest
    <3>3. /\ owned' > owned => p + i + d >= 600
          /\ owned' < owned => p + i + d <= -600
      BY <2>1, <3>2 DEF Output, Clamp, OutputMax, ScaleUpThreshold, ScaleDownThreshold
    <3>4. tick_at = "decide"
      BY <3>1 DEF Decide
    <3>5. above_ago > Linger => p <= 0 /\ i < 600
      BY <3>4, FadedAbove DEF ScaleUpThreshold
    <3>6. below_ago > Linger => p >= 0 /\ i > -600
      BY <3>4, FadedBelow DEF ScaleDownThreshold
    <3> QED
      BY <2>1, <3>3, <3>5, <3>6
  <2> QED
    BY <2>2, <2>3
<1> QED
  BY <1>1, <1>2, <1>3, ControlTypes, PTL DEF ControlSpec, ScalingJustified
=============================================================================
