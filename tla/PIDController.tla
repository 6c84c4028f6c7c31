--------------------------- MODULE PIDController ----------------------------
(***************************************************************************)
(* metrics/pid.py: class PIDController.                                    *)
(*                                                                         *)
(* Numbers are decimal fractions scaled to integers: errors, targets and   *)
(* the integral in tenths (of a request; of a request times a second),     *)
(* gains in hundredths, terms of the output in thousandths.  The leak and  *)
(* the derivative cut off what is less than their unit.                    *)
(*                                                                         *)
(* update() and reset() hold the lock, but the settings are written        *)
(* without it: update() is cut into steps where it reads them.             *)
(***************************************************************************)
EXTENDS Integers

CONSTANTS Kps, Kis, Kds,  \* gains, in hundredths
          Targets,        \* queue depths asked for, in tenths of a request
          Period,         \* seconds from one update to the next
          EarlyDts        \* seconds from a reset to the next update; 0: hardly any

ASSUME PIDAssumption ==
    /\ Kps \subseteq Nat /\ 50 \in Kps
    /\ Kis \subseteq Nat /\ 10 \in Kis
    /\ Kds \subseteq Nat /\ 5 \in Kds
    /\ Targets \subseteq Int /\ 0 \in Targets
    /\ Period \in Nat \ {0} /\ EarlyDts \subseteq 0..Period

VARIABLES
    kp, ki, kd, target,
    integral,    \* _integral
    last_error,  \* _last_error
    fresh,       \* _last_time is that of a reset, not of an update
    dt, e, p, i, d   \* locals of an update; 0 when there is none

gains == <<kp, ki, kd>>
stateVars == <<integral, last_error, fresh>>
localVars == <<dt, e, p, i, d>>
pidVars == <<gains, target, stateVars, localVars>>

IntegralMax == 100
OutputMax == 2000    \* output_max, and -output_min

Clamp(x, bound) == IF x > bound THEN bound ELSE IF x < -bound THEN -bound ELSE x

(* x * num / den, cut off *)
Scaled(x, num, den) == IF x >= 0 THEN (x * num) \div den ELSE -((-x * num) \div den)

(* The values that __init__ and router.py give. *)
PIDInit ==
    /\ kp = 50 /\ ki = 10 /\ kd = 5 /\ target = 0
    /\ integral = 0 /\ last_error = 0 /\ fresh = TRUE
    /\ dt = 0 /\ e = 0 /\ p = 0 /\ i = 0 /\ d = 0

-----------------------------------------------------------------------------
(* update()                                                                *)

Dts == IF fresh THEN EarlyDts ELSE {Period}

(* Mistake: the documented sign, target - measured (pid.py:14). *)
ErrorReversed(measured) == target - 10 * measured

Error(measured) == 10 * measured - target

(* The time, the error and the proportional term. *)
UpdateError(measured) ==
    /\ dt' \in Dts
    /\ e' = Error(measured)
    /\ p' = kp * e'
    /\ UNCHANGED <<gains, target, stateVars, i, d>>

(* Mistake: the integral is not clamped. *)
IntegratedUnclamped ==
    IF e \in -4..4 THEN Scaled(integral + e * dt, 95, 100) ELSE integral + e * dt

(* Mistake: the integral does not leak. *)
IntegratedForEver == Clamp(integral + e * dt, IntegralMax)

(* The integral leaks when the error is smaller than 0.5. *)
Integrated ==
    LET sum == Clamp(integral + e * dt, IntegralMax) IN
    IF e \in -4..4 THEN Scaled(sum, 95, 100) ELSE sum

(* The integral and its term. *)
UpdateIntegral ==
    /\ integral' = Integrated
    /\ i' = ki * integral'
    /\ UNCHANGED <<gains, target, last_error, fresh, dt, e, p, d>>

(* kd * change / dt; the shortest dt make it as large as it takes. *)
Derivative ==
    IF dt = 0 THEN kd * (e - last_error) * 100000 ELSE Scaled(kd * (e - last_error), 1, dt)

(* The derivative term, and what the next update starts from. *)
UpdateDerivative ==
    /\ d' = Derivative
    /\ last_error' = e
    /\ fresh' = FALSE
    /\ UNCHANGED <<gains, target, integral, dt, e, p, i>>

(* What update() returns. *)
Output == Clamp(p + i + d, OutputMax)

(* The caller is done with it. *)
Returned == dt' = 0 /\ e' = 0 /\ p' = 0 /\ i' = 0 /\ d' = 0

-----------------------------------------------------------------------------
(* reset() *)
Reset ==
    /\ integral' = 0 /\ last_error' = 0 /\ fresh' = TRUE
    /\ UNCHANGED <<gains, target, localVars>>

PIDTypeOK ==
    /\ kp \in Kps /\ ki \in Kis /\ kd \in Kds /\ target \in Targets
    /\ integral \in -IntegralMax..IntegralMax
    /\ last_error \in Int /\ fresh \in BOOLEAN
    /\ dt \in 0..Period
    /\ e \in Int /\ p \in Int /\ i \in Int /\ d \in Int
=============================================================================
