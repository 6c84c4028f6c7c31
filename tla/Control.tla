------------------------------ MODULE Control -------------------------------
(***************************************************************************)
(* The control loop of the router process: the collector's thread          *)
(* (metrics/collector.py) measures the queues of the static workers, the   *)
(* autoscaler's thread (metrics/autoscaler.py, _tick) feeds the last       *)
(* measurement to the PID controller and starts or stops a worker, and     *)
(* POST /autoscaler/config (router/router.py) retunes it meanwhile, one    *)
(* setting after the other and without a lock.  What becomes of a worker   *)
(* that is started or stopped is told in Cluster.                          *)
(***************************************************************************)
EXTENDS PIDController, FiniteSets, FiniteSetsExt

CONSTANTS Static,       \* WORKER_NODES: only their URLs are polled
          Depths,       \* what the depths of their queues can add up to
          MinWorkers, MaxWorkers,
          Cooldowns,    \* values of cooldown_s, in seconds
          Linger,       \* ticks that a measurement stays in the integral
          Swing,        \* widest change of the error that keeps the loop on course
          MaxConfigs,   \* bound: calls of /autoscaler/config
          MaxFailures   \* bound: Popen raises

ASSUME ControlAssumption ==
    /\ IsFiniteSet(Static) /\ Cardinality(Static) \in MinWorkers..MaxWorkers
    /\ {MinWorkers, MaxWorkers, Linger, Swing, MaxConfigs, MaxFailures} \subseteq Nat
    /\ Depths \subseteq Nat /\ 0 \in Depths
    /\ Cooldowns \subseteq Nat /\ 30 \in Cooldowns /\ IsFiniteSet(Cooldowns)

VARIABLES
    snapshot,      \* cluster_queue_depth of the last snapshot, 0 if there is none
    owned,         \* how many workers of its own the autoscaler has
    cooldown,      \* cooldown_s
    elapsed,       \* seconds since _last_scale, none counted past the longest cooldown
    failures,
    tick_at,       \* program point of the autoscaler's thread in _tick
    config_at,     \* program point of the handler of /autoscaler/config
    configs,
    above_ago,     \* history: ticks since an error was last above 0
    below_ago,     \* history: ticks since an error was last below 0
    scaled_ago     \* history: seconds since a worker was last started or stopped

signVars == <<above_ago, below_ago>>
scalingVars == <<owned, elapsed, failures, scaled_ago>>
configVars == <<cooldown, config_at, configs>>
controlVars == <<pidVars, snapshot, scalingVars, tick_at, configVars, signVars>>

ScaleUpThreshold == 600
ScaleDownThreshold == -600

Headcount == Cardinality(Static) + owned

(* _last_scale is 0.0 at first, long ago. *)
ControlInit ==
    /\ PIDInit
    /\ snapshot = 0
    /\ owned = 0 /\ failures = 0
    /\ cooldown = 30
    /\ elapsed = Max(Cooldowns) /\ scaled_ago = Max(Cooldowns)
    /\ tick_at = "idle"
    /\ config_at = "idle" /\ configs = 0
    /\ above_ago = Linger + 1 /\ below_ago = Linger + 1

(* _collect(): the depths of the workers whose poll succeeds, added up.    *)
(* The others count as empty, so it may be 0 at any time; the autoscaler's *)
(* own workers are not asked.                                              *)
Collect ==
    /\ snapshot' \in Depths
    /\ UNCHANGED <<pidVars, scalingVars, tick_at, configVars, signVars>>

-----------------------------------------------------------------------------
(* _tick(): an update of the controller, in its steps, and the decision.   *)

Measure ==
    /\ tick_at = "idle" /\ tick_at' = "integrate"
    /\ UpdateError(snapshot)
    /\ UNCHANGED <<snapshot, scalingVars, configVars, signVars>>

(* One tick more, none counted after Linger + 1. *)
Later(ago) == IF ago > Linger THEN ago ELSE ago + 1

Integrate ==
    /\ tick_at = "integrate" /\ tick_at' = "derive"
    /\ UpdateIntegral
    /\ above_ago' = IF e > 0 THEN 0 ELSE Later(above_ago)
    /\ below_ago' = IF e < 0 THEN 0 ELSE Later(below_ago)
    /\ UNCHANGED <<snapshot, scalingVars, configVars>>

Derive ==
    /\ tick_at = "derive" /\ tick_at' = "decide"
    /\ UpdateDerivative
    /\ UNCHANGED <<snapshot, scalingVars, configVars, signVars>>

(* A period of seconds more, none counted past the longest cooldown. *)
Passed(seconds) ==
    IF seconds + Period <= Max(Cooldowns) THEN seconds + Period ELSE Max(Cooldowns)

InCooldown == Passed(elapsed) < cooldown

WantsMore == ~InCooldown /\ Output >= ScaleUpThreshold /\ Headcount < MaxWorkers

WantsFewer == ~InCooldown /\ Output <= ScaleDownThreshold /\ Headcount > MinWorkers

ScaleUp ==
    /\ WantsMore
    /\ owned' = owned + 1
    /\ elapsed' = 0
    /\ UNCHANGED failures

(* Popen raises after _last_scale is set; _loop() logs it and goes on. *)
ScaleUpFails ==
    /\ WantsMore
    /\ failures < MaxFailures
    /\ failures' = failures + 1
    /\ elapsed' = 0
    /\ UNCHANGED owned

(* Mistake: _last_scale is not set. *)
ScaleDownUntimed ==
    /\ WantsFewer
    /\ owned > 0
    /\ owned' = owned - 1
    /\ elapsed' = Passed(elapsed)
    /\ UNCHANGED failures

ScaleDown ==
    /\ WantsFewer
    /\ owned > 0
    /\ owned' = owned - 1
    /\ elapsed' = 0
    /\ UNCHANGED failures

(* Also when a scale-down finds no worker of its own. *)
Rest ==
    /\ ~WantsMore
    /\ WantsFewer => owned = 0
    /\ elapsed' = Passed(elapsed)
    /\ UNCHANGED <<owned, failures>>

Decide ==
    /\ tick_at = "decide" /\ tick_at' = "idle"
    /\ ScaleUp \/ ScaleUpFails \/ ScaleDown \/ Rest
    /\ scaled_ago' = IF owned' # owned THEN 0 ELSE Passed(scaled_ago)
    /\ Returned
    /\ UNCHANGED <<gains, target, stateVars, snapshot, configVars, signVars>>

Tick == Measure \/ Integrate \/ Derive \/ Decide

-----------------------------------------------------------------------------
(* POST /autoscaler/config: each setting that the body names is written,   *)
(* then reset() is called, which waits for an update to end.               *)

ConfigStep(from, to) ==
    /\ config_at = from
    /\ config_at' = to
    /\ UNCHANGED <<localVars, snapshot, scalingVars, tick_at, signVars>>

SetKp ==
    /\ configs < MaxConfigs
    /\ configs' = configs + 1
    /\ ConfigStep("idle", "ki")
    /\ kp' \in Kps
    /\ UNCHANGED <<ki, kd, target, stateVars, cooldown>>

SetKi ==
    /\ ConfigStep("ki", "kd")
    /\ ki' \in Kis
    /\ UNCHANGED <<kp, kd, target, stateVars, cooldown, configs>>

SetKd ==
    /\ ConfigStep("kd", "target")
    /\ kd' \in Kds
    /\ UNCHANGED <<kp, ki, target, stateVars, cooldown, configs>>

SetTarget ==
    /\ ConfigStep("target", "cooldown")
    /\ target' \in Targets
    /\ UNCHANGED <<gains, stateVars, cooldown, configs>>

SetCooldown ==
    /\ ConfigStep("cooldown", "reset")
    /\ cooldown' \in Cooldowns
    /\ UNCHANGED <<gains, target, stateVars, configs>>

ConfigReset ==
    /\ tick_at \in {"idle", "decide"}
    /\ ConfigStep("reset", "idle")
    /\ Reset
    /\ UNCHANGED <<cooldown, configs>>

Configure == SetKp \/ SetKi \/ SetKd \/ SetTarget \/ SetCooldown \/ ConfigReset

ControlNext == Collect \/ Tick \/ Configure

(* _loop() ticks for ever, whatever a tick raises. *)
ControlSpec == ControlInit /\ [][ControlNext]_controlVars /\ WF_controlVars(Tick)

-----------------------------------------------------------------------------
(* Types; the integral keeps to its clamp and the headcount to its limits. *)
ControlTypeOK ==
    /\ PIDTypeOK
    /\ snapshot \in Depths
    /\ owned \in Nat /\ Headcount <= MaxWorkers
    /\ cooldown \in Cooldowns
    /\ elapsed \in 0..Max(Cooldowns) /\ scaled_ago \in 0..Max(Cooldowns)
    /\ tick_at \in {"idle", "integrate", "derive", "decide"}
    /\ config_at \in {"idle", "ki", "kd", "target", "cooldown", "reset"}
    /\ configs \in 0..MaxConfigs /\ failures \in 0..MaxFailures
    /\ above_ago \in 0..Linger + 1 /\ below_ago \in 0..Linger + 1

(***************************************************************************)
(* The leak of pid.py:73 "prevents persistent bias after load subsides",   *)
(* whatever mixture of old and new settings an update meets: a worker is   *)
(* started only within Linger ticks of a queue above the target, and       *)
(* stopped only within Linger ticks of one below it, unless the error has  *)
(* just risen, or fallen: a queue that has just emptied stops workers even *)
(* with the target 0.                                                      *)
(***************************************************************************)
ScalingJustified ==
    [][/\ owned' > owned => above_ago <= Linger \/ d > 0
       /\ owned' < owned => below_ago <= Linger \/ d < 0]_controlVars

(* Settings for which that holds: what the leak leaves of the integral in  *)
(* Linger ticks asks for nothing.  envelope bounds it, tick by tick.       *)
Fades(envelope) ==
    /\ envelope \in [0..Linger+1 -> Nat] /\ envelope[0] = IntegralMax
    /\ \A n \in 0..Linger : Scaled(envelope[n], 95, 100) <= envelope[n+1]
    /\ \A k \in Kis : k * envelope[Linger+1] < ScaleUpThreshold

(***************************************************************************)
(* cooldown_s is what router.py:273 calls it, the "minimum seconds between *)
(* scale events": however the cooldown is changed meanwhile, a worker is   *)
(* started or stopped only when the cooldown set at that time has passed   *)
(* since the last one was.                                                 *)
(***************************************************************************)
CooldownKept == [][owned' # owned => Passed(scaled_ago) >= cooldown]_controlVars

(***************************************************************************)
(* The loop answers lasting load that does not swing too widely: when      *)
(* every measurement is above the target from some time on, the cluster    *)
(* grows to max_workers; when every one is below, all the autoscaler's     *)
(* workers go.                                                             *)
(***************************************************************************)
Calm == <>[][last_error' - last_error \in -Swing..Swing]_last_error

ScalingFollowsLoad ==
    /\ Calm /\ <>[](10 * snapshot > target) => <>[](Headcount = MaxWorkers)
    /\ Calm /\ <>[](10 * snapshot < target) => <>[](owned = 0)
=============================================================================
