----------------------------- MODULE MCControl -----------------------------
(* Instance of Control for TLC: the settings of the router and those that  *)
(* the endpoint's own example sends (kp 0.8, ki 0.15), a cooldown that is  *)
(* set shorter, and a target that no queue meets exactly.                  *)
EXTENDS Control

CONSTANTS a, b

MCStatic == {a, b}
MCKps == {50, 80}
MCKis == {10, 15}
MCKds == {5}
MCTargets == {0, 3}
MCDepths == {0, 1}
MCEarlyDts == {0, 5}
MCCooldowns == {15, 30}

(* What is left of an integral of 10, exactly and rounded up.  The proofs  *)
(* of ControlProofs apply to the settings.                                 *)
MCEnvelope ==
    [n \in 0..Linger+1 |->
        <<100, 95, 91, 86, 82, 78, 74, 70, 67, 64, 60, 57, 55, 52, 49, 47, 45, 42, 40, 38>>[n+1]]

ASSUME MCFades == Fades(MCEnvelope)
=============================================================================
