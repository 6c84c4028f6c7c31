--------------------------- MODULE MCControlLoad ----------------------------
(* Instance of Control for TLC: the settings of the router and those that  *)
(* the endpoint's own example sends, loads that swing just not too widely, *)
(* and a target in the middle of a request at either end of the swing.     *)
EXTENDS Control

CONSTANTS a, b

MCStatic == {a, b}
MCKps == {50}
MCKis == {10, 15}
MCKds == {5}
MCTargets == {0, 1947}
MCDepths == {0, 1, 194}
MCEarlyDts == {0, 5}
MCCooldowns == {30}
=============================================================================
