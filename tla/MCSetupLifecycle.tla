-------------------------- MODULE MCSetupLifecycle --------------------------
(* An instance of SetupLifecycle in which one structure outlives its scans. *)
EXTENDS SetupLifecycle

CONSTANT s1
MCSide(s) == "breakout long"
=============================================================================
