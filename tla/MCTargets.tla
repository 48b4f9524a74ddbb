------------------------------ MODULE MCTargets ------------------------------
(* Model-checking instance of Targets. *)
EXTENDS Targets, TLC
=============================================================================
