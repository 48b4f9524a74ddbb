------------------------------- MODULE MCRepair -------------------------------
(* Model-checking instance of Repair. *)
EXTENDS Repair, TLC

\* Invocations are interchangeable.
RunSymmetry == Permutations(Runs)
=============================================================================
