------------------------------ MODULE MCIntake ------------------------------
(* Model-checking instances of Intake. *)
EXTENDS Intake, TLC

\* Schedulers are interchangeable, and so are clients.
ReplicaSymmetry == Permutations(Schedulers) \cup Permutations(Clients)
=============================================================================
