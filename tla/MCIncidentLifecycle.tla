------------------------ MODULE MCIncidentLifecycle ------------------------
(* Model-checking instances of IncidentLifecycle. *)
EXTENDS IncidentLifecycle, TLC

\* Worker replicas are interchangeable: no action or property names one.
FleetSymmetry == Permutations(Workers)
=============================================================================
