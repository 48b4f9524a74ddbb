-------------------------- MODULE MCAgentPipeline --------------------------
(* The pipeline for TLC.                                                   *)
EXTENDS AgentPipeline, TLC

ReviewerSymmetry == Permutations(Reviewers)
=============================================================================
