---------------------------- MODULE MCGrounding ----------------------------
(* Model-checking instance of Grounding. *)
EXTENDS Grounding, TLC

CONSTANTS f1, f2

\* f2 is shorter than some lines that name it.
MCLength == f1 :> 4 @@ f2 :> 2
=============================================================================
