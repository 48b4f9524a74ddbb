---------------------------- MODULE AgentOutcome ----------------------------
(***************************************************************************)
(* What one execution of the agents may do to the world and may report,    *)
(* whatever happens inside: the contract IncidentLifecycle relies on when  *)
(* it takes the compiled pipeline (RunPipeline) or the PR and validation   *)
(* agents (RunPrAgent) as one step.  AgentPipeline implements it.          *)
(***************************************************************************)
EXTENDS Naturals, Sequences

CONSTANT MaxRecs  \* most recommendations of an analysis

VARIABLES
  phase,   \* the program counter of IncidentLifecycle's session
  rank,    \* the approved rank the execution was given, 0 for none
  recs,    \* the recommendations it was given, or ended with
  known,   \* the answer of its create call arrived
  failed,  \* it recorded errors
  bugs,    \* bugs created so far
  pulls    \* ranks of the pull requests created so far

outcomeVars == <<phase, rank, recs, known, failed, bugs, pulls>>

Init ==
  /\ phase = "idle" /\ rank = 0 /\ recs = 0 /\ known = FALSE /\ failed = FALSE
  /\ bugs = 0 /\ pulls = <<>>

Begin ==
  /\ phase = "idle"
  /\ \/ phase' = "analysing" /\ UNCHANGED <<rank, recs>>
     \/ phase' = "remediating" /\ rank' \in 0 .. MaxRecs /\ recs' \in 0 .. MaxRecs
  /\ UNCHANGED <<known, failed, bugs, pulls>>

\* At most one bug.  An answer that does not arrive need not be an error: an
\* exception without a text is not recorded.
Analyse ==
  /\ phase = "analysing" /\ phase' = "analysed"
  /\ recs' \in 0 .. MaxRecs
  /\ \E created, answered, error \in BOOLEAN :
       /\ answered => created
       /\ bugs' = IF created THEN bugs + 1 ELSE bugs
       /\ known' = answered /\ failed' = error
  /\ UNCHANGED <<rank, pulls>>

\* At most one pull request, for a rank that is there.  No rank is no error, a
\* rank that is not there is one.
Remediate ==
  /\ phase = "remediating" /\ phase' = "remediated"
  /\ \E created, answered, error \in BOOLEAN :
       /\ answered => created
       /\ created /\ ~ answered => error
       /\ created => rank \in 1 .. recs
       /\ rank = 0 => ~ error
       /\ rank > recs => error
       /\ pulls' = IF created THEN Append(pulls, rank) ELSE pulls
       /\ known' = answered /\ failed' = error
  /\ UNCHANGED <<rank, recs, bugs>>

\* The validation of a pull request may add an error.
Validate ==
  /\ phase = "remediated" /\ known
  /\ failed' = TRUE
  /\ UNCHANGED <<phase, rank, recs, known, bugs, pulls>>

\* Committed, rolled back or killed: only the outside effects stay.
Leave ==
  /\ phase # "idle" /\ phase' = "idle"
  /\ rank' = 0 /\ recs' = 0 /\ known' = FALSE /\ failed' = FALSE
  /\ UNCHANGED <<bugs, pulls>>

Next == Begin \/ Analyse \/ Remediate \/ Validate \/ Leave

Spec == Init /\ [][Next]_outcomeVars
=============================================================================
