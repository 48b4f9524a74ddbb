------------------------- MODULE RemediationPolicy -------------------------
(***************************************************************************)
(* What the remediation side of the system promises about one incident     *)
(* row, with no worker, session, lock or retry in sight: a status that     *)
(* only moves forward, a record of the ranks humans approved, and pull     *)
(* requests for approved ranks only.  IncidentLifecycle with one worker    *)
(* implements it.                                                          *)
(***************************************************************************)
EXTENDS Naturals

CONSTANTS Incidents, Ranks

VARIABLES
  status,         \* the committed status of each incident
  approvedRanks,  \* ranks some committed approval named
  prRanks         \* ranks some pull request was opened for

policyVars == <<status, approvedRanks, prRanks>>

PolicyTypeOK ==
  /\ status \in [Incidents -> {"absent", "new", "analyzed", "pr_created", "analysis_failed"}]
  /\ approvedRanks \in [Incidents -> SUBSET Ranks]
  /\ prRanks \in [Incidents -> SUBSET Ranks]

Init ==
  /\ status = [i \in Incidents |-> "absent"]
  /\ approvedRanks = [i \in Incidents |-> {}]
  /\ prRanks = [i \in Incidents |-> {}]

Report(i) ==
  /\ status[i] = "absent"
  /\ status' = [status EXCEPT ![i] = "new"]
  /\ UNCHANGED <<approvedRanks, prRanks>>

Analyse(i) ==
  /\ status[i] = "new"
  /\ \E s \in {"analyzed", "analysis_failed"} : status' = [status EXCEPT ![i] = s]
  /\ UNCHANGED <<approvedRanks, prRanks>>

\* A decision read an analyzed row; by the time it commits the row may be closed.
Approve(i, r) ==
  /\ status[i] \notin {"absent", "new"}
  /\ approvedRanks' = [approvedRanks EXCEPT ![i] = @ \cup {r}]
  /\ UNCHANGED <<status, prRanks>>

OpenPullRequest(i, r) ==
  /\ status[i] = "analyzed" /\ r \in approvedRanks[i]
  /\ prRanks' = [prRanks EXCEPT ![i] = @ \cup {r}]
  /\ UNCHANGED <<status, approvedRanks>>

Close(i) ==
  /\ status[i] = "analyzed" /\ approvedRanks[i] # {}
  /\ \E s \in {"pr_created", "analysis_failed"} : status' = [status EXCEPT ![i] = s]
  /\ UNCHANGED <<approvedRanks, prRanks>>

Next ==
  \E i \in Incidents :
    \/ Report(i) \/ Analyse(i) \/ Close(i)
    \/ \E r \in Ranks : Approve(i, r) \/ OpenPullRequest(i, r)

Spec == Init /\ [][Next]_policyVars
=============================================================================
