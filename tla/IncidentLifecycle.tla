------------------------- MODULE IncidentLifecycle -------------------------
(***************************************************************************)
(* The life of an incident row: the polling worker that runs the agent     *)
(* pipeline on it (local_poller.py, runner.py), the reviewers who approve  *)
(* or reject its recommendations (approvals.py), the PostgreSQL row they   *)
(* share, and the two outside systems a run writes to before its           *)
(* transaction commits: the ticket system and the source repository.       *)
(*                                                                         *)
(* PostgreSQL runs at READ COMMITTED.  row, analyses and workItems hold    *)
(* what is committed; what a worker's open transaction has written is in   *)
(* txn[w] until it commits.  An UPDATE waits while another transaction     *)
(* holds the row; the two API handlers write and commit in one step, the   *)
(* worker holds the row for its whole run.                                 *)
(***************************************************************************)
EXTENDS Integers, Sequences, FiniteSets

CONSTANTS
  Incidents,     \* incident ids, numbered in created_at order
  Workers,       \* replicas running LocalIncidentPoller
  Reviewers,     \* clients of the approve and reject endpoints
  Unrunnable,    \* incidents whose run raises before it writes anything
  BatchSize,     \* _BATCH_SIZE of the poller
  MaxRecs,       \* most recommendations of an analysis
  MaxUndone,     \* bound: runs of one incident that raise and roll back
  MaxCrashes,    \* bound: worker processes killed
  MaxDecisions   \* bound: approve and reject calls per incident

ASSUME LifecycleAssumption ==
  /\ Incidents \subseteq Nat \ {0}
  /\ IsFiniteSet(Incidents)
  /\ 0 \notin Workers /\ IsFiniteSet(Workers)
  /\ Unrunnable \subseteq Incidents
  /\ BatchSize \in Nat \ {0}
  /\ MaxRecs \in Nat \ {0}
  /\ MaxUndone \in Nat /\ MaxCrashes \in Nat /\ MaxDecisions \in Nat

VARIABLES
  row,        \* the incidents table: status and the approval columns
  analyses,   \* per incident, how many recommendations each analysis row has
  workItems,  \* per incident, the rank of the linked PR of each row, 0 for none
  lock,       \* the transaction that has updated the row and not ended, or 0
  batch,      \* per worker, the selected ids it has not opened yet
  txn,        \* per worker, the session on the incident it is processing
  call,       \* per reviewer, the request being handled
  bugs,       \* bugs that exist in the ticket system
  prs,        \* ranks of the pull requests that exist, oldest first
  decisions,  \* committed audit rows of the human decisions, 0 for a rejection
  undone,     \* runs that were rolled back (history)
  crashes     \* worker processes killed so far (bounded)

vars == <<row, analyses, workItems, lock, batch, txn, call,
          bugs, prs, decisions, undone, crashes>>
db == <<row, analyses, workItems, decisions>>
outside == <<bugs, prs>>
counts == <<undone, crashes>>
-----------------------------------------------------------------------------
Ranks == 1 .. MaxRecs
NoOne == 0
Statuses == {"absent", "new", "triaging", "analyzed", "pr_created", "analysis_failed"}
Approvals == {"none", "approved", "rejected"}
Row == [status : Statuses, approval : Approvals, rank : 0 .. MaxRecs]
NoRow == [status |-> "absent", approval |-> "none", rank |-> 0]

WorkerPcs == {"idle", "opened", "analysing", "analysed",
              "loaded", "remediating", "remediated"}
Holding == {"analysing", "analysed", "remediating", "remediated"}
Txn == [pc : WorkerPcs, inc : Incidents \cup {0}, seen : Row, recs : 0 .. MaxRecs,
        item : Nat, bug : BOOLEAN, pr : 0 .. MaxRecs, failed : BOOLEAN]
NoTxn == [pc |-> "idle", inc |-> 0, seen |-> NoRow, recs |-> 0,
          item |-> 0, bug |-> FALSE, pr |-> 0, failed |-> FALSE]

CallPcs == {"idle", "checking", "approving", "rejecting"}
Call == [pc : CallPcs, inc : Incidents \cup {0}, seen : Row, rank : 0 .. MaxRecs]
NoCall == [pc |-> "idle", inc |-> 0, seen |-> NoRow, rank |-> 0]

Init ==
  /\ row = [i \in Incidents |-> NoRow]
  /\ analyses = [i \in Incidents |-> <<>>]
  /\ workItems = [i \in Incidents |-> <<>>]
  /\ lock = [i \in Incidents |-> NoOne]
  /\ batch = [w \in Workers |-> {}]
  /\ txn = [w \in Workers |-> NoTxn]
  /\ call = [c \in Reviewers |-> NoCall]
  /\ bugs = [i \in Incidents |-> 0]
  /\ prs = [i \in Incidents |-> <<>>]
  /\ decisions = [i \in Incidents |-> <<>>]
  /\ undone = [i \in Incidents |-> 0]
  /\ crashes = 0
-----------------------------------------------------------------------------
(***************************************************************************)
(* Ingestion, seen from here: a row appears with status new.  Ids are      *)
(* numbered by created_at, which the domain model sets before the insert,  *)
(* so rows may appear out of that order.                                   *)
(***************************************************************************)
Ingest(i) ==
  /\ row[i].status = "absent"
  /\ row' = [row EXCEPT ![i].status = "new"]
  /\ UNCHANGED <<analyses, workItems, lock, batch, txn, call, outside, decisions, counts>>
-----------------------------------------------------------------------------
(* The poller.                                                             *)

\* Variant: the approval is looked at without the status.
ApprovedInAnyStatus(r) == r.approval = "approved"
Approved(r) == r.status = "analyzed" /\ r.approval = "approved"

\* Variants: only new rows are polled; failed analyses are retried.
RunnableNewOnly(r) == r.status = "new"
RunnableFailedToo(r) == r.status \in {"new", "analysis_failed"} \/ Approved(r)

\* The WHERE clause of the batch query, and again the check after session.get.
Runnable(r) == r.status = "new" \/ Approved(r)

Eligible == {i \in Incidents : Runnable(row[i])}

\* ORDER BY created_at LIMIT _BATCH_SIZE.
Selected ==
  {i \in Eligible : Cardinality({j \in Eligible : j < i}) < BatchSize}

Oldest(S) == {i \in S : \A j \in S : i <= j}

Idle(w) == txn[w].pc = "idle"

\* First phase of run_once: a short session reads the ids and ends.
Poll(w) ==
  /\ Idle(w) /\ batch[w] = {} /\ Selected # {}
  /\ batch' = [batch EXCEPT ![w] = Selected]
  /\ UNCHANGED <<row, analyses, workItems, lock, txn, call, outside, decisions, counts>>

\* Second phase: session.get reads the row.  The session keeps this copy: the
\* runner's own SELECT does not refresh an object the session already holds.
Open(w) ==
  /\ Idle(w)
  /\ \E i \in Oldest(batch[w]) :
       /\ batch' = [batch EXCEPT ![w] = @ \ {i}]
       /\ txn' = IF Runnable(row[i])
                 THEN [txn EXCEPT ![w] = [NoTxn EXCEPT !.pc = "opened",
                                                       !.inc = i,
                                                       !.seen = row[i]]]
                 ELSE txn
  /\ UNCHANGED <<row, analyses, workItems, lock, call, outside, decisions, counts>>

\* Variant: the exception leaves the loop over the batch.
RaiseAbortsBatch(w) ==
  /\ txn[w].pc = "opened" /\ txn[w].inc \in Unrunnable
  /\ txn' = [txn EXCEPT ![w] = NoTxn]
  /\ batch' = [batch EXCEPT ![w] = {}]
  /\ UNCHANGED <<row, analyses, workItems, lock, call, outside, decisions, counts>>

\* The runner's constructor raises (no provider is configured): the except
\* branch rolls back, and the row keeps its status.
Raise(w) ==
  /\ txn[w].pc = "opened" /\ txn[w].inc \in Unrunnable
  /\ txn' = [txn EXCEPT ![w] = NoTxn]
  /\ UNCHANGED <<row, analyses, workItems, lock, batch, call, outside, decisions, counts>>
-----------------------------------------------------------------------------
(* AgentPipelineRunner.run on a new incident.                              *)

\* Variant: status triaging is committed before the pipeline starts.
BeginAnalysisCommitted(w) ==
  LET i == txn[w].inc IN
  /\ txn[w].pc = "opened" /\ i \notin Unrunnable
  /\ ~ Approved(txn[w].seen)
  /\ lock[i] = NoOne
  /\ row' = [row EXCEPT ![i].status = "triaging"]
  /\ lock' = [lock EXCEPT ![i] = w]
  /\ txn' = [txn EXCEPT ![w].pc = "analysing"]
  /\ UNCHANGED <<analyses, workItems, batch, call, outside, decisions, counts>>

\* UPDATE status = triaging waits for the row, and never looks at the status again.
BeginAnalysis(w) ==
  LET i == txn[w].inc IN
  /\ txn[w].pc = "opened" /\ i \notin Unrunnable
  /\ ~ Approved(txn[w].seen)
  /\ lock[i] = NoOne
  /\ lock' = [lock EXCEPT ![i] = w]
  /\ txn' = [txn EXCEPT ![w].pc = "analysing"]
  /\ UNCHANGED <<row, analyses, workItems, batch, call, outside, decisions, counts>>

\* The compiled pipeline.  Any agent may add to errors; bug_creator may be
\* skipped (no provider), create a bug, or lose the answer of a create, which
\* is not recorded as an error if the exception has no text.
RunPipeline(w) ==
  LET i == txn[w].inc IN
  /\ txn[w].pc = "analysing"
  /\ \E recs \in 0 .. MaxRecs, created, answered, failed \in BOOLEAN :
       /\ answered => created
       /\ bugs' = [bugs EXCEPT ![i] = IF created THEN @ + 1 ELSE @]
       /\ txn' = [txn EXCEPT ![w] = [@ EXCEPT !.pc = "analysed", !.recs = recs,
                                               !.bug = answered, !.failed = failed]]
  /\ UNCHANGED <<row, analyses, workItems, lock, batch, call, prs, decisions, counts>>

\* Variants: SPEC.md's bug_created instead of analyzed; a failed analysis stays new.
AnalysisStatusBugCreated(failed) == IF failed THEN "analysis_failed" ELSE "bug_created"
AnalysisStatusRetry(failed) == IF failed THEN "new" ELSE "analyzed"

AnalysisStatus(failed) == IF failed THEN "analysis_failed" ELSE "analyzed"

\* _update_incident, _persist_analysis_and_work_item and the poller's commit.
CommitAnalysis(w) ==
  LET t == txn[w]
      i == t.inc IN
  /\ t.pc = "analysed"
  /\ row' = [row EXCEPT ![i].status = AnalysisStatus(t.failed)]
  /\ analyses' = [analyses EXCEPT ![i] = Append(@, t.recs)]
  /\ workItems' = [workItems EXCEPT ![i] = IF t.bug THEN Append(@, 0) ELSE @]
  /\ lock' = [lock EXCEPT ![i] = NoOne]
  /\ txn' = [txn EXCEPT ![w] = NoTxn]
  /\ UNCHANGED <<batch, call, outside, decisions, counts>>
-----------------------------------------------------------------------------
(* AgentPipelineRunner.run on an approved incident.                        *)

\* analyses[0] and work_items[0] of an unordered SELECT: any row of the incident.
SomeRecs(i) == IF analyses[i] = <<>> THEN {0} ELSE {analyses[i][k] : k \in DOMAIN analyses[i]}
SomeItem(i) == IF workItems[i] = <<>> THEN {0} ELSE DOMAIN workItems[i]

LoadApproved(w) ==
  LET i == txn[w].inc IN
  /\ txn[w].pc = "opened" /\ i \notin Unrunnable
  /\ Approved(txn[w].seen)
  /\ \E recs \in SomeRecs(i), item \in SomeItem(i) :
       txn' = [txn EXCEPT ![w] = [@ EXCEPT !.pc = "loaded", !.recs = recs, !.item = item]]
  /\ UNCHANGED <<row, analyses, workItems, lock, batch, call, outside, decisions, counts>>

\* orm.status = triaging and its flush.
BeginRemediation(w) ==
  LET i == txn[w].inc IN
  /\ txn[w].pc = "loaded"
  /\ lock[i] = NoOne
  /\ lock' = [lock EXCEPT ![i] = w]
  /\ txn' = [txn EXCEPT ![w].pc = "remediating"]
  /\ UNCHANGED <<row, analyses, workItems, batch, call, outside, decisions, counts>>

\* The guards of pr_agent_node before it calls the repository.
Skipped(t) == t.seen.rank = 0
OutOfRange(t) == t.seen.rank > t.recs

\* Variant: the first recommendation is applied, whichever was approved.
TopRank(t) == 1

\* The recommendation to apply, by the rank the reviewer approved.
ChosenRank(t) == t.seen.rank

\* pr_agent, then validation_agent, on the row the session read when it opened.
\* The pull request may not be attempted (no SCM), may fail, or may be created
\* and its answer lost; validation may add an error of its own.
RunPrAgent(w) ==
  LET t == txn[w]
      i == t.inc IN
  /\ t.pc = "remediating"
  /\ \E created, answered, failed \in BOOLEAN :
       /\ answered => created
       /\ created /\ ~ answered => failed
       /\ created => ~ Skipped(t) /\ ~ OutOfRange(t)
       /\ Skipped(t) => ~ failed
       /\ ~ Skipped(t) /\ OutOfRange(t) => failed
       /\ prs' = [prs EXCEPT ![i] = IF created THEN Append(@, ChosenRank(t)) ELSE @]
       /\ txn' = [txn EXCEPT ![w] = [@ EXCEPT !.pc = "remediated", !.failed = failed,
                                               !.pr = IF answered THEN ChosenRank(t) ELSE 0]]
  /\ UNCHANGED <<row, analyses, workItems, lock, batch, call, bugs, decisions, counts>>

\* Variant: a failed remediation stays analyzed, to be tried again.
RemediationStatusRetry(failed) == IF failed THEN "analyzed" ELSE "pr_created"

RemediationStatus(failed) == IF failed THEN "analysis_failed" ELSE "pr_created"

\* Variant: the whole row is written back as the session read it.
CommitRemediationWholeRow(w) ==
  LET t == txn[w]
      i == t.inc IN
  /\ t.pc = "remediated"
  /\ row' = [row EXCEPT ![i] = [t.seen EXCEPT !.status = RemediationStatus(t.failed)]]
  /\ lock' = [lock EXCEPT ![i] = NoOne]
  /\ txn' = [txn EXCEPT ![w] = NoTxn]
  /\ UNCHANGED <<analyses, workItems, batch, call, outside, decisions, counts>>

\* The link goes to the loaded work item, and nowhere when there is none.
\* Only the status column of the incident row is written.
CommitRemediation(w) ==
  LET t == txn[w]
      i == t.inc IN
  /\ t.pc = "remediated"
  /\ row' = [row EXCEPT ![i].status = RemediationStatus(t.failed)]
  /\ workItems' = IF t.item # 0 /\ t.pr # 0
                  THEN [workItems EXCEPT ![i][t.item] = t.pr]
                  ELSE workItems
  /\ lock' = [lock EXCEPT ![i] = NoOne]
  /\ txn' = [txn EXCEPT ![w] = NoTxn]
  /\ UNCHANGED <<analyses, batch, call, outside, decisions, counts>>
-----------------------------------------------------------------------------
(* A run that does not reach its commit.                                   *)

Released(w) == [i \in Incidents |-> IF lock[i] = w THEN NoOne ELSE lock[i]]

\* An exception inside the try: rollback, log, next incident of the batch.
Rollback(w) ==
  LET i == txn[w].inc IN
  /\ ~ Idle(w) /\ i \notin Unrunnable /\ undone[i] < MaxUndone
  /\ undone' = [undone EXCEPT ![i] = @ + 1]
  /\ lock' = Released(w)
  /\ txn' = [txn EXCEPT ![w] = NoTxn]
  /\ UNCHANGED <<row, analyses, workItems, batch, call, outside, decisions, crashes>>

\* The process is killed: PostgreSQL rolls back, the batch is forgotten, the
\* replacement starts by polling.
Crash(w) ==
  LET i == txn[w].inc IN
  /\ ~ Idle(w) \/ batch[w] # {}
  /\ crashes < MaxCrashes
  /\ crashes' = crashes + 1
  /\ undone' = IF Idle(w) THEN undone ELSE [undone EXCEPT ![i] = @ + 1]
  /\ lock' = Released(w)
  /\ txn' = [txn EXCEPT ![w] = NoTxn]
  /\ batch' = [batch EXCEPT ![w] = {}]
  /\ UNCHANGED <<row, analyses, workItems, call, outside, decisions>>
-----------------------------------------------------------------------------
(* The approval endpoints.                                                 *)

\* approve: the status check (otherwise 409).
ReadForApproval(c, i) ==
  /\ call[c].pc = "idle" /\ Len(decisions[i]) < MaxDecisions
  /\ row[i].status = "analyzed"
  /\ call' = [call EXCEPT ![c] = [pc |-> "checking", inc |-> i, seen |-> row[i], rank |-> 0]]
  /\ UNCHANGED <<db, lock, batch, txn, outside, counts>>

\* Variant: off by one.
InRangeOffByOne(r, recs) == r >= 1 /\ r <= recs + 1

InRange(r, recs) == r >= 1 /\ r <= recs

\* approve: the newest analysis is read in a later statement (otherwise 422).
CheckRank(c) ==
  LET i == call[c].inc
      recs == IF analyses[i] = <<>> THEN 0 ELSE analyses[i][Len(analyses[i])] IN
  /\ call[c].pc = "checking"
  /\ \E r \in Ranks :
       /\ InRange(r, recs)
       /\ call' = [call EXCEPT ![c] = [@ EXCEPT !.pc = "approving", !.rank = r]]
  /\ UNCHANGED <<db, lock, batch, txn, outside, counts>>

\* reject: no condition on the status.
ReadForRejection(c, i) ==
  /\ call[c].pc = "idle" /\ Len(decisions[i]) < MaxDecisions
  /\ row[i].status # "absent"
  /\ call' = [call EXCEPT ![c] = [pc |-> "rejecting", inc |-> i, seen |-> row[i], rank |-> 0]]
  /\ UNCHANGED <<db, lock, batch, txn, outside, counts>>

\* The UPDATE the ORM sends has only the columns that differ from what the
\* session read: a column set to the value it already had is left alone.
Written(old, seen, new) == IF seen = new THEN old ELSE new

Decide(i, seen, approval, rank) ==
  /\ row' = [row EXCEPT ![i] = [@ EXCEPT !.approval = Written(row[i].approval, seen.approval, approval),
                                         !.rank = Written(row[i].rank, seen.rank, rank)]]
  /\ decisions' = [decisions EXCEPT ![i] = Append(@, rank)]

CommitApproval(c) ==
  LET k == call[c] IN
  /\ k.pc = "approving" /\ lock[k.inc] = NoOne
  /\ Decide(k.inc, k.seen, "approved", k.rank)
  /\ call' = [call EXCEPT ![c] = NoCall]
  /\ UNCHANGED <<analyses, workItems, lock, batch, txn, outside, counts>>

CommitRejection(c) ==
  LET k == call[c] IN
  /\ k.pc = "rejecting" /\ lock[k.inc] = NoOne
  /\ Decide(k.inc, k.seen, "rejected", 0)
  /\ call' = [call EXCEPT ![c] = NoCall]
  /\ UNCHANGED <<analyses, workItems, lock, batch, txn, outside, counts>>

\* 422, or the request fails and get_db_session rolls back.
Abandon(c) ==
  /\ call[c].pc # "idle"
  /\ call' = [call EXCEPT ![c] = NoCall]
  /\ UNCHANGED <<db, lock, batch, txn, outside, counts>>
-----------------------------------------------------------------------------
Work(w) ==
  \/ Poll(w) \/ Open(w) \/ Raise(w)
  \/ BeginAnalysis(w) \/ RunPipeline(w) \/ CommitAnalysis(w)
  \/ LoadApproved(w) \/ BeginRemediation(w) \/ RunPrAgent(w) \/ CommitRemediation(w)

Review(c) ==
  \/ \E i \in Incidents : ReadForApproval(c, i) \/ ReadForRejection(c, i)
  \/ CheckRank(c) \/ CommitApproval(c) \/ CommitRejection(c) \/ Abandon(c)

Next ==
  \/ \E i \in Incidents : Ingest(i)
  \/ \E w \in Workers : Work(w) \/ Rollback(w) \/ Crash(w)
  \/ \E c \in Reviewers : Review(c)

Spec == Init /\ [][Next]_vars

\* run_forever never returns, every outside call of a run has a timeout, and a
\* lock is released when its holder ends: a worker that can move does.
FairSpec == Spec /\ \A w \in Workers : WF_vars(Work(w))
-----------------------------------------------------------------------------
(* Correctness.                                                            *)

\* Every variable has the type its table, column or session gives it.
TypeOK ==
  /\ row \in [Incidents -> Row]
  /\ analyses \in [Incidents -> Seq(0 .. MaxRecs)]
  /\ workItems \in [Incidents -> Seq(0 .. MaxRecs)]
  /\ lock \in [Incidents -> Workers \cup {NoOne}]
  /\ batch \in [Workers -> SUBSET Incidents]
  /\ txn \in [Workers -> Txn]
  /\ \A w \in Workers : ~ Idle(w) => txn[w].inc \in Incidents
  /\ call \in [Reviewers -> Call]
  /\ \A c \in Reviewers : call[c].pc # "idle" => call[c].inc \in Incidents
  /\ bugs \in [Incidents -> Nat]
  /\ prs \in [Incidents -> Seq(Ranks)]
  /\ decisions \in [Incidents -> Seq(0 .. MaxRecs)]
  /\ undone \in [Incidents -> Nat]
  /\ crashes \in 0 .. MaxCrashes

ApprovedRanks(i) == {decisions[i][k] : k \in DOMAIN decisions[i]} \ {0}
PrRanks(i) == {prs[i][k] : k \in DOMAIN prs[i]}

\* A run's status change, analysis row and work item become visible together or
\* not at all, whatever crashes: nobody ever reads status triaging, an analyzed
\* row has an analysis, a new row has none, and a committed work item has its
\* bug in the ticket system.
PersistedTogether ==
  \A i \in Incidents :
    /\ row[i].status # "triaging"
    /\ row[i].status \in {"absent", "new"} => analyses[i] = <<>> /\ workItems[i] = <<>>
    /\ row[i].status \in {"analyzed", "pr_created"} => analyses[i] # <<>>
    /\ Len(workItems[i]) <= bugs[i]

\* The approval gate: a pull request exists only for a rank that a committed
\* approval of that incident named, however workers, reviewers and crashes
\* interleave; and an incident is closed as pr_created only if it had one.
NoPrWithoutApproval ==
  \A i \in Incidents :
    /\ PrRanks(i) \subseteq ApprovedRanks(i)
    /\ row[i].status = "pr_created" => ApprovedRanks(i) # {}

\* With one worker, an outside effect is repeated only if a run that had been
\* started was rolled back or killed, and an incident is analysed once.
EffectsRepeatOnlyAfterRollback ==
  \A i \in Incidents :
    /\ bugs[i] <= 1 + undone[i]
    /\ Len(prs[i]) <= 1 + undone[i]
    /\ Len(analyses[i]) <= 1

\* With one worker and one reviewer, the rank checked by the approve endpoint is
\* still a rank of the analysis that the remediation run loads later.
RankStillValid ==
  \A w \in Workers :
    txn[w].pc \in {"loaded", "remediating"} => ~ Skipped(txn[w]) /\ ~ OutOfRange(txn[w])

\* With one reviewer, the approval columns show the last decision of the audit
\* log: no worker's commit overwrites a decision that arrived during its run.
ApprovalIsLastDecision ==
  \A i \in Incidents :
    LET n == Len(decisions[i]) IN
    /\ n = 0 => row[i].approval = "none" /\ row[i].rank = 0
    /\ n > 0 => /\ row[i].rank = decisions[i][n]
               /\ row[i].approval = IF decisions[i][n] = 0 THEN "rejected" ELSE "approved"

Follows(s) ==
  CASE s = "absent" -> {"new"}
    [] s = "new" -> {"analyzed", "analysis_failed"}
    [] s = "analyzed" -> {"pr_created", "analysis_failed"}
    [] OTHER -> {}

\* With one worker, the committed status only moves forward, and a closed
\* incident is never opened again by a decision or a stale session.
StatusOnlyAdvances ==
  [][\A i \in Incidents :
       row'[i].status # row[i].status => row'[i].status \in Follows(row[i].status)]_vars

Policy == INSTANCE RemediationPolicy WITH
  status <- [i \in Incidents |-> row[i].status],
  approvedRanks <- [i \in Incidents |-> ApprovedRanks(i)],
  prRanks <- [i \in Incidents |-> PrRanks(i)]

\* With one worker, the lifecycle implements the abstract policy.
ImplementsPolicy == Policy!Spec

\* With any number of workers, the bugs of an incident are bounded by the
\* workers that could have read it as new, plus the runs rolled back.
BugsBoundedByFleet ==
  \A i \in Incidents : bugs[i] <= Cardinality(Workers) + undone[i]

\* Every new incident whose run can start is analysed, even behind older ones
\* whose runs never start, as long as those do not fill a batch.
NewIncidentSettles ==
  \A i \in Incidents \ Unrunnable :
    row[i].status = "new" ~> row[i].status \in {"analyzed", "analysis_failed"}

\* Every approved incident is acted on, or the approval is withdrawn first.
ApprovalIsActedOn ==
  \A i \in Incidents : Approved(row[i]) ~> ~ Approved(row[i])
-----------------------------------------------------------------------------
(* Inductive strengthenings.                                               *)

\* An approval shown by the row, or read by a session that still runs, is in
\* the audit log; a session remediates only what it read as approved.
ApprovalOnRecord(i) ==
  /\ row[i].approval = "approved" => ApprovedRanks(i) # {}
  /\ row[i].rank \in ApprovedRanks(i) \cup {0}

SessionOnRecord(t) ==
  t.pc # "idle" =>
    /\ t.seen.rank \in ApprovedRanks(t.inc) \cup {0}
    /\ Approved(t.seen) => ApprovedRanks(t.inc) # {}
    /\ t.pc \in {"loaded", "remediating", "remediated"} => Approved(t.seen)

GateInv ==
  /\ \A i \in Incidents : ApprovalOnRecord(i)
  /\ \A w \in Workers : SessionOnRecord(txn[w])
  /\ \A c \in Reviewers : call[c].pc = "approving" => call[c].rank \in Ranks
  /\ NoPrWithoutApproval

\* The row lock is held from the first write to the end of the session, so a
\* bug whose work item is not committed yet is counted once.
RowPersisted(i) ==
  /\ row[i].status # "triaging"
  /\ row[i].status \in {"absent", "new"} <=> analyses[i] = <<>>
  /\ analyses[i] = <<>> => workItems[i] = <<>>
  /\ Len(workItems[i]) <= bugs[i]

SessionPersisted(w, t) ==
  /\ t.pc \in Holding => lock[t.inc] = w
  /\ t.pc = "analysed" /\ t.bug => Len(workItems[t.inc]) < bugs[t.inc]
  /\ t.pc # "idle" /\ Approved(t.seen) => analyses[t.inc] # <<>>
  /\ t.pc \in {"loaded", "remediating", "remediated"} => Approved(t.seen)

PersistInv ==
  /\ \A i \in Incidents : RowPersisted(i)
  /\ \A w \in Workers : SessionPersisted(w, txn[w])

\* A rank on a row, in a session or in a request is one of the first analysis.
RankKnown(i, r) == r # 0 => analyses[i] # <<>> /\ r <= analyses[i][1]

\* The incident has had its one remediation run, but for those rolled back.
Remediated(i) ==
  \/ row[i].status \in {"pr_created", "analysis_failed"}
  \/ \E w \in Workers : txn[w].pc = "remediated" /\ txn[w].inc = i

RowSerial(i) ==
  /\ Len(analyses[i]) <= 1
  /\ RankKnown(i, row[i].rank)
  /\ Len(prs[i]) <= undone[i] + (IF Remediated(i) THEN 1 ELSE 0)

\* With one worker nobody moves the status of a row under an open session.
SessionSerial(t) ==
  t.pc # "idle" =>
    /\ Runnable(t.seen) /\ row[t.inc].status = t.seen.status
    /\ RankKnown(t.inc, t.seen.rank)
    /\ t.pc \in {"analysing", "analysed"} => ~ Approved(t.seen)
    /\ t.pc \in {"loaded", "remediating"} => t.recs = analyses[t.inc][1]

SerialInv ==
  /\ \A i \in Incidents : RowSerial(i)
  /\ \A w \in Workers : SessionSerial(txn[w])
  /\ \A c \in Reviewers : call[c].pc = "approving" =>
        analyses[call[c].inc] # <<>> /\ RankKnown(call[c].inc, call[c].rank)

\* With one reviewer nobody moves the approval columns under an open request, so
\* a row or a session that shows an approval shows its rank too.
ReviewInv ==
  /\ ApprovalIsLastDecision
  /\ \A c \in Reviewers : call[c].pc # "idle" =>
        /\ call[c].seen.approval = row[call[c].inc].approval
        /\ call[c].seen.rank = row[call[c].inc].rank
  /\ \A w \in Workers : txn[w].seen.approval = "approved" => txn[w].seen.rank # 0
=============================================================================
