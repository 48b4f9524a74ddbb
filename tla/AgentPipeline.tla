--------------------------- MODULE AgentPipeline ---------------------------
(***************************************************************************)
(* Inside a run: the LangGraph pipeline of a fresh incident (pipeline.py)  *)
(* and the two agents of an approved one (runner.py), as one incident      *)
(* meets them, with the reviewers who decide meanwhile (approvals.py).     *)
(*                                                                         *)
(* An agent that fails adds to the errors and lets the next one go on.     *)
(* Every agent adds an entry to the trace, a JSON document of the analysis *)
(* that runner and reviewers read, extend and write back whole, and that   *)
(* both mirror to the audit log, to which rows are only added.             *)
(*                                                                         *)
(* One worker: IncidentLifecycle is about fleets, and about the steps of   *)
(* the poller.  AgentOutcome is the contract between the two modules.      *)
(***************************************************************************)
EXTENDS Naturals, Sequences, FiniteSets

CONSTANTS
  Reviewers,    \* clients of the approve and reject endpoints
  MaxRecs,      \* _MAX_RECOMMENDATIONS of the fix planner
  MaxFailures,  \* bound: agents that fail in one run
  MaxDrops,     \* bound: runs rolled back or killed
  MaxEvents     \* bound: these, and the approve and reject calls

ASSUME PipelineAssumption ==
  /\ MaxRecs \in Nat \ {0}
  /\ MaxFailures \in Nat /\ MaxDrops \in Nat /\ MaxEvents \in Nat

VARIABLES
  config,  \* the integrations that are configured
  row,     \* the committed status and approval columns of the incident
  stored,  \* the committed agent_trace of its analysis
  audit,   \* the committed entries of the audit log
  run,     \* the run in progress
  call,    \* per reviewer, the request being handled
  bugs,    \* bugs created in the ticket system
  pulls,   \* pull requests created in the repository, oldest first
  drops    \* runs dropped so far (bounded)

vars == <<config, row, stored, audit, run, call, bugs, pulls, drops>>
incident == <<row, stored, audit>>
outside == <<bugs, pulls>>
-----------------------------------------------------------------------------
Analysts == {"triage", "root_cause", "code_context", "rag", "fix_planner", "bug_creator"}
Agents == Analysts \cup {"pr_agent", "validation_agent"}
Human == "human_approval"

\* What str(exc) left in an entry.  A timeout of the HTTP client has no text,
\* and three agents let it through; the others wrap it, or only ask the model.
Errors == {"none", "text", "blank"}
Failures(agent) ==
  IF agent \in {"bug_creator", "pr_agent", "validation_agent"} THEN {"text", "blank"} ELSE {"text"}

Config == [scm : BOOLEAN, tickets : BOOLEAN]
Row == [status : {"new", "analyzed", "pr_created", "analysis_failed"},
        approval : {"none", "approved", "rejected"}, rank : 0 .. MaxRecs]
Entry == [agent : Agents \cup {Human}, error : Errors]
Reports == {"none", "approved", "needs_review", "blocked"}
Pull == [rank : 1 .. MaxRecs, patched : BOOLEAN, report : Reports]

\* The IncidentState of a run, its node, the length of the trace it was given,
\* and whether code_fix_result holds a change.
Run == [pc : Agents \cup {"idle", "loaded", "persist"},
        path : {"none", "analysis", "remediation"},
        rank : 0 .. MaxRecs, recs : 0 .. MaxRecs, base : Nat,
        trace : Seq(Entry), errors : Seq(Agents), fix : BOOLEAN, answered : BOOLEAN]
NoRun == [pc |-> "idle", path |-> "none", rank |-> 0, recs |-> 0, base |-> 0,
          trace |-> <<>>, errors |-> <<>>, fix |-> FALSE, answered |-> FALSE]

\* How far a request is, and, as it read them, the approval columns and the trace of the
\* analysis, which is empty only if there is none.
Approval == [approval : {"none", "approved", "rejected"}, rank : 0 .. MaxRecs]
Call == [stage : {"none", "row", "both"}, rank : 0 .. MaxRecs, seen : Approval,
         trace : Seq(Entry)]
NewRow == [status |-> "new", approval |-> "none", rank |-> 0]
NoCall == [stage |-> "none", rank |-> 0, seen |-> [approval |-> "none", rank |-> 0],
           trace |-> <<>>]

Init ==
  /\ config \in Config
  /\ row = NewRow
  /\ stored = <<>> /\ audit = <<>>
  /\ run = NoRun
  /\ call = [c \in Reviewers |-> NoCall]
  /\ bugs = 0 /\ pulls = <<>> /\ drops = 0
-----------------------------------------------------------------------------
\* Variant: the edge to rag is missing.
AfterNoRag(agent) ==
  CASE agent = "triage" -> "root_cause"
    [] agent = "root_cause" -> "code_context"
    [] agent = "code_context" -> "fix_planner"
    [] agent = "rag" -> "fix_planner"
    [] agent = "fix_planner" -> "bug_creator"
    [] agent = "bug_creator" -> "persist"
    [] agent = "pr_agent" -> "validation_agent"
    [] agent = "validation_agent" -> "persist"

\* The edges of the graph.  A fresh run carries no approval_status, so the
\* conditional edge of bug_creator always ends; the approved path calls its two
\* agents in this order.
After(agent) ==
  CASE agent = "triage" -> "root_cause"
    [] agent = "root_cause" -> "code_context"
    [] agent = "code_context" -> "rag"
    [] agent = "rag" -> "fix_planner"
    [] agent = "fix_planner" -> "bug_creator"
    [] agent = "bug_creator" -> "persist"
    [] agent = "pr_agent" -> "validation_agent"
    [] agent = "validation_agent" -> "persist"

\* The analysts test the text of the exception before they add it to the
\* errors; pr_agent and validation_agent add it in the except branch.
Recorded(agent, error) ==
  error = "text" \/ (error = "blank" /\ agent \notin Analysts)

\* Variant: the errors of earlier agents are not carried over.
RanForgetful(r, agent, error) ==
  [r EXCEPT !.pc = After(agent),
            !.trace = Append(@, [agent |-> agent, error |-> error]),
            !.errors = IF Recorded(agent, error) THEN <<agent>> ELSE <<>>]

\* What an agent returns: its entry and its error after the ones that are there.
Ran(r, agent, error) ==
  [r EXCEPT !.pc = After(agent),
            !.trace = Append(@, [agent |-> agent, error |-> error]),
            !.errors = IF Recorded(agent, error) THEN Append(@, agent) ELSE @]

HasErrors(r) == r.errors # <<>>

Failed(r) == {k \in r.base + 1 .. Len(r.trace) : r.trace[k].error # "none"}
MayFail(r) == Cardinality(Failed(r)) < MaxFailures

Open == {c \in Reviewers : call[c].stage # "none"}
Decided == {k \in DOMAIN audit : audit[k].agent = Human}
MayHappen == Cardinality(Open) + Cardinality(Decided) + drops < MaxEvents
-----------------------------------------------------------------------------
(* The analysis of a new incident.                                         *)

\* The UPDATE to triaging takes the row lock, see Locked.
BeginAnalysis ==
  /\ run.pc = "idle" /\ row.status = "new"
  /\ run' = [NoRun EXCEPT !.pc = "triage", !.path = "analysis"]
  /\ UNCHANGED <<config, incident, call, outside, drops>>

\* An agent with no effect outside.  It cannot fail where it is not configured.
Succeeds(agent) == run.pc = agent /\ run' = Ran(run, agent, "none")
Fails(agent) ==
  /\ run.pc = agent /\ MayFail(run)
  /\ \E error \in Failures(agent) : run' = Ran(run, agent, error)

\* A rule matches, the model answers, or it fails and the defaults are used.
Triage ==
  /\ Succeeds("triage") \/ Fails("triage")
  /\ UNCHANGED <<config, incident, call, outside, drops>>

\* Commits and dependency files are fetched on a best-effort basis: only the
\* call of the model can fail.
RootCause ==
  /\ Succeeds("root_cause") \/ Fails("root_cause")
  /\ UNCHANGED <<config, incident, call, outside, drops>>

CodeContext ==
  /\ Succeeds("code_context") \/ (config.scm /\ Fails("code_context"))
  /\ UNCHANGED <<config, incident, call, outside, drops>>

\* Nothing else depends on search: where it is not configured the agent just never fails.
Rag ==
  /\ Succeeds("rag") \/ Fails("rag")
  /\ UNCHANGED <<config, incident, call, outside, drops>>

\* Variant: the recommendations are not cut.
TopUncut(n) == n

\* _post_process keeps the best ones.
Top(n) == IF n > MaxRecs THEN MaxRecs ELSE n

\* The model may propose none; when it fails there is one default.
FixPlanner ==
  /\ run.pc = "fix_planner"
  /\ \/ \E n \in 0 .. MaxRecs + 1 :
          run' = [Ran(run, "fix_planner", "none") EXCEPT !.recs = Top(n)]
     \/ /\ MayFail(run)
        /\ run' = [Ran(run, "fix_planner", "text") EXCEPT !.recs = 1]
  /\ UNCHANGED <<config, incident, call, outside, drops>>

\* Without a ticket provider nothing is tried.  The call may fail before or
\* after the bug exists.
BugCreator ==
  /\ run.pc = "bug_creator"
  /\ \/ /\ ~ config.tickets
        /\ Succeeds("bug_creator")
        /\ UNCHANGED bugs
     \/ /\ config.tickets
        /\ bugs' = bugs + 1
        /\ run' = [Ran(run, "bug_creator", "none") EXCEPT !.answered = TRUE]
     \/ /\ config.tickets
        /\ bugs' \in {bugs, bugs + 1}
        /\ Fails("bug_creator")
  /\ UNCHANGED <<config, incident, call, pulls, drops>>
-----------------------------------------------------------------------------
(* The end of a run.                                                       *)

\* Variant: the old entries are mirrored again.
NewEntriesAll(r) == r.trace

\* The entries of this run: a fresh run mirrors all, the approved path those
\* after orig_trace_len.
NewEntries(r) == SubSeq(r.trace, r.base + 1, Len(r.trace))

Persist(path, ok) ==
  /\ run.pc = "persist" /\ run.path = path
  /\ row' = [row EXCEPT !.status = IF HasErrors(run) THEN "analysis_failed" ELSE ok]
  /\ stored' = run.trace
  /\ audit' = audit \o NewEntries(run)
  /\ run' = NoRun
  /\ UNCHANGED <<config, call, outside, drops>>

PersistAnalysis == Persist("analysis", "analyzed")

\* The exception is rolled back or the process dies: nothing is stored, what
\* was done outside stays.
Drop ==
  /\ run.pc # "idle" /\ drops < MaxDrops /\ MayHappen
  /\ drops' = drops + 1
  /\ run' = NoRun
  /\ UNCHANGED <<config, incident, call, outside>>
-----------------------------------------------------------------------------
(* The remediation of an approved incident.                                *)

\* The state handed to the agents: the row and the trace as they are now, no
\* code_fix_result, and n recommendations, those of whichever analysis the
\* relationship lists first (fleets leave several, see IncidentLifecycle).
LoadApproved(n) ==
  /\ run.pc = "idle" /\ row.status = "analyzed" /\ row.approval = "approved"
  /\ run' = [NoRun EXCEPT !.pc = "loaded", !.path = "remediation",
                          !.rank = row.rank, !.recs = n,
                          !.base = Len(stored), !.trace = stored]
  /\ UNCHANGED <<config, incident, call, outside, drops>>

\* The flush of status triaging takes the row lock.
BeginRemediation ==
  /\ run.pc = "loaded"
  /\ run' = [run EXCEPT !.pc = "pr_agent"]
  /\ UNCHANGED <<config, incident, call, outside, drops>>

\* pr_agent without a rank, without such a recommendation, without a repository.
NotApproved ==
  /\ run.rank = 0 /\ Succeeds("pr_agent")
  /\ UNCHANGED <<config, incident, call, outside, drops>>

\* Variant: the guard lets the agent return as if it had been skipped.
OutOfRangeUnreported ==
  /\ run.rank > run.recs /\ Succeeds("pr_agent")
  /\ UNCHANGED <<config, incident, call, outside, drops>>

OutOfRange ==
  /\ run.pc = "pr_agent" /\ run.rank > run.recs
  /\ run' = Ran(run, "pr_agent", "text")
  /\ UNCHANGED <<config, incident, call, outside, drops>>

NotConfigured ==
  /\ run.rank \in 1 .. run.recs /\ ~ config.scm /\ Succeeds("pr_agent")
  /\ UNCHANGED <<config, incident, call, outside, drops>>

\* Branch, push if there is a patch, draft pull request.  Any call may fail,
\* the last one also after the pull request exists.
OpenPullRequest ==
  /\ run.pc = "pr_agent" /\ run.rank \in 1 .. run.recs /\ config.scm
  /\ LET pull == [rank |-> run.rank, patched |-> run.fix, report |-> "none"] IN
     \/ /\ pulls' = Append(pulls, pull)
        /\ run' = [Ran(run, "pr_agent", "none") EXCEPT !.answered = TRUE]
     \/ /\ pulls' \in {pulls, Append(pulls, pull)}
        /\ Fails("pr_agent")
  /\ UNCHANGED <<config, incident, call, bugs, drops>>

\* Without a pr_url the validation agent returns an empty update.
NothingToValidate ==
  /\ run.pc = "validation_agent" /\ ~ run.answered
  /\ run' = [run EXCEPT !.pc = After("validation_agent")]
  /\ UNCHANGED <<config, incident, call, outside, drops>>

\* The worst of the static and syntax checks.  A pull request whose branch has
\* no commit of its own has no diff to find anything in, and a state without
\* code_fix_result no content to parse.
Worst(pull) == IF pull.patched THEN {"pass", "warn", "fail"} ELSE {"pass"}

\* A failed check blocks without asking the model; otherwise only a clean patch
\* of low risk and high confidence is approved.
OverallStatus(worst, lowRisk) ==
  CASE worst = "fail" -> "blocked"
    [] worst = "pass" /\ lowRisk -> "approved"
    [] OTHER -> "needs_review"

Reported(report) == [pulls EXCEPT ![Len(pulls)].report = report]
Assessed ==
  {Reported(OverallStatus(worst, lowRisk)) : worst \in Worst(pulls[Len(pulls)]), lowRisk \in BOOLEAN}

Validate ==
  /\ run.answered /\ Succeeds("validation_agent")
  /\ pulls' \in Assessed
  /\ UNCHANGED <<config, incident, call, bugs, drops>>

\* Variant: the exception is logged and not recorded.
ValidationFailsSilently ==
  /\ run.answered /\ Succeeds("validation_agent")
  /\ UNCHANGED <<config, incident, call, outside, drops>>

\* The diff or the model cannot be had, or the description cannot be written,
\* or was and the answer is lost.
ValidationFails ==
  /\ run.answered /\ Fails("validation_agent")
  /\ pulls' \in {pulls} \cup Assessed
  /\ UNCHANGED <<config, incident, call, bugs, drops>>

PersistRemediation == Persist("remediation", "pr_created")
-----------------------------------------------------------------------------
(* The decisions.                                                          *)

\* approve (rank r) needs an analyzed incident, reject (rank 0) nothing.
Read(c, r) ==
  /\ call[c].stage = "none" /\ MayHappen
  /\ r # 0 => row.status = "analyzed"
  /\ call' = [call EXCEPT ![c] = [NoCall EXCEPT !.stage = "row", !.rank = r,
                     !.seen = [approval |-> row.approval, rank |-> row.rank]]]
  /\ UNCHANGED <<config, incident, run, outside, drops>>

\* The newest analysis is read by a statement of its own, and may be of a run that was
\* committed after the row was read.
ReadAnalysis(c) ==
  /\ call[c].stage = "row"
  /\ call' = [call EXCEPT ![c].stage = "both", ![c].trace = stored]
  /\ UNCHANGED <<config, incident, run, outside, drops>>

\* A run holds the row from its first UPDATE to its end.
Locked == run.pc \notin {"idle", "loaded"}

\* An UPDATE carries the columns that differ from what the session read.
Written(old, seen, new) == IF seen = new THEN old ELSE new

Signed == [agent |-> Human, error |-> "none"]

\* Without an analysis only the audit row records the decision.
Commit(c) ==
  LET k == call[c]
      approval == IF k.rank = 0 THEN "rejected" ELSE "approved" IN
  /\ k.stage = "both" /\ ~ Locked
  /\ row' = [row EXCEPT !.approval = Written(@, k.seen.approval, approval),
                        !.rank = Written(@, k.seen.rank, k.rank)]
  /\ stored' = IF k.trace = <<>> THEN stored ELSE Append(k.trace, Signed)
  /\ audit' = Append(audit, Signed)
  /\ call' = [call EXCEPT ![c] = NoCall]
  /\ UNCHANGED <<config, run, outside, drops>>
-----------------------------------------------------------------------------
Analysis ==
  \/ BeginAnalysis \/ Triage \/ RootCause \/ CodeContext \/ Rag \/ FixPlanner
  \/ BugCreator \/ PersistAnalysis

Remediation ==
  \/ \E n \in 0 .. MaxRecs : LoadApproved(n)
  \/ BeginRemediation \/ NotApproved \/ OutOfRange \/ NotConfigured
  \/ OpenPullRequest \/ NothingToValidate \/ Validate \/ ValidationFails
  \/ PersistRemediation

Decision(c) == ReadAnalysis(c) \/ Commit(c) \/ \E r \in 0 .. MaxRecs : Read(c, r)

Next == Analysis \/ Remediation \/ Drop \/ \E c \in Reviewers : Decision(c)

Spec == Init /\ [][Next]_vars
-----------------------------------------------------------------------------
(* Correctness.                                                            *)

\* Every variable has the type its table, column or state field gives it.
TypeOK ==
  /\ config \in Config
  /\ row \in Row
  /\ stored \in Seq(Entry)
  /\ audit \in Seq(Entry)
  /\ run \in Run
  /\ call \in [Reviewers -> Call]
  /\ bugs \in Nat
  /\ pulls \in Seq(Pull)
  /\ drops \in 0 .. MaxDrops

Count(s, agent) == Cardinality({k \in DOMAIN s : s[k].agent = agent})

\* The audit log misses nothing and repeats nothing, while the document beside
\* it, written back whole, may lose entries: over analysis, decisions, remediation
\* and dropped runs, whatever the trace shows is in the log, and no agent's
\* entry is there twice.
AuditCoversTrace ==
  \A agent \in Agents \cup {Human} :
    /\ Count(stored, agent) <= Count(audit, agent)
    /\ agent \in Agents => Count(audit, agent) <= 1

\* The status and the audit log agree on failure, over both runs of an
\* incident: analysis_failed has an audited error to show for it, and an
\* audited error that says something has made the incident analysis_failed.
FailureIsAudited ==
  /\ row.status = "analysis_failed" => \E k \in DOMAIN audit : audit[k].error # "none"
  /\ (\E k \in DOMAIN audit : audit[k].error = "text") => row.status = "analysis_failed"

Order == <<"triage", "root_cause", "code_context", "rag", "fix_planner", "bug_creator",
           "pr_agent", "validation_agent">>
Entered(agent) == {k \in DOMAIN audit : audit[k].agent = agent}

\* An agent that fails stops nobody: the agents of the graph each have their
\* entry of an analysed incident and the PR agent has that of a closed one, and
\* the entries come in the order of the agents, whatever was dropped or decided
\* in between.
EveryAgentReports ==
  /\ row.status # "new" => \A agent \in Analysts : Entered(agent) # {}
  /\ row.status = "pr_created" => Entered("pr_agent") # {}
  /\ \A m, n \in DOMAIN Order : m < n =>
       \A k \in Entered(Order[m]), l \in Entered(Order[n]) : k < l

\* A run that is about to close the incident with a pull request has put a
\* validation report on that pull request.
ClosedIsValidated ==
  run.pc = "persist" /\ run.path = "remediation" /\ run.answered /\ ~ HasErrors(run) =>
    pulls[Len(pulls)].report # "none"

Ended == run.pc \in {"validation_agent", "persist"}
Outcome == INSTANCE AgentOutcome WITH
  phase <- IF run.pc = "idle" THEN "idle"
           ELSE IF run.path = "analysis" THEN IF Ended THEN "analysed" ELSE "analysing"
           ELSE IF Ended THEN "remediated" ELSE "remediating",
  rank <- run.rank,
  recs <- IF run.path = "remediation" \/ Ended THEN run.recs ELSE 0,
  known <- run.answered,
  failed <- Ended /\ HasErrors(run),
  pulls <- [k \in DOMAIN pulls |-> pulls[k].rank]

\* The agents keep the contract on which IncidentLifecycle takes a whole run of
\* them as one step.
ImplementsOutcome == Outcome!Spec
-----------------------------------------------------------------------------
(* Statements of the repository that the code does not keep.               *)

\* phase-35: the code fix agent prepares the change that the PR agent pushes;
\* a pull request carries the approved change.
PullCarriesFix == \A k \in DOMAIN pulls : pulls[k].patched
=============================================================================
