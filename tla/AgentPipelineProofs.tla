------------------------ MODULE AgentPipelineProofs ------------------------
(***************************************************************************)
(* Proofs about AgentPipeline, for any number of recommendations and       *)
(* reviewers and every bound: its invariants, that it implements           *)
(* AgentOutcome, and, from a second invariant over trace and audit log     *)
(* (TraceInv), that the log is whole, in order and without repetition.     *)
(***************************************************************************)
EXTENDS AgentPipeline, FiniteSetTheorems, SequenceTheorems, TLAPS

-----------------------------------------------------------------------------
(* The inductive invariant.                                                *)

\* Which path each node is on, and what a run cannot know before it gets there.
Placed(r) ==
  /\ r.pc = "idle" => r = NoRun
  /\ r.pc \in Analysts => r.path = "analysis" /\ ~ r.answered
  /\ r.pc \in {"loaded", "pr_agent", "validation_agent"} => r.path = "remediation"
  /\ r.pc \in {"loaded", "pr_agent"} => ~ r.answered /\ r.errors = <<>>
  /\ r.pc = "persist" => r.path \in {"analysis", "remediation"}
  /\ r.path = "analysis" => r.rank = 0

\* The errors of a run and the entries it added to the trace tell the same.
Honest(r) ==
  /\ r.base <= Len(r.trace)
  /\ r.errors # <<>> => \E k \in r.base + 1 .. Len(r.trace) : r.trace[k].error # "none"
  /\ \A k \in r.base + 1 .. Len(r.trace) : r.trace[k].error = "text" => r.errors # <<>>

\* An answered pull request is there, and is reported on before a run without errors ends.
Answered(r, ps) ==
  /\ r.pc = "validation_agent" /\ r.answered => ps # <<>>
  /\ r.pc = "persist" /\ r.path = "remediation" /\ r.answered /\ r.errors = <<>> =>
       ps[Len(ps)].report # "none"

\* The row has the status on which the run took it.
Taken(r, status) ==
  /\ r.path = "analysis" => status = "new"
  /\ r.path = "remediation" => status = "analyzed"

PipelineInv ==
  /\ TypeOK /\ FailureIsAudited
  /\ Placed(run) /\ Honest(run) /\ Answered(run, pulls) /\ Taken(run, row.status)
-----------------------------------------------------------------------------
(* Records.                                                                *)

LEMMA RunFields ==
  ASSUME NEW r \in Run
  PROVE  /\ r.pc \in Agents \cup {"idle", "loaded", "persist"}
         /\ r.path \in {"none", "analysis", "remediation"}
         /\ r.rank \in 0 .. MaxRecs /\ r.recs \in 0 .. MaxRecs /\ r.base \in Nat
         /\ r.trace \in Seq(Entry) /\ r.errors \in Seq(Agents)
         /\ r.fix \in BOOLEAN /\ r.answered \in BOOLEAN
         /\ Len(r.trace) \in Nat
BY DEF Run

LEMMA NoRunFields ==
  /\ NoRun \in Run /\ NoRun.pc = "idle" /\ NoRun.path = "none" /\ NoRun.rank = 0
  /\ NoRun.recs = 0 /\ NoRun.base = 0 /\ NoRun.trace = <<>> /\ NoRun.errors = <<>>
  /\ ~ NoRun.answered
<1>1. <<>> \in Seq(Entry) /\ <<>> \in Seq(Agents) BY EmptySeq
<1>2. 0 \in 0 .. MaxRecs BY PipelineAssumption
<1> QED BY <1>1, <1>2 DEF NoRun, Run

LEMMA NoRunIsSound ==
  ASSUME NEW ps, NEW status
  PROVE  Placed(NoRun) /\ Honest(NoRun) /\ Answered(NoRun, ps) /\ Taken(NoRun, status)
<1>1. Placed(NoRun) BY NoRunFields DEF Placed, Analysts
<1>2. Len(NoRun.trace) = 0 BY NoRunFields, EmptySeq
<1>3. Honest(NoRun) BY <1>2, NoRunFields DEF Honest
<1>4. Answered(NoRun, ps) BY NoRunFields DEF Answered
<1>5. Taken(NoRun, status) BY NoRunFields DEF Taken
<1> QED BY <1>1, <1>3, <1>4, <1>5

LEMMA AfterIsNode ==
  ASSUME NEW agent \in Agents
  PROVE  /\ After(agent) \in Agents \cup {"persist"}
         /\ agent \in Analysts \ {"bug_creator"} => After(agent) \in Analysts
         /\ agent \in {"bug_creator", "validation_agent"} => After(agent) = "persist"
         /\ agent = "pr_agent" => After(agent) = "validation_agent"
BY DEF Agents, Analysts, After

\* What an agent returns.
LEMMA RanFields ==
  ASSUME NEW r \in Run, NEW agent \in Agents, NEW error \in Errors
  PROVE  LET t == Ran(r, agent, error) IN
         /\ t \in Run /\ t.pc = After(agent) /\ t.path = r.path /\ t.rank = r.rank
         /\ t.recs = r.recs /\ t.base = r.base /\ t.fix = r.fix /\ t.answered = r.answered
         /\ t.trace = Append(r.trace, [agent |-> agent, error |-> error])
         /\ t.errors = IF Recorded(agent, error) THEN Append(r.errors, agent) ELSE r.errors
<1> DEFINE entry == [agent |-> agent, error |-> error]
           t == Ran(r, agent, error)
<1>1. /\ t.pc = After(agent) /\ t.path = r.path /\ t.rank = r.rank
      /\ t.recs = r.recs /\ t.base = r.base /\ t.fix = r.fix /\ t.answered = r.answered
      /\ t.trace = Append(r.trace, entry)
      /\ t.errors = IF Recorded(agent, error) THEN Append(r.errors, agent) ELSE r.errors
  BY DEF Ran, Run
<1>2. t = [r EXCEPT !.pc = t.pc, !.trace = t.trace, !.errors = t.errors] BY DEF Ran, Run
<1> HIDE DEF t
<1>3. entry \in Entry BY DEF Entry
<1>4. t.trace \in Seq(Entry) /\ t.errors \in Seq(Agents) BY <1>1, <1>3, RunFields
<1>5. t \in Run BY <1>1, <1>2, <1>4, AfterIsNode DEF Run
<1> QED BY <1>1, <1>5 DEF t

LEMMA RecordedFailures ==
  ASSUME NEW agent \in Agents, NEW error \in Failures(agent)
  PROVE  /\ error \in Errors /\ error # "none"
         /\ agent \notin Analysts => Recorded(agent, error)
BY DEF Failures, Errors, Recorded

\* An agent's entry and error keep errors and trace in step.
LEMMA RanIsHonest ==
  ASSUME NEW r \in Run, Honest(r), NEW agent \in Agents, NEW error \in Errors,
         NEW t \in Run, t.base = r.base,
         t.trace = Append(r.trace, [agent |-> agent, error |-> error]),
         t.errors = IF Recorded(agent, error) THEN Append(r.errors, agent) ELSE r.errors
  PROVE  Honest(t)
<1> DEFINE n == Len(r.trace) + 1
           entry == [agent |-> agent, error |-> error]
<1>1. entry \in Entry /\ entry.error = error BY DEF Entry
<1> HIDE DEF entry
<1>2. /\ Len(t.trace) = n /\ t.trace[n] = entry
      /\ \A k \in 1 .. Len(r.trace) : t.trace[k] = r.trace[k]
  BY <1>1, RunFields DEF entry
<1>3. r.base \in Nat /\ Len(r.trace) \in Nat BY RunFields
<1>4. t.base <= Len(t.trace) BY <1>2, <1>3 DEF Honest
<1>5. n \in t.base + 1 .. Len(t.trace) BY <1>2, <1>3 DEF Honest
<1>6. Recorded(agent, error) => t.errors # <<>> BY RunFields
<1>7. ASSUME t.errors # <<>>
      PROVE  \E k \in t.base + 1 .. Len(t.trace) : t.trace[k].error # "none"
  <2>1. CASE Recorded(agent, error)
    <3>1. error # "none" BY <2>1 DEF Recorded
    <3> QED BY <1>1, <1>2, <1>5, <3>1
  <2>2. CASE ~ Recorded(agent, error)
    <3>1. PICK k \in r.base + 1 .. Len(r.trace) : r.trace[k].error # "none"
      BY <1>7, <2>2 DEF Honest
    <3>2. k \in t.base + 1 .. Len(t.trace) /\ t.trace[k] = r.trace[k] BY <1>2, <1>3
    <3> QED BY <3>1, <3>2
  <2> QED BY <2>1, <2>2
<1>8. ASSUME NEW k \in t.base + 1 .. Len(t.trace), t.trace[k].error = "text"
      PROVE  t.errors # <<>>
  <2>1. CASE k = n
    <3>1. Recorded(agent, error) BY <1>1, <1>2, <1>8, <2>1 DEF Recorded
    <3> QED BY <1>6, <3>1
  <2>2. CASE k # n
    <3>1. k \in r.base + 1 .. Len(r.trace) BY <1>2, <1>3, <2>2
    <3>2. r.errors # <<>> BY <1>2, <1>3, <1>8, <3>1 DEF Honest
    <3> QED BY <1>6, <3>2
  <2> QED BY <2>1, <2>2
<1> QED BY <1>4, <1>7, <1>8 DEF Honest

LEMMA InitPipeline == Init => PipelineInv
<1> SUFFICES ASSUME Init PROVE PipelineInv OBVIOUS
<1>1. 0 \in 0 .. MaxRecs /\ 0 \in 0 .. MaxDrops BY PipelineAssumption
<1>2. NewRow \in Row BY <1>1 DEF NewRow, Row
<1>3. NoCall \in Call
  <2>1. <<>> \in Seq(Entry) BY EmptySeq
  <2> QED BY <2>1, <1>1 DEF NoCall, Call, Approval
<1>4. <<>> \in Seq(Entry) /\ <<>> \in Seq(Pull) BY EmptySeq
<1>5. TypeOK BY <1>1, <1>2, <1>3, <1>4, NoRunFields DEF Init, TypeOK
<1>6. FailureIsAudited
  <2>1. DOMAIN audit = {} BY DEF Init
  <2>2. row.status = "new" BY DEF Init, NewRow
  <2> QED BY <2>1, <2>2 DEF FailureIsAudited
<1> QED BY <1>5, <1>6, NoRunIsSound DEF Init, PipelineInv
-----------------------------------------------------------------------------
(* Steps of the agents.                                                    *)

LEMMA AgentMove ==
  ASSUME PipelineInv, NEW t \in Run, run' = t, t.path = run.path \/ run.pc = "idle",
         Placed(t), Honest(t), Answered(t, pulls'), Taken(t, row.status),
         pulls' \in Seq(Pull), bugs' \in Nat, UNCHANGED <<config, row, stored, audit, call, drops>>
  PROVE  PipelineInv'
<1>1. TypeOK' BY DEF PipelineInv, TypeOK
<1>2. FailureIsAudited' BY DEF PipelineInv, FailureIsAudited
<1> QED BY <1>1, <1>2 DEF PipelineInv

LEMMA RunningFacts ==
  ASSUME PipelineInv
  PROVE  /\ run \in Run /\ Placed(run) /\ Honest(run) /\ Answered(run, pulls)
         /\ Taken(run, row.status) /\ pulls \in Seq(Pull) /\ bugs \in Nat
         /\ row \in Row /\ row.status \in {"new", "analyzed", "pr_created", "analysis_failed"}
         /\ row.rank \in 0 .. MaxRecs /\ stored \in Seq(Entry) /\ audit \in Seq(Entry)
BY DEF PipelineInv, TypeOK, Row

\* An analyst returns, maybe with recommendations.
LEMMA AnalystMove ==
  ASSUME PipelineInv, NEW agent \in Analysts, run.pc = agent, NEW error \in Errors,
         NEW t \in Run, run' = t, t.pc = After(agent), t.path = run.path, t.rank = run.rank,
         t.base = run.base, t.answered => agent = "bug_creator",
         t.trace = Append(run.trace, [agent |-> agent, error |-> error]),
         t.errors = IF Recorded(agent, error) THEN Append(run.errors, agent) ELSE run.errors,
         bugs' \in Nat, UNCHANGED <<config, row, stored, audit, call, pulls, drops>>
  PROVE  PipelineInv'
<1>1. run.path = "analysis" /\ ~ run.answered /\ run.rank = 0
  BY RunningFacts DEF Placed
<1>2. agent \in Agents BY DEF Agents
<1>3. Honest(t) BY <1>2, RunningFacts, RanIsHonest
<1>4. t.pc \in Analysts \cup {"persist"} /\ (t.pc \in Analysts => agent # "bug_creator")
  BY <1>2, AfterIsNode DEF Analysts
<1>5. Placed(t) BY <1>1, <1>4 DEF Placed, Analysts
<1>6. Answered(t, pulls') BY <1>1, <1>4 DEF Answered, Analysts
<1>7. Taken(t, row.status) BY <1>1, RunningFacts DEF Taken
<1> QED BY <1>3, <1>5, <1>6, <1>7, RunningFacts, AgentMove

LEMMA AnalystsSound ==
  ASSUME PipelineInv, Triage \/ RootCause \/ CodeContext \/ Rag PROVE PipelineInv'
<1>1. PICK agent \in {"triage", "root_cause", "code_context", "rag"} :
        /\ Succeeds(agent) \/ Fails(agent)
        /\ UNCHANGED <<config, row, stored, audit, call, bugs, pulls, drops>>
  BY DEF Triage, RootCause, CodeContext, Rag, incident, outside
<1>2. agent \in Analysts /\ agent \in Agents /\ agent # "bug_creator" BY DEF Analysts, Agents
<1>3. PICK error \in Errors : run' = Ran(run, agent, error) /\ run.pc = agent
  <2>1. CASE Succeeds(agent) BY <2>1 DEF Succeeds, Errors
  <2>2. CASE Fails(agent) BY <1>2, <2>2, RecordedFailures DEF Fails
  <2> QED BY <1>1, <2>1, <2>2
<1> DEFINE t == Ran(run, agent, error)
<1>4. /\ t \in Run /\ t.pc = After(agent) /\ t.path = run.path /\ t.rank = run.rank
      /\ t.base = run.base /\ t.answered = run.answered
      /\ t.trace = Append(run.trace, [agent |-> agent, error |-> error])
      /\ t.errors = IF Recorded(agent, error) THEN Append(run.errors, agent) ELSE run.errors
  BY <1>2, RunningFacts, RanFields
<1>5. run' = t BY <1>3
<1> HIDE DEF t
<1>6. ~ t.answered BY <1>2, <1>3, <1>4, RunningFacts DEF Placed
<1> QED BY <1>1, <1>2, <1>3, <1>4, <1>5, <1>6, RunningFacts, AnalystMove

LEMMA FixPlannerSound == ASSUME PipelineInv, FixPlanner PROVE PipelineInv'
<1>1. PICK error \in Errors, n \in 0 .. MaxRecs :
        run' = [Ran(run, "fix_planner", error) EXCEPT !.recs = n] /\ run.pc = "fix_planner"
  <2>1. \A n \in 0 .. MaxRecs + 1 : Top(n) \in 0 .. MaxRecs BY PipelineAssumption DEF Top
  <2>2. 1 \in 0 .. MaxRecs BY PipelineAssumption
  <2> QED BY <2>1, <2>2 DEF FixPlanner, Errors
<1> DEFINE agent == "fix_planner"
           u == Ran(run, agent, error)
           t == [u EXCEPT !.recs = n]
<1>2. agent \in Analysts /\ agent \in Agents /\ agent # "bug_creator" BY DEF Analysts, Agents
<1>3. /\ u \in Run /\ u.pc = After(agent) /\ u.path = run.path /\ u.rank = run.rank
      /\ u.base = run.base /\ u.answered = run.answered
      /\ u.trace = Append(run.trace, [agent |-> agent, error |-> error])
      /\ u.errors = IF Recorded(agent, error) THEN Append(run.errors, agent) ELSE run.errors
  BY <1>2, RunningFacts, RanFields
<1>4. run' = t BY <1>1
<1> HIDE DEF u
<1>5. /\ t \in Run /\ t.pc = u.pc /\ t.path = u.path /\ t.rank = u.rank /\ t.base = u.base
      /\ t.answered = u.answered /\ t.trace = u.trace /\ t.errors = u.errors
  BY <1>3 DEF Run
<1> HIDE DEF t
<1>6. ~ t.answered BY <1>1, <1>2, <1>3, <1>5, RunningFacts DEF Placed
<1>7. UNCHANGED <<config, row, stored, audit, call, bugs, pulls, drops>>
  BY DEF FixPlanner, incident, outside
<1>8. /\ run.pc = agent /\ t.pc = After(agent) /\ t.path = run.path /\ t.rank = run.rank
      /\ t.base = run.base /\ t.trace = Append(run.trace, [agent |-> agent, error |-> error])
      /\ t.errors = IF Recorded(agent, error) THEN Append(run.errors, agent) ELSE run.errors
  BY <1>1, <1>3, <1>5
<1>9. bugs' \in Nat BY <1>7, RunningFacts
<1> HIDE DEF agent
<1> QED BY <1>2, <1>4, <1>5, <1>6, <1>7, <1>8, <1>9, AnalystMove

\* What the bug creator returns: with its answer or without.
LEMMA BugCreatorReturns ==
  ASSUME PipelineInv, BugCreator
  PROVE  \E error \in Errors, answered \in BOOLEAN :
           /\ run.pc = "bug_creator"
           /\ run' = [Ran(run, "bug_creator", error) EXCEPT !.answered = answered]
           /\ answered => error = "none" /\ bugs' = bugs + 1
           /\ bugs' \in {bugs, bugs + 1}
<1>1. "bug_creator" \in Agents /\ "none" \in Errors BY DEF Agents, Analysts, Errors
<1>2. run.pc = "bug_creator" /\ ~ run.answered BY RunningFacts DEF BugCreator, Placed, Analysts
<1>3. \A error \in Errors : Ran(run, "bug_creator", error)
                              = [Ran(run, "bug_creator", error) EXCEPT !.answered = FALSE]
  <2> SUFFICES ASSUME NEW error \in Errors
               PROVE  LET u == Ran(run, "bug_creator", error) IN u = [u EXCEPT !.answered = FALSE]
    OBVIOUS
  <2> DEFINE u == Ran(run, "bug_creator", error)
  <2>0. u \in Run /\ u.answered = run.answered BY <1>1, RunningFacts, RanFields
  <2>a. run.answered = FALSE BY <1>2, RunningFacts, RunFields
  <2>1. u \in Run /\ u.answered = FALSE BY <2>0, <2>a
  <2> HIDE DEF u
  <2>2. u = [u EXCEPT !.answered = FALSE] BY <2>1 DEF Run
  <2> QED BY <2>2 DEF u
<1>4. CASE Succeeds("bug_creator") /\ UNCHANGED bugs
  BY <1>1, <1>2, <1>3, <1>4 DEF Succeeds
<1>5. CASE bugs' = bugs + 1 /\ run' = [Ran(run, "bug_creator", "none") EXCEPT !.answered = TRUE]
  BY <1>1, <1>2, <1>5
<1>6. CASE bugs' \in {bugs, bugs + 1} /\ Fails("bug_creator")
  BY <1>1, <1>2, <1>3, <1>6, RecordedFailures DEF Fails
<1> QED BY <1>4, <1>5, <1>6 DEF BugCreator

LEMMA BugCreatorSound == ASSUME PipelineInv, BugCreator PROVE PipelineInv'
<1>1. PICK error \in Errors, answered \in BOOLEAN :
        /\ run.pc = "bug_creator"
        /\ run' = [Ran(run, "bug_creator", error) EXCEPT !.answered = answered]
        /\ bugs' \in {bugs, bugs + 1}
  BY BugCreatorReturns
<1> DEFINE agent == "bug_creator"
           u == Ran(run, agent, error)
           t == [u EXCEPT !.answered = answered]
<1>2. agent \in Analysts /\ agent \in Agents BY DEF Analysts, Agents
<1>3. /\ u \in Run /\ u.pc = After(agent) /\ u.path = run.path /\ u.rank = run.rank
      /\ u.base = run.base
      /\ u.trace = Append(run.trace, [agent |-> agent, error |-> error])
      /\ u.errors = IF Recorded(agent, error) THEN Append(run.errors, agent) ELSE run.errors
  BY <1>2, RunningFacts, RanFields
<1>4. run' = t BY <1>1
<1> HIDE DEF u
<1>5. /\ t \in Run /\ t.pc = u.pc /\ t.path = u.path /\ t.rank = u.rank /\ t.base = u.base
      /\ t.trace = u.trace /\ t.errors = u.errors
  BY <1>3 DEF Run
<1> HIDE DEF t
<1>6. UNCHANGED <<config, row, stored, audit, call, pulls, drops>> /\ bugs' \in Nat
  BY <1>1, RunningFacts DEF BugCreator, incident
<1> QED BY <1>1, <1>2, <1>3, <1>4, <1>5, <1>6, AnalystMove

LEMMA BeginAnalysisSound == ASSUME PipelineInv, BeginAnalysis PROVE PipelineInv'
<1> DEFINE t == [NoRun EXCEPT !.pc = "triage", !.path = "analysis"]
<1>1. /\ t \in Run /\ t.pc = "triage" /\ t.path = "analysis" /\ t.rank = 0 /\ ~ t.answered
      /\ t.base = 0 /\ t.trace = <<>> /\ t.errors = <<>>
  BY NoRunFields DEF Run, Agents, Analysts
<1>2. /\ run' = t /\ run.pc = "idle" /\ row.status = "new"
      /\ UNCHANGED <<config, row, stored, audit, call, bugs, pulls, drops>>
  BY DEF BeginAnalysis, incident, outside
<1> HIDE DEF t
<1>3. Len(t.trace) = 0 BY <1>1, EmptySeq
<1>4. Honest(t) BY <1>1, <1>3 DEF Honest
<1>5. Placed(t) BY <1>1 DEF Placed
<1>6. Answered(t, pulls') /\ Taken(t, row.status) BY <1>1, <1>2 DEF Answered, Taken
<1> QED BY <1>1, <1>2, <1>4, <1>5, <1>6, RunningFacts, AgentMove
-----------------------------------------------------------------------------
(* The approved path.                                                      *)

LEMMA LoadApprovedSound ==
  ASSUME PipelineInv, NEW n \in 0 .. MaxRecs, LoadApproved(n) PROVE PipelineInv'
<1> DEFINE t == [NoRun EXCEPT !.pc = "loaded", !.path = "remediation", !.rank = row.rank,
                              !.recs = n, !.base = Len(stored), !.trace = stored]
<1>1. /\ t.pc = "loaded" /\ t.path = "remediation" /\ ~ t.answered
      /\ t.base = Len(stored) /\ t.trace = stored /\ t.errors = <<>>
  BY DEF NoRun
<1>2. t \in Run
  <2>1. Len(stored) \in Nat BY RunningFacts
  <2>2. <<>> \in Seq(Agents) BY EmptySeq
  <2> QED BY <2>1, <2>2, RunningFacts DEF NoRun, Run
<1>3. /\ run' = t /\ run.pc = "idle" /\ row.status = "analyzed"
      /\ UNCHANGED <<config, row, stored, audit, call, bugs, pulls, drops>>
  BY DEF LoadApproved, incident, outside
<1> HIDE DEF t
<1>4. Honest(t) BY <1>1, RunningFacts DEF Honest
<1>5. Placed(t) BY <1>1 DEF Placed, Analysts
<1>6. Answered(t, pulls') /\ Taken(t, row.status) BY <1>1, <1>3 DEF Answered, Taken
<1> QED BY <1>2, <1>3, <1>4, <1>5, <1>6, RunningFacts, AgentMove

LEMMA BeginRemediationSound == ASSUME PipelineInv, BeginRemediation PROVE PipelineInv'
<1> DEFINE t == [run EXCEPT !.pc = "pr_agent"]
<1>1. /\ t \in Run /\ t.pc = "pr_agent" /\ t.path = run.path /\ t.answered = run.answered
      /\ t.base = run.base /\ t.trace = run.trace /\ t.errors = run.errors
  BY RunningFacts DEF Run, Agents
<1>2. /\ run' = t /\ run.pc = "loaded"
      /\ UNCHANGED <<config, row, stored, audit, call, bugs, pulls, drops>>
  BY DEF BeginRemediation, incident, outside
<1> HIDE DEF t
<1>3. run.path = "remediation" /\ ~ run.answered /\ run.errors = <<>>
  BY <1>2, RunningFacts DEF Placed
<1>4. Honest(t) BY <1>1, RunningFacts DEF Honest
<1>5. Placed(t) BY <1>1, <1>3 DEF Placed, Analysts
<1>6. Answered(t, pulls') /\ Taken(t, row.status)
  BY <1>1, <1>3, RunningFacts DEF Answered, Taken
<1> QED BY <1>1, <1>2, <1>4, <1>5, <1>6, RunningFacts, AgentMove

\* The pull request that the PR agent opens.
Draft == [rank |-> run.rank, patched |-> run.fix, report |-> "none"]

\* What the PR agent returns, and what it did by then.
PrReturn(error, answered, created) ==
  /\ run.pc = "pr_agent"
  /\ run' = [Ran(run, "pr_agent", error) EXCEPT !.answered = answered]
  /\ answered => created /\ error = "none"
  /\ created /\ ~ answered => error # "none"
  /\ created => run.rank \in 1 .. run.recs
  /\ run.rank = 0 => error = "none"
  /\ run.rank > run.recs => error # "none"
  /\ pulls' = IF created THEN Append(pulls, Draft) ELSE pulls

PrStep == NotApproved \/ OutOfRange \/ NotConfigured \/ OpenPullRequest

LEMMA PrAgentReturns ==
  ASSUME PipelineInv, PrStep
  PROVE  \E error \in Errors, answered, created \in BOOLEAN : PrReturn(error, answered, created)
<1>1. /\ "pr_agent" \in Agents /\ "pr_agent" \notin Analysts
      /\ "none" \in Errors /\ "text" \in Errors
  BY DEF Agents, Analysts, Errors
<1>2. run.pc = "pr_agent" /\ ~ run.answered
  BY RunningFacts
     DEF PrStep, NotApproved, OutOfRange, NotConfigured, OpenPullRequest, Succeeds, Placed
<1>3. ASSUME NEW error \in Errors
      PROVE  Ran(run, "pr_agent", error) = [Ran(run, "pr_agent", error) EXCEPT !.answered = FALSE]
  <2> DEFINE u == Ran(run, "pr_agent", error)
  <2>0. u \in Run /\ u.answered = run.answered BY <1>1, RunningFacts, RanFields
  <2>a. run.answered = FALSE BY <1>2, RunningFacts, RunFields
  <2>1. u \in Run /\ u.answered = FALSE BY <2>0, <2>a
  <2> HIDE DEF u
  <2>2. u = [u EXCEPT !.answered = FALSE] BY <2>1 DEF Run
  <2> QED BY <2>2 DEF u
<1>4. run.rank \in 0 .. MaxRecs /\ run.recs \in 0 .. MaxRecs /\ MaxRecs \in Nat
  BY RunningFacts, RunFields, PipelineAssumption
<1>5. CASE NotApproved
  <2>1. PrReturn("none", FALSE, FALSE)
    BY <1>1, <1>2, <1>3, <1>4, <1>5 DEF NotApproved, Succeeds, PrReturn, outside
  <2> QED BY <1>1, <2>1
<1>6. CASE OutOfRange
  <2>1. PrReturn("text", FALSE, FALSE)
    BY <1>1, <1>2, <1>3, <1>4, <1>6 DEF OutOfRange, PrReturn, outside
  <2> QED BY <1>1, <2>1
<1>7. CASE NotConfigured
  <2>1. PrReturn("none", FALSE, FALSE)
    BY <1>1, <1>2, <1>3, <1>4, <1>7 DEF NotConfigured, Succeeds, PrReturn, outside
  <2> QED BY <1>1, <2>1
<1>8. CASE OpenPullRequest
  <2>1. run.rank \in 1 .. run.recs BY <1>8 DEF OpenPullRequest
  <2>2. CASE /\ pulls' = Append(pulls, Draft)
             /\ run' = [Ran(run, "pr_agent", "none") EXCEPT !.answered = TRUE]
    <3>1. PrReturn("none", TRUE, TRUE) BY <1>2, <1>4, <2>1, <2>2 DEF PrReturn
    <3> QED BY <1>1, <3>1
  <2>3. CASE pulls' \in {pulls, Append(pulls, Draft)} /\ Fails("pr_agent")
    <3>1. PICK error \in Failures("pr_agent") : run' = Ran(run, "pr_agent", error)
      BY <2>3 DEF Fails
    <3>2. error \in Errors /\ error # "none" BY <1>1, RecordedFailures
    <3>3. PICK created \in BOOLEAN : pulls' = IF created THEN Append(pulls, Draft) ELSE pulls
      BY <2>3
    <3>4. PrReturn(error, FALSE, created)
      BY <1>2, <1>3, <1>4, <2>1, <3>1, <3>2, <3>3 DEF PrReturn
    <3> QED BY <3>2, <3>4
  <2> QED BY <1>8, <2>2, <2>3 DEF OpenPullRequest, Draft
<1> QED BY <1>5, <1>6, <1>7, <1>8 DEF PrStep

LEMMA PrAgentSound == ASSUME PipelineInv, PrStep PROVE PipelineInv'
<1>1. PICK error \in Errors, answered \in BOOLEAN, created \in BOOLEAN :
        PrReturn(error, answered, created)
  BY PrAgentReturns
<1> DEFINE u == Ran(run, "pr_agent", error)
           t == [u EXCEPT !.answered = answered]
<1>2. "pr_agent" \in Agents /\ run.pc = "pr_agent" BY <1>1 DEF Agents, PrReturn
<1>3. /\ u \in Run /\ u.pc = After("pr_agent") /\ u.path = run.path /\ u.base = run.base
      /\ u.trace = Append(run.trace, [agent |-> "pr_agent", error |-> error])
      /\ u.errors = IF Recorded("pr_agent", error) THEN Append(run.errors, "pr_agent") ELSE run.errors
  BY <1>2, RunningFacts, RanFields
<1>4. run' = t BY <1>1 DEF PrReturn
<1> HIDE DEF u
<1>5. /\ t \in Run /\ t.pc = u.pc /\ t.path = u.path /\ t.base = u.base
      /\ t.trace = u.trace /\ t.errors = u.errors /\ t.answered = answered
  BY <1>3 DEF Run
<1> HIDE DEF t
<1>6. t.pc = "validation_agent" /\ t.path = "remediation"
  BY <1>2, <1>3, <1>5, AfterIsNode, RunningFacts DEF Placed
<1>7. Honest(t) BY <1>2, <1>3, <1>5, RunningFacts, RanIsHonest
<1>8. Placed(t) BY <1>6 DEF Placed, Analysts
<1>9. pulls' \in Seq(Pull)
  <2>1. created => Draft \in Pull
    BY <1>1, RunningFacts, RunFields, PipelineAssumption DEF PrReturn, Draft, Pull, Reports
  <2> QED BY <1>1, <2>1, RunningFacts DEF PrReturn
<1>10. created => pulls' # <<>> BY <1>1, RunningFacts DEF PrReturn
<1>11. Answered(t, pulls') BY <1>1, <1>5, <1>6, <1>10 DEF Answered, PrReturn
<1>12. Taken(t, row.status) BY <1>3, <1>5, RunningFacts DEF Taken
<1>13. UNCHANGED <<config, row, stored, audit, call, drops, bugs>>
  BY DEF PrStep, NotApproved, OutOfRange, NotConfigured, OpenPullRequest, incident, outside
<1> QED BY <1>3, <1>4, <1>5, <1>7, <1>8, <1>9, <1>11, <1>12, <1>13, RunningFacts, AgentMove

LEMMA NothingToValidateSound == ASSUME PipelineInv, NothingToValidate PROVE PipelineInv'
<1> DEFINE t == [run EXCEPT !.pc = "persist"]
<1>1. /\ run' = t /\ run.pc = "validation_agent" /\ ~ run.answered
      /\ UNCHANGED <<config, row, stored, audit, call, bugs, pulls, drops>>
  BY DEF NothingToValidate, After, incident, outside
<1>2. /\ t \in Run /\ t.pc = "persist" /\ t.path = run.path /\ t.answered = run.answered
      /\ t.base = run.base /\ t.trace = run.trace /\ t.errors = run.errors
  BY RunningFacts DEF Run
<1> HIDE DEF t
<1>3. run.path = "remediation" BY <1>1, RunningFacts DEF Placed
<1>4. Honest(t) BY <1>2, RunningFacts DEF Honest
<1>5. Placed(t) BY <1>2, <1>3 DEF Placed, Analysts
<1>6. Answered(t, pulls') BY <1>1, <1>2 DEF Answered
<1>7. Taken(t, row.status) BY <1>2, RunningFacts DEF Taken
<1> QED BY <1>1, <1>2, <1>4, <1>5, <1>6, <1>7, RunningFacts, AgentMove

\* Writing a report changes no pull request but the last one, and there the report alone.
LEMMA AssessedFields ==
  ASSUME PipelineInv, pulls # <<>>, NEW ps \in Assessed
  PROVE  /\ ps \in Seq(Pull) /\ Len(ps) = Len(pulls) /\ ps[Len(ps)].report # "none"
         /\ \A k \in DOMAIN pulls : ps[k].rank = pulls[k].rank
         /\ DOMAIN ps = DOMAIN pulls
<1>1. PICK report \in {"approved", "needs_review", "blocked"} : ps = Reported(report)
  BY DEF Assessed, OverallStatus
<1>2. Len(pulls) \in 1 .. Len(pulls) /\ DOMAIN pulls = 1 .. Len(pulls)
  BY RunningFacts, EmptySeq, LenProperties
<1>3. \A k \in 1 .. Len(pulls) : pulls[k] \in Pull BY RunningFacts
<1> DEFINE n == Len(pulls)
           last == [pulls[n] EXCEPT !.report = report]
<1>4. last \in Pull /\ last.report = report /\ last.rank = pulls[n].rank
  BY <1>2, <1>3 DEF Pull, Reports
<1>5. ps = [pulls EXCEPT ![n] = last] BY <1>1 DEF Reported
<1> HIDE DEF last
<1>6. /\ ps \in Seq(Pull) /\ Len(ps) = n
      /\ \A k \in 1 .. n : ps[k] = IF k = n THEN last ELSE pulls[k]
  BY <1>2, <1>4, <1>5, RunningFacts, ExceptSeq
<1>7. DOMAIN ps = DOMAIN pulls BY <1>5
<1> QED BY <1>2, <1>4, <1>6, <1>7

\* What the validation agent returns for a pull request.
LEMMA ValidationReturns ==
  ASSUME PipelineInv, Validate \/ ValidationFails
  PROVE  \E error \in Errors :
           /\ run.pc = "validation_agent" /\ run.answered /\ pulls # <<>>
           /\ run' = Ran(run, "validation_agent", error)
           /\ pulls' \in {pulls} \cup Assessed
           /\ error = "none" => pulls' \in Assessed
           /\ error # "none" => Recorded("validation_agent", error)
<1>1. /\ "validation_agent" \in Agents /\ "validation_agent" \notin Analysts
      /\ "none" \in Errors
  BY DEF Agents, Analysts, Errors
<1>2. run.pc = "validation_agent" /\ run.answered BY DEF Validate, ValidationFails, Succeeds, Fails
<1>3. pulls # <<>> BY <1>2, RunningFacts DEF Answered
<1>4. CASE Validate BY <1>1, <1>2, <1>3, <1>4 DEF Validate, Succeeds
<1>5. CASE ValidationFails
  <2>1. PICK error \in Failures("validation_agent") : run' = Ran(run, "validation_agent", error)
    BY <1>5 DEF ValidationFails, Fails
  <2>2. error \in Errors /\ error # "none" /\ Recorded("validation_agent", error)
    BY <1>1, RecordedFailures
  <2> QED BY <1>2, <1>3, <1>5, <2>1, <2>2 DEF ValidationFails
<1> QED BY <1>4, <1>5

LEMMA ValidationSound == ASSUME PipelineInv, Validate \/ ValidationFails PROVE PipelineInv'
<1>1. PICK error \in Errors :
        /\ run.pc = "validation_agent" /\ run.answered /\ pulls # <<>>
        /\ run' = Ran(run, "validation_agent", error)
        /\ pulls' \in {pulls} \cup Assessed
        /\ error = "none" => pulls' \in Assessed
        /\ error # "none" => Recorded("validation_agent", error)
  BY ValidationReturns
<1> DEFINE t == Ran(run, "validation_agent", error)
<1>2. "validation_agent" \in Agents BY DEF Agents
<1>3. /\ t \in Run /\ t.pc = After("validation_agent") /\ t.path = run.path /\ t.base = run.base
      /\ t.trace = Append(run.trace, [agent |-> "validation_agent", error |-> error])
      /\ t.errors = IF Recorded("validation_agent", error)
                    THEN Append(run.errors, "validation_agent") ELSE run.errors
  BY <1>2, RunningFacts, RanFields
<1>4. run' = t BY <1>1
<1> HIDE DEF t
<1>5. t.pc = "persist" /\ t.path = "remediation"
  BY <1>1, <1>2, <1>3, AfterIsNode, RunningFacts DEF Placed
<1>6. Honest(t) BY <1>2, <1>3, RunningFacts, RanIsHonest
<1>7. Placed(t) BY <1>5 DEF Placed, Analysts
<1>8. pulls' \in Seq(Pull) BY <1>1, RunningFacts, AssessedFields
<1>9. Answered(t, pulls')
  <2>1. CASE error = "none" BY <1>1, <1>5, <2>1, AssessedFields DEF Answered
  <2>2. CASE error # "none"
    <3>a. t.errors = Append(run.errors, "validation_agent") BY <1>1, <1>3, <2>2
    <3>b. run.errors \in Seq(Agents) BY RunningFacts, RunFields
    <3>1. t.errors # <<>> BY <1>2, <3>a, <3>b
    <3> QED BY <1>5, <3>1 DEF Answered
  <2> QED BY <2>1, <2>2
<1>10. Taken(t, row.status) BY <1>3, RunningFacts DEF Taken
<1>11. UNCHANGED <<config, row, stored, audit, call, drops, bugs>>
  BY DEF Validate, ValidationFails, incident
<1> QED BY <1>3, <1>4, <1>6, <1>7, <1>8, <1>9, <1>10, <1>11, RunningFacts, AgentMove
-----------------------------------------------------------------------------
(* The end of a run, and the decisions.                                    *)

LEMMA NewEntriesAreOfRun ==
  ASSUME NEW r \in Run, Honest(r)
  PROVE  /\ NewEntries(r) \in Seq(Entry) /\ Len(NewEntries(r)) = Len(r.trace) - r.base
         /\ \A i \in 1 .. Len(r.trace) - r.base : NewEntries(r)[i] = r.trace[r.base + i]
<1>1. /\ r.base \in Nat /\ Len(r.trace) \in Nat /\ r.base <= Len(r.trace)
      /\ \A i \in 1 .. Len(r.trace) : r.trace[i] \in Entry
  BY RunFields DEF Honest
<1> DEFINE m == r.base + 1  n == Len(r.trace)
<1>2. /\ m \in Int /\ n \in Int /\ \A i \in m .. n : r.trace[i] \in Entry
      /\ n - m + 1 = n - r.base /\ (m <= n \/ n - r.base = 0)
      /\ \A i \in 1 .. n - r.base : m + i - 1 = r.base + i
  BY <1>1
<1> HIDE DEF m, n
<1>3. /\ SubSeq(r.trace, m, n) \in Seq(Entry)
      /\ Len(SubSeq(r.trace, m, n)) = IF m <= n THEN n - m + 1 ELSE 0
      /\ \A i \in 1 .. n - m + 1 : SubSeq(r.trace, m, n)[i] = r.trace[m + i - 1]
  BY <1>2, SubSeqProperties
<1>4. NewEntries(r) = SubSeq(r.trace, m, n) BY DEF NewEntries, m, n
<1> QED BY <1>2, <1>3, <1>4 DEF n

LEMMA PersistSound ==
  ASSUME PipelineInv, PersistAnalysis \/ PersistRemediation PROVE PipelineInv'
<1>1. PICK ok \in {"analyzed", "pr_created"} :
        /\ row' = [row EXCEPT !.status = IF HasErrors(run) THEN "analysis_failed" ELSE ok]
        /\ run.path \in {"analysis", "remediation"}
        /\ stored' = run.trace /\ audit' = audit \o NewEntries(run)
        /\ run' = NoRun /\ UNCHANGED <<config, call, bugs, pulls, drops>>
  BY DEF PersistAnalysis, PersistRemediation, Persist, outside
<1> DEFINE new == NewEntries(run)  n == Len(audit)
<1>2. /\ new \in Seq(Entry) /\ Len(new) = Len(run.trace) - run.base
      /\ \A i \in 1 .. Len(run.trace) - run.base : new[i] = run.trace[run.base + i]
  BY RunningFacts, NewEntriesAreOfRun
<1>3. audit' = audit \o new BY <1>1
<1> HIDE DEF new
<1>4. /\ audit' \in Seq(Entry) /\ Len(audit') = n + Len(new)
      /\ \A k \in 1 .. n : audit'[k] = audit[k]
      /\ \A i \in 1 .. Len(new) : audit'[n + i] = new[i]
  BY <1>2, <1>3, RunningFacts, ConcatProperties
<1>5. n \in Nat /\ Len(run.trace) \in Nat /\ run.base \in Nat /\ run.base <= Len(run.trace)
  BY RunningFacts, RunFields DEF Honest
<1>6. DOMAIN audit' = 1 .. n + Len(new) /\ DOMAIN audit = 1 .. n
  BY <1>4, RunningFacts, LenProperties
<1>7. /\ row' \in Row
      /\ row'.status = IF HasErrors(run) THEN "analysis_failed" ELSE ok
  BY <1>1, RunningFacts DEF Row
<1> HIDE DEF n
<1>8. ASSUME row'.status = "analysis_failed"
      PROVE  \E k \in DOMAIN audit' : audit'[k].error # "none"
  <2>1. run.errors # <<>> BY <1>7, <1>8 DEF HasErrors
  <2>2. PICK k \in run.base + 1 .. Len(run.trace) : run.trace[k].error # "none"
    BY <2>1, RunningFacts DEF Honest
  <2>3. PICK i \in 1 .. Len(run.trace) - run.base : k = run.base + i
    <3>1. k - run.base \in 1 .. Len(run.trace) - run.base /\ k = run.base + (k - run.base)
      BY <1>5
    <3> QED BY <3>1
  <2>4. i \in 1 .. Len(new) /\ new[i] = run.trace[k] BY <1>2, <2>3
  <2>5. n + i \in DOMAIN audit' BY <1>2, <1>5, <1>6, <2>4
  <2>6. audit'[n + i] = run.trace[k] BY <1>4, <2>4
  <2> QED BY <2>2, <2>5, <2>6
<1>9. ASSUME NEW k \in DOMAIN audit', audit'[k].error = "text"
      PROVE  row'.status = "analysis_failed"
  <2>1. CASE k \in 1 .. n
    <3>1. row.status = "analysis_failed" BY <1>4, <1>6, <1>9, <2>1 DEF PipelineInv, FailureIsAudited
    <3>2. row.status \in {"new", "analyzed"} BY <1>1, RunningFacts DEF Taken
    <3> QED BY <3>1, <3>2
  <2>2. CASE k \notin 1 .. n
    <3>1. PICK i \in 1 .. Len(new) : k = n + i
      <4>1. k - n \in 1 .. Len(new) /\ k = n + (k - n) BY <1>2, <1>5, <1>6, <2>2
      <4> QED BY <4>1
    <3>2. /\ run.base + i \in run.base + 1 .. Len(run.trace)
          /\ run.trace[run.base + i].error = "text"
      <4>1. i \in 1 .. Len(run.trace) - run.base BY <1>2
      <4>2. run.base + i \in run.base + 1 .. Len(run.trace) BY <1>5, <4>1
      <4>3. audit'[k] = new[i] BY <1>4, <3>1
      <4>4. new[i] = run.trace[run.base + i] BY <1>2, <4>1
      <4> QED BY <1>9, <4>2, <4>3, <4>4
    <3>3. HasErrors(run) BY <3>2, RunningFacts DEF Honest, HasErrors
    <3> QED BY <1>7, <3>3
  <2> QED BY <2>1, <2>2
<1>10. TypeOK' BY <1>1, <1>4, <1>7, RunningFacts, RunFields, NoRunFields DEF PipelineInv, TypeOK
<1>11. FailureIsAudited' BY <1>8, <1>9 DEF FailureIsAudited
<1> QED BY <1>1, <1>10, <1>11, NoRunIsSound DEF PipelineInv

LEMMA DropSound == ASSUME PipelineInv, Drop PROVE PipelineInv'
<1>1. run' = NoRun /\ UNCHANGED <<config, row, stored, audit, call, bugs, pulls>>
  BY DEF Drop, incident, outside
<1>2. drops' \in 0 .. MaxDrops BY PipelineAssumption DEF Drop, PipelineInv, TypeOK
<1>3. TypeOK' BY <1>1, <1>2, NoRunFields DEF PipelineInv, TypeOK
<1>4. FailureIsAudited' BY <1>1 DEF PipelineInv, FailureIsAudited
<1> QED BY <1>1, <1>3, <1>4, NoRunIsSound DEF PipelineInv

LEMMA NoCallTyped == NoCall \in Call
<1>1. <<>> \in Seq(Entry) /\ 0 \in 0 .. MaxRecs BY EmptySeq, PipelineAssumption
<1> QED BY <1>1 DEF NoCall, Call, Approval

LEMMA ReadSound ==
  ASSUME PipelineInv, NEW c \in Reviewers, NEW r \in 0 .. MaxRecs, Read(c, r)
  PROVE  PipelineInv'
<1>1. /\ call' = [call EXCEPT ![c] = [NoCall EXCEPT !.stage = "row", !.rank = r,
                              !.seen = [approval |-> row.approval, rank |-> row.rank]]]
      /\ UNCHANGED <<config, row, stored, audit, run, bugs, pulls, drops>>
  BY DEF Read, incident, outside
<1>2. [NoCall EXCEPT !.stage = "row", !.rank = r,
                     !.seen = [approval |-> row.approval, rank |-> row.rank]] \in Call
  BY NoCallTyped, RunningFacts DEF Call, Approval, Row
<1>3. TypeOK' BY <1>1, <1>2 DEF PipelineInv, TypeOK
<1> QED BY <1>1, <1>3 DEF PipelineInv, FailureIsAudited

LEMMA ReadAnalysisSound ==
  ASSUME PipelineInv, NEW c \in Reviewers, ReadAnalysis(c)
  PROVE  PipelineInv'
<1>1. /\ call' = [call EXCEPT ![c].stage = "both", ![c].trace = stored]
      /\ UNCHANGED <<config, row, stored, audit, run, bugs, pulls, drops>>
  BY DEF ReadAnalysis, incident, outside
<1>2. call \in [Reviewers -> Call] /\ stored \in Seq(Entry)
  BY RunningFacts DEF PipelineInv, TypeOK
<1>3. call' \in [Reviewers -> Call]
  <2>1. [call[c] EXCEPT !.stage = "both", !.trace = stored] \in Call
    BY <1>2 DEF Call
  <2>2. call' = [call EXCEPT ![c] = [call[c] EXCEPT !.stage = "both", !.trace = stored]]
    BY <1>1, <1>2 DEF Call
  <2> QED BY <1>2, <2>1, <2>2
<1>4. TypeOK' BY <1>1, <1>3 DEF PipelineInv, TypeOK
<1> QED BY <1>1, <1>4 DEF PipelineInv, FailureIsAudited

LEMMA CommitSound == ASSUME PipelineInv, NEW c \in Reviewers, Commit(c) PROVE PipelineInv'
<1> DEFINE k == call[c]
<1>1. k \in Call BY DEF PipelineInv, TypeOK
<1>2. /\ k.rank \in 0 .. MaxRecs /\ k.trace \in Seq(Entry) BY <1>1 DEF Call
<1>3. Signed \in Entry /\ Signed.error = "none" BY DEF Signed, Entry, Errors
<1>4. NoCall \in Call BY NoCallTyped
<1>5. PICK approval \in {"approved", "rejected"} :
        row' = [row EXCEPT !.approval = Written(@, k.seen.approval, approval),
                           !.rank = Written(@, k.seen.rank, k.rank)]
  BY DEF Commit
<1>6. /\ stored' \in {stored, Append(k.trace, Signed)} /\ audit' = Append(audit, Signed)
      /\ call' = [call EXCEPT ![c] = NoCall]
      /\ UNCHANGED <<config, run, bugs, pulls, drops>>
  BY DEF Commit, outside
<1> HIDE DEF k
<1>7. row' \in Row /\ row'.status = row.status
  <2>1. /\ Written(row.approval, k.seen.approval, approval) \in {"none", "approved", "rejected"}
        /\ Written(row.rank, k.seen.rank, k.rank) \in 0 .. MaxRecs
    BY <1>2, RunningFacts DEF Written, Row
  <2> QED BY <1>5, <2>1, RunningFacts DEF Row
<1>8. stored' \in Seq(Entry) /\ audit' \in Seq(Entry)
  <2>1. Append(k.trace, Signed) \in Seq(Entry) BY <1>2, <1>3
  <2>2. Append(audit, Signed) \in Seq(Entry) BY <1>3, RunningFacts
  <2> QED BY <1>6, <2>1, <2>2, RunningFacts
<1>9. TypeOK' BY <1>4, <1>6, <1>7, <1>8 DEF PipelineInv, TypeOK
<1>10. FailureIsAudited'
  <2>1. /\ DOMAIN audit = 1 .. Len(audit) /\ Len(audit) \in Nat
        /\ DOMAIN audit' = 1 .. Len(audit) + 1
        /\ \A j \in 1 .. Len(audit) : audit'[j] = audit[j]
        /\ audit'[Len(audit) + 1] = Signed
    BY <1>3, <1>6, RunningFacts
  <2>2. \A j \in DOMAIN audit' : j \in DOMAIN audit \/ audit'[j] = Signed BY <2>1
  <2>3. DOMAIN audit \subseteq DOMAIN audit' BY <2>1
  <2>4. row'.status = "analysis_failed" => \E j \in DOMAIN audit' : audit'[j].error # "none"
    BY <1>7, <2>1, <2>3 DEF PipelineInv, FailureIsAudited
  <2>5. (\E j \in DOMAIN audit' : audit'[j].error = "text") => row'.status = "analysis_failed"
    BY <1>3, <1>7, <2>1, <2>2 DEF PipelineInv, FailureIsAudited
  <2> QED BY <2>4, <2>5 DEF FailureIsAudited
<1>11. Placed(run') /\ Honest(run') /\ Answered(run', pulls') /\ Taken(run', row'.status)
  BY <1>6, <1>7, RunningFacts
<1> QED BY <1>9, <1>10, <1>11 DEF PipelineInv

LEMMA NextKeepsPipeline == PipelineInv /\ [Next]_vars => PipelineInv'
<1> SUFFICES ASSUME PipelineInv, [Next]_vars PROVE PipelineInv' OBVIOUS
<1>1. CASE Analysis
  BY <1>1, BeginAnalysisSound, AnalystsSound, FixPlannerSound, BugCreatorSound, PersistSound
     DEF Analysis
<1>2. CASE Remediation
  BY <1>2, LoadApprovedSound, BeginRemediationSound, PrAgentSound, NothingToValidateSound,
     ValidationSound, PersistSound
     DEF Remediation, PrStep
<1>3. CASE Drop BY <1>3, DropSound
<1>4. CASE \E c \in Reviewers : Decision(c)
  BY <1>4, ReadSound, ReadAnalysisSound, CommitSound DEF Decision
<1>5. CASE UNCHANGED vars BY <1>5 DEF vars, PipelineInv, TypeOK, FailureIsAudited
<1> QED BY <1>1, <1>2, <1>3, <1>4, <1>5 DEF Next

LEMMA PipelineInvariant == Spec => []PipelineInv
BY InitPipeline, NextKeepsPipeline, PTL DEF Spec
-----------------------------------------------------------------------------
(* The invariants.                                                         *)

\* Every variable has its type in every reachable state.
THEOREM TypeCorrect == Spec => []TypeOK
<1>1. PipelineInv => TypeOK BY DEF PipelineInv
<1> QED BY <1>1, PipelineInvariant, PTL

\* Over both runs of an incident, the runs that were dropped and the decisions taken
\* meanwhile, the status tells of a failure exactly if the audit log does.
THEOREM FailureAudited == Spec => []FailureIsAudited
<1>1. PipelineInv => FailureIsAudited BY DEF PipelineInv
<1> QED BY <1>1, PipelineInvariant, PTL

\* A run that closes its incident has reported on the pull request, also where answers were
\* lost and earlier runs left pull requests behind.
THEOREM ClosedValidated == Spec => []ClosedIsValidated
<1>1. PipelineInv => ClosedIsValidated
  BY DEF PipelineInv, Answered, ClosedIsValidated, HasErrors
<1> QED BY <1>1, PipelineInvariant, PTL
-----------------------------------------------------------------------------
(* The contract.  What AgentOutcome sees of a run.                         *)

EndedOf(r) == r.pc \in {"validation_agent", "persist"}
PhaseOf(r) ==
  IF r.pc = "idle" THEN "idle"
  ELSE IF r.path = "analysis" THEN IF EndedOf(r) THEN "analysed" ELSE "analysing"
  ELSE IF EndedOf(r) THEN "remediated" ELSE "remediating"
RecsOf(r) == IF r.path = "remediation" \/ EndedOf(r) THEN r.recs ELSE 0
FailedOf(r) == EndedOf(r) /\ HasErrors(r)
Ranks(ps) == [k \in DOMAIN ps |-> ps[k].rank]

LEMMA OutcomeStutters ==
  ASSUME PhaseOf(run') = PhaseOf(run), run'.rank = run.rank, RecsOf(run') = RecsOf(run),
         run'.answered = run.answered, FailedOf(run') = FailedOf(run), bugs' = bugs,
         Ranks(pulls') = Ranks(pulls)
  PROVE  UNCHANGED Outcome!outcomeVars
BY DEF Outcome!outcomeVars, PhaseOf, RecsOf, FailedOf, EndedOf, Ended, HasErrors, Ranks

LEMMA OutcomeBegins ==
  ASSUME PhaseOf(run) = "idle", ~ run'.answered, FailedOf(run') = FailedOf(run),
         run'.answered = run.answered, bugs' = bugs, Ranks(pulls') = Ranks(pulls),
         \/ PhaseOf(run') = "analysing" /\ run'.rank = run.rank /\ RecsOf(run') = RecsOf(run)
         \/ /\ PhaseOf(run') = "remediating"
            /\ run'.rank \in 0 .. MaxRecs /\ RecsOf(run') \in 0 .. MaxRecs
  PROVE  Outcome!Begin
BY DEF Outcome!Begin, PhaseOf, RecsOf, FailedOf, EndedOf, Ended, HasErrors, Ranks

LEMMA OutcomeAnalyses ==
  ASSUME PhaseOf(run) = "analysing", PhaseOf(run') = "analysed", RecsOf(run') \in 0 .. MaxRecs,
         run'.rank = run.rank, run'.answered \in BOOLEAN, bugs' \in {bugs, bugs + 1},
         run'.answered => bugs' = bugs + 1, Ranks(pulls') = Ranks(pulls)
  PROVE  Outcome!Analyse
<1>1. PICK created \in BOOLEAN : /\ bugs' = IF created THEN bugs + 1 ELSE bugs
                                 /\ run'.answered => created
  OBVIOUS
<1>2. FailedOf(run') \in BOOLEAN BY DEF FailedOf, EndedOf, HasErrors
<1> QED BY <1>1, <1>2
        DEF Outcome!Analyse, PhaseOf, RecsOf, FailedOf, EndedOf, Ended, HasErrors, Ranks

LEMMA OutcomeRemediates ==
  ASSUME PhaseOf(run) = "remediating", PhaseOf(run') = "remediated", run'.rank = run.rank,
         RecsOf(run) = run.recs, RecsOf(run') = run.recs, bugs' = bugs,
         run'.answered \in BOOLEAN, NEW created \in BOOLEAN,
         run'.answered => created, created /\ ~ run'.answered => FailedOf(run'),
         created => run.rank \in 1 .. run.recs, run.rank = 0 => ~ FailedOf(run'),
         run.rank > run.recs => FailedOf(run'),
         Ranks(pulls') = IF created THEN Append(Ranks(pulls), run.rank) ELSE Ranks(pulls)
  PROVE  Outcome!Remediate
<1>1. FailedOf(run') \in BOOLEAN BY DEF FailedOf, EndedOf, HasErrors
<1> QED BY <1>1 DEF Outcome!Remediate, PhaseOf, RecsOf, FailedOf, EndedOf, Ended, HasErrors, Ranks

LEMMA OutcomeValidates ==
  ASSUME PhaseOf(run) = "remediated", run.answered, FailedOf(run'),
         PhaseOf(run') = PhaseOf(run), run'.rank = run.rank, RecsOf(run') = RecsOf(run),
         run'.answered = run.answered, bugs' = bugs, Ranks(pulls') = Ranks(pulls)
  PROVE  Outcome!Validate
BY DEF Outcome!Validate, PhaseOf, RecsOf, FailedOf, EndedOf, Ended, HasErrors, Ranks

LEMMA OutcomeLeaves ==
  ASSUME PipelineInv, PhaseOf(run) # "idle", run' = NoRun, bugs' = bugs, pulls' = pulls
  PROVE  Outcome!Leave
<1>1. /\ PhaseOf(NoRun) = "idle" /\ NoRun.rank = 0 /\ RecsOf(NoRun) = 0
      /\ NoRun.answered = FALSE /\ FailedOf(NoRun) = FALSE
  <2>1. NoRun.answered = FALSE BY DEF NoRun
  <2> QED BY <2>1, NoRunFields DEF PhaseOf, RecsOf, FailedOf, EndedOf, HasErrors
<1> QED BY <1>1 DEF Outcome!Leave, PhaseOf, RecsOf, FailedOf, EndedOf, Ended, HasErrors, Ranks

LEMMA RanksProperties ==
  ASSUME NEW ps \in Seq(Pull), NEW pull \in Pull
  PROVE  Ranks(Append(ps, pull)) = Append(Ranks(ps), pull.rank)
<1>1. Len(ps) \in Nat /\ DOMAIN ps = 1 .. Len(ps) BY LenProperties
<1>2. /\ DOMAIN Append(ps, pull) = 1 .. Len(ps) + 1
      /\ \A k \in 1 .. Len(ps) : Append(ps, pull)[k] = ps[k]
      /\ Append(ps, pull)[Len(ps) + 1] = pull
  OBVIOUS
<1>3. Ranks(ps) \in Seq(Nat) /\ Len(Ranks(ps)) = Len(ps)
  <2>1. \A k \in 1 .. Len(ps) : ps[k] \in Pull OBVIOUS
  <2>2. \A pl \in Pull : pl.rank \in Nat BY PipelineAssumption DEF Pull
  <2>3. \A k \in 1 .. Len(ps) : ps[k].rank \in Nat BY <2>1, <2>2
  <2> QED BY <1>1, <2>3 DEF Ranks
<1>4. pull.rank \in Nat BY PipelineAssumption DEF Pull
<1>5. /\ DOMAIN Append(Ranks(ps), pull.rank) = 1 .. Len(ps) + 1
      /\ \A k \in 1 .. Len(ps) : Append(Ranks(ps), pull.rank)[k] = Ranks(ps)[k]
      /\ Append(Ranks(ps), pull.rank)[Len(ps) + 1] = pull.rank
  BY <1>3, <1>4
<1>6. Append(Ranks(ps), pull.rank) = [k \in 1 .. Len(ps) + 1 |-> Append(Ranks(ps), pull.rank)[k]]
  BY <1>3, <1>4, <1>5
<1>7. \A k \in 1 .. Len(ps) + 1 : Append(ps, pull)[k].rank = Append(Ranks(ps), pull.rank)[k]
  <2> SUFFICES ASSUME NEW k \in 1 .. Len(ps) + 1
               PROVE  Append(ps, pull)[k].rank = Append(Ranks(ps), pull.rank)[k]
    OBVIOUS
  <2>1. CASE k \in 1 .. Len(ps) BY <1>1, <1>2, <1>5, <2>1 DEF Ranks
  <2>2. CASE k = Len(ps) + 1 BY <1>2, <1>5, <2>2
  <2>3. k \in 1 .. Len(ps) \/ k = Len(ps) + 1
    <3>1. Len(ps) \in Nat BY <1>1
    <3> QED BY <3>1
  <2> QED BY <2>1, <2>2, <2>3
<1> QED BY <1>2, <1>6, <1>7 DEF Ranks

LEMMA InitOutcome == Init => Outcome!Init
<1> SUFFICES ASSUME Init PROVE Outcome!Init OBVIOUS
<1>1. NoRun.answered = FALSE BY DEF NoRun
<1>2. [k \in DOMAIN pulls |-> pulls[k].rank] = <<>> BY DEF Init
<1>3. ~ Ended BY NoRunFields DEF Init, Ended
<1> QED BY <1>1, <1>2, <1>3, NoRunFields DEF Init, Outcome!Init

\* An analyst whose end is not the end of the analysis shows nothing outside.
LEMMA AnalystStutters ==
  ASSUME PipelineInv, NEW agent \in Analysts \ {"bug_creator"}, run.pc = agent,
         run'.pc = After(agent), run'.path = run.path, run'.rank = run.rank,
         run'.answered = run.answered, UNCHANGED <<bugs, pulls>>
  PROVE  UNCHANGED Outcome!outcomeVars
<1>1. run.path = "analysis" /\ run.pc \in Analysts BY RunningFacts DEF Placed
<1>2. run'.pc \in Analysts BY AfterIsNode DEF Agents
<1>3. ~ EndedOf(run) /\ ~ EndedOf(run') /\ run.pc # "idle" /\ run'.pc # "idle"
  BY <1>1, <1>2 DEF EndedOf, Analysts
<1>4. /\ PhaseOf(run') = PhaseOf(run) /\ RecsOf(run') = RecsOf(run)
      /\ FailedOf(run') = FailedOf(run)
  BY <1>1, <1>3 DEF PhaseOf, RecsOf, FailedOf
<1> QED BY <1>4, OutcomeStutters

LEMMA AnalystsKeepOutcome ==
  ASSUME PipelineInv, Triage \/ RootCause \/ CodeContext \/ Rag
  PROVE  UNCHANGED Outcome!outcomeVars
<1>1. PICK agent \in {"triage", "root_cause", "code_context", "rag"} :
        (Succeeds(agent) \/ Fails(agent)) /\ UNCHANGED <<bugs, pulls>>
  BY DEF Triage, RootCause, CodeContext, Rag, outside
<1>2. agent \in Analysts \ {"bug_creator"} /\ agent \in Agents BY DEF Analysts, Agents
<1>3. PICK error \in Errors : run' = Ran(run, agent, error) /\ run.pc = agent
  <2>1. CASE Succeeds(agent) BY <2>1 DEF Succeeds, Errors
  <2>2. CASE Fails(agent) BY <1>2, <2>2, RecordedFailures DEF Fails
  <2> QED BY <1>1, <2>1, <2>2
<1> DEFINE t == Ran(run, agent, error)
<1>a. run \in Run BY RunningFacts
<1>b. t.pc = After(agent) /\ t.path = run.path /\ t.rank = run.rank /\ t.answered = run.answered
  BY <1>2, <1>a, RanFields
<1>c. run' = t BY <1>3
<1> HIDE DEF t
<1>4. /\ run'.pc = After(agent) /\ run'.path = run.path /\ run'.rank = run.rank
      /\ run'.answered = run.answered
  BY <1>b, <1>c
<1> QED BY <1>1, <1>2, <1>3, <1>4, AnalystStutters

LEMMA FixPlannerKeepsOutcome ==
  ASSUME PipelineInv, FixPlanner PROVE UNCHANGED Outcome!outcomeVars
<1>1. PICK error \in Errors, n \in Nat :
        run' = [Ran(run, "fix_planner", error) EXCEPT !.recs = n] /\ run.pc = "fix_planner"
  <2>1. \A n \in 0 .. MaxRecs + 1 : Top(n) \in Nat BY PipelineAssumption DEF Top
  <2> QED BY <2>1 DEF FixPlanner, Errors
<1> DEFINE u == Ran(run, "fix_planner", error)
<1>2. "fix_planner" \in Agents /\ "fix_planner" \in Analysts \ {"bug_creator"}
  BY DEF Analysts, Agents
<1>3. /\ u \in Run /\ u.pc = After("fix_planner") /\ u.path = run.path /\ u.rank = run.rank
      /\ u.answered = run.answered
  BY <1>2, RunningFacts, RanFields
<1>4. run' = [u EXCEPT !.recs = n] BY <1>1
<1> HIDE DEF u
<1>5. /\ run'.pc = u.pc /\ run'.path = u.path /\ run'.rank = u.rank /\ run'.answered = u.answered
  BY <1>3, <1>4 DEF Run
<1>6. UNCHANGED <<bugs, pulls>> BY DEF FixPlanner, outside
<1> QED BY <1>1, <1>2, <1>3, <1>5, <1>6, AnalystStutters

LEMMA BugCreatorAnalyses == ASSUME PipelineInv, BugCreator PROVE Outcome!Analyse
<1>1. PICK error \in Errors, answered \in BOOLEAN :
        /\ run.pc = "bug_creator"
        /\ run' = [Ran(run, "bug_creator", error) EXCEPT !.answered = answered]
        /\ answered => bugs' = bugs + 1
        /\ bugs' \in {bugs, bugs + 1}
  BY BugCreatorReturns
<1> DEFINE u == Ran(run, "bug_creator", error)
<1>2. "bug_creator" \in Agents /\ "bug_creator" \in Analysts BY DEF Agents, Analysts
<1>a. run \in Run /\ After("bug_creator") = "persist" BY <1>2, RunningFacts, AfterIsNode
<1>3. /\ u \in Run /\ u.pc = "persist" /\ u.path = run.path /\ u.rank = run.rank
      /\ u.recs = run.recs
  BY <1>2, <1>a, RanFields
<1>4. run' = [u EXCEPT !.answered = answered] BY <1>1
<1> HIDE DEF u
<1>5. /\ run'.pc = "persist" /\ run'.path = run.path /\ run'.rank = run.rank
      /\ run'.recs = run.recs /\ run'.answered = answered
  BY <1>3, <1>4 DEF Run
<1>6. run.path = "analysis" BY <1>1, <1>2, RunningFacts DEF Placed
<1>7. PhaseOf(run) = "analysing" /\ PhaseOf(run') = "analysed"
  BY <1>1, <1>5, <1>6 DEF PhaseOf, EndedOf
<1>8. RecsOf(run') \in 0 .. MaxRecs BY <1>5, RunningFacts, RunFields DEF RecsOf, EndedOf
<1>9. pulls' = pulls BY DEF BugCreator
<1> QED BY <1>1, <1>5, <1>7, <1>8, <1>9, OutcomeAnalyses

LEMMA RunBegins ==
  ASSUME PipelineInv, run.pc = "idle", UNCHANGED <<bugs, pulls>>, ~ run'.answered,
         run'.answered = run.answered,
         \/ run'.pc = "triage" /\ run'.path = "analysis" /\ run'.rank = 0
         \/ /\ run'.pc = "loaded" /\ run'.path = "remediation"
            /\ run'.rank \in 0 .. MaxRecs /\ run'.recs \in 0 .. MaxRecs
  PROVE  Outcome!Begin
<1>1. run = NoRun BY RunningFacts DEF Placed
<1>2. PhaseOf(run) = "idle" /\ RecsOf(run) = 0 /\ run.rank = 0 /\ FailedOf(run) = FALSE
  BY <1>1, NoRunFields DEF PhaseOf, RecsOf, FailedOf, EndedOf
<1>3. ~ EndedOf(run') /\ run'.pc # "idle" BY DEF EndedOf
<1>4. FailedOf(run') = FALSE BY <1>3 DEF FailedOf
<1>5. CASE run'.path = "analysis"
  <2>1. PhaseOf(run') = "analysing" /\ RecsOf(run') = 0 BY <1>3, <1>5 DEF PhaseOf, RecsOf
  <2> QED BY <1>2, <1>4, <1>5, <2>1, OutcomeBegins
<1>6. CASE run'.path = "remediation"
  <2>1. PhaseOf(run') = "remediating" /\ RecsOf(run') = run'.recs
    BY <1>3, <1>6 DEF PhaseOf, RecsOf
  <2> QED BY <1>2, <1>4, <1>6, <2>1, OutcomeBegins
<1> QED BY <1>5, <1>6

LEMMA BeginsOutcome ==
  ASSUME PipelineInv, BeginAnalysis \/ \E n \in 0 .. MaxRecs : LoadApproved(n)
  PROVE  Outcome!Begin
<1>1. run.pc = "idle" /\ UNCHANGED <<bugs, pulls>> BY DEF BeginAnalysis, LoadApproved, outside
<1>2. run.answered = FALSE
  <2>1. run = NoRun BY <1>1, RunningFacts DEF Placed
  <2> QED BY <2>1 DEF NoRun
<1>3. CASE BeginAnalysis
  <2>1. /\ run'.pc = "triage" /\ run'.path = "analysis" /\ run'.rank = 0
        /\ run'.answered = FALSE
    BY <1>3 DEF BeginAnalysis, NoRun
  <2> QED BY <1>1, <1>2, <2>1, RunBegins
<1>4. ASSUME NEW n \in 0 .. MaxRecs, LoadApproved(n) PROVE Outcome!Begin
  <2>1. /\ run'.pc = "loaded" /\ run'.path = "remediation" /\ run'.rank = row.rank
        /\ run'.recs = n /\ run'.answered = FALSE
    BY <1>4 DEF LoadApproved, NoRun
  <2> QED BY <1>1, <1>2, <2>1, RunningFacts, RunBegins
<1> QED BY <1>3, <1>4

LEMMA BeginRemediationKeepsOutcome ==
  ASSUME PipelineInv, BeginRemediation PROVE UNCHANGED Outcome!outcomeVars
<1>1. /\ run' = [run EXCEPT !.pc = "pr_agent"] /\ run.pc = "loaded" /\ UNCHANGED <<bugs, pulls>>
  BY DEF BeginRemediation, outside
<1>2. /\ run'.pc = "pr_agent" /\ run'.path = run.path /\ run'.answered = run.answered
      /\ run'.rank = run.rank /\ run'.recs = run.recs
  BY <1>1, RunningFacts DEF Run
<1>3. run.path = "remediation" BY <1>1, RunningFacts DEF Placed
<1>4. /\ PhaseOf(run') = PhaseOf(run) /\ RecsOf(run') = RecsOf(run)
      /\ FailedOf(run') = FailedOf(run)
  BY <1>1, <1>2, <1>3 DEF PhaseOf, RecsOf, FailedOf, EndedOf
<1> QED BY <1>1, <1>2, <1>4, OutcomeStutters

LEMMA PrAgentRemediates == ASSUME PipelineInv, PrStep PROVE Outcome!Remediate
<1>1. PICK error \in Errors, answered \in BOOLEAN, created \in BOOLEAN :
        PrReturn(error, answered, created)
  BY PrAgentReturns
<1> DEFINE u == Ran(run, "pr_agent", error)
<1>2. "pr_agent" \in Agents /\ "pr_agent" \notin Analysts BY DEF Agents, Analysts
<1>a. run \in Run /\ After("pr_agent") = "validation_agent" BY <1>2, RunningFacts, AfterIsNode
<1>3. /\ u \in Run /\ u.pc = "validation_agent" /\ u.path = run.path /\ u.rank = run.rank
      /\ u.recs = run.recs
      /\ u.errors = IF Recorded("pr_agent", error) THEN Append(run.errors, "pr_agent") ELSE run.errors
  BY <1>2, <1>a, RanFields
<1>4. run' = [u EXCEPT !.answered = answered] BY <1>1 DEF PrReturn
<1> HIDE DEF u
<1>5. /\ run'.pc = "validation_agent" /\ run'.path = run.path /\ run'.rank = run.rank
      /\ run'.recs = run.recs /\ run'.answered = answered /\ run'.errors = u.errors
  BY <1>3, <1>4 DEF Run
<1>6. run.pc = "pr_agent" /\ run.path = "remediation" /\ run.errors = <<>>
  BY <1>1, RunningFacts DEF PrReturn, Placed
<1>7. /\ PhaseOf(run) = "remediating" /\ PhaseOf(run') = "remediated"
      /\ RecsOf(run) = run.recs /\ RecsOf(run') = run.recs
  BY <1>5, <1>6 DEF PhaseOf, EndedOf, RecsOf
<1>8. FailedOf(run') <=> error # "none"
  <2>1. Recorded("pr_agent", error) <=> error # "none" BY <1>2 DEF Recorded, Errors
  <2>a. run.errors \in Seq(Agents) BY RunningFacts, RunFields
  <2>2. Append(run.errors, "pr_agent") # <<>> BY <1>2, <2>a
  <2>3. HasErrors(run') <=> error # "none" BY <1>3, <1>5, <1>6, <2>1, <2>2 DEF HasErrors
  <2> QED BY <1>5, <2>3 DEF FailedOf, EndedOf
<1>9. Ranks(pulls') = IF created THEN Append(Ranks(pulls), run.rank) ELSE Ranks(pulls)
  <2>1. created => Draft \in Pull /\ Draft.rank = run.rank
    BY <1>1, RunningFacts, RunFields, PipelineAssumption DEF PrReturn, Draft, Pull, Reports
  <2> QED BY <1>1, <2>1, RunningFacts, RanksProperties DEF PrReturn
<1>10. bugs' = bugs
  BY DEF PrStep, NotApproved, OutOfRange, NotConfigured, OpenPullRequest, outside
<1>11. /\ answered => created
       /\ created /\ ~ answered => error # "none"
       /\ created => run.rank \in 1 .. run.recs
       /\ run.rank = 0 => error = "none"
       /\ run.rank > run.recs => error # "none"
  BY <1>1 DEF PrReturn
<1> QED BY <1>5, <1>7, <1>8, <1>9, <1>10, <1>11, OutcomeRemediates

LEMMA NothingToValidateKeepsOutcome ==
  ASSUME PipelineInv, NothingToValidate PROVE UNCHANGED Outcome!outcomeVars
<1>1. /\ run' = [run EXCEPT !.pc = "persist"] /\ run.pc = "validation_agent"
      /\ UNCHANGED <<bugs, pulls>>
  BY DEF NothingToValidate, After, outside
<1>2. /\ run'.pc = "persist" /\ run'.path = run.path /\ run'.answered = run.answered
      /\ run'.rank = run.rank /\ run'.recs = run.recs /\ run'.errors = run.errors
  BY <1>1, RunningFacts DEF Run
<1>3. /\ PhaseOf(run') = PhaseOf(run) /\ RecsOf(run') = RecsOf(run)
      /\ FailedOf(run') = FailedOf(run)
  BY <1>1, <1>2 DEF PhaseOf, RecsOf, FailedOf, EndedOf, HasErrors
<1> QED BY <1>1, <1>2, <1>3, OutcomeStutters

\* The report is none of the contract's business, the error is.
LEMMA ValidationKeepsOutcome ==
  ASSUME PipelineInv, Validate \/ ValidationFails
  PROVE  Outcome!Validate \/ UNCHANGED Outcome!outcomeVars
<1>1. PICK error \in Errors :
        /\ run.pc = "validation_agent" /\ run.answered /\ pulls # <<>>
        /\ run' = Ran(run, "validation_agent", error)
        /\ pulls' \in {pulls} \cup Assessed
        /\ error # "none" => Recorded("validation_agent", error)
  BY ValidationReturns
<1> DEFINE t == Ran(run, "validation_agent", error)
<1>2. "validation_agent" \in Agents BY DEF Agents
<1>a. run \in Run /\ After("validation_agent") = "persist" BY <1>2, RunningFacts, AfterIsNode
<1>b. /\ t.pc = "persist" /\ t.path = run.path /\ t.answered = run.answered
      /\ t.rank = run.rank /\ t.recs = run.recs
      /\ t.errors = IF Recorded("validation_agent", error)
                    THEN Append(run.errors, "validation_agent") ELSE run.errors
  BY <1>2, <1>a, RanFields
<1>c. run' = t BY <1>1
<1> HIDE DEF t
<1>3. /\ run'.pc = "persist" /\ run'.path = run.path /\ run'.answered = run.answered
      /\ run'.rank = run.rank /\ run'.recs = run.recs
      /\ run'.errors = IF Recorded("validation_agent", error)
                       THEN Append(run.errors, "validation_agent") ELSE run.errors
  BY <1>b, <1>c
<1>4. run.path = "remediation" BY <1>1, RunningFacts DEF Placed
<1>5. PhaseOf(run) = "remediated" /\ PhaseOf(run') = "remediated" /\ RecsOf(run') = RecsOf(run)
  BY <1>1, <1>3, <1>4 DEF PhaseOf, RecsOf, EndedOf
<1>6. bugs' = bugs BY DEF Validate, ValidationFails
<1>7. Ranks(pulls') = Ranks(pulls)
  <2>1. CASE pulls' = pulls BY <2>1
  <2>2. CASE pulls' \in Assessed BY <1>1, <2>2, AssessedFields DEF Ranks
  <2> QED BY <1>1, <2>1, <2>2
<1>8. CASE error = "none"
  <2>1. run'.errors = run.errors BY <1>3, <1>8 DEF Recorded
  <2>2. FailedOf(run') = FailedOf(run) BY <1>1, <1>3, <2>1 DEF FailedOf, EndedOf, HasErrors
  <2> QED BY <1>3, <1>5, <1>6, <1>7, <2>2, OutcomeStutters
<1>9. CASE error # "none"
  <2>1. run'.errors = Append(run.errors, "validation_agent") BY <1>1, <1>3, <1>9
  <2>a. run.errors \in Seq(Agents) BY RunningFacts, RunFields
  <2>2. run'.errors # <<>> BY <1>2, <2>1, <2>a
  <2>3. FailedOf(run') BY <1>3, <2>2 DEF FailedOf, EndedOf, HasErrors
  <2> QED BY <1>1, <1>3, <1>5, <1>6, <1>7, <2>3, OutcomeValidates
<1> QED BY <1>8, <1>9

LEMMA EndsOutcome ==
  ASSUME PipelineInv, PersistAnalysis \/ PersistRemediation \/ Drop PROVE Outcome!Leave
<1>1. run.pc # "idle" /\ run' = NoRun /\ UNCHANGED <<bugs, pulls>>
  BY DEF PersistAnalysis, PersistRemediation, Persist, Drop, outside
<1>2. PhaseOf(run) # "idle" BY <1>1 DEF PhaseOf
<1> QED BY <1>1, <1>2, OutcomeLeaves

LEMMA UnseenSteps ==
  ASSUME UNCHANGED <<run, bugs, pulls>> PROVE UNCHANGED Outcome!outcomeVars
BY DEF Outcome!outcomeVars, Ended, HasErrors

LEMMA NextKeepsOutcome == PipelineInv /\ [Next]_vars => [Outcome!Next]_(Outcome!outcomeVars)
<1> SUFFICES ASSUME PipelineInv, [Next]_vars
             PROVE  Outcome!Next \/ UNCHANGED Outcome!outcomeVars
  OBVIOUS
<1>1. CASE Analysis
  BY <1>1, BeginsOutcome, AnalystsKeepOutcome, FixPlannerKeepsOutcome, BugCreatorAnalyses,
     EndsOutcome
     DEF Analysis, Outcome!Next
<1>2. CASE Remediation
  BY <1>2, BeginsOutcome, BeginRemediationKeepsOutcome, PrAgentRemediates,
     NothingToValidateKeepsOutcome, ValidationKeepsOutcome, EndsOutcome
     DEF Remediation, PrStep, Outcome!Next
<1>3. CASE Drop BY <1>3, EndsOutcome DEF Outcome!Next
<1>4. CASE \E c \in Reviewers : Decision(c)
  BY <1>4, UnseenSteps DEF Decision, Read, ReadAnalysis, Commit, outside
<1>5. CASE UNCHANGED vars BY <1>5, UnseenSteps DEF vars
<1> QED BY <1>1, <1>2, <1>3, <1>4, <1>5 DEF Next

\* The agents keep the contract on which the fleet's module takes their runs as single
\* steps, whatever fails inside and whatever is decided meanwhile.
THEOREM OutcomeKept == Spec => ImplementsOutcome
BY InitOutcome, PipelineInvariant, NextKeepsOutcome, PTL DEF Spec, ImplementsOutcome, Outcome!Spec
-----------------------------------------------------------------------------
(* The trace and the audit log.                                            *)

\* The position of an agent in the order of the agents.
Place(agent) ==
  CASE agent = "triage" -> 1
    [] agent = "root_cause" -> 2
    [] agent = "code_context" -> 3
    [] agent = "rag" -> 4
    [] agent = "fix_planner" -> 5
    [] agent = "bug_creator" -> 6
    [] agent = "pr_agent" -> 7
    [] agent = "validation_agent" -> 8

Known(s, agent) == \E k \in DOMAIN s : s[k].agent = agent

\* The entries of the agents, those of reviewers aside: in order and each once.
Increasing(s) ==
  \A k, l \in DOMAIN s : k < l /\ s[k].agent # Human /\ s[l].agent # Human =>
    Place(s[k].agent) < Place(s[l].agent)

Below(s, n) == \A k \in DOMAIN s : s[k].agent # Human => Place(s[k].agent) < n

\* What a document (stored, or read by a reviewer) owes to the log.
Mirrored(s, log) ==
  /\ Increasing(s)
  /\ \A k \in DOMAIN s : Known(log, s[k].agent)
  /\ Count(s, Human) <= Count(log, Human)

\* The position of the next agent to report, and of the first one of the path.
Due(r) ==
  IF r.pc \in Agents THEN Place(r.pc)
  ELSE IF r.pc = "persist" /\ r.path = "remediation" THEN 9 ELSE 7
First(r) == IF r.path = "remediation" THEN 7 ELSE 1

\* The trace of a run: what it was given is in the log, what it added is of its own
\* agents, and no agent of an analysis that is past has been left out.
Traced(r, log) ==
  /\ Increasing(r.trace) /\ Below(r.trace, Due(r))
  /\ \A k \in 1 .. r.base : Known(log, r.trace[k].agent)
  /\ \A k \in r.base + 1 .. Len(r.trace) :
       r.trace[k].agent # Human /\ Place(r.trace[k].agent) >= First(r)
  /\ Count(r.trace, Human) <= Count(log, Human)
  /\ r.path = "analysis" =>
       /\ r.base = 0
       /\ \A agent \in Analysts : Place(agent) < Due(r) => Known(r.trace, agent)
  /\ r.path = "remediation" /\ r.pc \in {"validation_agent", "persist"} =>
       \E k \in r.base + 1 .. Len(r.trace) : r.trace[k].agent = "pr_agent"

\* The log itself, in step with the status.
Logged(log, status) ==
  /\ Increasing(log)
  /\ status = "new" => Below(log, 1)
  /\ status = "analyzed" => Below(log, 7)
  /\ status # "new" => \A agent \in Analysts : Known(log, agent)
  /\ status = "pr_created" => Known(log, "pr_agent")

TraceInv ==
  /\ Logged(audit, row.status) /\ Mirrored(stored, audit) /\ Traced(run, audit)
  /\ \A c \in Reviewers : Mirrored(call[c].trace, audit)

\* A sequence that has one more entry, and one that has more entries.
LEMMA AppendedEntry ==
  ASSUME NEW s \in Seq(Entry), NEW e \in Entry
  PROVE  LET t == Append(s, e)  n == Len(s) + 1 IN
         /\ t \in Seq(Entry) /\ Len(t) = n /\ n \in Nat /\ Len(s) \in Nat
         /\ DOMAIN t = 1 .. n /\ DOMAIN s = 1 .. Len(s)
         /\ t[n] = e /\ \A k \in 1 .. Len(s) : t[k] = s[k]
BY AppendProperties, LenProperties

LEMMA JoinedEntries ==
  ASSUME NEW s \in Seq(Entry), NEW new \in Seq(Entry)
  PROVE  LET t == s \o new IN
         /\ t \in Seq(Entry) /\ Len(s) \in Nat /\ Len(new) \in Nat
         /\ DOMAIN t = 1 .. Len(s) + Len(new)
         /\ DOMAIN s = 1 .. Len(s) /\ DOMAIN new = 1 .. Len(new)
         /\ \A k \in 1 .. Len(s) : t[k] = s[k]
         /\ \A k \in 1 .. Len(new) : t[Len(s) + k] = new[k]
<1> DEFINE t == s \o new
<1>1. /\ t \in Seq(Entry) /\ Len(t) = Len(s) + Len(new)
      /\ \A k \in 1 .. Len(s) : t[k] = s[k]
      /\ \A k \in 1 .. Len(new) : t[Len(s) + k] = new[k]
  BY ConcatProperties
<1> HIDE DEF t
<1>2. /\ DOMAIN t = 1 .. Len(t) /\ DOMAIN s = 1 .. Len(s) /\ DOMAIN new = 1 .. Len(new)
      /\ Len(s) \in Nat /\ Len(new) \in Nat
  BY <1>1, LenProperties
<1> QED BY <1>1, <1>2 DEF t

\* An entry of the joined sequences is one of the first or one of the second.
LEMMA EntryOfJoined ==
  ASSUME NEW s \in Seq(Entry), NEW new \in Seq(Entry), NEW k \in DOMAIN (s \o new)
  PROVE  \/ k \in DOMAIN s /\ (s \o new)[k] = s[k]
         \/ k \notin DOMAIN s /\ \E i \in DOMAIN new : k = Len(s) + i /\ (s \o new)[k] = new[i]
<1> DEFINE t == s \o new
<1>1. /\ DOMAIN t = 1 .. Len(s) + Len(new) /\ Len(s) \in Nat /\ Len(new) \in Nat
      /\ DOMAIN s = 1 .. Len(s) /\ DOMAIN new = 1 .. Len(new)
      /\ \A i \in 1 .. Len(s) : t[i] = s[i]
      /\ \A i \in 1 .. Len(new) : t[Len(s) + i] = new[i]
  BY JoinedEntries
<1>2. k \in DOMAIN t OBVIOUS
<1> HIDE DEF t
<1>3. CASE k \in 1 .. Len(s) BY <1>1, <1>3 DEF t
<1>4. CASE k \notin 1 .. Len(s)
  <2>1. k - Len(s) \in 1 .. Len(new) /\ k = Len(s) + (k - Len(s)) BY <1>1, <1>2, <1>4
  <2>2. t[k] = new[k - Len(s)] BY <1>1, <2>1
  <2> QED BY <1>1, <1>4, <2>1, <2>2 DEF t
<1> QED BY <1>3, <1>4

\* Sequences are finite: what is counted is a number, and one that grows with the set.
LEMMA Counted ==
  ASSUME NEW s \in Seq(Entry), NEW agent
  PROVE  /\ IsFiniteSet({k \in DOMAIN s : s[k].agent = agent})
         /\ Count(s, agent) \in Nat
<1>1. DOMAIN s = 1 .. Len(s) /\ Len(s) \in Nat BY LenProperties
<1>2. IsFiniteSet(1 .. Len(s))
  <2>1. 1 \in Int /\ Len(s) \in Int BY <1>1
  <2> QED BY <2>1, FS_Interval
<1>3. {k \in DOMAIN s : s[k].agent = agent} \in SUBSET (1 .. Len(s)) BY <1>1
<1>4. IsFiniteSet({k \in DOMAIN s : s[k].agent = agent}) BY <1>2, <1>3, FS_Subset
<1> QED BY <1>4, FS_CardinalityType DEF Count

LEMMA CountAppended ==
  ASSUME NEW s \in Seq(Entry), NEW e \in Entry, NEW agent
  PROVE  Count(Append(s, e), agent) = Count(s, agent) + (IF e.agent = agent THEN 1 ELSE 0)
<1> DEFINE t == Append(s, e)
           S == {k \in DOMAIN s : s[k].agent = agent}
           T == {k \in DOMAIN t : t[k].agent = agent}
           n == Len(s) + 1
<1>1. /\ t \in Seq(Entry) /\ n \in Nat /\ DOMAIN t = 1 .. n /\ DOMAIN s = 1 .. Len(s)
      /\ t[n] = e /\ (\A k \in 1 .. Len(s) : t[k] = s[k]) /\ Len(s) \in Nat
  BY AppendedEntry
<1> HIDE DEF t
<1>2. IsFiniteSet(S) /\ Cardinality(S) \in Nat BY Counted, FS_CardinalityType
<1>3. n \notin S BY <1>1
<1>4. 1 .. n = (1 .. Len(s)) \cup {n} BY <1>1
<1>5. CASE e.agent = agent
  <2>1. T = S \cup {n} BY <1>1, <1>4, <1>5
  <2> HIDE DEF S, T
  <2>2. Cardinality(T) = Cardinality(S) + 1 BY <1>2, <1>3, <2>1, FS_AddElement
  <2> QED BY <1>5, <2>2 DEF Count, t, S, T
<1>6. CASE e.agent # agent
  <2>1. T = S BY <1>1, <1>4, <1>6
  <2>a. Cardinality(T) = Cardinality(S) BY <2>1
  <2> HIDE DEF S, T
  <2>2. Cardinality(S) = Cardinality(S) + 0 BY <1>2
  <2> QED BY <1>6, <2>a, <2>2 DEF Count, t, S, T
<1> QED BY <1>5, <1>6

LEMMA CountJoined ==
  ASSUME NEW s \in Seq(Entry), NEW new \in Seq(Entry), NEW agent
  PROVE  Count(s, agent) <= Count(s \o new, agent)
<1> DEFINE t == s \o new
           S == {k \in DOMAIN s : s[k].agent = agent}
           T == {k \in DOMAIN t : t[k].agent = agent}
<1>1. /\ t \in Seq(Entry) /\ Len(s) \in Nat /\ Len(new) \in Nat
      /\ DOMAIN t = 1 .. Len(s) + Len(new) /\ DOMAIN s = 1 .. Len(s)
      /\ \A k \in 1 .. Len(s) : t[k] = s[k]
  BY JoinedEntries
<1> HIDE DEF t
<1>2. IsFiniteSet(T) BY <1>1, Counted
<1>3. S \in SUBSET T
  <2>1. 1 .. Len(s) \subseteq 1 .. Len(s) + Len(new) BY <1>1
  <2> QED BY <1>1, <2>1
<1> HIDE DEF S, T
<1>4. Cardinality(S) <= Cardinality(T) BY <1>2, <1>3, FS_Subset
<1> QED BY <1>4 DEF Count, S, T, t

\* An agent whose entries are never two is counted at most once.
LEMMA CountOfAgent ==
  ASSUME NEW s \in Seq(Entry), Increasing(s), NEW agent \in Agents
  PROVE  Count(s, agent) = IF Known(s, agent) THEN 1 ELSE 0
<1> DEFINE S == {k \in DOMAIN s : s[k].agent = agent}
<1>1. DOMAIN s = 1 .. Len(s) /\ Len(s) \in Nat BY LenProperties
<1>2. agent # Human /\ Place(agent) \in Nat BY DEF Agents, Analysts, Human, Place
<1>3. ASSUME NEW k \in S, NEW l \in S PROVE k = l
  <2>1. k \in Nat /\ l \in Nat /\ k \in DOMAIN s /\ l \in DOMAIN s BY <1>1
  <2>2. s[k].agent = agent /\ s[l].agent = agent OBVIOUS
  <2>3. ~ (k < l) /\ ~ (l < k) BY <1>2, <2>1, <2>2 DEF Increasing
  <2> QED BY <2>1, <2>3
<1>4. CASE Known(s, agent)
  <2>1. PICK k \in S : TRUE BY <1>4 DEF Known
  <2>2. S = {k} BY <1>3
  <2>3. Cardinality(S) = 1 BY <2>2, FS_Singleton
  <2> QED BY <1>4, <2>3 DEF Count
<1>5. CASE ~ Known(s, agent)
  <2>1. S = {} BY <1>5 DEF Known
  <2>2. Cardinality(S) = 0 BY <2>1, FS_EmptySet
  <2> QED BY <1>5, <2>2 DEF Count
<1> QED BY <1>4, <1>5

LEMMA AppendKeepsOrder ==
  ASSUME NEW s \in Seq(Entry), NEW e \in Entry, Increasing(s),
         e.agent # Human => Below(s, Place(e.agent))
  PROVE  Increasing(Append(s, e))
<1> DEFINE t == Append(s, e)
           n == Len(s) + 1
<1>1. /\ n \in Nat /\ Len(s) \in Nat /\ DOMAIN t = 1 .. n /\ DOMAIN s = 1 .. Len(s)
      /\ t[n] = e /\ \A k \in 1 .. Len(s) : t[k] = s[k]
  BY AppendedEntry
<1> HIDE DEF t
<1>2. SUFFICES ASSUME NEW k \in 1 .. n, NEW l \in 1 .. n, k < l,
                      t[k].agent # Human, t[l].agent # Human
               PROVE  Place(t[k].agent) < Place(t[l].agent)
  BY <1>1 DEF Increasing, t
<1>3. k \in 1 .. Len(s) /\ t[k] = s[k] BY <1>1, <1>2
<1>4. CASE l = n
  <2>1. Below(s, Place(e.agent)) BY <1>1, <1>2, <1>4
  <2> QED BY <1>1, <1>2, <1>3, <1>4, <2>1 DEF Below
<1>5. CASE l # n
  <2>1. l \in 1 .. Len(s) /\ t[l] = s[l] BY <1>1, <1>5
  <2> QED BY <1>1, <1>2, <1>3, <2>1 DEF Increasing
<1> QED BY <1>4, <1>5

LEMMA AppendKeepsBelow ==
  ASSUME NEW s \in Seq(Entry), NEW e \in Entry, NEW n,
         Below(s, n), e.agent # Human => Place(e.agent) < n
  PROVE  Below(Append(s, e), n)
<1> DEFINE t == Append(s, e)
<1>1. /\ DOMAIN t = 1 .. Len(s) + 1 /\ DOMAIN s = 1 .. Len(s) /\ Len(s) \in Nat
      /\ t[Len(s) + 1] = e /\ \A k \in 1 .. Len(s) : t[k] = s[k]
  BY AppendedEntry
<1> HIDE DEF t
<1>2. \A k \in 1 .. Len(s) + 1 : k \in 1 .. Len(s) \/ k = Len(s) + 1 BY <1>1
<1>3. \A k \in DOMAIN t : t[k].agent # Human => Place(t[k].agent) < n BY <1>1, <1>2 DEF Below
<1> QED BY <1>3 DEF Below, t

LEMMA AppendKeepsKnown ==
  ASSUME NEW s \in Seq(Entry), NEW e \in Entry, NEW agent
  PROVE  Known(Append(s, e), agent) <=> Known(s, agent) \/ e.agent = agent
<1> DEFINE t == Append(s, e)
<1>1. /\ DOMAIN t = 1 .. Len(s) + 1 /\ DOMAIN s = 1 .. Len(s) /\ Len(s) \in Nat
      /\ t[Len(s) + 1] = e /\ \A k \in 1 .. Len(s) : t[k] = s[k]
  BY AppendedEntry
<1> HIDE DEF t
<1>2. 1 .. Len(s) + 1 = (1 .. Len(s)) \cup {Len(s) + 1} BY <1>1
<1>3. Known(t, agent) <=> Known(s, agent) \/ e.agent = agent BY <1>1, <1>2 DEF Known
<1> QED BY <1>3 DEF t

LEMMA JoinKeepsOrder ==
  ASSUME NEW s \in Seq(Entry), NEW new \in Seq(Entry), Increasing(s), Increasing(new),
         NEW n \in Nat, Below(s, n),
         \A k \in DOMAIN new : new[k].agent \in Agents /\ Place(new[k].agent) >= n
  PROVE  Increasing(s \o new)
<1> DEFINE t == s \o new
<1>1. DOMAIN s = 1 .. Len(s) /\ Len(s) \in Nat /\ DOMAIN new = 1 .. Len(new) /\ Len(new) \in Nat
      /\ DOMAIN t = 1 .. Len(s) + Len(new)
  BY JoinedEntries
<1>2. \A k \in DOMAIN s : s[k] \in Entry BY <1>1
<1>3. \A e \in Entry : e.agent # Human => Place(e.agent) \in Nat
  BY DEF Entry, Agents, Analysts, Place
<1>4. \A agent \in Agents : Place(agent) \in Nat BY DEF Agents, Analysts, Place
<1>5. \A k \in DOMAIN t :
        \/ k \in DOMAIN s /\ t[k] = s[k]
        \/ k \notin DOMAIN s /\ \E i \in DOMAIN new : k = Len(s) + i /\ t[k] = new[i]
  BY EntryOfJoined
<1> HIDE DEF t
<1>6. SUFFICES ASSUME NEW k \in DOMAIN t, NEW l \in DOMAIN t, k < l,
                      t[k].agent # Human, t[l].agent # Human
               PROVE  Place(t[k].agent) < Place(t[l].agent)
  BY DEF Increasing, t
<1>7. CASE l \in DOMAIN s
  <2>1. k \in DOMAIN s BY <1>1, <1>6, <1>7
  <2>2. t[k] = s[k] /\ t[l] = s[l] BY <1>5, <1>7, <2>1
  <2> QED BY <1>6, <1>7, <2>1, <2>2 DEF Increasing
<1>8. CASE l \notin DOMAIN s
  <2>1. PICK i \in DOMAIN new : l = Len(s) + i /\ t[l] = new[i] BY <1>5, <1>8
  <2>2. CASE k \in DOMAIN s
    <3>1. t[k] = s[k] /\ Place(s[k].agent) < n BY <1>5, <1>6, <2>2 DEF Below
    <3>2. Place(s[k].agent) \in Nat BY <1>2, <1>3, <1>6, <2>2, <3>1
    <3>3. Place(new[i].agent) >= n /\ Place(new[i].agent) \in Nat BY <1>4
    <3>4. \A a, b \in Nat : a < n /\ b >= n => a < b OBVIOUS
    <3> QED BY <2>1, <3>1, <3>2, <3>3, <3>4
  <2>3. CASE k \notin DOMAIN s
    <3>1. PICK j \in DOMAIN new : k = Len(s) + j /\ t[k] = new[j] BY <1>5, <2>3
    <3>2. j < i
      <4>1. i \in Nat /\ j \in Nat BY <1>1
      <4> QED BY <1>1, <1>6, <2>1, <3>1, <4>1
    <3> QED BY <1>6, <2>1, <3>1, <3>2 DEF Increasing
  <2> QED BY <2>2, <2>3
<1> QED BY <1>7, <1>8

LEMMA JoinKeepsKnown ==
  ASSUME NEW s \in Seq(Entry), NEW new \in Seq(Entry), NEW agent
  PROVE  Known(s, agent) \/ Known(new, agent) => Known(s \o new, agent)
<1> DEFINE t == s \o new
<1>1. /\ DOMAIN t = 1 .. Len(s) + Len(new) /\ Len(s) \in Nat /\ Len(new) \in Nat
      /\ DOMAIN s = 1 .. Len(s) /\ DOMAIN new = 1 .. Len(new)
      /\ \A i \in 1 .. Len(s) : t[i] = s[i]
      /\ \A i \in 1 .. Len(new) : t[Len(s) + i] = new[i]
  BY JoinedEntries
<1> HIDE DEF t
<1>2. /\ \A i \in 1 .. Len(s) : i \in DOMAIN t
      /\ \A i \in 1 .. Len(new) : Len(s) + i \in DOMAIN t
  BY <1>1
<1>3. Known(s, agent) \/ Known(new, agent) => Known(t, agent) BY <1>1, <1>2 DEF Known
<1> QED BY <1>3 DEF t

LEMMA NothingReported ==
  /\ Increasing(<<>>) /\ \A n : Below(<<>>, n)
  /\ \A log \in Seq(Entry) : Mirrored(<<>>, log)
  /\ \A agent : Count(<<>>, agent) = 0
<1>1. DOMAIN <<>> = {} OBVIOUS
<1>2. ASSUME NEW agent PROVE Count(<<>>, agent) = 0
  <2>1. {k \in DOMAIN <<>> : <<>>[k].agent = agent} = {} BY <1>1
  <2> HIDE <1>1
  <2> QED BY <2>1, FS_EmptySet DEF Count
<1>3. ASSUME NEW log \in Seq(Entry) PROVE Mirrored(<<>>, log)
  <2>1. Count(log, Human) \in Nat BY Counted
  <2>2. Count(<<>>, Human) <= Count(log, Human) BY <1>2, <2>1
  <2> QED BY <1>1, <2>2 DEF Mirrored, Increasing
<1> QED BY <1>1, <1>2, <1>3 DEF Increasing, Below

\* A log that has grown owes no less.
Grown(log, longer) ==
  /\ \A agent : Known(log, agent) => Known(longer, agent)
  /\ Count(log, Human) <= Count(longer, Human)

LEMMA MirroredGrows ==
  ASSUME NEW log \in Seq(Entry), NEW longer \in Seq(Entry), Grown(log, longer),
         NEW s \in Seq(Entry), Mirrored(s, log)
  PROVE  Mirrored(s, longer)
<1>1. Count(s, Human) \in Nat /\ Count(log, Human) \in Nat /\ Count(longer, Human) \in Nat
  BY Counted
<1>2. Count(s, Human) <= Count(longer, Human) BY <1>1 DEF Grown, Mirrored
<1> QED BY <1>2 DEF Grown, Mirrored

LEMMA TracedGrows ==
  ASSUME NEW log \in Seq(Entry), NEW longer \in Seq(Entry), Grown(log, longer),
         NEW r \in Run, Traced(r, log)
  PROVE  Traced(r, longer)
<1>1. r.trace \in Seq(Entry) BY RunFields
<1>2. Count(r.trace, Human) \in Nat /\ Count(log, Human) \in Nat /\ Count(longer, Human) \in Nat
  BY <1>1, Counted
<1>3. Count(r.trace, Human) <= Count(longer, Human) BY <1>2 DEF Grown, Traced
<1> QED BY <1>3 DEF Grown, Traced

LEMMA LogGrows ==
  ASSUME NEW log \in Seq(Entry), NEW new \in Seq(Entry) PROVE Grown(log, log \o new)
BY JoinKeepsKnown, CountJoined DEF Grown

LEMMA SignedGrows ==
  ASSUME NEW log \in Seq(Entry), NEW e \in Entry PROVE Grown(log, Append(log, e))
<1>1. Count(log, Human) <= Count(Append(log, e), Human)
  <2>1. Count(log, Human) \in Nat BY Counted
  <2>2. \/ Count(Append(log, e), Human) = Count(log, Human) + 1
        \/ Count(Append(log, e), Human) = Count(log, Human) + 0
    BY CountAppended
  <2> QED BY <2>1, <2>2
<1> QED BY <1>1, AppendKeepsKnown DEF Grown
-----------------------------------------------------------------------------
(* Steps of the trace.                                                     *)

LEMMA InitTrace == Init => TraceInv
<1> SUFFICES ASSUME Init PROVE TraceInv OBVIOUS
<1>1. audit = <<>> /\ stored = <<>> /\ <<>> \in Seq(Entry) BY EmptySeq DEF Init
<1>2. Logged(audit, row.status) BY <1>1, NothingReported DEF Init, NewRow, Logged
<1>3. Mirrored(stored, audit) BY <1>1, NothingReported
<1>4. \A c \in Reviewers : Mirrored(call[c].trace, audit)
  BY <1>1, NothingReported DEF Init, NoCall
<1>5. Traced(NoRun, <<>>)
  <2>1. Len(NoRun.trace) = 0 BY NoRunFields, EmptySeq
  <2> QED BY <2>1, NothingReported, NoRunFields DEF Traced
<1> QED BY <1>1, <1>2, <1>3, <1>4, <1>5 DEF Init, TraceInv

LEMMA TraceFacts ==
  ASSUME TraceInv
  PROVE  /\ Logged(audit, row.status) /\ Mirrored(stored, audit) /\ Traced(run, audit)
         /\ \A c \in Reviewers : Mirrored(call[c].trace, audit)
BY DEF TraceInv

\* A step of the run alone.
LEMMA RunMove ==
  ASSUME TraceInv, NEW t, run' = t, Traced(t, audit),
         UNCHANGED <<row, stored, audit, call>>
  PROVE  TraceInv'
BY DEF TraceInv

LEMMA NoRunTraced == ASSUME NEW log \in Seq(Entry) PROVE Traced(NoRun, log)
<1>1. Len(NoRun.trace) = 0 BY NoRunFields, EmptySeq
<1>2. Count(<<>>, Human) <= Count(log, Human)
  <2>1. Count(<<>>, Human) = 0 BY NothingReported
  <2>2. Count(log, Human) \in Nat BY Counted
  <2>3. 0 <= Count(log, Human) BY <2>2
  <2> QED BY <2>1, <2>3
<1> QED BY <1>1, <1>2, NothingReported, NoRunFields DEF Traced

LEMMA PlaceOfNext ==
  ASSUME NEW r \in Run, NEW t \in Run, Placed(r), NEW agent \in Agents,
         r.pc = agent, t.pc = After(agent), t.path = r.path
  PROVE  /\ Due(r) = Place(agent) /\ Due(t) = Place(agent) + 1
         /\ Place(agent) \in 1 .. 8 /\ Place(agent) >= First(r)
         /\ agent \in Analysts <=> r.path = "analysis"
         /\ t.pc \in {"validation_agent", "persist"} /\ r.path = "remediation" =>
              agent \in {"pr_agent", "validation_agent"}
<1>1. CASE agent \in Analysts
  <2>1. r.path = "analysis" BY <1>1 DEF Placed
  <2> QED BY <1>1, <2>1 DEF Analysts, Agents, Due, Place, After, First
<1>2. CASE agent \in {"pr_agent", "validation_agent"}
  <2>1. r.path = "remediation" BY <1>2 DEF Placed
  <2> QED BY <1>2, <2>1 DEF Analysts, Agents, Due, Place, After, First
<1> QED BY <1>1, <1>2 DEF Agents

LEMMA PlacesDiffer ==
  /\ \A agent \in Agents : Place(agent) \in 1 .. 8 /\ agent # Human
  /\ \A a, b \in Agents : Place(a) = Place(b) => a = b
<1>1. \A agent \in Agents : Place(agent) \in 1 .. 8 /\ agent # Human
  BY DEF Agents, Analysts, Place, Human
<1>2. \A agent \in Agents : Order[Place(agent)] = agent
  BY DEF Agents, Analysts, Place, Order
<1>3. \A a, b \in Agents : Place(a) = Place(b) => Order[Place(a)] = Order[Place(b)] OBVIOUS
<1> QED BY <1>1, <1>2, <1>3

\* An agent that returns keeps the trace in order and leaves no one out.
LEMMA ReturnKeepsTrace ==
  ASSUME NEW r \in Run, NEW t \in Run, NEW log \in Seq(Entry), Placed(r), Honest(r),
         Traced(r, log), NEW agent \in Agents, NEW error \in Errors,
         r.pc = agent, t.pc = After(agent), t.path = r.path, t.base = r.base,
         t.trace = Append(r.trace, [agent |-> agent, error |-> error])
  PROVE  Traced(t, log)
<1> DEFINE e == [agent |-> agent, error |-> error]
           n == Len(r.trace) + 1
<1>1. e \in Entry /\ e.agent = agent /\ agent # Human BY PlacesDiffer DEF Entry
<1> HIDE DEF e
<1>a. t.trace = Append(r.trace, e) BY DEF e
<1>2. /\ r.trace \in Seq(Entry) /\ r.base \in Nat /\ Len(r.trace) \in Nat
      /\ r.base <= Len(r.trace)
  BY RunFields DEF Honest
<1>3. /\ Len(t.trace) = n /\ DOMAIN t.trace = 1 .. n /\ DOMAIN r.trace = 1 .. Len(r.trace)
      /\ t.trace[n] = e /\ \A k \in 1 .. Len(r.trace) : t.trace[k] = r.trace[k]
  BY <1>1, <1>2, <1>a, AppendedEntry
<1>4. /\ Due(r) = Place(agent) /\ Due(t) = Place(agent) + 1
      /\ Place(agent) \in 1 .. 8 /\ Place(agent) >= First(r)
      /\ agent \in Analysts <=> r.path = "analysis"
      /\ t.pc \in {"validation_agent", "persist"} /\ r.path = "remediation" =>
           agent \in {"pr_agent", "validation_agent"}
  BY PlaceOfNext
<1>5. First(t) = First(r) BY DEF First
<1>6. Increasing(t.trace) BY <1>1, <1>2, <1>4, <1>a, AppendKeepsOrder DEF Traced
<1>7. Below(t.trace, Due(t))
  <2>1. \A f \in Entry : f.agent # Human => Place(f.agent) \in 1 .. 8 BY PlacesDiffer DEF Entry
  <2>2. \A k \in DOMAIN r.trace : r.trace[k] \in Entry BY <1>2
  <2>3. ASSUME NEW k \in DOMAIN r.trace, r.trace[k].agent # Human
        PROVE  Place(r.trace[k].agent) < Due(t)
    <3>1. Place(r.trace[k].agent) \in 1 .. 8 BY <2>1, <2>2, <2>3
    <3>2. Place(r.trace[k].agent) < Place(agent) BY <1>4, <2>3 DEF Traced, Below
    <3> QED BY <1>4, <3>1, <3>2
  <2>5. Below(r.trace, Due(t)) BY <2>3 DEF Below
  <2>4. Place(e.agent) < Due(t) BY <1>1, <1>4
  <2> QED BY <1>1, <1>2, <1>a, <2>4, <2>5, AppendKeepsBelow
<1>8. \A k \in 1 .. t.base : Known(log, t.trace[k].agent)
  <2>1. \A k \in 1 .. r.base : k \in 1 .. Len(r.trace) BY <1>2
  <2> QED BY <1>3, <2>1 DEF Traced
<1>9. \A k \in t.base + 1 .. Len(t.trace) :
        t.trace[k].agent # Human /\ Place(t.trace[k].agent) >= First(t)
  <2>1. \A k \in t.base + 1 .. n : k = n \/ k \in r.base + 1 .. Len(r.trace) BY <1>2
  <2>2. \A k \in r.base + 1 .. Len(r.trace) : k \in 1 .. Len(r.trace) BY <1>2
  <2> QED BY <1>1, <1>3, <1>4, <1>5, <2>1, <2>2 DEF Traced
<1>10. Count(t.trace, Human) <= Count(log, Human)
  <2>1. Count(t.trace, Human) = Count(r.trace, Human) + 0 BY <1>1, <1>2, <1>a, CountAppended
  <2>2. Count(r.trace, Human) \in Nat BY <1>2, Counted
  <2>3. Count(t.trace, Human) = Count(r.trace, Human) BY <2>1, <2>2
  <2> QED BY <2>3 DEF Traced
<1>11. ASSUME t.path = "analysis"
       PROVE  /\ t.base = 0
              /\ \A a \in Analysts : Place(a) < Due(t) => Known(t.trace, a)
  <2>1. r.path = "analysis" BY <1>11
  <2>2. ASSUME NEW a \in Analysts, Place(a) < Due(t) PROVE Known(t.trace, a)
    <3>1. a \in Agents BY DEF Agents
    <3>2. Place(a) \in 1 .. 8 BY <3>1, PlacesDiffer
    <3>3. Place(a) < Due(r) \/ Place(a) = Place(agent) BY <1>4, <2>2, <3>2
    <3>4. CASE Place(a) < Due(r)
      <4>1. Known(r.trace, a) BY <2>1, <3>4 DEF Traced
      <4> QED BY <1>1, <1>2, <1>a, <4>1, AppendKeepsKnown
    <3>5. CASE Place(a) = Place(agent)
      <4>1. a = agent BY <3>1, <3>5, PlacesDiffer
      <4> QED BY <1>1, <1>2, <1>a, <4>1, AppendKeepsKnown
    <3> QED BY <3>3, <3>4, <3>5
  <2> QED BY <2>1, <2>2 DEF Traced
<1>12. ASSUME t.path = "remediation", t.pc \in {"validation_agent", "persist"}
       PROVE  \E k \in t.base + 1 .. Len(t.trace) : t.trace[k].agent = "pr_agent"
  <2>1. agent \in {"pr_agent", "validation_agent"} BY <1>4, <1>12
  <2>2. CASE agent = "pr_agent"
    <3>1. n \in t.base + 1 .. Len(t.trace) BY <1>2, <1>3
    <3> QED BY <1>1, <1>3, <2>2, <3>1
  <2>3. CASE agent = "validation_agent"
    <3>1. PICK k \in r.base + 1 .. Len(r.trace) : r.trace[k].agent = "pr_agent"
      BY <1>12, <2>3 DEF Traced
    <3>2. k \in 1 .. Len(r.trace) /\ k \in t.base + 1 .. Len(t.trace) BY <1>2, <1>3
    <3> QED BY <1>3, <3>1, <3>2
  <2> QED BY <2>1, <2>2, <2>3
<1> QED BY <1>6, <1>7, <1>8, <1>9, <1>10, <1>11, <1>12 DEF Traced

LEMMA AnalystsTrace == ASSUME PipelineInv, TraceInv, Triage \/ RootCause \/ CodeContext \/ Rag
                       PROVE  TraceInv'
<1>1. PICK agent \in {"triage", "root_cause", "code_context", "rag"} :
        /\ Succeeds(agent) \/ Fails(agent)
        /\ UNCHANGED <<row, stored, audit, call>>
  BY DEF Triage, RootCause, CodeContext, Rag, incident
<1>2. agent \in Agents BY DEF Analysts, Agents
<1>3. PICK error \in Errors : run' = Ran(run, agent, error) /\ run.pc = agent
  <2>1. CASE Succeeds(agent) BY <2>1 DEF Succeeds, Errors
  <2>2. CASE Fails(agent) BY <1>2, <2>2, RecordedFailures DEF Fails
  <2> QED BY <1>1, <2>1, <2>2
<1> DEFINE t == Ran(run, agent, error)
<1>4. /\ t \in Run /\ t.pc = After(agent) /\ t.path = run.path /\ t.base = run.base
      /\ t.trace = Append(run.trace, [agent |-> agent, error |-> error])
  BY <1>2, RunningFacts, RanFields
<1>5. run' = t BY <1>3
<1> HIDE DEF t
<1>6. Traced(t, audit) BY <1>2, <1>3, <1>4, RunningFacts, TraceFacts, ReturnKeepsTrace
<1> QED BY <1>1, <1>5, <1>6, RunMove

\* The same with a field of the run that the trace does not depend on.
LEMMA ReturnWithTrace ==
  ASSUME PipelineInv, TraceInv, NEW agent \in Agents, run.pc = agent, NEW error \in Errors,
         NEW t \in Run, run' = t, LET u == Ran(run, agent, error) IN
           t.pc = u.pc /\ t.path = u.path /\ t.base = u.base /\ t.trace = u.trace,
         UNCHANGED <<row, stored, audit, call>>
  PROVE  TraceInv'
<1> DEFINE u == Ran(run, agent, error)
<1>1. /\ u.pc = After(agent) /\ u.path = run.path /\ u.base = run.base
      /\ u.trace = Append(run.trace, [agent |-> agent, error |-> error])
  BY RunningFacts, RanFields
<1>2. t.pc = u.pc /\ t.path = u.path /\ t.base = u.base /\ t.trace = u.trace OBVIOUS
<1> HIDE DEF u
<1>3. /\ t.pc = After(agent) /\ t.path = run.path /\ t.base = run.base
      /\ t.trace = Append(run.trace, [agent |-> agent, error |-> error])
  BY <1>1, <1>2
<1>4. /\ run \in Run /\ audit \in Seq(Entry) /\ Placed(run) /\ Honest(run)
      /\ Traced(run, audit)
  BY RunningFacts, TraceFacts
<1>5. Traced(t, audit) BY <1>3, <1>4, ReturnKeepsTrace
<1> QED BY <1>5, RunMove

LEMMA FixPlannerTrace == ASSUME PipelineInv, TraceInv, FixPlanner PROVE TraceInv'
<1>1. PICK error \in Errors, n \in 0 .. MaxRecs :
        run' = [Ran(run, "fix_planner", error) EXCEPT !.recs = n] /\ run.pc = "fix_planner"
  <2>1. \A n \in 0 .. MaxRecs + 1 : Top(n) \in 0 .. MaxRecs BY PipelineAssumption DEF Top
  <2>2. 1 \in 0 .. MaxRecs BY PipelineAssumption
  <2> QED BY <2>1, <2>2 DEF FixPlanner, Errors
<1> DEFINE u == Ran(run, "fix_planner", error)
<1>2. "fix_planner" \in Agents BY DEF Analysts, Agents
<1>3. u \in Run BY <1>2, RunningFacts, RanFields
<1>4. run' = [u EXCEPT !.recs = n] BY <1>1
<1> HIDE DEF u
<1>5. /\ run' \in Run /\ run'.pc = u.pc /\ run'.path = u.path /\ run'.base = u.base
      /\ run'.trace = u.trace
  BY <1>3, <1>4 DEF Run
<1>6. UNCHANGED <<row, stored, audit, call>> BY DEF FixPlanner, incident
<1> QED BY <1>1, <1>2, <1>5, <1>6, ReturnWithTrace DEF u

LEMMA BugCreatorTrace == ASSUME PipelineInv, TraceInv, BugCreator PROVE TraceInv'
<1>1. PICK error \in Errors, answered \in BOOLEAN :
        /\ run.pc = "bug_creator"
        /\ run' = [Ran(run, "bug_creator", error) EXCEPT !.answered = answered]
  BY BugCreatorReturns
<1> DEFINE u == Ran(run, "bug_creator", error)
<1>2. "bug_creator" \in Agents BY DEF Analysts, Agents
<1>3. u \in Run BY <1>2, RunningFacts, RanFields
<1>4. run' = [u EXCEPT !.answered = answered] BY <1>1
<1> HIDE DEF u
<1>5. /\ run' \in Run /\ run'.pc = u.pc /\ run'.path = u.path /\ run'.base = u.base
      /\ run'.trace = u.trace
  BY <1>3, <1>4 DEF Run
<1>6. UNCHANGED <<row, stored, audit, call>> BY DEF BugCreator, incident
<1> QED BY <1>1, <1>2, <1>5, <1>6, ReturnWithTrace DEF u

LEMMA PrAgentTrace == ASSUME PipelineInv, TraceInv, PrStep PROVE TraceInv'
<1>1. PICK error \in Errors, answered \in BOOLEAN, created \in BOOLEAN :
        PrReturn(error, answered, created)
  BY PrAgentReturns
<1> DEFINE u == Ran(run, "pr_agent", error)
<1>2. "pr_agent" \in Agents /\ run.pc = "pr_agent" BY <1>1 DEF Agents, PrReturn
<1>3. u \in Run BY <1>2, RunningFacts, RanFields
<1>4. run' = [u EXCEPT !.answered = answered] BY <1>1 DEF PrReturn
<1> HIDE DEF u
<1>5. /\ run' \in Run /\ run'.pc = u.pc /\ run'.path = u.path /\ run'.base = u.base
      /\ run'.trace = u.trace
  BY <1>3, <1>4 DEF Run
<1>6. UNCHANGED <<row, stored, audit, call>>
  BY DEF PrStep, NotApproved, OutOfRange, NotConfigured, OpenPullRequest, incident
<1> QED BY <1>2, <1>5, <1>6, ReturnWithTrace DEF u

LEMMA ValidationTrace ==
  ASSUME PipelineInv, TraceInv, Validate \/ ValidationFails PROVE TraceInv'
<1>1. PICK error \in Errors :
        run.pc = "validation_agent" /\ run' = Ran(run, "validation_agent", error)
  BY ValidationReturns
<1> DEFINE u == Ran(run, "validation_agent", error)
<1>2. "validation_agent" \in Agents BY DEF Agents
<1>3. u \in Run BY <1>2, RunningFacts, RanFields
<1>4. run' = u BY <1>1
<1>5. UNCHANGED <<row, stored, audit, call>> BY DEF Validate, ValidationFails, incident
<1> HIDE DEF u
<1>6. /\ run' \in Run /\ run'.pc = u.pc /\ run'.path = u.path /\ run'.base = u.base
      /\ run'.trace = u.trace
  BY <1>3, <1>4
<1> QED BY <1>1, <1>2, <1>5, <1>6, ReturnWithTrace DEF u

\* From the load to the first agent, and past a validation with nothing to validate.
LEMMA MoveKeepsTrace ==
  ASSUME PipelineInv, TraceInv, BeginRemediation \/ NothingToValidate PROVE TraceInv'
<1>1. UNCHANGED <<row, stored, audit, call>> BY DEF BeginRemediation, NothingToValidate, incident
<1>2. run \in Run /\ Traced(run, audit) /\ Placed(run) BY RunningFacts, TraceFacts
<1>3. CASE BeginRemediation
  <2>1. run' = [run EXCEPT !.pc = "pr_agent"] /\ run.pc = "loaded" BY <1>3 DEF BeginRemediation
  <2>2. /\ run'.pc = "pr_agent" /\ run'.path = run.path /\ run'.base = run.base
        /\ run'.trace = run.trace
    BY <1>2, <2>1 DEF Run
  <2>3. run.path = "remediation" BY <1>2, <2>1 DEF Placed
  <2>4. Due(run') = Due(run) /\ First(run') = First(run)
    BY <2>1, <2>2 DEF Due, First, Place, Agents, Analysts
  <2>5. Traced(run', audit) BY <1>2, <2>2, <2>3, <2>4 DEF Traced
  <2> QED BY <1>1, <2>5, RunMove
<1>4. CASE NothingToValidate
  <2>1. run' = [run EXCEPT !.pc = "persist"] /\ run.pc = "validation_agent"
    BY <1>4 DEF NothingToValidate, After
  <2>2. /\ run'.pc = "persist" /\ run'.path = run.path /\ run'.base = run.base
        /\ run'.trace = run.trace
    BY <1>2, <2>1 DEF Run
  <2>3. run.path = "remediation" BY <1>2, <2>1 DEF Placed
  <2>4. Due(run) = 8 /\ Due(run') = 9 /\ First(run') = First(run)
    BY <2>1, <2>2, <2>3 DEF Due, First, Place, Agents, Analysts
  <2>5. ASSUME NEW k \in DOMAIN run.trace, run.trace[k].agent # Human
        PROVE  Place(run.trace[k].agent) < 9
    <3>1. run.trace[k] \in Entry BY <1>2, RunFields
    <3>2. run.trace[k].agent \in Agents BY <2>5, <3>1 DEF Entry
    <3>3. Place(run.trace[k].agent) \in 1 .. 8 BY <3>2, PlacesDiffer
    <3> QED BY <3>3
  <2>6. Below(run'.trace, Due(run')) BY <2>2, <2>4, <2>5 DEF Below
  <2>7. Traced(run', audit) BY <1>2, <2>1, <2>2, <2>3, <2>4, <2>6 DEF Traced
  <2> QED BY <1>1, <2>7, RunMove
<1> QED BY <1>3, <1>4

LEMMA BeginAnalysisTrace == ASSUME PipelineInv, TraceInv, BeginAnalysis PROVE TraceInv'
<1> DEFINE t == [NoRun EXCEPT !.pc = "triage", !.path = "analysis"]
<1>1. t.pc = "triage" /\ t.path = "analysis" /\ t.base = 0 /\ t.trace = <<>> BY DEF NoRun
<1>2. run' = t /\ UNCHANGED <<row, stored, audit, call>> BY DEF BeginAnalysis, incident
<1> HIDE DEF t
<1>3. Len(t.trace) = 0 BY <1>1, EmptySeq
<1>4. Count(t.trace, Human) <= Count(audit, Human)
  <2>1. Count(t.trace, Human) = 0 BY <1>1, NothingReported
  <2>2. Count(audit, Human) \in Nat BY RunningFacts, Counted
  <2> QED BY <2>1, <2>2
<1>5. Due(t) = 1 BY <1>1 DEF Due, Place, Agents, Analysts
<1>6. \A agent \in Analysts : ~ (Place(agent) < Due(t))
  <2>1. \A agent \in Analysts : Place(agent) \in 1 .. 8 BY PlacesDiffer DEF Agents
  <2> QED BY <1>5, <2>1
<1>7. Increasing(t.trace) /\ Below(t.trace, Due(t)) BY <1>1, NothingReported
<1>8. Traced(t, audit) BY <1>1, <1>3, <1>4, <1>6, <1>7 DEF Traced
<1> QED BY <1>2, <1>8, RunMove

\* Every agent that a document names is in the log, so no entry of it is of an agent
\* that has not run.
LEMMA MirroredBelow ==
  ASSUME NEW s \in Seq(Entry), NEW log \in Seq(Entry), Mirrored(s, log), NEW n, Below(log, n)
  PROVE  Below(s, n)
BY DEF Mirrored, Known, Below

LEMMA LoadApprovedTrace ==
  ASSUME PipelineInv, TraceInv, NEW n \in 0 .. MaxRecs, LoadApproved(n) PROVE TraceInv'
<1> DEFINE t == [NoRun EXCEPT !.pc = "loaded", !.path = "remediation", !.rank = row.rank,
                              !.recs = n, !.base = Len(stored), !.trace = stored]
<1>1. /\ t.pc = "loaded" /\ t.path = "remediation"
      /\ t.base = Len(stored) /\ t.trace = stored
  BY DEF NoRun
<1>2. /\ run' = t /\ row.status = "analyzed" /\ UNCHANGED <<row, stored, audit, call>>
  BY DEF LoadApproved, incident
<1> HIDE DEF t
<1>3. /\ stored \in Seq(Entry) /\ audit \in Seq(Entry) /\ Mirrored(stored, audit)
      /\ Len(stored) \in Nat /\ DOMAIN stored = 1 .. Len(stored)
  BY RunningFacts, TraceFacts, LenProperties
<1>4. Below(audit, 7) BY <1>2, TraceFacts DEF Logged
<1>5. Below(stored, 7) BY <1>3, <1>4, MirroredBelow
<1>6. Due(t) = 7 BY <1>1 DEF Due, Agents, Analysts
<1>7. \A k \in t.base + 1 .. Len(t.trace) : FALSE BY <1>1, <1>3
<1>8. /\ Increasing(t.trace) /\ Below(t.trace, Due(t))
      /\ \A k \in 1 .. t.base : Known(audit, t.trace[k].agent)
      /\ Count(t.trace, Human) <= Count(audit, Human)
  BY <1>1, <1>3, <1>5, <1>6 DEF Mirrored
<1>9. Traced(t, audit) BY <1>1, <1>7, <1>8 DEF Traced
<1> QED BY <1>2, <1>9, RunMove

LEMMA DropTrace == ASSUME PipelineInv, TraceInv, Drop PROVE TraceInv'
BY RunningFacts, NoRunTraced, RunMove DEF Drop, incident

LEMMA ReadTrace ==
  ASSUME PipelineInv, TraceInv, NEW c \in Reviewers, NEW r \in 0 .. MaxRecs, Read(c, r)
  PROVE  TraceInv'
<1>1. /\ call' = [call EXCEPT ![c] = [NoCall EXCEPT !.stage = "row", !.rank = r,
                              !.seen = [approval |-> row.approval, rank |-> row.rank]]]
      /\ UNCHANGED <<row, stored, audit, run>>
  BY DEF Read, incident
<1>2. call \in [Reviewers -> Call] BY DEF PipelineInv, TypeOK
<1>3. \A d \in Reviewers : call'[d].trace = IF d = c THEN <<>> ELSE call[d].trace
  BY <1>1, <1>2 DEF NoCall
<1>4. audit \in Seq(Entry) BY RunningFacts
<1>5. \A d \in Reviewers : Mirrored(call'[d].trace, audit)
  BY <1>3, <1>4, TraceFacts, NothingReported
<1> QED BY <1>1, <1>5 DEF TraceInv

LEMMA ReadAnalysisTrace ==
  ASSUME PipelineInv, TraceInv, NEW c \in Reviewers, ReadAnalysis(c)
  PROVE  TraceInv'
<1>1. /\ call' = [call EXCEPT ![c].stage = "both", ![c].trace = stored]
      /\ UNCHANGED <<row, stored, audit, run>>
  BY DEF ReadAnalysis, incident
<1>2. call \in [Reviewers -> Call] BY DEF PipelineInv, TypeOK
<1>3. \A d \in Reviewers : call'[d].trace = IF d = c THEN stored ELSE call[d].trace
  BY <1>1, <1>2 DEF Call
<1>4. \A d \in Reviewers : Mirrored(call'[d].trace, audit) BY <1>3, TraceFacts
<1> QED BY <1>1, <1>4 DEF TraceInv

LEMMA SignedEntry ==
  ASSUME NEW s \in Seq(Entry), NEW log \in Seq(Entry), Mirrored(s, log)
  PROVE  Mirrored(Append(s, Signed), Append(log, Signed))
<1>1. Signed \in Entry /\ Signed.agent = Human BY DEF Signed, Entry, Errors
<1>2. /\ Append(s, Signed) \in Seq(Entry) /\ Append(log, Signed) \in Seq(Entry)
      /\ Len(s) \in Nat /\ DOMAIN s = 1 .. Len(s)
      /\ DOMAIN Append(s, Signed) = 1 .. Len(s) + 1
      /\ Append(s, Signed)[Len(s) + 1] = Signed
      /\ \A k \in 1 .. Len(s) : Append(s, Signed)[k] = s[k]
  BY <1>1, AppendedEntry
<1>3. Increasing(Append(s, Signed)) BY <1>1, AppendKeepsOrder DEF Mirrored
<1>4. Count(Append(s, Signed), Human) <= Count(Append(log, Signed), Human)
  <2>1. /\ Count(Append(s, Signed), Human) = Count(s, Human) + 1
        /\ Count(Append(log, Signed), Human) = Count(log, Human) + 1
    BY <1>1, CountAppended
  <2>2. Count(s, Human) \in Nat /\ Count(log, Human) \in Nat BY Counted
  <2>3. Count(s, Human) <= Count(log, Human) BY DEF Mirrored
  <2> QED BY <2>1, <2>2, <2>3
<1>5. ASSUME NEW k \in 1 .. Len(s) + 1
      PROVE  Known(Append(log, Signed), Append(s, Signed)[k].agent)
  <2>1. k \in 1 .. Len(s) \/ k = Len(s) + 1 BY <1>2
  <2>2. CASE k \in 1 .. Len(s)
    <3>1. Known(log, s[k].agent) BY <1>2, <2>2 DEF Mirrored
    <3> QED BY <1>1, <1>2, <2>2, <3>1, AppendKeepsKnown
  <2>3. CASE k = Len(s) + 1 BY <1>1, <1>2, <2>3, AppendKeepsKnown
  <2> QED BY <2>1, <2>2, <2>3
<1> QED BY <1>2, <1>3, <1>4, <1>5 DEF Mirrored

\* A decision adds the same row to the log as to the document it writes back, which
\* may be older than the one it replaces.
LEMMA CommitTrace ==
  ASSUME PipelineInv, TraceInv, NEW c \in Reviewers, Commit(c) PROVE TraceInv'
<1>1. /\ row'.status = row.status /\ UNCHANGED run
      /\ stored' = stored \/ stored' = Append(call[c].trace, Signed)
      /\ audit' = Append(audit, Signed)
      /\ call' = [call EXCEPT ![c] = NoCall]
  BY RunningFacts DEF Commit, Row
<1>2. /\ call \in [Reviewers -> Call] /\ \A d \in Reviewers : call[d].trace \in Seq(Entry)
  BY DEF PipelineInv, TypeOK, Call
<1>3. Signed \in Entry /\ Signed.agent = Human BY DEF Signed, Entry, Errors
<1>4. audit \in Seq(Entry) /\ stored \in Seq(Entry) /\ run \in Run BY RunningFacts
<1>5. audit' \in Seq(Entry) /\ Grown(audit, audit')
  BY <1>1, <1>3, <1>4, SignedGrows, AppendedEntry
<1>6. Logged(audit', row'.status)
  <2>1. Logged(audit, row.status) BY TraceFacts
  <2>2. Increasing(audit') BY <1>1, <1>3, <1>4, <2>1, AppendKeepsOrder DEF Logged
  <2>3. \A n : Below(audit, n) => Below(audit', n) BY <1>1, <1>3, <1>4, AppendKeepsBelow
  <2> QED BY <1>1, <1>5, <2>1, <2>2, <2>3 DEF Logged, Grown
<1>7. Mirrored(stored', audit')
  <2>1. CASE stored' = stored BY <1>4, <1>5, <2>1, TraceFacts, MirroredGrows
  <2>2. CASE stored' = Append(call[c].trace, Signed)
    BY <1>1, <1>2, <1>4, <2>2, TraceFacts, SignedEntry
  <2> QED BY <1>1, <2>1, <2>2
<1>8. Traced(run', audit') BY <1>1, <1>4, <1>5, TraceFacts, TracedGrows
<1>9. ASSUME NEW d \in Reviewers PROVE Mirrored(call'[d].trace, audit')
  <2>1. CASE d = c
    <3>1. call'[d].trace = <<>> BY <1>1, <1>2, <2>1 DEF NoCall
    <3> QED BY <1>5, <3>1, NothingReported
  <2>2. CASE d # c
    <3>1. call'[d] = call[d] BY <1>1, <1>2, <2>2
    <3> QED BY <1>2, <1>4, <1>5, <3>1, TraceFacts, MirroredGrows
  <2> QED BY <2>1, <2>2
<1> QED BY <1>6, <1>7, <1>8, <1>9 DEF TraceInv

\* The entries a run adds to the log: of its own agents, in order, after those of the
\* path before it.
LEMMA NewEntriesOfAgents ==
  ASSUME NEW r \in Run, NEW log \in Seq(Entry), Honest(r), Traced(r, log)
  PROVE  LET new == NewEntries(r) IN
         /\ new \in Seq(Entry) /\ Increasing(new)
         /\ \A k \in DOMAIN new : new[k].agent \in Agents /\ Place(new[k].agent) >= First(r)
         /\ \A k \in r.base + 1 .. Len(r.trace) : Known(new, r.trace[k].agent)
<1> DEFINE new == NewEntries(r)
           m == Len(r.trace) - r.base
<1>1. /\ r.base \in Nat /\ Len(r.trace) \in Nat /\ r.base <= Len(r.trace)
      /\ r.trace \in Seq(Entry) /\ DOMAIN r.trace = 1 .. Len(r.trace)
  BY RunFields, LenProperties DEF Honest
<1>2. /\ new \in Seq(Entry) /\ Len(new) = m
      /\ \A i \in 1 .. m : new[i] = r.trace[r.base + i]
  BY NewEntriesAreOfRun
<1> HIDE DEF new
<1>3. DOMAIN new = 1 .. m BY <1>2, LenProperties
<1>4. \A i \in 1 .. m : r.base + i \in r.base + 1 .. Len(r.trace) /\ r.base + i \in DOMAIN r.trace
  BY <1>1
<1>5. Increasing(new)
  <2>1. SUFFICES ASSUME NEW k \in 1 .. m, NEW l \in 1 .. m, k < l,
                        new[k].agent # Human, new[l].agent # Human
                 PROVE  Place(new[k].agent) < Place(new[l].agent)
    BY <1>3 DEF Increasing
  <2>2. r.base + k < r.base + l BY <1>1, <2>1
  <2>3. new[k] = r.trace[r.base + k] /\ new[l] = r.trace[r.base + l] BY <1>2
  <2>4. r.base + k \in DOMAIN r.trace /\ r.base + l \in DOMAIN r.trace BY <1>4
  <2> QED BY <2>1, <2>2, <2>3, <2>4 DEF Traced, Increasing
<1>6. ASSUME NEW k \in DOMAIN new
      PROVE  new[k].agent \in Agents /\ Place(new[k].agent) >= First(r)
  <2>1. k \in 1 .. m BY <1>3
  <2>2. /\ new[k] = r.trace[r.base + k] /\ r.base + k \in r.base + 1 .. Len(r.trace)
        /\ r.trace[r.base + k] \in Entry
    BY <1>1, <1>2, <1>4, <2>1
  <2>3. new[k].agent # Human /\ Place(new[k].agent) >= First(r) BY <2>2 DEF Traced
  <2> QED BY <2>2, <2>3 DEF Entry
<1>7. ASSUME NEW k \in r.base + 1 .. Len(r.trace) PROVE Known(new, r.trace[k].agent)
  <2>1. k - r.base \in 1 .. m /\ k = r.base + (k - r.base) BY <1>1
  <2>2. new[k - r.base] = r.trace[k] BY <1>2, <2>1
  <2> QED BY <1>3, <2>1, <2>2 DEF Known
<1> QED BY <1>2, <1>5, <1>6, <1>7 DEF new

\* At its end the trace of an analysis has all the agents of the graph.
LEMMA AnalysisIsWhole ==
  ASSUME NEW r \in Run, NEW log \in Seq(Entry), Honest(r), Traced(r, log),
         r.pc = "persist", r.path = "analysis", NEW agent \in Analysts
  PROVE  Known(NewEntries(r), agent)
<1>1. Due(r) = 7 BY DEF Due, Agents, Analysts
<1>2. Place(agent) < Due(r) BY <1>1 DEF Place, Analysts
<1>3. Known(r.trace, agent) /\ r.base = 0 BY <1>2 DEF Traced
<1>4. DOMAIN r.trace = 1 .. Len(r.trace) BY RunFields, LenProperties
<1>5. PICK k \in 1 .. Len(r.trace) : r.trace[k].agent = agent BY <1>3, <1>4 DEF Known
<1>6. k \in r.base + 1 .. Len(r.trace)
  <2>1. 0 + 1 = 1 OBVIOUS
  <2> QED BY <1>3, <1>5, <2>1
<1> QED BY <1>5, <1>6, NewEntriesOfAgents

LEMMA PersistTrace ==
  ASSUME PipelineInv, TraceInv, PersistAnalysis \/ PersistRemediation PROVE TraceInv'
<1>1. PICK path \in {"analysis", "remediation"} :
        /\ run.pc = "persist" /\ run.path = path
        /\ row' = [row EXCEPT !.status = IF HasErrors(run) THEN "analysis_failed"
                                         ELSE IF path = "analysis" THEN "analyzed" ELSE "pr_created"]
        /\ stored' = run.trace /\ audit' = audit \o NewEntries(run)
        /\ run' = NoRun /\ UNCHANGED call
  BY DEF PersistAnalysis, PersistRemediation, Persist
<1>2. /\ run \in Run /\ audit \in Seq(Entry) /\ Honest(run) /\ Taken(run, row.status)
      /\ Traced(run, audit) /\ Logged(audit, row.status)
  BY RunningFacts, TraceFacts
<1>3. row'.status = IF HasErrors(run) THEN "analysis_failed"
                    ELSE IF path = "analysis" THEN "analyzed" ELSE "pr_created"
  BY <1>1, RunningFacts DEF Row
<1> DEFINE new == NewEntries(run)
<1>4. /\ new \in Seq(Entry) /\ Increasing(new)
      /\ \A k \in DOMAIN new : new[k].agent \in Agents /\ Place(new[k].agent) >= First(run)
      /\ \A k \in run.base + 1 .. Len(run.trace) : Known(new, run.trace[k].agent)
  BY <1>2, NewEntriesOfAgents
<1>5. audit' = audit \o new BY <1>1
<1>6. path = "analysis" => \A agent \in Analysts : Known(new, agent)
  BY <1>1, <1>2, AnalysisIsWhole
<1>7. path = "remediation" => Known(new, "pr_agent") BY <1>1, <1>2, <1>4 DEF Traced
<1> HIDE DEF new
<1>8. First(run) \in Nat /\ Below(audit, First(run))
  <2>1. path = "analysis" => row.status = "new" /\ First(run) = 1
    BY <1>1, <1>2 DEF Taken, First
  <2>2. path = "remediation" => row.status = "analyzed" /\ First(run) = 7
    BY <1>1, <1>2 DEF Taken, First
  <2> QED BY <1>2, <2>1, <2>2 DEF Logged
<1>9. audit' \in Seq(Entry) /\ Grown(audit, audit') BY <1>2, <1>4, <1>5, LogGrows, JoinedEntries
<1>10. \A agent : Known(new, agent) => Known(audit', agent)
  BY <1>2, <1>4, <1>5, JoinKeepsKnown
<1>11. Increasing(audit') BY <1>2, <1>4, <1>5, <1>8, JoinKeepsOrder DEF Logged
<1>12. \A agent \in Analysts : Known(audit', agent)
  <2>1. CASE path = "analysis" BY <1>6, <1>10, <2>1
  <2>2. CASE path = "remediation"
    <3>1. row.status # "new" BY <1>1, <1>2, <2>2 DEF Taken
    <3> QED BY <1>2, <1>9, <3>1 DEF Logged, Grown
  <2> QED BY <2>1, <2>2
<1>13. row'.status = "analyzed" => Below(audit', 7)
  <2> SUFFICES ASSUME row'.status = "analyzed", NEW k \in DOMAIN audit', audit'[k].agent # Human
               PROVE  Place(audit'[k].agent) < 7
    BY DEF Below
  <2>1. path = "analysis" BY <1>3
  <2>2. \/ k \in DOMAIN audit /\ audit'[k] = audit[k]
        \/ \E i \in DOMAIN new : audit'[k] = new[i]
    BY <1>2, <1>4, <1>5, EntryOfJoined
  <2>3. CASE k \in DOMAIN audit /\ audit'[k] = audit[k]
    <3>1. Below(audit, 1) BY <1>1, <1>2, <2>1 DEF Taken, Logged
    <3>2. audit[k].agent \in Agents
      <4>1. audit[k] \in Entry BY <1>2, <2>3
      <4> QED BY <2>3, <4>1 DEF Entry
    <3>3. Place(audit[k].agent) \in 1 .. 8 BY <3>2, PlacesDiffer
    <3>4. Place(audit[k].agent) < 1 BY <2>3, <3>1 DEF Below
    <3> QED BY <2>3, <3>3, <3>4
  <2>4. ASSUME NEW i \in DOMAIN new, audit'[k] = new[i] PROVE Place(audit'[k].agent) < 7
    <3>1. /\ new[i].agent \in Agents /\ Known(run.trace, new[i].agent)
      <4>1. /\ Len(new) = Len(run.trace) - run.base
            /\ \A j \in 1 .. Len(run.trace) - run.base : new[j] = run.trace[run.base + j]
        BY <1>2, NewEntriesAreOfRun DEF new
      <4>2. /\ run.base \in Nat /\ Len(run.trace) \in Nat
            /\ DOMAIN run.trace = 1 .. Len(run.trace) /\ DOMAIN new = 1 .. Len(new)
        BY <1>2, <1>4, RunFields, LenProperties
      <4>3. run.base + i \in DOMAIN run.trace /\ new[i] = run.trace[run.base + i] BY <4>1, <4>2
      <4> QED BY <1>4, <4>3 DEF Known
    <3>2. Due(run) = 7 BY <1>1, <2>1 DEF Due, Agents, Analysts
    <3>3. new[i].agent # Human BY <3>1, PlacesDiffer
    <3> QED BY <1>2, <2>4, <3>1, <3>2, <3>3 DEF Traced, Below, Known
  <2> QED BY <2>2, <2>3, <2>4
<1>14. Logged(audit', row'.status)
  <2>1. row'.status # "new" BY <1>3
  <2>2. row'.status = "pr_created" => Known(audit', "pr_agent") BY <1>1, <1>3, <1>7, <1>10
  <2> QED BY <1>11, <1>12, <1>13, <2>1, <2>2 DEF Logged
<1>15. Mirrored(stored', audit')
  <2>1. /\ run.trace \in Seq(Entry) /\ DOMAIN run.trace = 1 .. Len(run.trace)
        /\ run.base \in Nat /\ Len(run.trace) \in Nat
    BY <1>2, RunFields, LenProperties
  <2>2. \A k \in 1 .. Len(run.trace) : k \in 1 .. run.base \/ k \in run.base + 1 .. Len(run.trace)
    BY <2>1
  <2>3. \A k \in 1 .. run.base : Known(audit', run.trace[k].agent)
    BY <1>2, <1>9 DEF Traced, Grown
  <2>4. \A k \in run.base + 1 .. Len(run.trace) : Known(audit', run.trace[k].agent)
    BY <1>4, <1>10
  <2>5. Count(run.trace, Human) <= Count(audit', Human)
    <3>1. /\ Count(run.trace, Human) \in Nat /\ Count(audit, Human) \in Nat
          /\ Count(audit', Human) \in Nat
      BY <1>2, <1>9, <2>1, Counted
    <3>2. /\ Count(run.trace, Human) <= Count(audit, Human)
          /\ Count(audit, Human) <= Count(audit', Human)
      BY <1>2, <1>9 DEF Traced, Grown
    <3> QED BY <3>1, <3>2
  <2>6. Increasing(run.trace) BY <1>2 DEF Traced
  <2> QED BY <1>1, <2>1, <2>2, <2>3, <2>4, <2>5, <2>6 DEF Mirrored
<1>16. Traced(run', audit') BY <1>1, <1>9, NoRunTraced
<1>17. ASSUME NEW c \in Reviewers PROVE Mirrored(call'[c].trace, audit')
  <2>1. call[c].trace \in Seq(Entry) BY DEF PipelineInv, TypeOK, Call
  <2> QED BY <1>1, <1>2, <1>9, <2>1, TraceFacts, MirroredGrows
<1> QED BY <1>14, <1>15, <1>16, <1>17 DEF TraceInv

LEMMA NextKeepsTrace == PipelineInv /\ TraceInv /\ [Next]_vars => TraceInv'
<1> SUFFICES ASSUME PipelineInv, TraceInv, [Next]_vars PROVE TraceInv' OBVIOUS
<1>1. CASE Analysis
  BY <1>1, BeginAnalysisTrace, AnalystsTrace, FixPlannerTrace, BugCreatorTrace, PersistTrace
     DEF Analysis
<1>2. CASE Remediation
  BY <1>2, LoadApprovedTrace, MoveKeepsTrace, PrAgentTrace, ValidationTrace, PersistTrace
     DEF Remediation, PrStep
<1>3. CASE Drop BY <1>3, DropTrace
<1>4. CASE \E c \in Reviewers : Decision(c)
  BY <1>4, ReadTrace, ReadAnalysisTrace, CommitTrace DEF Decision
<1>5. CASE UNCHANGED vars BY <1>5 DEF vars, TraceInv
<1> QED BY <1>1, <1>2, <1>3, <1>4, <1>5 DEF Next

LEMMA TraceInvariant == Spec => [](PipelineInv /\ TraceInv)
BY InitTrace, PipelineInvariant, NextKeepsTrace, PTL DEF Spec

\* Whatever the document of the trace shows, of agents or reviewers, is in the audit log,
\* and no agent is there twice, however many decisions overtake each other and however
\* often runs are dropped.
THEOREM AuditCovers == Spec => []AuditCoversTrace
<1>1. PipelineInv /\ TraceInv => AuditCoversTrace
  <2> SUFFICES ASSUME PipelineInv, TraceInv, NEW agent \in Agents \cup {Human}
               PROVE  /\ Count(stored, agent) <= Count(audit, agent)
                      /\ agent \in Agents => Count(audit, agent) <= 1
    BY DEF AuditCoversTrace
  <2>1. /\ audit \in Seq(Entry) /\ stored \in Seq(Entry)
        /\ Increasing(audit) /\ Mirrored(stored, audit)
    BY RunningFacts, TraceFacts DEF Logged
  <2>2. CASE agent \in Agents
    <3>1. /\ Count(stored, agent) = IF Known(stored, agent) THEN 1 ELSE 0
          /\ Count(audit, agent) = IF Known(audit, agent) THEN 1 ELSE 0
      BY <2>1, <2>2, CountOfAgent DEF Mirrored
    <3>2. Known(stored, agent) => Known(audit, agent) BY <2>1 DEF Mirrored, Known
    <3> QED BY <3>1, <3>2
  <2>3. CASE agent = Human
    <3>1. agent \notin Agents BY <2>3, PlacesDiffer
    <3> QED BY <2>1, <2>3, <3>1 DEF Mirrored
  <2> QED BY <2>2, <2>3
<1> QED BY <1>1, TraceInvariant, PTL

\* Every agent of the graph has reported on an analysed incident, the PR agent on a closed
\* one, and the log has them in the order of the graph.
THEOREM AgentsReport == Spec => []EveryAgentReports
<1>1. PipelineInv /\ TraceInv => EveryAgentReports
  <2> SUFFICES ASSUME PipelineInv, TraceInv PROVE EveryAgentReports OBVIOUS
  <2>1. audit \in Seq(Entry) /\ Logged(audit, row.status) BY RunningFacts, TraceFacts
  <2>2. \A agent : Known(audit, agent) <=> Entered(agent) # {} BY DEF Known, Entered
  <2>3. /\ row.status # "new" => \A agent \in Analysts : Entered(agent) # {}
        /\ row.status = "pr_created" => Entered("pr_agent") # {}
    BY <2>1, <2>2 DEF Logged
  <2>4. ASSUME NEW m \in DOMAIN Order, NEW n \in DOMAIN Order, m < n,
               NEW k \in Entered(Order[m]), NEW l \in Entered(Order[n])
        PROVE  k < l
    <3>1. DOMAIN Order = 1 .. 8 BY DEF Order
    <3>2. \A i \in 1 .. 8 : Order[i] \in Agents /\ Place(Order[i]) = i
      BY DEF Order, Agents, Analysts, Place
    <3>3. /\ k \in DOMAIN audit /\ audit[k].agent = Order[m]
          /\ l \in DOMAIN audit /\ audit[l].agent = Order[n]
      BY DEF Entered
    <3>4. k \in Nat /\ l \in Nat BY <2>1, <3>3, LenProperties
    <3>5. m \in 1 .. 8 /\ n \in 1 .. 8 BY <3>1
    <3>6. Place(audit[k].agent) = m /\ Place(audit[l].agent) = n BY <3>2, <3>3, <3>5
    <3>7. audit[k].agent # Human /\ audit[l].agent # Human BY <3>2, <3>3, <3>5, PlacesDiffer
    <3>8. k # l
      <4>1. m # n BY <2>4, <3>5
      <4> QED BY <3>6, <4>1
    <3>9. ~ (l < k)
      <4>1. SUFFICES ASSUME l < k PROVE FALSE OBVIOUS
      <4>2. Place(audit[l].agent) < Place(audit[k].agent)
        BY <2>1, <3>3, <3>7, <4>1 DEF Logged, Increasing
      <4> QED BY <2>4, <3>5, <3>6, <4>2
    <3> QED BY <3>4, <3>8, <3>9
  <2> QED BY <2>3, <2>4 DEF EveryAgentReports
<1> QED BY <1>1, TraceInvariant, PTL
=============================================================================
