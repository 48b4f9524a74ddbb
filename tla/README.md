# A verification development of RemediAI

RemediAI takes exceptions from Azure Monitor or from local containers, stores each as an
*incident*, has a pipeline of agents analyse it, waits for a human to approve one of the
recommendations, and opens a pull request for the approved one. This directory holds TLA+
modules of the parts of that program in which steps of several actors meet, TLC
configurations that check them, and TLAPS proofs of the properties that matter most.

Paths below are relative to the repository. `local_poller.py`, `runner.py` are under
`apps/worker/agents/`, `approvals.py`, `exceptions.py`, `local_logs.py`, `targets.py` under
`apps/api/routers/`, `scheduler.py`, `connector.py` under `apps/worker/ingestion/`; the agents
are under `packages/agent_runtime/`.

## Inventory

| Component | State it keeps | Operations | Meets others through | Correct when |
|---|---|---|---|---|
| **Poller** (`local_poller.py`) | the batch of ids of the cycle; one session per incident | select a batch, re-read and re-check each row, run, commit or roll back | the `incidents` row, shared with reviewers and with other replicas | nothing half-done is ever visible; everything runnable is run |
| **Runner** (`runner.py`) | the ORM object of the open session, the pipeline state | fresh path: set `triaging`, run the pipeline, write status, analysis, work item; approved path: load analysis and ticket, run PR agent and validation, write status and link | the ticket system and the repository, written before the commit | the status tells what happened; effects are not repeated without cause |
| **Approval endpoints** (`approvals.py`) | the request's session | approve: check status, check rank against the newest analysis, write three columns, an audit row, a trace entry; reject: the same without checks | the same row; the row lock held by a running worker | the row shows the last decision; no decision is lost |
| **Code fix and PR agents** (`code_fix/agent.py`, `pr_agent/agent.py`, `repos_writer.py`) | the approved end of the graph's state | read the file, ask the model, branch, push, pull request, validate | the repository, to which developers commit meanwhile | one patch; it changes what the fix changes; the outcome is told |
| **Triage, parser, frame filter, snippets** (`triage`, `root_cause`, `code_context`) | the graph's state | classify, parse the trace, choose frames, fetch source | the repository, read later than the trace was written | the code the later agents see is the code the trace names |
| **Agent pipeline** (`packages/agent_runtime`) | the graph's state record: recommendations, errors, trace, ids | triage, root cause, code context, RAG, fix planner, bug creator; PR agent and validation on the approved path | LLM, Azure Search, Azure DevOps | errors of one agent do not lose the work of the others |
| **Ingestion** (`scheduler.py`, `connector.py`) | one session per cycle | query the last ten minutes, look every fingerprint up, insert, commit | the unique index on `incidents.fingerprint` | one incident per fingerprint; no exception forgotten |
| **Intake endpoints** (`exceptions.py`, `local_logs.py`) | the request's session | look up, insert, answer | the same index | the answer is true |
| **Log bridge** (`apps/log_bridge`) | one parser per service, the allowlist, a Redis list | tail, parse, refresh the allowlist, post, trim | the local ingest endpoint | a post is a whole traceback of an enabled container; the list stays at 1000 |
| **Target registry** (`targets.py`) | `monitor_targets`; the request's session | list, bulk upsert, discover | the bridge's allowlist; a unique index; row locks | one row per key; an answer says what is stored |
| **Search index** (`populate_search_index.py`, `chunker.py`, `runbook_indexer.py`) | the documents of the index; the script's run | cut, embed, upload | the runbooks, edited meanwhile; embedding and search services | no text is lost in the cutting; no document has another's vector or place |
| **Worker entry point** (`apps/worker/main.py`) | none | start the poller (local mode) or the ingestion scheduler | | |
| **Read-only endpoints** | none | incidents, metrics, integrations | | |
| **Other pure functions** | none | reranker, query builder, PII scrubber | | they compute what their documents say |
| **Clients and providers** | HTTP sessions | Azure DevOps, Azure Search, LLM, registry | every call may fail, or succeed and lose its answer | |
| **Dashboard, docs site, deployment** | browser state; none | | | |

The behaviours that are hard here, and that the tests of the repository (which mock the
session and run one coroutine at a time) do not reach:

* a run lasts minutes and is **one database transaction**, while its outside effects (bug,
  pull request) happen at once: a kill or an exception between them separates the two;
* the runner works on the row **as the session first read it**; SQLAlchemy does not refresh
  an object it already holds, so approval and rank may be stale when they are used;
* an ORM commit writes **only the columns that differ** from what the session read, so
  concurrent decisions interleave column by column, not row by row;
* the poller checks a row twice but **without a lock**, and the status a concurrent run has
  written is invisible until that run ends;
* the trace is a **document in one column** that reviewers and runner read, extend and write
  back whole, and each agent carries the errors of the ones before it by hand;
* ingestion, intake and the target registry **look up first and insert later**, and a whole
  ingestion cycle, or a whole list of targets, commits or rolls back as one;
* the code fix agent reads a file **before** the model is asked and the PR agent takes the
  head of the branch **after** it; every call to the repository may take effect and lose its
  answer, whether a branch was created is not read from it, and nothing but the commit a push
  names tells a retry from a first attempt;
* the index is filled by **several calls, none of them a transaction**, from texts that change
  between the runs.

Every one of them is listed at its line under `hazards` in `PROJECT.json`, with the
properties that guard it.

## Plan

1. **Done** `RemediationPolicy`, `IncidentLifecycle`, `IncidentLifecycleProofs`: worker,
   runner, approvals and the row they share.
2. **Done** `Intake`: ingestion cycles and intake requests under the unique index.
3. **Done** `AgentPipeline`, `AgentOutcome`: the graph inside a run, the errors and the trace
   its agents hand on, and the trace document that reviewers and runner write back whole;
   shown to keep the contract on which `IncidentLifecycle` takes a run of agents as one step.
4. **Done** `LogBridge`, `LogBridgeProofs`: tailer threads, parser state that survives a
   reconnect, the allowlist that is refreshed only when an exception arrives, the single
   ingest call, the capped list.
5. **Done** `Targets`: the bulk upsert, with its flushes, locks and unique index.
6. **Done** `Repair`, `RepairProofs`: the approved end of the compiled graph against a
   repository that moves.
7. **Done** `Grounding`: triage table, stack parser, frame filter, snippets.
8. **Done** `SearchIndex`: the chunker and the script that fills the index.
9. **Done** proofs for any fleet, any number of cycles, requests, tailers, invocations and
   reviewers: `IncidentLifecycleProofs`, `IntakeProofs`, `RepairProofs`, `TargetsProofs`,
   `AgentPipelineProofs` with the refinement of `AgentOutcome`, more of `LogBridgeProofs`.
10. **Done** proofs for one replica, up to the refinement of `RemediationPolicy`; what the
    trace document owes to the audit log; the index and its script (`SearchIndexProofs`);
    what parser and chunker compute for every input, by induction.
11. **Done** `GroundingProofs`, for traces of any length, and `NoTextIsLost`, for texts of any
    length: no invariant that a run checks is without a theorem.
12. **Done** answers that say less than they seem to: a query that returns part of the window,
    a `create_branch` that is answered without effect.

## The modules

### IncidentLifecycle

What is committed is in `row`, `analyses`, `workItems`, `decisions` (the audit rows of
approvals and rejections). What a worker's open transaction has read or written is in
`txn[w]`: `seen` is the ORM object, `recs` and `item` what it loaded, `bug`, `pr`, `failed`
what the agents reported. `lock` is PostgreSQL's row lock. `bugs` and `prs` are the outside
systems. `undone` and `crashes` are counters.

| Action | Code |
|---|---|
| `Ingest` | a row appears with status `new` (how is the business of `Intake`) |
| `Poll` | first phase of `run_once`: the five oldest runnable ids, then the session ends |
| `Open` | `session.get`, the second check; a row that is no longer runnable is skipped |
| `Raise` | the runner's constructor raises: rollback, next incident |
| `BeginAnalysis` | `UPDATE status = 'triaging'`, flushed: takes the row lock |
| `RunPipeline` | the compiled graph, in one step (see `AgentPipeline`); a bug is created, not created, or created with its answer lost |
| `CommitAnalysis` | status, analysis and work item flushed, and the poller's commit |
| `LoadApproved` | analysis and work item loaded from the relationships |
| `BeginRemediation` | `orm.status = triaging` and the flush |
| `RunPrAgent` | the guards of `pr_agent_node`, the pull request and its failures, validation |
| `CommitRemediation` | status, the link if there is a work item, and the commit |
| `Rollback`, `Crash` | an exception inside the `try`; the death of the process |
| `ReadForApproval`, `CheckRank`, `CommitApproval` | `approve`: the three statements, a 409 and a 422 in between |
| `ReadForRejection`, `CommitRejection` | `reject`, which has no condition on the status |
| `Abandon` | a 422, a lost connection, any exception: `get_db_session` rolls back |

Choices worth knowing:

* Incident ids are numbered by `created_at`, which the domain object sets before the insert,
  so rows may appear out of order; `Selected` is `ORDER BY created_at LIMIT 5`.
* `Written(old, seen, new)` is the ORM's update: a column that got the value it already had
  in this session is left out of the statement, so the database keeps whatever is there.
* `SomeRecs` and `SomeItem`: the relationships carry no `order_by`, so `analyses[0]` is any
  row. The endpoint's query does order, and takes the one appended last.
* `Unrunnable` is the set of incidents for which the constructor of the runner raises. In
  the program the cause is a missing provider, thus all of them or none; a set lets one run
  ask whether such an incident holds up the others.
* `triaging` exists only inside a transaction. `docs/production-readiness-action-plan.md:720`
  speaks of rows left in `triaging`; `PersistedTogether` shows there are none.
* An idle crash with an empty batch changes nothing and is left out.
* Nothing in the code sets `bug_created` or `resolved`; `analysis_failed` is never retried.

### RemediationPolicy

What the module above promises about one row with workers, sessions, locks and retries
hidden: statuses move forward only, pull requests exist for approved ranks only, an incident
closes only after an approval. `IncidentLifecycle` is mapped to it by forgetting everything
but the committed status, the approved ranks and the ranks of existing pull requests.

### AgentPipeline and AgentOutcome

The inside of `RunPipeline` and `RunPrAgent`: one action per node. `run` is the
`IncidentState` that the nodes pass on, reduced to what the properties tell apart: the next
node (`pc`), the approved rank, the number of recommendations, the errors, the trace, whether
`code_fix_result` holds a change and whether the answer of a create call arrived. `stored` is
the committed `agent_trace` document, `audit` the rows of the audit log, `call[c]` a
reviewer's request between its reads and its commit, and how far it is (`stage`).

| Action | Code |
|---|---|
| `BeginAnalysis`, `PersistAnalysis` | the fresh path of `runner.py` around `ainvoke` |
| `Triage` .. `BugCreator` | the six nodes; `After` has the edges |
| `LoadApproved`, `BeginRemediation` | the state built by hand for the approved path, the flush that takes the row |
| `NotApproved`, `OutOfRange`, `NotConfigured`, `OpenPullRequest` | the returns of `pr_agent_node` |
| `NothingToValidate`, `Validate`, `ValidationFails` | the returns of `validation_agent_node` |
| `PersistRemediation` | trace, audit rows and status of the approved path |
| `Read`, `ReadAnalysis`, `Commit` | `approve` (rank > 0) and `reject` (rank 0): the row and the newest analysis are read by two statements, and a run may be committed between them |
| `Drop` | rollback or death of the worker |

Choices worth knowing:

* What an agent records is in `Ran`: its trace entry always, its error only if `Recorded`.
  `Errors` has a third value, `blank`, for an exception whose text is empty, as that of an
  `httpx` timeout is; `Failures` says which agents can see one. The read client
  (`azure_devops/client.py`) turns every HTTP error into an empty answer, Azure Search and
  the model's client wrap theirs with a text.
* A row lock is held from the first `UPDATE` of a run to its end (`Locked`); a decision's
  commit waits for it, its reads do not.
* One worker. `n` in `LoadApproved` ranges over every number of recommendations, and a
  torn pair of decisions leaves the rank empty, so all guards of the PR agent are reached.
* The patch and its checks are reduced to a verdict (`Worst`). A state without
  `code_fix_result` has nothing to parse, and `get_pr_diff` returns the comments of the
  branch's commits, of which there are none.
* Search that is not configured is the case in which the RAG agent does not fail.
* The answer of Azure DevOps to a created pull request is assumed to carry its URL.
* `code_fix_agent` is a node of the graph that no run of the worker reaches: a fresh run
  carries no `approval_status`, and the approved path does not go through the graph. What the
  graph does when it is invoked for an approved incident is in `Repair`.

`AgentOutcome` is the contract: one bug or none in an analysis, one pull request or none in a
remediation and only for an approved rank that exists, and how errors and answers relate. Its
three outcomes are the ones the quantifiers of `RunPipeline` and `RunPrAgent` range over.

### Intake

`window` is what the query can return, `rows` the committed rows by fingerprint, `cycle[s]`
an ingestion cycle and its open transaction, `request[c]` and `answer[c]` an intake call.
The ORM session flushes before every `SELECT`, so a cycle inserts its rows one by one while
it scans (`Lookup`, `Insert`), and each insert meets the unique index: it waits for another
open transaction with the same key (`Blocks`), then fails if that one committed (`Refuses`).
Two cycles that wait for each other are a deadlock that PostgreSQL resolves
(`DeadlockVictim`). `Refused` are fingerprints whose row the database rejects for another
reason, such as a service name longer than its column. Both intake endpoints are one transition system: they differ in the fields of the
row only.

`Fetch` returns some rows of the window, in any order and any number of times, down to none:
the client takes a partial result for a whole one, an unknown result and one without tables
for an empty one (`client.py:54-64`), and the query returns the newest 500 rows. All of these
are successes to the cycle, which then stores what it got. So `EventuallyStored` is about
what is returned: an exception that some cycle finds in its rows again and again is stored.
An exception that leaves the window unreturned is lost, and so it is in the program.

The creation of an audit event for each incident, which
`docs/specs/phase-05-ingestion-service.md:116` asks for, is not in the code and so not here.

### LogBridge

One tailer thread for each watched container: `pc[s]` is where it is in `_handle_line`,
`parser[s]` its `ExceptionParser` (three flags and a list of the code, here `mode` and
`lines`), `answer[s]` the targets it has fetched and not stored yet. Shared without a lock:
`allow` (the `TargetFilter`), `due` (the time of the last refresh) and `stored` (the length of
the Redis list).

| Action | Code |
|---|---|
| `Connect`, `StreamEnds`, `Leave` | the loop of `ContainerLogTailer._run` |
| `HandleLine` | `ExceptionParser.feed`, for any line; `done` is what the line completes, `out` what `feed` returns |
| `SkipRefresh`, `FetchTargets`, `FetchFails`, `StoreTargets` | `_refresh_targets_if_needed` and `TargetFilter.refresh`; another thread may step in between the answer and its assignment |
| `CheckTarget`, `IngestException` | `is_enabled` and the post, whose failure changes nothing in the bridge |
| `Push`, `Trim`, `RedisFails` | `lpush`, `ltrim`; an exception of either ends the stream |
| `UpsertTargets`, `RefreshDue`, `Shutdown` | the registry, the clock, the signal handler |

A line is a sequence of kinds, what the regular expressions see in it; a JSON line stands for
the lines inside it. Any line may follow any other, which includes the replay after a
reconnect. A chunk of the stream is one line, so a stop is seen before the next line. Only
the enabled flags of local containers are kept of the registry.

### Targets

`registry` is the committed `enabled` column of each key, `session[o]` an operator's request
and its transaction: `loaded` and `object` are the attribute values the ORM read and those
the code assigned, `mine` the rows it wrote and so locks, `out` the values it wrote. `overlap`
and `asked` are history variables.

| Action | Code |
|---|---|
| `Put` | a request of `upsert_targets`, with any list of entries, duplicates included |
| `Lookup` | the `SELECT` of one entry, and the object that is added or assigned |
| `Flush` | the `INSERT` or `UPDATE` the next `SELECT` or the commit sends |
| `Commit`, `InsertFails`, `DeadlockVictim`, `CutOff` | the ends of `get_db_session`: commit, a violation of `uq_monitor_targets_key`, PostgreSQL's deadlock detection, the death of the process |

An entry always changes `updated_at`, so each takes the row lock; `enabled` is written only if
it differs from what the session holds (`Base`). Only this column is kept of a row. Listing
and discovery change nothing. `LogBridge` has the effect of a commit in one step
(`UpsertTargets`), on containers instead of keys.

### Repair

The compiled graph from `code_fix_agent` on, for one recommendation: every invocation is a
retry or a replica of the same. The content of a file is the set of changes in it, apart for
the first 8000 characters, which the model is shown, and the rest.

| Action | Code |
|---|---|
| `Edit` | a developer's commit (external) |
| `Invoke` | `_pr_routing` lets the incident through |
| `SkipCodeFix`, `FetchOriginal`, `OriginalNotFound`, `AskModel`, `ModelFails` | the returns and the two awaits of `code_fix_node` |
| `SkipPr`, `GetHead`, `CreateBranch`, `PushPatch`, `CreatePullRequest`, `WriterFails` | `pr_agent_node` and the calls of `ADOReposWriter`, each of which may fail, or take effect and lose its answer |
| `Validate`, `ValidationFails` | `validation_agent_node` |

The language model is assumed to return what it was shown, that with the fix, nothing, or no
`patched_content` (for which the original stands). What it does to code beyond that is not a
question about this program.

The service is outside the repository, and what the module takes it to do is in three guards.

* `CreateBranch`: a ref that exists is not created again. The writer looks at the HTTP status
  only (`repos_writer.py:54-60`), while the refs call reports each ref inside an answer of
  200, and the repository's own test accepts one with an empty list. So besides taking effect,
  losing its answer and failing visibly (`WriterFails`), the call may be answered without
  effect, on a branch that exists or on none, and the agent goes on.
* `PushAccepted`: a push is accepted only onto the commit it names, which is the head of the
  default branch that this invocation has read. This is the one thing that tells a repeated
  invocation from the first: once a patch is on the branch its tip is a commit that no head is.
* `CreatePullRequest` needs the branch, and may succeed again for it. Pull requests that are
  completed or abandoned are not kept apart: while one is open the service refuses another
  (a `WriterFails`), afterwards it does not.

A branch once created is never deleted. A second invocation on the first one's branch can thus
open a pull request of its own; it cannot push again, and if it has no patch its pull request
carries the note that nothing could be applied, over the patch of the other.
`OutcomeIsTold` therefore relates a note to what its own invocation has pushed.

No code in `src/` puts an `ado_repository` into the state, which the PR agent's writer would
prefer to the settings, so both clients of an invocation use the repository of the settings.

### Grounding

What the later agents are shown of an incident. A line of a trace is a record of what the
regular expressions find in it, a file its length; `Next` is `Triage`, `FindFrames`, one
`FetchFile` or `FileNotFound` for each frame, `Finish` or `ContextFails`. The parsers, the
cut to five frames and the two filters are operators, in the order the code applies them.
`Kept` is the list comprehension: the items at some places, in their order. A Node.js line is
of the parenthesised form. The files are those of the branch when they are
fetched, which may be later versions than the trace's: a file can be too short for its line. That an
edit above the line has moved it cannot be seen from the file, by the program or here: the
snippet is then of other lines with the right numbers.

### SearchIndex

`ChunkText` is the chunker, a fold over the sections of a text; the separator it puts between
a carried block and a section counts as one character, where the code has two. `run` is the
script: `EnsureIndex`, `ListRunbooks`, `IndexRunbook` for each of them, `ReadFails`,
`RunRunbooks`, `EmbedBatch` and `EmbedFails` (with the retries),
`ZipVectors`, `UploadBatch`, `UploadFails`, `UploadComplete`. `RunOther` stands for the two
other sources, which raise before they read anything: no client has the `list_files` that the
source indexer calls, and `apps.api.core.database`, which `run_prior_fixes` imports, does not
exist. `EditRunbook` is the author of the runbooks. An embedding is known by its text.

A text is a sequence of sections, each of which may be empty, and a character of it is its
section and its place there (`IsText`), so two versions of a runbook have equal characters
where one is an edit of the other, and a character can be told from its copies in the overlap.
Blanks inside a section are characters like others; the one that counts as a blank is the
separator, which `Strip` takes off a fragment that begins with it. The code strips every
blank: a fragment that is mostly blanks can fall under the minimum in the middle of a section,
which the model does not see.

## The runs

| Run | Instance | What it shows |
|---|---|---|
| `lifecycle_single` | 1 incident, 1 worker, 1 reviewer, ranks 1..2, 3 decisions, 1 rollback, 1 crash | all safety properties that hold for one worker and one reviewer, and that the lifecycle implements `RemediationPolicy` |
| `lifecycle_fleet` | the same with 2 workers and 2 decisions | two replicas: the bugs they duplicate are bounded (atomicity and the approval gate are proved for any fleet) |
| `lifecycle_live` | 3 incidents, one of which always raises, batch of 2 | every runnable incident is analysed, every approval acted on |
| `intake_race` | 2 fingerprints, 2 cycles, 1 client, 3 rows a query, 1 crash | one row per fingerprint, truthful answers, atomic cycles |
| `intake_live` | 3 fingerprints, one refused, 1 cycle, 1 client | an exception that the query keeps returning is stored, unless a refused row shares its window, though every answer may lack any rows |
| `agents_run` | 1 incident, 2 reviewers, 1 rank, 2 failing agents a run, 4 decisions, or 3 and a dropped run | audit log, failures, validation, and that the agents implement `AgentOutcome` |
| `bridge_run` | 2 containers, 10 lines of text and JSON, tracebacks of 2 lines at most, a list of 1, 1 failed Redis call | what the parser reports is whole, only enabled containers are posted for, parser and list stay bounded |
| `targets_run` | 2 keys, 2 operators, 3 requests of up to 2 entries, 1 cut off | a row says what was asked for, an answer what is stored, a failure that somebody else wrote the same key; every request ends |
| `repair_run` | 2 files, one of them long, 1 developer's commit, 2 invocations | one patch at most, whoever made the branch; what it merges is the fix and nothing that is not its own; an outcome that is told |
| `grounding_run` | all traces of up to 3 lines of 4 runtimes, 2 files, at most 2 frames | the snippets are those of the trace; triage tables never lower a priority |
| `index_run` | 2 runbooks with 6 and 1 versions, 2 runs, 1 edit, batches of 2, 2 attempts; chunks of 5 to 9 with an overlap of 2; 6175 sample texts | nothing but short ends is lost, no document is mixed up, a run that ended well has stored what it read |
| `agents_nopatch` | 1 decision | *violated*: a pull request without the approved change |

The violated statement is quoted with its lines under `findings` in `PROJECT.json`.
Other statements that the models contradict and that have no run of their own:

* `local_poller.py:33` says that without a model endpoint a run marks the incident as
  `analysis_failed`. The constructor raises before anything is written (`Raise`), and the
  incident stays `new`.
* `docs/specs/phase-19-pr-agent-and-approval.md:168` has the PR agent write its link to the
  work item. Without a ticket there is no work item, and `CommitRemediation` writes it nowhere.
* `AGENT_DESIGN.md:238` has the bug creator check `ado_bug_id` to prevent duplicates. It does
  not, and a run repeated after a rollback creates a second bug
  (`EffectsRepeatOnlyAfterRollback` counts them).
* `AGENT_DESIGN.md:318` stops the pipeline after a failure of root cause or bug creation. The
  graph has no such edge (`After`), and `EveryAgentReports` shows that all agents run.
* `AGENT_DESIGN.md:317` has every exception appended to the errors. The bug creator tests the
  text of the exception for truth first, and that of an `httpx` timeout is empty (`Recorded`,
  `blank`): a bug creation that timed out leaves an analysed incident without a bug. This is
  why `FailureIsAudited` speaks of errors with a text.
* `exception_parser.py:71` has `feed` return an exception when one is complete. A line that
  ends a .NET trace and is an exception itself completes two, and only the first is returned
  (`ReadInNet`, line 143); of a JSON line that holds several the last one is (`ProcessLine`,
  line 94). The model keeps both lists apart as `done` and `out`.
* `exception_parser.py:18` gives `NullReferenceException: message` as an example of a .NET
  start. Without a `System.` or `Microsoft.` name the line is taken for a single-line
  exception first (`error` in `ReadOutside`), and its frames are dropped.
* A .NET trace longer than the cap is never reported, a Python one loses its stack and is
  reported by its last line alone (`Longer`); a .NET trace that is the last text of a log is
  not reported before another line arrives.
* `main.py` of the bridge sets the stop flags on a signal; its main thread sleeps on for ever.
* `AGENT_DESIGN.md:326` has every agent append to the trace. The validation agent returns
  nothing when there is no pull request (`NothingToValidate`).
* `docs/specs/phase-19-pr-agent-and-approval.md:108` has the rejection's reason in
  `agent_trace`. It is in the audit row only.
* `local_poller.py:82` skips a row "already picked up by a concurrent run". A concurrent run
  commits nothing before its end, so the second check does not see it (`Open`), and both
  analyse the incident; `BugsBoundedByFleet` is what remains true.
* `docs/specs/phase-19-pr-agent-and-approval.md:68` lets a later decision overwrite the earlier
  one. Of two decisions that overlap, only the columns that differ from what each has read are
  written (`Written`), and the row can keep the rank of one with the status of the other.
* `AGENT_DESIGN.md:341` mirrors the full trace to the audit log. The trace is read and written
  back whole: a decision taken while an analysis runs, or the analysis, loses the other's
  entries from the document (`PersistAnalysis`, `Commit`), and the audit log alone has all.
* `docs/specs/phase-05-ingestion-service.md:114` answers `created|duplicate`. The slower of two
  simultaneous requests for a new fingerprint meets the unique index and gets a 500 (`Refuses`).
* A `PUT` of targets answered as saved may leave a column as another request set it meanwhile,
  because its own value equals the one it had read (the `overlap` of `AnswerMeansSaved`).
* `stack_parser.py` says that it tries all supported parsers. The .NET expression, which is
  the first, matches every line that begins with `at`, so those of Node.js and Java are never
  reached and their frames have no file (`TryDotnet`); and the frames are cut to five
  (`ParseStackFrames`) before the ones without a file are dropped. The fallback of
  `docs/specs/phase-17-search-rag-quality.md:158`, the top three if all are denied, is
  unreachable: the parser has asked the same registry (`IsInternal`).
* `docs/specs/phase-35-code-fix-agent.md:22` has the agent work from the full file, so that no
  file is replaced by a fragment of it (lines 17-19). It is shown 8000 characters (which line
  88 does say), what comes back is compared with the uncut file, and it replaces the whole
  file (`Shown`, `PushPatch`): the rest of a longer file is deleted, if the diff stays within
  `_MAX_DIFF_LINES`. Line 67 of the same document calls `original_content` the file before the
  fix: what a developer commits to it between the agent's read and that of the head
  (`GetHead`) is taken back by the push. `PullIsTheFix` shows that these two are the only
  losses, and that nothing else gets in.
* Line 141 of that document has the PR agent take `file_path` from `code_fix_result`. It takes
  the content from it and the path from the recommendation (`AfterBranch`, `PushPatch`): a
  patch for a file that only a snippet names is announced, because the note is left out, and
  never pushed. `OutcomeIsTold` excepts it.
* `docs/specs/phase-19-pr-agent-and-approval.md:157` names the branch after the incident and
  the rank. An attempt that fails after `create_branch` leaves the branch, and later ones
  either are refused it or go on with it (`CreateBranch`); their push is refused whenever the
  branch has a patch, or started from another head than theirs.
* The validation's static checks read the messages of the commits, not a diff
  (`StaticChecks`): a pull request to which nothing was pushed can be reported as approved.
* `populate_search_index.py --source all` never gets past the runbooks (`RunOther`).
  `--no-embed`, called a dry run, uploads, and replaces documents together with their vectors.
  The result of each document in an upload is not read (`refused`). The script fills
  `azure_search_incidents_index` and the RAG agent reads `azure_search_index`
  (`settings.py:48`, `:50`), and no file of the repository sets the two alike.
* `chunker.py` has a heading always start a new chunk. Sections that are too short are merged
  (`AddBlock`), and fragments that are too short are dropped in the middle of a text too.

**Bounds.** Every safety property of the lifecycle speaks of one incident, and incidents
interact only through the batch, so one incident suffices where the batch does not matter;
`lifecycle_live` has three, so that a batch of two leaves one out. Two ranks tell an approved
rank from another one. Three decisions are enough for approve, re-approve with another rank,
reject, around a run. One rollback and one crash let every outside effect be repeated and
then repeated again. In `AgentPipeline` two failing agents let one's error be
followed by another's and by a success, one dropped run leaves a bug or a pull request
behind, and four decisions of two reviewers are the fewest that leave an approval without a
rank, the case `NotApproved` is for; decisions and dropped runs share one bound, `MaxEvents`,
so that four decisions come without a dropped run. Ranks are told apart in the lifecycle's
runs. In `Intake` two fingerprints are needed for a deadlock and for a cycle
that holds one row while it waits for the other, and three rows a query let one exception
occur twice beside another. In `Targets` two keys give opposite lock orders, two entries a
duplicate within a payload, and three requests a pair that overlaps one committed before. In
`Repair` two invocations are a retry or a race, one commit can fall before the read, between
read and head, or after both, and one file is longer than what the model is shown. The
constants of `Grounding` and `SearchIndex` are scaled down with their order kept
(`SearchIndexAssumption`): three lines and two frames let the cut fall on a line with a file,
and `Samples` has every text of up to three sections, each empty or of less than twice the
largest chunk. The smallest chunk is longer than an overlap and one character more, as in the
code (400 to 200), so that a fragment with new text in it can be too short: 2993 of the 6175
samples lose the end of a section, and 327 a whole last section behind a chunk.

**Deadlock.** The configurations of `lifecycle`, `agents`, `targets`, `repair`, `grounding` and
`index` say `CHECK_DEADLOCK FALSE`: with a bounded number of decisions, requests, invocations
or runs, and no further exceptions, the system rightly comes to rest. That no request of
`Targets` is left waiting is `EveryPutEnds`.
`Intake` and `LogBridge` never do.

**Fairness.** `lifecycle_live` assumes weak fairness of each worker's `Work`: `run_forever`
never returns and catches every exception, the outside calls have timeouts, and the row lock
a worker may wait for is released by its holder's commit, rollback or death. Reviewers,
crashes and rollbacks get none. `intake_live` assumes weak fairness of each scheduler's cycle
and of each request, for the same reasons. `EventuallyStored` is claimed for one scheduler:
with two, the untimed model lets both start over for ever and be each other's deadlock
victim, which in the program the sixty-second pause makes unlikely and nothing excludes.
`targets_run` assumes weak fairness of each open request's `Step`: the event loop resumes a
handler whose statement returned, and PostgreSQL grants a free lock and breaks a deadlock.
New requests and kills get none.

`bridge_run` lets every kind of line occur in every state of a parser that a traceback of two
lines and its cap can reach; two threads are enough for an answer that is stored late, or
between another thread's refresh and check.

## The proofs

Each theorem holds for every value of the constants that meets the `ASSUME` of its module:
bounds are naturals, distinguished values (no worker, no row, no file) are none of the real
ones. The lemmas about records, updated functions and appended sequences come first and are
cited by name. The proof that a step keeps an invariant has one lemma for each action or
group of actions, and one case for each conjunct the action can disturb.

**`IncidentLifecycleProofs`**, for any fleet and any set of incidents, from
`LifecycleAssumption` (ids are positive numbers, 0 is no worker, incidents and workers are
finitely many):

* `TypeCorrect`: `TypeOK`. Inductive as it stands.
* `GateHolds`: `NoPrWithoutApproval`. Not inductive: the pull request is opened for the rank
  in a session's copy of the row, which may be older than the row itself. `GateInv` adds that
  the rank in the row, and the rank in every running session's copy, was named by a
  committed approval, and that a session on the approved path read the row as approved.
  Since audit rows are only ever appended, a stale copy stays covered: this is why staleness
  does no harm here, for any number of replicas. The column-wise update matters too: a row
  may mix two decisions, but each column's value comes from some committed one.
* `PersistenceAtomic`: `PersistedTogether`. `PersistInv` adds that a session past its first
  write holds the row lock, so no other commit can come between the creation of a bug and
  the work item that records it, and that a session that read the row as approved has an
  analysis to load.

* `BugsBounded`: `BugsBoundedByFleet`. A count of bugs alone is not inductive. `FleetInv`
  counts the workers that may still report a bug (`MayReport`: they hold an unfinished
  analysis, or the row is still untouched and they could begin one): the bugs and these
  together are at most the workers and the rollbacks. A bug moves a worker from one side to
  the other, a rollback gives one back. This is where the fleet has to be finite.
* `LastDecisionShown`: `ApprovalIsLastDecision`, for any number of replicas, if there is one
  reviewer (`OneReviewer`). `ReviewInv` is about the row, the decisions and the requests only:
  workers write other columns than reviewers do. Two reviewers can be overtaken between the
  read and the write.
* `StatusAdvances`, `EffectsRepeat`, `LifecycleImplementsPolicy`: `StatusOnlyAdvances`,
  `EffectsRepeatOnlyAfterRollback` and the refinement of `RemediationPolicy`, if there is one
  replica (`OneWorker`), as the deployment of phase 23 has it; a second one reads the row
  before the first has committed, analyses it again and writes its status over the other's.
  `SerialInv` says that the open session has read the status that is still committed, that an
  incident has one analysis at most, the one its remediation loads, and that its pull
  requests are those of undone runs and, once it is closed or about to be, one more; the bugs
  are bounded by `BugsBounded`. For the refinement, each action is shown to be a step of the
  policy or a stutter.
* `ApprovedRankValid`: `RankStillValid`, for one replica and one reviewer: the one analysis
  that `SerialInv` gives is that whose ranks the request checked, and by `ReviewInv` an
  approval that a session has read names one of them.

**`IntakeProofs`**, for any number of schedulers, clients and fingerprints: `TypeCorrect`,
`OneRow` (`OneRowPerFingerprint`), `AnswersStored` (`AnswerMeansStored`), `CyclesAtomic`
(`CycleIsAtomic`). One invariant, `IntakeInv`, carries them: of one fingerprint there is one
committed row or one open insert (`Exclusive`, what the unique index does), an answer that
was given still holds (`AnswersHold`), and whatever a cycle fetched is stored, inserted by it
or still to be scanned (`Covered`).

**`LogBridgeProofs`**, for any set of containers: `AllowlistHonoured` (`OnlyEverEnabled`),
`StoreBounded` (`StoreIsBounded`), `TypeCorrect` (`TypeOK`) and `DetectionsWhole`
(`DetectionsAreWhole`). `AllowInv` says that the allowlist in use and every answer that waits
to be stored hold only containers that were enabled when they were read, so no order of the
threads' assignments does harm. `StoreInv` counts the threads between push and trim.
`BridgeInv` says what a parser can hold (`Pending`): of the format it is reading the header
and, behind it, no line that ends a traceback of that format. The last two theorems are
about every sequence of lines, a JSON body of any length included: what reading one line
yields is whole, and `FoldLeftKeeps` carries it over the lines of a body.

**`RepairProofs`**, for any number of invocations, files and commits: `TypeCorrect`,
`SinglePatch` (`OnePatch`), `PullMergesTheFix` (`PullIsTheFix`), `OutcomeTold`
(`OutcomeIsTold`). None of them supposes that a branch is its invocation's own. The argument
is about contents: a file that developers made has its end exactly if it is long, and has
never the fix (`Developed`), and every head that an invocation read, and the base of the
branch, is made of such files. What the PR agent pushes is not: it holds the fix, or is a long
file without its end (`PatchDiffers`). So the tip of a branch with a patch is nobody's head,
and the service refuses every further push. `RepairInv` says this of the branch
(`BranchFacts`), of what each invocation read, was answered and pushed (`Sound`), of the pushes
(`PushFacts`), and of what an invocation that ended told (`Told`). The assumptions on the
service are the three guards named above.

**`TargetsProofs`**, for any number of operators, keys and entries: `TypeCorrect`,
`RowsWereAsked` (`ValueWasAsked`), `SavedAsAnswered` (`AnswerMeansSaved`),
`FailureHasOverlap` (`FailsOnlyByOverlap`). The last two are action properties, proved from
the invariant of the state before: `TargetsInv` says of each open transaction that its
objects have the values of the last entries scanned (`Latest`), that what it wrote is what
the objects say, and what it did not write was so when loaded (`Written`), and that a row
still is as it was read unless an overlapping request wrote it (`Fresh`).

**`AgentPipelineProofs`**, for any number of recommendations and reviewers: `TypeCorrect`,
`FailureAudited` (`FailureIsAudited`), `ClosedValidated` (`ClosedIsValidated`), and
`OutcomeKept`, that the module implements `AgentOutcome`. `PipelineInv` says that the errors
of a run and the entries it added to the trace tell the same (`Honest`), what a run cannot
know before a node (`Placed`), that an answered pull request exists and is reported on
(`Answered`), and that the row still has the status on which a run took it (`Taken`:
decisions change other columns). For the refinement each outcome action has a lemma that
says when it is seen (`OutcomeBegins`, `OutcomeAnalyses`, ...), and each node one that it is
seen so or not at all. `AuditCovers` (`AuditCoversTrace`) and `AgentsReport`
(`EveryAgentReports`) rest on `TraceInv`: the entries of the log are in the order of the
agents and in step with the status (`Logged`), and the document, each copy of it that a
reviewer has read, and the trace of a run repeat nothing and show only what the log has or
the run itself has added (`Mirrored`, `Traced`). The decisions, of which there can be many,
are compared by number.

**`SearchIndexProofs`**, for any texts, any number of runbooks, edits and runs, and every size
of a chunk, an overlap and a batch: `IndexIsGenuine` (`IndexHoldsChunks`) and
`CompletedIsIndexed` (`CompletedRunIsIndexed`). `IndexInv` says of the run that its documents
are chunks of some version of their files (`Genuine`), one for each id (`Apart`: a file is
read once), that the vectors so far are those of the documents, in their order (`Embedded`),
and that what was sent is in the index or was refused (`Uploaded`); of the index, that a
document is under its own id (`Held`). That a document without text cannot pass for one with a vector
needs `ChunksAreLong`, the first of the module's lemmas: the chunker returns texts that are
long enough, whatever it is given.

`NoTextIsLost` (`ChunksKeepText`) is about every text that satisfies `IsText`: the samples of
`index_run` show it for short ones. Its argument is in three parts.

* Blocks. A text is `Parted` if its blanks stand alone and before a character; what is
  carried, and what it makes with the next section (`BlockParts`), is. Of such a text
  stripping takes one place at most (`StripSlice`).
* Fragments. `Covers` says of the fragments of a block that together they have all of it up
  to a place, and that each begins inside the one before; `FragmentsCover` shows it by
  induction on how much of the block is left, for a block whose blanks are in the carried
  part. The place is less than a smallest chunk from the end.
* Sections. `ReadTo` is the invariant of the loop: of each section that was read all but a
  short end is in the chunks (`Shortened`), or all of it is carried and none in a chunk
  (`Waits`), and then every later section that has text waits too. What is carried is shorter
  than a smallest chunk, hence what waits at the end of the text is, together. The
  strengthening is that a carried character is in a chunk already or belongs to a section
  that waits: when the next block is cut, a section that was cut before gains nothing from
  the overlap, and what it lost stays its end. `CutSection` is that step, in which those that
  waited become part of a chunk.

**`GroundingProofs`**, for traces of any length, any files and any number of frames and
context lines: `GroundedSnippets` (`SnippetsMatchTrace`) and `TriageTakesTheWorst`
(`TriageNeverDowngrades`). `GroundingInv` says that the frames still to be fetched are those
of near lines, that each near line has a frame to be fetched, a snippet or an unread file
(`Accounted`), and that each snippet lies in its file around its line (`Fits`). The work is in
the frames: each filter is a `Kept`, whose n-th item stood at the n-th of the places that
were kept (`KeptFrom`, `KeptAt`), and an item that is kept twice has the rank it would have
if it had been kept once (`RankTwice`, `KeptTwice`). From this follows that the cut to
`MaxFrames` takes the user lines with fewer than `MaxFrames` before them (`NearRanks`,
`ParsedStack`), and that neither filter loses one of them that names a file
(`FilterMembers`). That the first rule is the worst one is that no table ascends
(`TablesDescend`).

**Induction.** The library states its theorems on induction for an operator, which the provers
cannot instantiate; that the strict inclusion of finite sets is well founded it states about
sets. From this follows that a nonempty set of numbers has a least element (`LeastNumber`),
and from that induction up to a number and down from one (`UpTo`, `DownFrom`), that
`FoldLeft` of the community modules unfolds into a chain of values (`FoldLeftUnfolds`), and
that it keeps what its operator keeps (`FoldLeftKeeps`). `LogBridgeProofs` has these for
`ProcessLine` and `SearchIndexProofs` for `AddSection`: a fold takes its operator as a
parameter, so each module states them for its own.

**Only model-checked:** liveness, which with fairness and `ENABLED` is out of the prover's
reach: `NewIncidentSettles`, `ApprovalIsActedOn`, `EventuallyStored`, `EveryPutEnds`. Every
invariant and every action property of the runs has a theorem, and so have both refinements.

## Not modelled

Two hazards are listed without a property, each with its reason in `PROJECT.json`: a batch
filled with rows whose run always raises, and what a reconnecting tailer replays into a
half-read traceback.

Left out for good:

* the source and the prior-fix indexer: neither can run (see `SearchIndex`), so there is no
  behaviour of theirs to state;
* the reranker, which is floating-point arithmetic on scores, the text of the query builder,
  and the PII scrubber, which is substitution in text;
* regular expressions and prompts: a line is what the expressions find in it, an answer of
  the model is one of the kinds the code tells apart;
* HTTP clients: their outcomes are choices of the models that call them;
* read-only endpoints, settings, authentication, logging and tracing, the dashboard, the
  documentation site and the deployment files: none of them has a state that another part
  reads;
* `apps/worker/main.py`, which starts either the poller or the scheduler; the two never
  share a process, and meet only in the table `Ingest` stands for.
