------------------------------- MODULE Repair -------------------------------
(***************************************************************************)
(* The approved end of the compiled graph (pipeline.py): code_fix_agent,   *)
(* pr_agent and validation_agent against the repository, while developers  *)
(* commit to the default branch.  Every invocation is for the same         *)
(* recommendation of the same incident, so all of them use one branch      *)
(* name: a second one is the retry of a run that was cut off, or another   *)
(* replica.  The runner of the worker calls the PR agent by itself         *)
(* (AgentPipeline); here is what the graph does when it is invoked.        *)
(*                                                                         *)
(* The content of a file is the set of changes it contains, apart for the  *)
(* part the language model is shown and the part after it; its first text  *)
(* is marked with the file itself.                                         *)
(***************************************************************************)
EXTENDS Naturals, FiniteSets

CONSTANTS
  Files,      \* files of the repository
  LongFiles,  \* those longer than _MAX_FILE_CHARS
  Edits,      \* bound: commits of developers
  Runs,       \* bound: invocations of the graph
  NoFile,     \* the empty path
  None        \* no result, no branch

ASSUME RepairAssumption ==
  /\ LongFiles \subseteq Files /\ NoFile \notin Files
  /\ Files \cap Edits = {} /\ "fix" \notin Files \cup Edits

VARIABLES
  main,    \* the default branch: the content of each file
  edited,  \* commits made so far
  branch,  \* the branch of the recommendation, with the pushes to it
  pulls,   \* pull requests opened from it
  run      \* the invocations

vars == <<main, edited, branch, pulls, run>>
-----------------------------------------------------------------------------
Marks == Edits \cup Files \cup {"fix"}
Content == [seen : SUBSET Marks, unseen : SUBSET Marks]
Tree == [Files -> Content]
Blank == [seen |-> {}, unseen |-> {}]
Agents == {"code_fix", "pr_agent", "validation_agent"}

\* code_fix_result; tooLarge: its diff is over _MAX_DIFF_LINES.
Fix == [file : Files \cup {NoFile}, original : Content, patched : Content, tooLarge : BOOLEAN]

\* A push that took effect: whose, to which file, and what that invocation had read.
Push == [by : Runs, path : Files, read : Content]

\* base, tip: the first and the last commit of the branch.
Branch == [base : Tree, tip : Tree, pushes : SUBSET Push]

ASSUME NoneAssumption == None \notin Tree /\ None \notin Fix /\ None \notin Branch

Gates == {"open", "no_rank", "beyond", "no_provider"}
Labels == {"idle", "code_fix", "llm", "pr_agent", "branch", "push", "pull", "validate", "done"}
Reports == {"none", "approved", "needs_review", "blocked"}

\* gate: what the guards find; planned, snippet: the first affected file of the
\* recommendation and the file of the first snippet; head: the commit the branch
\* starts from.  A run that is done keeps what it returned.
Run == [pc : Labels, gate : Gates, planned : Files \cup {NoFile}, snippet : Files \cup {NoFile},
        fix : Fix \cup {None}, head : Tree \cup {None}, url : BOOLEAN, report : Reports,
        errors : SUBSET Agents]

NoRun == [pc |-> "idle", gate |-> "open", planned |-> NoFile, snippet |-> NoFile, fix |-> None,
          head |-> None, url |-> FALSE, report |-> "none", errors |-> {}]

Init ==
  /\ main = [f \in Files |-> [seen |-> {f}, unseen |-> IF f \in LongFiles THEN {f} ELSE {}]]
  /\ edited = {}
  /\ branch = None
  /\ pulls = {}
  /\ run = [r \in Runs |-> NoRun]

\* An agent adds to the errors.
Failing(s, agents) == [s EXCEPT !.errors = @ \cup agents]

\* The invocation returns.
Ended(s) == [pc |-> "done", gate |-> s.gate, planned |-> NoFile, snippet |-> NoFile,
             fix |-> None, head |-> None, url |-> s.url, report |-> s.report,
             errors |-> s.errors]

\* A developer commits to the default branch.
Edit(e) ==
  /\ e \notin edited
  /\ \E f \in Files :
       \/ main' = [main EXCEPT ![f].seen = @ \cup {e}]
       \/ f \in LongFiles /\ main' = [main EXCEPT ![f].unseen = @ \cup {e}]
  /\ edited' = edited \cup {e}
  /\ UNCHANGED <<branch, pulls, run>>

\* The graph reaches the code fix agent of an approved incident.
Invoke(r) ==
  /\ run[r].pc = "idle"
  /\ \E gate \in Gates, planned, snippet \in Files \cup {NoFile} :
       /\ gate # "open" => planned = NoFile /\ snippet = NoFile
       /\ run' = [run EXCEPT ![r] = [@ EXCEPT !.pc = "code_fix", !.gate = gate,
                                              !.planned = planned, !.snippet = snippet]]
  /\ UNCHANGED <<main, edited, branch, pulls>>
-----------------------------------------------------------------------------
(* code_fix/agent.py.                                                      *)

\* Variant: the file of the first snippet goes before the one the plan names.
FixPathSnippetFirst(s) == IF s.snippet # NoFile THEN s.snippet ELSE s.planned

\* The first affected file, else that of the first snippet.
FixPath(s) == IF s.planned # NoFile THEN s.planned ELSE s.snippet

Unfixed(file) == [file |-> file, original |-> Blank, patched |-> Blank, tooLarge |-> FALSE]

\* The result of the agent and the errors it adds; the PR agent is next.
Fixed(r, fix, errors) ==
  run' = [run EXCEPT ![r].pc = "pr_agent", ![r].fix = fix, ![r].errors = @ \cup errors]

\* Not approved with a rank, rank out of range, or no provider: no result.
SkipCodeFix(r) ==
  /\ run[r].pc = "code_fix" /\ run[r].gate # "open"
  /\ Fixed(r, None, IF run[r].gate = "beyond" THEN {"code_fix"} ELSE {})
  /\ UNCHANGED <<main, edited, branch, pulls>>

\* The file is read from the head of the default branch as it is now.
FetchOriginal(r) ==
  LET file == FixPath(run[r]) IN
  /\ run[r].pc = "code_fix" /\ run[r].gate = "open" /\ file # NoFile
  /\ run' = [run EXCEPT ![r].pc = "llm",
                        ![r].fix = [Unfixed(file) EXCEPT !.original = main[file]]]
  /\ UNCHANGED <<main, edited, branch, pulls>>

\* No path, no such file, or the service failed: the client says None to each.
OriginalNotFound(r) ==
  /\ run[r].pc = "code_fix" /\ run[r].gate = "open"
  /\ Fixed(r, Unfixed(FixPath(run[r])), {})
  /\ UNCHANGED <<main, edited, branch, pulls>>

\* What the model is shown of the file: its first _MAX_FILE_CHARS characters.
Shown(original) == [seen |-> original.seen, unseen |-> {}]

\* The model returns what it was shown, that with the fix, nothing at all, or no
\* patched_content, for which the original stands.
AskModel(r) ==
  LET original == run[r].fix.original IN
  /\ run[r].pc = "llm"
  /\ \E patched \in {original, Shown(original), Blank,
                     [Shown(original) EXCEPT !.seen = @ \cup {"fix"}]},
        tooLarge \in BOOLEAN :
       Fixed(r, [run[r].fix EXCEPT !.patched = patched, !.tooLarge = tooLarge], {})
  /\ UNCHANGED <<main, edited, branch, pulls>>

ModelFails(r) ==
  /\ run[r].pc = "llm"
  /\ Fixed(r, Unfixed(run[r].fix.file), {"code_fix"})
  /\ UNCHANGED <<main, edited, branch, pulls>>
-----------------------------------------------------------------------------
(* pr_agent/agent.py with repos_writer.py.                                 *)

\* The patch is something, changes something, and replaces something.
Changes(s) ==
  s.fix # None /\ s.fix.original # Blank /\ s.fix.patched \notin {Blank, s.fix.original}

PatchApplied(s) == Changes(s) /\ ~ s.fix.tooLarge

PrErrors(s) == IF Changes(s) /\ s.fix.tooLarge THEN {"pr_agent"} ELSE {}

SkipPr(r) ==
  /\ run[r].pc = "pr_agent" /\ run[r].gate # "open"
  /\ run' = [run EXCEPT ![r] =
               Ended(Failing(@, IF run[r].gate = "beyond" THEN {"pr_agent"} ELSE {}))]
  /\ UNCHANGED <<main, edited, branch, pulls>>

\* A call to the service took effect; if its answer is lost the agent gives up.
Answered(r, answered, s) ==
  run' = [run EXCEPT ![r] =
    IF answered THEN s ELSE Ended(Failing([s EXCEPT !.url = FALSE], {"pr_agent"}))]

\* The size of the patch is checked, then the head of the default branch is read.
GetHead(r) ==
  /\ run[r].pc = "pr_agent" /\ run[r].gate = "open"
  /\ run' = [run EXCEPT ![r].pc = "branch", ![r].head = main,
                        ![r].errors = @ \cup PrErrors(run[r])]
  /\ UNCHANGED <<main, edited, branch, pulls>>

\* Variant: the path is not looked at.
AfterBranchNoPath(s) == IF PatchApplied(s) THEN "push" ELSE "pull"

AfterBranch(s) == IF PatchApplied(s) /\ s.planned # NoFile THEN "push" ELSE "pull"

\* The service creates no branch that exists, and may say so, or refuse for another reason,
\* inside an answer the agent takes for a success.
CreateBranch(r, answered) ==
  LET s == run[r] IN
  /\ s.pc = "branch"
  /\ \/ branch = None /\ branch' = [base |-> s.head, tip |-> s.head, pushes |-> {}]
     \/ branch' = branch
  /\ Answered(r, answered, [s EXCEPT !.pc = AfterBranch(s)])
  /\ UNCHANGED <<main, edited, pulls>>

\* Variant: the push is for whatever commit the branch is at.
PushAcceptedAnyway(s) == branch # None

\* The service accepts a push only on the commit it names, the head that was read.
PushAccepted(s) == branch # None /\ branch.tip = s.head

\* The whole file is replaced.
PushPatch(r, answered) ==
  LET s == run[r] IN
  /\ s.pc = "push" /\ PushAccepted(s)
  /\ branch' = [branch EXCEPT
       !.tip[s.planned] = s.fix.patched,
       !.pushes = @ \cup {[by |-> r, path |-> s.planned, read |-> s.fix.original]}]
  /\ Answered(r, answered, [s EXCEPT !.pc = "pull"])
  /\ UNCHANGED <<main, edited, pulls>>

\* Variant: the note follows what the code fix agent made.
NotedFromFix(s) == s.fix = None \/ s.fix.patched = s.fix.original

\* The description notes that no fix could be applied.
Noted(s) == ~ PatchApplied(s)

\* From a branch that exists; while another pull request from it is open the service
\* refuses (WriterFails).
CreatePullRequest(r, answered) ==
  LET s == run[r] IN
  /\ s.pc = "pull" /\ branch # None
  /\ pulls' = pulls \cup {[by |-> r, noted |-> Noted(s), named |-> s.planned # NoFile]}
  /\ Answered(r, answered, [s EXCEPT !.pc = "validate", !.url = TRUE])
  /\ UNCHANGED <<main, edited, branch>>

\* Any call of the writer fails without effect.
WriterFails(r) ==
  LET s == run[r] IN
  /\ s.gate = "open" /\ s.pc \in {"pr_agent", "branch", "push", "pull"}
  /\ Answered(r, FALSE, Failing(s, IF s.pc = "pr_agent" THEN PrErrors(s) ELSE {}))
  /\ UNCHANGED <<main, edited, branch, pulls>>
-----------------------------------------------------------------------------
(* validation_agent/agent.py.                                              *)

\* The report on the checks of the diff, the syntax of the patch, and the model.
Verdicts(checks) ==
  IF "fail" \in checks THEN {"blocked"}
  ELSE IF "warn" \in checks THEN {"needs_review"} ELSE {"needs_review", "approved"}

Results == {"pass", "warn", "fail"}

\* The checks read the messages of the commits on the branch; without a commit they pass.
StaticChecks == IF branch.tip = branch.base THEN {"pass"} ELSE Results

\* The checks of the content the model returned, pushed or not; of none they pass.
SyntaxChecks(s) == IF s.fix.patched = Blank THEN {"pass"} ELSE Results

Validate(r) ==
  /\ run[r].pc = "validate"
  /\ \E static \in StaticChecks, syntax \in SyntaxChecks(run[r]) :
       \E verdict \in Verdicts({static, syntax}) :
         run' = [run EXCEPT ![r] = Ended([@ EXCEPT !.report = verdict])]
  /\ UNCHANGED <<main, edited, branch, pulls>>

\* Reading the diff, asking the model or posting the report fails; the report made
\* before its posting failed is kept.
ValidationFails(r) ==
  /\ run[r].pc = "validate"
  /\ \E report \in Reports :
       run' = [run EXCEPT ![r] =
                 Ended(Failing([@ EXCEPT !.report = report], {"validation_agent"}))]
  /\ UNCHANGED <<main, edited, branch, pulls>>

CodeFix(r) == SkipCodeFix(r) \/ FetchOriginal(r) \/ OriginalNotFound(r) \/ AskModel(r) \/ ModelFails(r)

PrAgent(r) ==
  \/ SkipPr(r) \/ GetHead(r) \/ WriterFails(r)
  \/ \E answered \in BOOLEAN :
       CreateBranch(r, answered) \/ PushPatch(r, answered) \/ CreatePullRequest(r, answered)

Next ==
  \/ \E e \in Edits : Edit(e)
  \/ \E r \in Runs : Invoke(r) \/ CodeFix(r) \/ PrAgent(r) \/ Validate(r) \/ ValidationFails(r)

Spec == Init /\ [][Next]_vars
-----------------------------------------------------------------------------
TypeOK ==
  /\ main \in Tree /\ edited \subseteq Edits
  /\ branch \in Branch \cup {None}
  /\ pulls \subseteq [by : Runs, noted : BOOLEAN, named : BOOLEAN]
  /\ run \in [Runs -> Run]
  /\ \A r \in Runs :
       /\ run[r].pc = "llm" => run[r].fix # None
       /\ run[r].pc \in {"branch", "push", "pull", "validate"} => run[r].head # None
       /\ run[r].pc = "push" => run[r].fix # None /\ run[r].planned # NoFile
       /\ run[r].pc = "validate" => branch # None

\* The pushes that took effect.
Pushes == IF branch = None THEN {} ELSE branch.pushes

\* However invocations repeat and overlap, on a branch that another one made or none did,
\* one of them pushes at most, and an invocation that goes on with its patch is that one.
OnePatch ==
  /\ \A p, q \in Pushes : p = q
  /\ \A r \in Runs :
       run[r].pc \in {"pull", "validate"} /\ PatchApplied(run[r]) /\ run[r].planned # NoFile =>
         \E p \in Pushes : p.by = r

\* What reviewers are asked to merge is the file the recommendation names, with the fix and
\* nothing that is not its own.  It may lack only what was committed after the code fix
\* agent read it, and what lies beyond _MAX_FILE_CHARS.
PullIsTheFix ==
  \A p \in Pushes :
    LET before == branch.base[p.path]  after == branch.tip[p.path] IN
    /\ \A f \in Files \ {p.path} : branch.tip[f] = branch.base[f]
    /\ after # before
    /\ p.read.seen \subseteq after.seen /\ after.seen \subseteq before.seen \cup {"fix"}
    /\ after.unseen \subseteq before.unseen

\* An invocation tells what it did: it ends with the URL of a pull request that exists, or
\* with an error unless there was nothing to do; and its pull request notes that no patch
\* could be applied exactly if it pushed none, unless the recommendation names no file.
OutcomeIsTold ==
  /\ \A r \in Runs : run[r].pc = "done" =>
       IF run[r].url THEN \E p \in pulls : p.by = r
       ELSE run[r].errors # {} \/ run[r].gate \in {"no_rank", "no_provider"}
  /\ \A p \in pulls : p.named => (p.noted <=> \A q \in Pushes : q.by # p.by)
=============================================================================
