---------------------------- MODULE RepairProofs ----------------------------
(***************************************************************************)
(* Proofs about Repair, for every set of files, commits and invocations.   *)
(***************************************************************************)
EXTENDS Repair, TLAPS


\* What a step that moves one invocation says of all of them.
Moves(r, s) == run' = [run EXCEPT ![r] = s]

LEMMA OnlyMover ==
  ASSUME run \in [Runs -> Run], NEW r \in Runs, NEW s \in Run, Moves(r, s)
  PROVE  /\ run' \in [Runs -> Run]
         /\ run'[r] = s
         /\ \A q \in Runs : q # r => run'[q] = run[q]
BY DEF Moves

LEMMA RunFields ==
  ASSUME NEW s \in Run
  PROVE  /\ s.pc \in Labels /\ s.gate \in Gates
         /\ s.planned \in Files \cup {NoFile} /\ s.snippet \in Files \cup {NoFile}
         /\ s.fix \in Fix \cup {None} /\ s.head \in Tree \cup {None}
         /\ s.url \in BOOLEAN /\ s.report \in Reports /\ s.errors \subseteq Agents
BY DEF Run

LEMMA FixFields ==
  ASSUME NEW x \in Fix
  PROVE  /\ x.file \in Files \cup {NoFile} /\ x.original \in Content /\ x.patched \in Content
         /\ x.tooLarge \in BOOLEAN /\ x # None
BY NoneAssumption DEF Fix

\* A result is written into an invocation, and an invocation ends, within the type.
LEMMA RunUpdates ==
  ASSUME NEW s \in Run, NEW pc \in Labels, NEW errors \in SUBSET Agents,
         NEW report \in Reports, NEW url \in BOOLEAN, NEW fix \in Fix \cup {None},
         NEW head \in Tree \cup {None}
  PROVE  /\ [s EXCEPT !.errors = errors] \in Run
         /\ [s EXCEPT !.report = report] \in Run
         /\ [s EXCEPT !.report = report, !.errors = errors] \in Run
         /\ [s EXCEPT !.url = url, !.errors = errors] \in Run
         /\ [s EXCEPT !.pc = pc] \in Run
         /\ [s EXCEPT !.pc = pc, !.url = url] \in Run
         /\ [s EXCEPT !.pc = pc, !.fix = fix] \in Run
         /\ [s EXCEPT !.pc = pc, !.fix = fix, !.errors = errors] \in Run
         /\ [s EXCEPT !.pc = pc, !.head = head, !.errors = errors] \in Run
<1>1. /\ [s EXCEPT !.errors = errors] \in Run
      /\ [s EXCEPT !.report = report] \in Run
      /\ [s EXCEPT !.report = report, !.errors = errors] \in Run
  BY DEF Run
<1>2. /\ [s EXCEPT !.url = url, !.errors = errors] \in Run
      /\ [s EXCEPT !.pc = pc] \in Run
      /\ [s EXCEPT !.pc = pc, !.url = url] \in Run
  BY DEF Run
<1>3. /\ [s EXCEPT !.pc = pc, !.fix = fix] \in Run
      /\ [s EXCEPT !.pc = pc, !.fix = fix, !.errors = errors] \in Run
      /\ [s EXCEPT !.pc = pc, !.head = head, !.errors = errors] \in Run
  BY DEF Run
<1> QED BY <1>1, <1>2, <1>3

LEMMA FailingRun ==
  ASSUME NEW s \in Run, NEW agents \in SUBSET Agents
  PROVE  /\ Failing(s, agents) \in Run
         /\ Failing(s, agents).errors = s.errors \cup agents
         /\ Failing(s, agents).gate = s.gate /\ Failing(s, agents).url = s.url
<1>1. s.errors \cup agents \in SUBSET Agents BY RunFields
<1> QED BY <1>1 DEF Failing, Run

LEMMA EndedRun ==
  ASSUME NEW s \in Run
  PROVE  /\ Ended(s) \in Run
         /\ Ended(s).pc = "done" /\ Ended(s).gate = s.gate /\ Ended(s).url = s.url
         /\ Ended(s).errors = s.errors /\ Ended(s).fix = None /\ Ended(s).head = None
<1>1. "done" \in Labels BY DEF Labels
<1> QED BY <1>1, RunFields DEF Ended, Run

-----------------------------------------------------------------------------
(* The inductive invariant.                                                *)

Pull == [by : Runs, noted : BOOLEAN, named : BOOLEAN]

\* What the model may make of the original.
Outputs(original) ==
  {original, Shown(original), Blank, [Shown(original) EXCEPT !.seen = @ \cup {"fix"}]}

\* A file as developers leave it: without the fix, and with its end.
Developed(content, file) ==
  "fix" \notin content.seen /\ (content.unseen = {} <=> file \notin LongFiles)

\* A result is for the path the agent chose, from a content of the default branch.
FixFacts(s, m) ==
  s.fix # None =>
    /\ s.fix.file = FixPath(s)
    /\ s.fix.patched \in Outputs(s.fix.original)
    /\ s.fix.file \in Files /\ s.fix.original # Blank =>
         /\ Developed(s.fix.original, s.fix.file)
         /\ s.fix.original.seen \subseteq m[s.fix.file].seen

\* The head is a tree of developers, not older than the original.
HeadFacts(s) ==
  s.head # None =>
    /\ \A f \in Files : Developed(s.head[f], f)
    /\ s.fix # None /\ s.fix.file \in Files /\ s.fix.original # Blank =>
         s.fix.original.seen \subseteq s.head[s.fix.file].seen

\* What an invocation has at hand, and what it returns.
StageFacts(s) ==
  /\ s.pc = "llm" => s.fix # None
  /\ s.pc \in {"branch", "push", "pull", "validate"} => s.head # None
  /\ s.pc = "push" => PatchApplied(s) /\ s.planned # NoFile
  /\ s.pc \in {"idle", "code_fix"} => s.fix = None
  /\ s.pc \in {"idle", "code_fix", "llm", "pr_agent"} => s.head = None
  /\ s.url => s.pc \in {"validate", "done"}
  /\ s.pc = "validate" => s.url
  /\ s.pc = "done" /\ ~ s.url => s.errors # {} \/ s.gate \in {"no_rank", "no_provider"}

Sound(s, m) == FixFacts(s, m) /\ HeadFacts(s) /\ StageFacts(s)

Early == {"idle", "code_fix", "llm", "pr_agent", "branch", "push"}

\* An invocation has pushed if it is past the push with a patch.
PushFacts(r, s, pushes) ==
  /\ s.pc \in Early => \A p \in pushes : p.by # r
  /\ s.pc \in {"pull", "validate"} =>
       ((\E p \in pushes : p.by = r) <=> PatchApplied(s) /\ s.planned # NoFile)

\* What a push made of the branch.
OnlyFix(p, b) ==
  LET before == b.base[p.path]  after == b.tip[p.path] IN
  /\ \A f \in Files \ {p.path} : b.tip[f] = b.base[f]
  /\ p.read.seen \subseteq after.seen /\ after.seen \subseteq before.seen \cup {"fix"}
  /\ after.unseen \subseteq before.unseen

\* The branch starts from a commit of developers.  A push leaves it at a tree that is none
\* of theirs, so that no invocation has read it as the head: there is no second push.
BranchFacts(b) ==
  b # None =>
    /\ \A f \in Files : Developed(b.base[f], f)
    /\ b.pushes = {} => b.tip = b.base
    /\ \A p, q \in b.pushes : p = q
    /\ \A p \in b.pushes : ~ Developed(b.tip[p.path], p.path) /\ OnlyFix(p, b)

Told ==
  /\ pulls # {} => branch # None
  /\ \A r \in Runs : run[r].url => \E p \in pulls : p.by = r
  /\ \A p \in pulls : run[p.by].pc \in {"validate", "done"}
  /\ \A p \in pulls : p.named => (p.noted <=> \A q \in Pushes : q.by # p.by)

Shape ==
  /\ main \in Tree /\ edited \subseteq Edits /\ branch \in Branch \cup {None}
  /\ pulls \subseteq Pull /\ run \in [Runs -> Run]
  /\ \A f \in Files : Developed(main[f], f)

RepairInv ==
  /\ Shape /\ BranchFacts(branch) /\ Told
  /\ \A r \in Runs : Sound(run[r], main) /\ PushFacts(r, run[r], Pushes)

LEMMA InitRepair == Init => RepairInv
<1> SUFFICES ASSUME Init PROVE RepairInv OBVIOUS
<1>1. main \in Tree
  BY RepairAssumption DEF Init, Tree, Content, Marks
<1>2. \A f \in Files : Developed(main[f], f)
  BY RepairAssumption DEF Init, Developed
<1>3. NoRun \in Run BY DEF NoRun, Run, Gates, Labels, Reports
<1>4. run \in [Runs -> Run] /\ \A r \in Runs : run[r] = NoRun
  BY <1>3 DEF Init
<1>5. Shape BY <1>1, <1>2, <1>4 DEF Init, Shape
<1>6. Told BY <1>4 DEF Init, Told, NoRun
<1>7. Sound(NoRun, main)
  BY DEF Sound, FixFacts, HeadFacts, StageFacts, NoRun
<1>8. \A r \in Runs : PushFacts(r, NoRun, Pushes)
  BY DEF Init, PushFacts, Pushes, NoRun
<1>9. BranchFacts(branch) BY DEF Init, BranchFacts
<1> QED BY <1>4, <1>5, <1>6, <1>7, <1>8, <1>9 DEF RepairInv
-----------------------------------------------------------------------------
(* Steps that touch neither the branch nor the pull requests.              *)

LEMMA QuietMove ==
  ASSUME RepairInv, NEW r \in Runs, NEW s \in Run, Moves(r, s),
         UNCHANGED <<main, edited, branch, pulls>>,
         Sound(s, main), PushFacts(r, s, Pushes), s.url => run[r].url,
         run[r].pc \in {"validate", "done"} => s.pc \in {"validate", "done"}
  PROVE  RepairInv'
<1>1. /\ run' \in [Runs -> Run] /\ run'[r] = s
      /\ \A q \in Runs : q # r => run'[q] = run[q]
  BY OnlyMover DEF RepairInv, Shape
<1>2. Shape' BY <1>1 DEF RepairInv, Shape
<1>3. Pushes' = Pushes BY DEF Pushes
<1>4. BranchFacts(branch)' BY DEF RepairInv, BranchFacts, OnlyFix
<1>5. Told'
  <2>1. \A p \in pulls : p.by \in Runs BY DEF RepairInv, Shape, Pull
  <2> QED BY <1>1, <1>3, <2>1 DEF RepairInv, Told
<1>6. \A q \in Runs : Sound(run'[q], main') /\ PushFacts(q, run'[q], Pushes')
  BY <1>1, <1>3 DEF RepairInv
<1> QED BY <1>2, <1>4, <1>5, <1>6 DEF RepairInv

LEMMA EditKeeps ==
  ASSUME RepairInv, NEW e \in Edits, Edit(e) PROVE RepairInv'
<1>1. PICK f \in Files :
        \/ main' = [main EXCEPT ![f].seen = @ \cup {e}]
        \/ f \in LongFiles /\ main' = [main EXCEPT ![f].unseen = @ \cup {e}]
  BY DEF Edit
<1>2. main \in [Files -> Content] BY DEF RepairInv, Shape, Tree
<1>3. main' \in [Files -> Content]
  BY <1>1, <1>2 DEF Content, Marks
<1>4. \A g \in Files : main[g].seen \subseteq main'[g].seen
  BY <1>1, <1>2 DEF Content
<1>5. \A g \in Files : Developed(main'[g], g)
  BY <1>1, <1>2, RepairAssumption DEF RepairInv, Shape, Content, Developed
<1>6. Shape' BY <1>3, <1>5 DEF RepairInv, Shape, Edit, Tree
<1>7. \A q \in Runs : Sound(run[q], main')
  BY <1>4 DEF RepairInv, Sound, FixFacts
<1>8. run' = run /\ branch' = branch /\ pulls' = pulls /\ Pushes' = Pushes
  BY DEF Edit, Pushes
<1> QED BY <1>6, <1>7, <1>8 DEF RepairInv, Told, BranchFacts, OnlyFix

\* An invocation that returns, with an error if it leaves nothing to be seen.
LEMMA EndingMove ==
  ASSUME RepairInv, NEW r \in Runs, NEW t \in Run, Moves(r, Ended(t)),
         UNCHANGED <<main, edited, branch, pulls>>,
         t.url => run[r].url,
         t.url \/ t.errors # {} \/ t.gate \in {"no_rank", "no_provider"}
  PROVE  RepairInv'
<1>1. Ended(t) \in Run /\ Ended(t).pc = "done" /\ Ended(t).fix = None /\ Ended(t).head = None
      /\ Ended(t).url = t.url /\ Ended(t).errors = t.errors /\ Ended(t).gate = t.gate
  BY EndedRun
<1>2. Sound(Ended(t), main)
  BY <1>1 DEF Sound, FixFacts, HeadFacts, StageFacts
<1>3. PushFacts(r, Ended(t), Pushes) BY <1>1 DEF PushFacts, Early
<1> QED BY <1>1, <1>2, <1>3, QuietMove

\* The code fix agent hands over to the PR agent.
LEMMA FixedMove ==
  ASSUME RepairInv, NEW r \in Runs, NEW fix \in Fix \cup {None}, NEW errors \in SUBSET Agents,
         run[r].pc \in {"code_fix", "llm"}, Fixed(r, fix, errors),
         UNCHANGED <<main, edited, branch, pulls>>,
         fix # None =>
           /\ fix.file = FixPath(run[r])
           /\ fix.patched \in Outputs(fix.original)
           /\ fix.file \in Files /\ fix.original # Blank =>
                /\ Developed(fix.original, fix.file)
                /\ fix.original.seen \subseteq main[fix.file].seen
  PROVE  RepairInv'
<1> DEFINE s == [run[r] EXCEPT !.pc = "pr_agent", !.fix = fix,
                               !.errors = run[r].errors \cup errors]
<1>1. run[r] \in Run /\ Sound(run[r], main) BY DEF RepairInv, Shape
<1>2. "pr_agent" \in Labels /\ run[r].errors \cup errors \in SUBSET Agents
  BY <1>1, RunFields DEF Labels
<1>3. s \in Run BY <1>1, <1>2 DEF Run
<1>4. /\ s.pc = "pr_agent" /\ s.fix = fix /\ s.head = run[r].head /\ s.url = run[r].url
      /\ s.planned = run[r].planned /\ s.snippet = run[r].snippet
  BY <1>1 DEF Run
<1>5. Moves(r, s) BY <1>1 DEF Fixed, Moves
<1> HIDE DEF s
<1>6. run[r].head = None /\ ~ run[r].url
  BY <1>1 DEF Sound, StageFacts
<1>7. Sound(s, main)
  BY <1>4, <1>6 DEF Sound, FixFacts, HeadFacts, StageFacts, FixPath
<1>8. PushFacts(r, s, Pushes)
  BY <1>4 DEF RepairInv, PushFacts, Early
<1> QED BY <1>3, <1>4, <1>5, <1>6, <1>7, <1>8, QuietMove

LEMMA CodeFixKeeps ==
  ASSUME RepairInv, NEW r \in Runs, CodeFix(r) PROVE RepairInv'
<1>1. run[r] \in Run /\ Sound(run[r], main) BY DEF RepairInv, Shape
<1>2. FixPath(run[r]) \in Files \cup {NoFile}
  BY <1>1, RunFields DEF FixPath
<1>3. \A file \in Files \cup {NoFile} :
        /\ Unfixed(file) \in Fix /\ Unfixed(file) # None /\ Unfixed(file).file = file
        /\ Unfixed(file).original = Blank /\ Unfixed(file).patched = Blank
  <2>1. Blank \in Content BY DEF Content, Blank
  <2>2. ASSUME NEW file \in Files \cup {NoFile}
        PROVE  /\ Unfixed(file) \in Fix /\ Unfixed(file).file = file
               /\ Unfixed(file).original = Blank /\ Unfixed(file).patched = Blank
    BY <2>1 DEF Unfixed, Fix
  <2> QED BY <2>2, FixFields
<1>5. {} \in SUBSET Agents /\ {"code_fix"} \in SUBSET Agents BY DEF Agents
<1>6. CASE SkipCodeFix(r)
  <2>1. (IF run[r].gate = "beyond" THEN {"code_fix"} ELSE {}) \in SUBSET Agents BY <1>5
  <2> QED BY <1>6, <2>1, FixedMove DEF SkipCodeFix
<1>7. CASE FetchOriginal(r)
  <2> DEFINE file == FixPath(run[r])
             fix == [Unfixed(file) EXCEPT !.original = main[file]]
             s == [run[r] EXCEPT !.pc = "llm", !.fix = fix]
  <2>1. file \in Files /\ run[r].pc = "code_fix" BY <1>7, <1>2 DEF FetchOriginal
  <2>2. main[file] \in Content BY <2>1 DEF RepairInv, Shape, Tree
  <2>3. /\ fix \in Fix /\ fix.file = file /\ fix.original = main[file] /\ fix.patched = Blank
    BY <2>1, <2>2 DEF Unfixed, Fix, Content, Blank
  <2>4. Moves(r, s) BY <1>7 DEF FetchOriginal, Moves
  <2> HIDE DEF fix
  <2>5. s \in Run BY <1>1, <2>3 DEF Run, Labels
  <2>6. /\ s.pc = "llm" /\ s.fix = fix /\ s.head = run[r].head /\ s.url = run[r].url
        /\ s.planned = run[r].planned /\ s.snippet = run[r].snippet
    BY <1>1 DEF Run
  <2> HIDE DEF s
  <2>7. run[r].head = None /\ ~ run[r].url BY <1>1, <2>1 DEF Sound, StageFacts
  <2>8. fix # None BY <2>3, FixFields
  <2>9. Developed(main[file], file) BY <2>1 DEF RepairInv, Shape
  <2>10. Sound(s, main)
    BY <2>3, <2>6, <2>7, <2>8, <2>9
    DEF Sound, FixFacts, HeadFacts, StageFacts, FixPath, Outputs
  <2>11. PushFacts(r, s, Pushes)
    BY <2>1, <2>6 DEF RepairInv, PushFacts, Early
  <2> QED BY <1>7, <2>1, <2>4, <2>5, <2>6, <2>10, <2>11, QuietMove DEF FetchOriginal
<1>8. CASE OriginalNotFound(r)
  BY <1>8, <1>2, <1>3, <1>5, FixedMove DEF OriginalNotFound, Outputs
<1>9. CASE AskModel(r)
  <2> DEFINE original == run[r].fix.original
  <2>1. run[r].pc = "llm" /\ run[r].fix \in Fix /\ run[r].fix # None
    BY <1>1, <1>9, RunFields DEF AskModel, Sound, StageFacts
  <2>2. PICK patched \in Outputs(original), tooLarge \in BOOLEAN :
          Fixed(r, [run[r].fix EXCEPT !.patched = patched, !.tooLarge = tooLarge], {})
    BY <1>9 DEF AskModel, Outputs
  <2>3. original \in Content BY <2>1, FixFields
  <2>4. Shown(original) \in Content /\ Blank \in Content
    BY <2>3 DEF Shown, Content, Blank
  <2>5. [Shown(original) EXCEPT !.seen = @ \cup {"fix"}] \in Content
    BY <2>4 DEF Content, Marks
  <2>6. patched \in Content BY <2>2, <2>3, <2>4, <2>5 DEF Outputs
  <2> DEFINE fix == [run[r].fix EXCEPT !.patched = patched, !.tooLarge = tooLarge]
  <2>7. /\ fix \in Fix /\ fix.file = run[r].fix.file /\ fix.original = original
        /\ fix.patched = patched
    BY <2>1, <2>6 DEF Fix
  <2>8. Fixed(r, fix, {}) BY <2>2
  <2> HIDE DEF fix
  <2>9. /\ run[r].fix.file = FixPath(run[r])
        /\ run[r].fix.file \in Files /\ original # Blank =>
             /\ Developed(original, run[r].fix.file)
             /\ original.seen \subseteq main[run[r].fix.file].seen
    BY <1>1, <2>1 DEF Sound, FixFacts
  <2> QED BY <1>5, <1>9, <2>1, <2>2, <2>7, <2>8, <2>9, FixedMove DEF AskModel
<1>10. CASE ModelFails(r)
  <2>1. run[r].pc = "llm" /\ run[r].fix.file = FixPath(run[r])
    BY <1>1, <1>10 DEF ModelFails, Sound, StageFacts, FixFacts
  <2> QED BY <1>10, <2>1, <1>2, <1>3, <1>5, FixedMove DEF ModelFails, Outputs
<1> QED BY <1>6, <1>7, <1>8, <1>9, <1>10 DEF CodeFix

-----------------------------------------------------------------------------
(* The PR agent and the validation agent.                                  *)

\* A call whose answer is lost, or that failed, ends the invocation with an error.
LEMMA GivesUp ==
  ASSUME NEW s \in Run
  PROVE  /\ Failing([s EXCEPT !.url = FALSE], {"pr_agent"}) \in Run
         /\ Failing([s EXCEPT !.url = FALSE], {"pr_agent"}).errors # {}
         /\ ~ Failing([s EXCEPT !.url = FALSE], {"pr_agent"}).url
<1> DEFINE t == [s EXCEPT !.url = FALSE]
<1>1. t \in Run /\ ~ t.url BY DEF Run
<1>2. {"pr_agent"} \in SUBSET Agents BY DEF Agents
<1>3. SUFFICES LET u == Failing(t, {"pr_agent"}) IN u \in Run /\ u.errors # {} /\ ~ u.url
  OBVIOUS
<1> HIDE DEF t
<1> QED BY <1>1, <1>2, FailingRun

\* The head that is read is the default branch of this moment.
LEMMA GetHeadKeeps ==
  ASSUME RepairInv, NEW r \in Runs, GetHead(r) PROVE RepairInv'
<1> DEFINE s == [run[r] EXCEPT !.pc = "branch", !.head = main,
                               !.errors = run[r].errors \cup PrErrors(run[r])]
<1>1. /\ run[r] \in Run /\ Sound(run[r], main) /\ run[r].pc = "pr_agent"
      /\ run[r].gate = "open"
  BY DEF RepairInv, Shape, GetHead
<1>2. main \in Tree /\ main # None BY NoneAssumption DEF RepairInv, Shape
<1>3. run[r].errors \cup PrErrors(run[r]) \in SUBSET Agents
  BY <1>1, RunFields DEF PrErrors, Agents
<1>4. s \in Run BY <1>1, <1>2, <1>3 DEF Run, Labels
<1>5. /\ s.pc = "branch" /\ s.fix = run[r].fix /\ s.head = main /\ s.url = run[r].url
      /\ s.planned = run[r].planned /\ s.snippet = run[r].snippet
  BY <1>1 DEF Run
<1>6. Moves(r, s) BY <1>1 DEF GetHead, Moves
<1> HIDE DEF s
<1>7. ~ run[r].url BY <1>1 DEF Sound, StageFacts
<1>8. Sound(s, main)
  <2>1. FixFacts(s, main) BY <1>1, <1>5 DEF Sound, FixFacts, FixPath
  <2>2. \A f \in Files : Developed(main[f], f) BY DEF RepairInv, Shape
  <2>3. HeadFacts(s) BY <1>5, <2>1, <2>2 DEF HeadFacts, FixFacts
  <2> QED BY <1>2, <1>5, <1>7, <2>1, <2>3 DEF Sound, StageFacts
<1>9. PushFacts(r, s, Pushes)
  BY <1>1, <1>5 DEF RepairInv, PushFacts, Early
<1> QED BY <1>1, <1>4, <1>5, <1>6, <1>8, <1>9, QuietMove DEF GetHead

LEMMA QuietPrKeeps ==
  ASSUME RepairInv, NEW r \in Runs, SkipPr(r) \/ WriterFails(r) PROVE RepairInv'
<1>1. run[r] \in Run /\ Sound(run[r], main) BY DEF RepairInv, Shape
<1>2. CASE SkipPr(r)
  <2> DEFINE more == IF run[r].gate = "beyond" THEN {"pr_agent"} ELSE {}
             t == Failing(run[r], more)
  <2>1. more \in SUBSET Agents BY DEF Agents
  <2>2. t \in Run /\ t.errors = run[r].errors \cup more /\ t.gate = run[r].gate /\ t.url = run[r].url
    BY <1>1, <2>1, FailingRun
  <2>3. t.errors # {} \/ t.gate \in {"no_rank", "no_provider"}
    BY <1>1, <1>2, <2>2, RunFields DEF SkipPr, Gates
  <2>4. Moves(r, Ended(t)) BY <1>2 DEF SkipPr, Moves
  <2> HIDE DEF t
  <2> QED BY <1>2, <2>2, <2>3, <2>4, EndingMove DEF SkipPr
<1>3. CASE WriterFails(r)
  <2> DEFINE more == IF run[r].pc = "pr_agent" THEN PrErrors(run[r]) ELSE {}
             u == Failing(run[r], more)
             t == Failing([u EXCEPT !.url = FALSE], {"pr_agent"})
  <2>1. more \in SUBSET Agents BY DEF PrErrors, Agents
  <2>2. u \in Run BY <1>1, <2>1, FailingRun
  <2>3. Moves(r, Ended(t)) BY <1>1, <1>3 DEF WriterFails, Answered, Moves
  <2> HIDE DEF u
  <2>4. t \in Run /\ t.errors # {} /\ ~ t.url BY <2>2, GivesUp
  <2> HIDE DEF t
  <2> QED BY <1>3, <2>3, <2>4, EndingMove DEF WriterFails
<1> QED BY <1>2, <1>3

LEMMA ValidationKeeps ==
  ASSUME RepairInv, NEW r \in Runs, Validate(r) \/ ValidationFails(r) PROVE RepairInv'
<1>1. run[r] \in Run /\ Sound(run[r], main) BY DEF RepairInv, Shape
<1>2. CASE Validate(r)
  <2>1. PICK verdict \in Reports :
          run' = [run EXCEPT ![r] = Ended([run[r] EXCEPT !.report = verdict])]
    BY <1>1, <1>2 DEF Validate, Verdicts, Reports
  <2> DEFINE t == [run[r] EXCEPT !.report = verdict]
  <2>2. t \in Run /\ t.url = run[r].url BY <1>1 DEF Run
  <2>3. t.url BY <1>1, <1>2, <2>2 DEF Validate, Sound, StageFacts
  <2>4. Moves(r, Ended(t)) BY <2>1 DEF Moves
  <2> HIDE DEF t
  <2> QED BY <1>2, <2>2, <2>3, <2>4, EndingMove DEF Validate
<1>3. CASE ValidationFails(r)
  <2>1. PICK report \in Reports :
          run' = [run EXCEPT ![r] =
                    Ended(Failing([run[r] EXCEPT !.report = report], {"validation_agent"}))]
    BY <1>3 DEF ValidationFails
  <2> DEFINE u == [run[r] EXCEPT !.report = report]
             t == Failing(u, {"validation_agent"})
  <2>2. u \in Run /\ u.url = run[r].url BY <1>1 DEF Run
  <2>3. {"validation_agent"} \in SUBSET Agents BY DEF Agents
  <2>4. Moves(r, Ended(t)) BY <2>1 DEF Moves
  <2> HIDE DEF u
  <2>5. t \in Run /\ t.url = u.url BY <2>2, <2>3, FailingRun
  <2>6. t.url BY <1>1, <1>3, <2>2, <2>5 DEF ValidationFails, Sound, StageFacts
  <2> HIDE DEF t
  <2> QED BY <1>3, <2>2, <2>4, <2>5, <2>6, EndingMove DEF ValidationFails
<1> QED BY <1>2, <1>3

LEMMA InvokeKeeps ==
  ASSUME RepairInv, NEW r \in Runs, Invoke(r) PROVE RepairInv'
<1>1. run[r] \in Run /\ Sound(run[r], main) /\ run[r].pc = "idle"
  BY DEF RepairInv, Shape, Invoke
<1>2. PICK gate \in Gates, planned \in Files \cup {NoFile}, snippet \in Files \cup {NoFile} :
        run' = [run EXCEPT ![r] = [run[r] EXCEPT !.pc = "code_fix", !.gate = gate,
                                                 !.planned = planned, !.snippet = snippet]]
  BY <1>1 DEF Invoke
<1> DEFINE s == [run[r] EXCEPT !.pc = "code_fix", !.gate = gate,
                               !.planned = planned, !.snippet = snippet]
<1>3. s \in Run BY <1>1 DEF Run, Labels
<1>4. s.pc = "code_fix" /\ s.fix = run[r].fix /\ s.head = run[r].head /\ s.url = run[r].url
  BY <1>1 DEF Run
<1>5. Moves(r, s) BY <1>2 DEF Moves
<1> HIDE DEF s
<1>6. run[r].fix = None /\ run[r].head = None /\ ~ run[r].url
  BY <1>1 DEF Sound, StageFacts
<1>7. Sound(s, main)
  BY <1>4, <1>6 DEF Sound, FixFacts, HeadFacts, StageFacts
<1>8. PushFacts(r, s, Pushes)
  BY <1>1, <1>4 DEF RepairInv, PushFacts, Early
<1> QED BY <1>1, <1>3, <1>4, <1>5, <1>7, <1>8, QuietMove DEF Invoke
-----------------------------------------------------------------------------
(* The calls that change the repository.                                   *)

\* The result of an answered or unanswered call.
LEMMA AnsweredMove ==
  ASSUME NEW r \in Runs, NEW s \in Run, NEW answered \in BOOLEAN, Answered(r, answered, s),
         run \in [Runs -> Run], s.gate = run[r].gate
  PROVE  \E t \in Run :
           /\ Moves(r, t)
           /\ answered => t = s
           /\ ~ answered => t.pc = "done" /\ t.fix = None /\ t.head = None /\ ~ t.url /\ t.errors # {}
<1> DEFINE u == Failing([s EXCEPT !.url = FALSE], {"pr_agent"})
           t == IF answered THEN s ELSE Ended(u)
<1>1. u \in Run /\ u.errors # {} /\ ~ u.url BY GivesUp
<1>2. Moves(r, t) BY DEF Answered, Moves
<1> HIDE DEF u
<1>3. /\ Ended(u) \in Run /\ Ended(u).pc = "done" /\ Ended(u).fix = None /\ Ended(u).head = None
      /\ ~ Ended(u).url /\ Ended(u).errors # {}
  BY <1>1, EndedRun
<1> QED BY <1>2, <1>3

\* A returned invocation is sound whatever the tree and the branch.
LEMMA DoneIsSound ==
  ASSUME NEW t \in Run, NEW m, NEW r, NEW pushes, t.pc = "done", t.fix = None, t.head = None,
         ~ t.url, t.errors # {}
  PROVE  Sound(t, m) /\ PushFacts(r, t, pushes)
BY DEF Sound, FixFacts, HeadFacts, StageFacts, PushFacts, Early

LEMMA CreateBranchKeeps ==
  ASSUME RepairInv, NEW r \in Runs, NEW answered \in BOOLEAN, CreateBranch(r, answered)
  PROVE  RepairInv'
<1> DEFINE s == [run[r] EXCEPT !.pc = AfterBranch(run[r])]
           b == [base |-> run[r].head, tip |-> run[r].head, pushes |-> {}]
<1>1. /\ run \in [Runs -> Run] /\ run[r] \in Run /\ Sound(run[r], main)
      /\ PushFacts(r, run[r], Pushes) /\ run[r].pc = "branch"
      /\ pulls' = pulls /\ main' = main /\ edited' = edited
  BY DEF RepairInv, Shape, CreateBranch
<1>2. AfterBranch(run[r]) \in {"push", "pull"} BY DEF AfterBranch
<1>3. s \in Run BY <1>1, <1>2 DEF Run, Labels
<1>4. /\ s.pc = AfterBranch(run[r]) /\ s.fix = run[r].fix /\ s.head = run[r].head
      /\ s.url = run[r].url /\ s.planned = run[r].planned /\ s.snippet = run[r].snippet
      /\ s.gate = run[r].gate
  BY <1>1 DEF Run
<1>5. Answered(r, answered, s) BY DEF CreateBranch
<1>6. run[r].head \in Tree /\ run[r].head # None /\ ~ run[r].url
  BY <1>1, RunFields DEF Sound, StageFacts
<1>7. branch' = branch \/ (branch = None /\ branch' = b)
  BY DEF CreateBranch
<1>8. /\ branch' \in Branch \cup {None} /\ BranchFacts(branch') /\ Pushes' = Pushes
      /\ branch # None => branch' # None
  <2>1. CASE branch' = branch BY <2>1 DEF RepairInv, Shape, Pushes
  <2>2. CASE branch = None /\ branch' = b
    <3>1. b \in Branch /\ b # None BY <1>6, NoneAssumption DEF Branch
    <3>2. BranchFacts(b) BY <1>1, <1>6 DEF BranchFacts, Sound, HeadFacts
    <3> QED BY <2>2, <3>1, <3>2 DEF Pushes
  <2> QED BY <1>7, <2>1, <2>2
<1> HIDE DEF s, b
<1>9. PICK t \in Run :
        /\ Moves(r, t)
        /\ answered => t = s
        /\ ~ answered => t.pc = "done" /\ t.fix = None /\ t.head = None /\ ~ t.url /\ t.errors # {}
  BY <1>1, <1>3, <1>4, <1>5, AnsweredMove
<1>10. /\ run' \in [Runs -> Run] /\ run'[r] = t
       /\ \A q \in Runs : q # r => run'[q] = run[q]
  BY <1>1, <1>9, OnlyMover
<1>11. Shape' BY <1>1, <1>8, <1>10 DEF RepairInv, Shape
<1>12. ~ t.url BY <1>4, <1>6, <1>9
<1>13. Told'
  <2>1. \A p \in pulls : p.by \in Runs /\ p.by # r
    BY <1>1 DEF RepairInv, Shape, Pull, Told
  <2> QED BY <1>1, <1>8, <1>10, <1>12, <2>1 DEF RepairInv, Told
<1>14. PatchApplied(s) <=> PatchApplied(run[r]) BY <1>4 DEF PatchApplied, Changes
<1>15. Sound(s, main)
  <2>1. FixFacts(s, main) /\ HeadFacts(s)
    BY <1>1, <1>4 DEF Sound, FixFacts, HeadFacts, FixPath
  <2>2. StageFacts(s)
    BY <1>4, <1>6, <1>14 DEF StageFacts, AfterBranch
  <2> QED BY <2>1, <2>2 DEF Sound
<1>16. PushFacts(r, s, Pushes)
  BY <1>1, <1>4, <1>14 DEF PushFacts, AfterBranch, Early
<1>17. Sound(t, main) /\ PushFacts(r, t, Pushes) BY <1>9, <1>15, <1>16, DoneIsSound
<1>18. \A q \in Runs : Sound(run'[q], main') /\ PushFacts(q, run'[q], Pushes')
  BY <1>1, <1>8, <1>10, <1>17 DEF RepairInv
<1> QED BY <1>8, <1>11, <1>13, <1>18 DEF RepairInv

\* A patch is nothing developers committed: it has the fix, or lacks the end of a file that
\* is longer than what the model is shown.
LEMMA PatchDiffers ==
  ASSUME NEW s \in Run, NEW m, FixFacts(s, m), PatchApplied(s), s.planned \in Files
  PROVE  /\ s.fix \in Fix /\ s.fix # None /\ s.fix.file = s.planned
         /\ s.fix.original # Blank /\ ~ Developed(s.fix.patched, s.planned)
         /\ s.fix.original.seen \subseteq s.fix.patched.seen
         /\ s.fix.patched.seen \subseteq s.fix.original.seen \cup {"fix"}
         /\ s.fix.patched.unseen = {}
<1>1. /\ s.fix \in Fix /\ s.fix # None /\ s.fix.file = s.planned /\ s.fix.original # Blank
  BY RunFields, RepairAssumption DEF PatchApplied, Changes, FixFacts, FixPath
<1>2. /\ s.fix.patched \in Outputs(s.fix.original)
      /\ s.fix.patched # s.fix.original /\ s.fix.patched # Blank
  BY <1>1 DEF PatchApplied, Changes, FixFacts
<1>3. Developed(s.fix.original, s.planned) BY <1>1 DEF FixFacts
<1>4. s.fix.original \in Content BY <1>1, FixFields
<1>5. CASE s.fix.patched = Shown(s.fix.original)
  <2>1. s.fix.patched.unseen = {} /\ s.fix.patched.seen = s.fix.original.seen
    BY <1>5 DEF Shown
  <2>2. s.fix.original.unseen # {} BY <1>2, <1>4, <1>5 DEF Shown, Content
  <2>3. ~ Developed(s.fix.patched, s.planned) BY <1>3, <2>1, <2>2 DEF Developed
  <2> QED BY <1>1, <2>1, <2>3
<1>6. CASE s.fix.patched = [Shown(s.fix.original) EXCEPT !.seen = @ \cup {"fix"}]
  <2>1. s.fix.patched.unseen = {} /\ s.fix.patched.seen = s.fix.original.seen \cup {"fix"}
    BY <1>6 DEF Shown
  <2> QED BY <1>1, <2>1 DEF Developed
<1> QED BY <1>2, <1>5, <1>6 DEF Outputs

LEMMA PushPatchKeeps ==
  ASSUME RepairInv, NEW r \in Runs, NEW answered \in BOOLEAN, PushPatch(r, answered)
  PROVE  RepairInv'
<1> DEFINE s == [run[r] EXCEPT !.pc = "pull"]
           p == [by |-> r, path |-> run[r].planned, read |-> run[r].fix.original]
<1>1. /\ run \in [Runs -> Run] /\ run[r] \in Run /\ Sound(run[r], main)
      /\ PushFacts(r, run[r], Pushes) /\ run[r].pc = "push"
      /\ branch \in Branch /\ branch # None /\ branch.tip = run[r].head
      /\ branch' = [branch EXCEPT !.tip[run[r].planned] = run[r].fix.patched,
                                  !.pushes = @ \cup {p}]
      /\ pulls' = pulls /\ main' = main /\ edited' = edited
  BY DEF RepairInv, Shape, PushPatch, PushAccepted
<1>2. /\ PatchApplied(run[r]) /\ run[r].planned # NoFile /\ run[r].planned \in Files
      /\ run[r].head # None /\ ~ run[r].url
  BY <1>1, RunFields DEF Sound, StageFacts
<1>3. /\ run[r].fix \in Fix /\ run[r].fix # None /\ run[r].fix.file = run[r].planned
      /\ run[r].fix.original # Blank /\ ~ Developed(run[r].fix.patched, run[r].planned)
      /\ run[r].fix.original.seen \subseteq run[r].fix.patched.seen
      /\ run[r].fix.patched.seen \subseteq run[r].fix.original.seen \cup {"fix"}
      /\ run[r].fix.patched.unseen = {}
  BY <1>1, <1>2, PatchDiffers DEF Sound
<1>4. run[r].fix.original \in Content /\ run[r].fix.patched \in Content
  BY <1>3, FixFields
<1>5. /\ \A f \in Files : Developed(run[r].head[f], f)
      /\ run[r].fix.original.seen \subseteq run[r].head[run[r].planned].seen
  BY <1>1, <1>2, <1>3 DEF Sound, HeadFacts
<1>6. /\ branch.base \in Tree /\ branch.tip \in [Files -> Content]
      /\ branch.pushes \in SUBSET Push
  BY <1>1 DEF Branch, Tree
<1>7. branch.pushes = {} /\ branch.tip = branch.base
  <2>1. \A x \in branch.pushes : x.path \in Files BY <1>6 DEF Push
  <2> QED BY <1>1, <1>5, <2>1 DEF RepairInv, BranchFacts
<1>8. p \in Push /\ p.by = r /\ p.path = run[r].planned /\ p.read = run[r].fix.original
  BY <1>2, <1>4 DEF Push
<1> HIDE DEF p
<1>9. /\ branch'.base = branch.base /\ branch'.pushes = {p}
      /\ branch'.tip = [branch.tip EXCEPT ![run[r].planned] = run[r].fix.patched]
      /\ branch' \in Branch /\ branch' # None
  <2>1. /\ branch'.base = branch.base /\ branch'.pushes = {p}
        /\ branch'.tip = [branch.tip EXCEPT ![run[r].planned] = run[r].fix.patched]
    BY <1>1, <1>7 DEF Branch
  <2>2. [branch.tip EXCEPT ![run[r].planned] = run[r].fix.patched] \in Tree
    BY <1>4, <1>6 DEF Tree
  <2>3. branch' = [base |-> branch.base, pushes |-> {p},
                   tip |-> [branch.tip EXCEPT ![run[r].planned] = run[r].fix.patched]]
    BY <1>1, <1>7 DEF Branch
  <2>4. branch' \in Branch
    BY <1>6, <1>8, <2>2, <2>3 DEF Branch
  <2> QED BY <2>1, <2>4, NoneAssumption
<1>10. Pushes = {} /\ Pushes' = {p} BY <1>1, <1>7, <1>9 DEF Pushes
<1>11. BranchFacts(branch')
  <2>1. branch'.tip[run[r].planned] = run[r].fix.patched
    BY <1>2, <1>6, <1>9
  <2>2. \A f \in Files \ {run[r].planned} : branch'.tip[f] = branch'.base[f]
    BY <1>6, <1>7, <1>9
  <2>3. OnlyFix(p, branch')
    <3>1. branch'.base = run[r].head BY <1>1, <1>7, <1>9
    <3>2. branch'.tip[run[r].planned].seen
            \subseteq branch'.base[run[r].planned].seen \cup {"fix"}
      BY <1>3, <1>5, <2>1, <3>1
    <3>3. branch'.tip[run[r].planned].unseen \subseteq branch'.base[run[r].planned].unseen
      BY <1>3, <2>1
    <3>4. run[r].fix.original.seen \subseteq branch'.tip[run[r].planned].seen
      BY <1>3, <2>1
    <3> QED BY <1>8, <2>2, <3>2, <3>3, <3>4 DEF OnlyFix
  <2>4. \A f \in Files : Developed(branch'.base[f], f) BY <1>1, <1>9 DEF RepairInv, BranchFacts
  <2> QED BY <1>3, <1>8, <1>9, <2>1, <2>3, <2>4 DEF BranchFacts
<1>12. s \in Run BY <1>1 DEF Run, Labels
<1>13. /\ s.pc = "pull" /\ s.fix = run[r].fix /\ s.head = run[r].head
       /\ s.url = run[r].url /\ s.planned = run[r].planned /\ s.snippet = run[r].snippet
       /\ s.gate = run[r].gate
  BY <1>1 DEF Run
<1>14. Answered(r, answered, s) BY DEF PushPatch
<1> HIDE DEF s
<1>15. PICK t \in Run :
        /\ Moves(r, t)
        /\ answered => t = s
        /\ ~ answered => t.pc = "done" /\ t.fix = None /\ t.head = None /\ ~ t.url /\ t.errors # {}
  BY <1>1, <1>12, <1>13, <1>14, AnsweredMove
<1>16. /\ run' \in [Runs -> Run] /\ run'[r] = t
       /\ \A q \in Runs : q # r => run'[q] = run[q]
  BY <1>1, <1>15, OnlyMover
<1>17. Shape' BY <1>1, <1>9, <1>16 DEF RepairInv, Shape
<1>18. ~ t.url BY <1>2, <1>13, <1>15
<1>19. Told'
  <2>1. \A x \in pulls : x.by \in Runs /\ x.by # r
    BY <1>1 DEF RepairInv, Shape, Pull, Told
  <2> QED BY <1>1, <1>8, <1>9, <1>10, <1>16, <1>18, <2>1 DEF RepairInv, Told
<1>20. PatchApplied(s) BY <1>2, <1>13 DEF PatchApplied, Changes
<1>21. Sound(s, main)
  <2>1. FixFacts(s, main) /\ HeadFacts(s)
    BY <1>1, <1>13 DEF Sound, FixFacts, HeadFacts, FixPath
  <2>2. StageFacts(s) BY <1>2, <1>13 DEF StageFacts
  <2> QED BY <2>1, <2>2 DEF Sound
<1>22. PushFacts(r, s, {p}) BY <1>2, <1>8, <1>13, <1>20 DEF PushFacts, Early
<1>23. Sound(t, main) /\ PushFacts(r, t, {p}) BY <1>15, <1>21, <1>22, DoneIsSound
<1>24. \A q \in Runs \ {r} : PushFacts(q, run[q], {p})
  <2>1. SUFFICES ASSUME NEW q \in Runs \ {r} PROVE PushFacts(q, run[q], {p})
    OBVIOUS
  <2>2. PushFacts(q, run[q], {}) BY <1>10 DEF RepairInv
  <2> QED BY <1>8, <2>2 DEF PushFacts
<1>25. \A q \in Runs : Sound(run'[q], main') /\ PushFacts(q, run'[q], Pushes')
  BY <1>1, <1>10, <1>16, <1>23, <1>24 DEF RepairInv
<1> QED BY <1>11, <1>17, <1>19, <1>25 DEF RepairInv

LEMMA CreatePullRequestKeeps ==
  ASSUME RepairInv, NEW r \in Runs, NEW answered \in BOOLEAN, CreatePullRequest(r, answered)
  PROVE  RepairInv'
<1> DEFINE s == [run[r] EXCEPT !.pc = "validate", !.url = TRUE]
           p == [by |-> r, noted |-> Noted(run[r]), named |-> run[r].planned # NoFile]
<1>1. /\ run \in [Runs -> Run] /\ run[r] \in Run /\ Sound(run[r], main)
      /\ PushFacts(r, run[r], Pushes) /\ run[r].pc = "pull" /\ branch # None
      /\ branch' = branch /\ main' = main /\ edited' = edited
      /\ pulls' = pulls \cup {p}
  BY DEF RepairInv, Shape, CreatePullRequest
<1>2. s \in Run BY <1>1 DEF Run, Labels
<1>3. /\ s.pc = "validate" /\ s.fix = run[r].fix /\ s.head = run[r].head /\ s.url
      /\ s.planned = run[r].planned /\ s.snippet = run[r].snippet /\ s.gate = run[r].gate
  BY <1>1 DEF Run
<1>4. Answered(r, answered, s) BY DEF CreatePullRequest
<1>5. p \in Pull /\ p.by = r BY DEF Pull, Noted
<1>6. p.named => (p.noted <=> \A q \in Pushes : q.by # p.by)
  BY <1>1 DEF PushFacts, Noted
<1>7. Pushes' = Pushes BY <1>1 DEF Pushes
<1> HIDE DEF s, p
<1>8. PICK t \in Run :
        /\ Moves(r, t)
        /\ answered => t = s
        /\ ~ answered => t.pc = "done" /\ t.fix = None /\ t.head = None /\ ~ t.url /\ t.errors # {}
  BY <1>1, <1>2, <1>3, <1>4, AnsweredMove
<1>9. /\ run' \in [Runs -> Run] /\ run'[r] = t
      /\ \A q \in Runs : q # r => run'[q] = run[q]
  BY <1>1, <1>8, OnlyMover
<1>10. Shape' BY <1>1, <1>5, <1>9 DEF RepairInv, Shape
<1>11. t.pc \in {"validate", "done"} BY <1>3, <1>8
<1>12. Told'
  <2>1. \A x \in pulls : x.by \in Runs BY DEF RepairInv, Shape, Pull
  <2> QED BY <1>1, <1>5, <1>6, <1>7, <1>9, <1>11, <2>1 DEF RepairInv, Told
<1>13. PatchApplied(s) <=> PatchApplied(run[r]) BY <1>3 DEF PatchApplied, Changes
<1>14. Sound(s, main)
  <2>1. FixFacts(s, main) /\ HeadFacts(s)
    BY <1>1, <1>3 DEF Sound, FixFacts, HeadFacts, FixPath
  <2>2. StageFacts(s) BY <1>1, <1>3 DEF Sound, StageFacts
  <2> QED BY <2>1, <2>2 DEF Sound
<1>15. PushFacts(r, s, Pushes) BY <1>1, <1>3, <1>13 DEF PushFacts, Early
<1>16. Sound(t, main) /\ PushFacts(r, t, Pushes) BY <1>8, <1>14, <1>15, DoneIsSound
<1>17. \A q \in Runs : Sound(run'[q], main') /\ PushFacts(q, run'[q], Pushes')
  BY <1>1, <1>7, <1>9, <1>16 DEF RepairInv
<1>18. BranchFacts(branch)' BY <1>1 DEF RepairInv, BranchFacts, OnlyFix
<1> QED BY <1>10, <1>12, <1>17, <1>18 DEF RepairInv
-----------------------------------------------------------------------------
(* The theorems.                                                           *)

LEMMA NextKeepsRepair == RepairInv /\ [Next]_vars => RepairInv'
<1> SUFFICES ASSUME RepairInv, [Next]_vars PROVE RepairInv' OBVIOUS
<1>1. CASE \E e \in Edits : Edit(e) BY <1>1, EditKeeps
<1>2. ASSUME NEW r \in Runs,
             Invoke(r) \/ CodeFix(r) \/ PrAgent(r) \/ Validate(r) \/ ValidationFails(r)
      PROVE  RepairInv'
  <2>1. CASE PrAgent(r)
    BY <2>1, GetHeadKeeps, QuietPrKeeps, CreateBranchKeeps, PushPatchKeeps,
       CreatePullRequestKeeps DEF PrAgent
  <2> QED BY <1>2, <2>1, InvokeKeeps, CodeFixKeeps, ValidationKeeps
<1>3. CASE UNCHANGED vars
  BY <1>3 DEF vars, RepairInv, Shape, Told, Pushes, BranchFacts, OnlyFix
<1> QED BY <1>1, <1>2, <1>3 DEF Next

LEMMA InvIsInductive == Spec => []RepairInv
BY InitRepair, NextKeepsRepair, PTL DEF Spec

LEMMA InvTypes == RepairInv => TypeOK
<1> SUFFICES ASSUME RepairInv PROVE TypeOK OBVIOUS
<1>1. \A r \in Runs :
        /\ run[r].pc = "llm" => run[r].fix # None
        /\ run[r].pc \in {"branch", "push", "pull", "validate"} => run[r].head # None
        /\ run[r].pc = "push" => run[r].fix # None /\ run[r].planned # NoFile
  BY DEF RepairInv, Sound, StageFacts, PatchApplied, Changes
<1>2. \A r \in Runs : run[r].pc = "validate" => branch # None
  BY DEF RepairInv, Sound, StageFacts, Told
<1> QED BY <1>1, <1>2 DEF RepairInv, Shape, TypeOK, Pull

\* Every invocation has at hand what its stage uses.
THEOREM TypeCorrect == Spec => []TypeOK
BY InvIsInductive, InvTypes, PTL

\* However invocations overlap and repeat, whichever answers are lost, and whether or not
\* the service says that the branch was there, one patch at most is pushed to it.
THEOREM SinglePatch == Spec => []OnePatch
<1>1. RepairInv => OnePatch
  BY DEF RepairInv, BranchFacts, PushFacts, Pushes, OnePatch
<1> QED BY InvIsInductive, <1>1, PTL

LEMMA InvPulls == RepairInv => PullIsTheFix
<1> SUFFICES ASSUME RepairInv, branch # None, NEW p \in branch.pushes
             PROVE  branch.tip[p.path] # branch.base[p.path] /\ OnlyFix(p, branch)
  BY DEF PullIsTheFix, OnlyFix, Pushes
<1>1. p.path \in Files BY DEF RepairInv, Shape, Branch, Push
<1> QED BY <1>1 DEF RepairInv, BranchFacts

\* What reviewers are asked to merge is the fix, in the file it is for, on what was read of
\* that file, whatever developers commit and however long the file is.
THEOREM PullMergesTheFix == Spec => []PullIsTheFix
BY InvIsInductive, InvPulls, PTL

\* What an invocation returns, and what the description of its pull request says, is
\* what it did, whichever of its calls failed, had no effect or lost its answer.
THEOREM OutcomeTold == Spec => []OutcomeIsTold
<1>1. RepairInv => OutcomeIsTold
  BY DEF RepairInv, Told, Sound, StageFacts, OutcomeIsTold
<1> QED BY InvIsInductive, <1>1, PTL
=============================================================================
