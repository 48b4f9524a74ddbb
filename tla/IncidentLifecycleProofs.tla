---------------------- MODULE IncidentLifecycleProofs ----------------------
(***************************************************************************)
(* Proofs about IncidentLifecycle, for every set of incidents, workers and *)
(* reviewers and every bound; and what depends on how many replicas of the *)
(* worker and how many reviewers there are: how often replicas can report  *)
(* one incident, for every number of them, and what one replica, or one    *)
(* reviewer, adds to that, up to the abstract policy.                      *)
(***************************************************************************)
EXTENDS IncidentLifecycle, SequenceTheorems, FiniteSetTheorems, TLAPS

-----------------------------------------------------------------------------
(* Records.                                                                *)

LEMMA NullRecords == NoRow \in Row /\ NoTxn \in Txn /\ NoCall \in Call
BY LifecycleAssumption DEF NoRow, NoTxn, NoCall, Row, Txn, Call, Statuses, Approvals,
   WorkerPcs, CallPcs

\* What a step may write into a session or a request leaves it well-typed.
LEMMA TxnUpdates ==
  ASSUME NEW t \in Txn, NEW pc \in WorkerPcs, NEW recs \in 0 .. MaxRecs, NEW item \in Nat,
         NEW bug \in BOOLEAN, NEW failed \in BOOLEAN, NEW pr \in 0 .. MaxRecs
  PROVE  /\ [t EXCEPT !.pc = pc] \in Txn
         /\ [t EXCEPT !.pc = pc, !.recs = recs, !.item = item] \in Txn
         /\ [t EXCEPT !.pc = pc, !.recs = recs, !.bug = bug, !.failed = failed] \in Txn
         /\ [t EXCEPT !.pc = pc, !.failed = failed, !.pr = pr] \in Txn
BY DEF Txn

LEMMA TxnFields ==
  ASSUME NEW t \in Txn
  PROVE  /\ t.pc \in WorkerPcs /\ t.inc \in Incidents \cup {0} /\ t.seen \in Row
         /\ t.recs \in 0 .. MaxRecs /\ t.item \in Nat /\ t.bug \in BOOLEAN
         /\ t.pr \in 0 .. MaxRecs /\ t.failed \in BOOLEAN
BY DEF Txn

LEMMA RowUpdates ==
  ASSUME NEW r \in Row, NEW s \in Statuses, NEW a \in Approvals, NEW k \in 0 .. MaxRecs
  PROVE  /\ [r EXCEPT !.status = s] \in Row
         /\ [r EXCEPT !.approval = a, !.rank = k] \in Row
         /\ r.status \in Statuses /\ r.approval \in Approvals /\ r.rank \in 0 .. MaxRecs
BY DEF Row

LEMMA CallFields ==
  ASSUME NEW k \in Call
  PROVE  /\ k.pc \in CallPcs /\ k.inc \in Incidents \cup {0} /\ k.seen \in Row
         /\ k.rank \in 0 .. MaxRecs
BY DEF Call
-----------------------------------------------------------------------------
(* Updates of functions and sequences.                                     *)

LEMMA FunUpdate ==
  ASSUME NEW S, NEW T, NEW f \in [S -> T], NEW x \in S, NEW e \in T
  PROVE  [f EXCEPT ![x] = e] \in [S -> T]
OBVIOUS

\* An EXCEPT outside the domain changes nothing, so the index may be any value.
LEMMA SeqUpdate ==
  ASSUME NEW T, NEW s \in Seq(T), NEW k, NEW e \in T
  PROVE  [s EXCEPT ![k] = e] \in Seq(T) /\ Len([s EXCEPT ![k] = e]) = Len(s)
<1>1. CASE k \in 1 .. Len(s)
  BY <1>1, ExceptSeq
<1>2. CASE k \notin 1 .. Len(s)
  <2>1. s = [j \in 1 .. Len(s) |-> s[j]] /\ DOMAIN s = 1 .. Len(s)
    BY LenProperties
  <2>2. [s EXCEPT ![k] = e] = s
    BY <1>2, <2>1
  <2>3. QED
    BY <2>2
<1>3. QED
  BY <1>1, <1>2
-----------------------------------------------------------------------------
(* Type correctness.                                                       *)

LEMMA InitType == Init => TypeOK
BY LifecycleAssumption, NullRecords, EmptySeq DEF Init, TypeOK, NoOne, Idle, NoTxn, NoCall

\* A step of worker w that ends its session or moves it on, and types what it writes.
LEMMA TxnType ==
  ASSUME TypeOK, NEW w \in Workers, NEW t \in Txn, t.pc = "idle" \/ t.inc \in Incidents,
         txn' = [txn EXCEPT ![w] = t]
  PROVE  /\ txn' \in [Workers -> Txn]
         /\ \A v \in Workers : ~ Idle(v)' => txn'[v].inc \in Incidents
BY DEF TypeOK, Idle

LEMMA CallType ==
  ASSUME TypeOK, NEW c \in Reviewers, NEW k \in Call, k.pc = "idle" \/ k.inc \in Incidents,
         call' = [call EXCEPT ![c] = k]
  PROVE  /\ call' \in [Reviewers -> Call]
         /\ \A d \in Reviewers : call'[d].pc # "idle" => call'[d].inc \in Incidents
BY DEF TypeOK

LEMMA WorkType ==
  ASSUME TypeOK, NEW w \in Workers, Work(w)
  PROVE  TypeOK'
<1> USE DEF outside, counts
<1>t. txn[w] \in Txn
  BY DEF TypeOK
<1>i. ~ Idle(w) => txn[w].inc \in Incidents
  BY DEF TypeOK
<1>n. NoTxn \in Txn /\ NoTxn.pc = "idle"
  BY NullRecords DEF NoTxn
<1>1. CASE Poll(w)
  BY <1>1 DEF TypeOK, Poll, Selected, Eligible, Idle
<1>2. CASE Open(w)
  <2>1. PICK j \in Oldest(batch[w]) :
          /\ batch' = [batch EXCEPT ![w] = @ \ {j}]
          /\ txn' = IF Runnable(row[j])
                    THEN [txn EXCEPT ![w] = [NoTxn EXCEPT !.pc = "opened",
                                                          !.inc = j,
                                                          !.seen = row[j]]]
                    ELSE txn
    BY <1>2 DEF Open
  <2>2. j \in Incidents
    BY DEF Oldest, TypeOK
  <2> DEFINE t == [NoTxn EXCEPT !.pc = "opened", !.inc = j, !.seen = row[j]]
  <2>3. t \in Txn /\ t.inc \in Incidents
    BY <2>2, NullRecords DEF TypeOK, Txn, WorkerPcs
  <2>4. batch' \in [Workers -> SUBSET Incidents]
    BY <2>1, <2>2 DEF TypeOK
  <2>5. CASE txn' = [txn EXCEPT ![w] = t]
    <3> HIDE DEF t
    <3> QED BY <1>2, <2>3, <2>4, <2>5, TxnType DEF TypeOK, Open
  <2>6. CASE txn' = txn
    BY <1>2, <2>4, <2>6 DEF TypeOK, Open, Idle
  <2>7. QED
    BY <2>1, <2>5, <2>6
<1>3. CASE Raise(w)
  BY <1>3, <1>n, TxnType DEF TypeOK, Raise
<1>4. CASE BeginAnalysis(w)
  <2> DEFINE t == [txn[w] EXCEPT !.pc = "analysing"]
  <2>1. t \in Txn /\ t.inc = txn[w].inc /\ txn[w].inc \in Incidents
    BY <1>t, <1>i, <1>4 DEF Txn, WorkerPcs, BeginAnalysis, Idle
  <2>2. txn' = [txn EXCEPT ![w] = t]
    BY <1>4 DEF BeginAnalysis
  <2> HIDE DEF t
  <2>3. QED
    BY <1>4, <2>1, <2>2, TxnType DEF TypeOK, BeginAnalysis
<1>5. CASE RunPipeline(w)
  <2>1. PICK i \in Incidents : i = txn[w].inc
    BY <1>i, <1>5 DEF RunPipeline, Idle
  <2>2. PICK recs \in 0 .. MaxRecs, created, answered, failed \in BOOLEAN :
          /\ bugs' = [bugs EXCEPT ![i] = IF created THEN @ + 1 ELSE @]
          /\ txn' = [txn EXCEPT ![w] = [@ EXCEPT !.pc = "analysed", !.recs = recs,
                                                 !.bug = answered, !.failed = failed]]
    BY <1>5, <2>1 DEF RunPipeline
  <2> DEFINE t == [txn[w] EXCEPT !.pc = "analysed", !.recs = recs,
                                 !.bug = answered, !.failed = failed]
             e == IF created THEN bugs[i] + 1 ELSE bugs[i]
  <2>3. t \in Txn /\ t.inc = i
    BY <1>t, <2>1 DEF Txn, WorkerPcs
  <2>4. bugs' \in [Incidents -> Nat]
    <3>1. e \in Nat
      <4>1. bugs[i] \in Nat
        BY <2>1 DEF TypeOK
      <4>2. CASE created
        BY <4>1, <4>2
      <4>3. CASE ~ created
        BY <4>1, <4>3
      <4>4. QED
        BY <4>2, <4>3
    <3>2. bugs' = [bugs EXCEPT ![i] = e]
      BY <2>2
    <3> HIDE DEF e
    <3>3. QED
      BY <2>1, <3>1, <3>2, FunUpdate DEF TypeOK
  <2>5. txn' = [txn EXCEPT ![w] = t]
    BY <2>2
  <2> HIDE DEF t
  <2>6. QED
    BY <1>5, <2>3, <2>4, <2>5, TxnType DEF TypeOK, RunPipeline
<1>6. CASE CommitAnalysis(w)
  <2>1. PICK i \in Incidents : i = txn[w].inc
    BY <1>i, <1>6 DEF CommitAnalysis, Idle
  <2>2. row' \in [Incidents -> Row]
    <3>1. AnalysisStatus(txn[w].failed) \in Statuses
      BY DEF AnalysisStatus, Statuses
    <3>2. row' = [row EXCEPT ![i] = [row[i] EXCEPT !.status = AnalysisStatus(txn[w].failed)]]
      BY <1>6, <2>1 DEF CommitAnalysis
    <3>3. row[i] \in Row
      BY <2>1 DEF TypeOK
    <3>4. [row[i] EXCEPT !.status = AnalysisStatus(txn[w].failed)] \in Row
      BY <3>1, <3>3 DEF Row
    <3>5. QED
      BY <2>1, <3>2, <3>4, FunUpdate DEF TypeOK
  <2>3. analyses' \in [Incidents -> Seq(0 .. MaxRecs)]
    <3>1. analyses' = [analyses EXCEPT ![i] = Append(analyses[i], txn[w].recs)]
      BY <1>6, <2>1 DEF CommitAnalysis
    <3>2. Append(analyses[i], txn[w].recs) \in Seq(0 .. MaxRecs)
      <4>1. analyses[i] \in Seq(0 .. MaxRecs) /\ txn[w].recs \in 0 .. MaxRecs
        BY <1>t, <2>1 DEF TypeOK, Txn
      <4>2. QED
        BY <4>1, AppendProperties
    <3>3. QED
      BY <2>1, <3>1, <3>2, FunUpdate DEF TypeOK
  <2>4. workItems' \in [Incidents -> Seq(0 .. MaxRecs)]
    <3> DEFINE e == IF txn[w].bug THEN Append(workItems[i], 0) ELSE workItems[i]
    <3>1. workItems' = [workItems EXCEPT ![i] = e]
      BY <1>6, <2>1 DEF CommitAnalysis
    <3>2. e \in Seq(0 .. MaxRecs)
      <4>1. workItems[i] \in Seq(0 .. MaxRecs) /\ 0 \in 0 .. MaxRecs
        BY <2>1, LifecycleAssumption DEF TypeOK
      <4>2. QED
        BY <4>1, AppendProperties
    <3> HIDE DEF e
    <3>3. QED
      BY <2>1, <3>1, <3>2, FunUpdate DEF TypeOK
  <2>5. lock' \in [Incidents -> Workers \cup {NoOne}]
    BY <1>6 DEF CommitAnalysis, TypeOK
  <2>6. QED
    BY <1>6, <1>n, <2>2, <2>3, <2>4, <2>5, TxnType DEF TypeOK, CommitAnalysis
<1>7. CASE LoadApproved(w)
  <2>1. PICK i \in Incidents : i = txn[w].inc
    BY <1>i, <1>7 DEF LoadApproved, Idle
  <2>2. PICK recs \in SomeRecs(i), item \in SomeItem(i) :
          txn' = [txn EXCEPT ![w] = [@ EXCEPT !.pc = "loaded", !.recs = recs, !.item = item]]
    BY <1>7, <2>1 DEF LoadApproved
  <2> DEFINE t == [txn[w] EXCEPT !.pc = "loaded", !.recs = recs, !.item = item]
  <2>3. recs \in 0 .. MaxRecs
    <3>1. analyses[i] \in Seq(0 .. MaxRecs) /\ 0 \in 0 .. MaxRecs
      BY <2>1, LifecycleAssumption DEF TypeOK
    <3>2. \A k \in DOMAIN analyses[i] : analyses[i][k] \in 0 .. MaxRecs
      BY <3>1, ElementOfSeq, LenProperties
    <3>3. QED
      BY <3>1, <3>2 DEF SomeRecs
  <2>4. item \in Nat
    <3>1. workItems[i] \in Seq(0 .. MaxRecs)
      BY <2>1 DEF TypeOK
    <3>2. DOMAIN workItems[i] \subseteq Nat
      BY <3>1, LenProperties
    <3>3. QED
      BY <3>2 DEF SomeItem
  <2>5. t \in Txn /\ t.inc = i
    BY <1>t, <2>1, <2>3, <2>4 DEF Txn, WorkerPcs
  <2>6. txn' = [txn EXCEPT ![w] = t]
    BY <2>2
  <2> HIDE DEF t
  <2>7. QED
    BY <1>7, <2>5, <2>6, TxnType DEF TypeOK, LoadApproved
<1>8. CASE BeginRemediation(w)
  <2> DEFINE t == [txn[w] EXCEPT !.pc = "remediating"]
  <2>1. t \in Txn /\ t.inc = txn[w].inc /\ txn[w].inc \in Incidents
    BY <1>t, <1>i, <1>8 DEF Txn, WorkerPcs, BeginRemediation, Idle
  <2>2. txn' = [txn EXCEPT ![w] = t]
    BY <1>8 DEF BeginRemediation
  <2> HIDE DEF t
  <2>3. QED
    BY <1>8, <2>1, <2>2, TxnType DEF TypeOK, BeginRemediation
<1>9. CASE RunPrAgent(w)
  <2>1. PICK i \in Incidents : i = txn[w].inc
    BY <1>i, <1>9 DEF RunPrAgent, Idle
  <2>2. PICK created, answered, failed \in BOOLEAN :
          /\ created => ~ Skipped(txn[w])
          /\ prs' = [prs EXCEPT ![i] = IF created THEN Append(@, ChosenRank(txn[w])) ELSE @]
          /\ txn' = [txn EXCEPT ![w] = [@ EXCEPT !.pc = "remediated", !.failed = failed,
                                    !.pr = IF answered THEN ChosenRank(txn[w]) ELSE 0]]
    BY <1>9, <2>1 DEF RunPrAgent
  <2> DEFINE t == [txn[w] EXCEPT !.pc = "remediated", !.failed = failed,
                                 !.pr = IF answered THEN ChosenRank(txn[w]) ELSE 0]
             e == IF created THEN Append(prs[i], ChosenRank(txn[w])) ELSE prs[i]
  <2>3. ChosenRank(txn[w]) \in 0 .. MaxRecs /\ 0 \in 0 .. MaxRecs
    BY <1>t, LifecycleAssumption DEF ChosenRank, Txn, Row
  <2>4. t \in Txn /\ t.inc = i
    BY <1>t, <2>1, <2>3 DEF Txn, WorkerPcs
  <2>5. prs' \in [Incidents -> Seq(Ranks)]
    <3>1. prs[i] \in Seq(Ranks)
      BY <2>1 DEF TypeOK
    <3>2. created => ChosenRank(txn[w]) \in Ranks
      BY <2>2, <2>3 DEF Skipped, ChosenRank, Ranks
    <3>3. e \in Seq(Ranks)
      BY <3>1, <3>2, AppendProperties
    <3>4. prs' = [prs EXCEPT ![i] = e]
      BY <2>2
    <3> HIDE DEF e
    <3>5. QED
      BY <2>1, <3>3, <3>4, FunUpdate DEF TypeOK
  <2>6. txn' = [txn EXCEPT ![w] = t]
    BY <2>2
  <2> HIDE DEF t
  <2>7. QED
    BY <1>9, <2>4, <2>5, <2>6, TxnType DEF TypeOK, RunPrAgent
<1>10. CASE CommitRemediation(w)
  <2>1. PICK i \in Incidents : i = txn[w].inc
    BY <1>i, <1>10 DEF CommitRemediation, Idle
  <2>2. row' \in [Incidents -> Row]
    <3>1. RemediationStatus(txn[w].failed) \in Statuses
      BY DEF RemediationStatus, Statuses
    <3>2. row' = [row EXCEPT ![i] = [row[i] EXCEPT !.status = RemediationStatus(txn[w].failed)]]
      BY <1>10, <2>1 DEF CommitRemediation
    <3>3. row[i] \in Row
      BY <2>1 DEF TypeOK
    <3>4. [row[i] EXCEPT !.status = RemediationStatus(txn[w].failed)] \in Row
      BY <3>1, <3>3 DEF Row
    <3>5. QED
      BY <2>1, <3>2, <3>4, FunUpdate DEF TypeOK
  <2>3. workItems' \in [Incidents -> Seq(0 .. MaxRecs)]
    <3> DEFINE e == [workItems[i] EXCEPT ![txn[w].item] = txn[w].pr]
    <3>1. workItems' = [workItems EXCEPT ![i] = e] \/ workItems' = workItems
      BY <1>10, <2>1 DEF CommitRemediation
    <3>2. e \in Seq(0 .. MaxRecs)
      <4>1. workItems[i] \in Seq(0 .. MaxRecs) /\ txn[w].pr \in 0 .. MaxRecs
        BY <1>t, <2>1 DEF TypeOK, Txn
      <4>2. QED
        BY <4>1, SeqUpdate
    <3> HIDE DEF e
    <3>3. CASE workItems' = [workItems EXCEPT ![i] = e]
      BY <2>1, <3>2, <3>3, FunUpdate DEF TypeOK
    <3>4. CASE workItems' = workItems
      BY <3>4 DEF TypeOK
    <3>5. QED
      BY <3>1, <3>3, <3>4
  <2>4. lock' \in [Incidents -> Workers \cup {NoOne}]
    BY <1>10 DEF CommitRemediation, TypeOK
  <2>5. QED
    BY <1>10, <1>n, <2>2, <2>3, <2>4, TxnType DEF TypeOK, CommitRemediation
<1>11. QED
  BY <1>1, <1>2, <1>3, <1>4, <1>5, <1>6, <1>7, <1>8, <1>9, <1>10 DEF Work

\* A run that ends without its commit.
LEMMA UndoneType ==
  ASSUME TypeOK, NEW w \in Workers, Rollback(w) \/ Crash(w)
  PROVE  TypeOK'
<1> USE DEF outside
<1>n. NoTxn \in Txn /\ NoTxn.pc = "idle"
  BY NullRecords DEF NoTxn
<1>1. lock' \in [Incidents -> Workers \cup {NoOne}]
  BY DEF TypeOK, Rollback, Crash, Released
<1>2. txn' = [txn EXCEPT ![w] = NoTxn]
  BY DEF Rollback, Crash
<1>3. CASE Rollback(w)
  <2>1. undone' \in [Incidents -> Nat]
    <3>1. txn[w].inc \in Incidents /\ undone[txn[w].inc] + 1 \in Nat
      BY <1>3 DEF Rollback, TypeOK
    <3>2. undone' = [undone EXCEPT ![txn[w].inc] = undone[txn[w].inc] + 1]
      BY <1>3 DEF Rollback
    <3>3. QED
      BY <3>1, <3>2, FunUpdate DEF TypeOK
  <2>2. QED
    BY <1>n, <1>1, <1>2, <1>3, <2>1, TxnType DEF TypeOK, Rollback
<1>4. CASE Crash(w)
  <2>1. undone' \in [Incidents -> Nat]
    <3>1. CASE Idle(w)
      BY <1>4, <3>1 DEF Crash, TypeOK
    <3>2. CASE ~ Idle(w)
      <4>1. txn[w].inc \in Incidents /\ undone[txn[w].inc] + 1 \in Nat
        BY <3>2 DEF TypeOK
      <4>2. undone' = [undone EXCEPT ![txn[w].inc] = undone[txn[w].inc] + 1]
        BY <1>4, <3>2 DEF Crash
      <4>3. QED
        BY <4>1, <4>2, FunUpdate DEF TypeOK
    <3>3. QED
      BY <3>1, <3>2
  <2>2. crashes' \in 0 .. MaxCrashes
    BY <1>4, LifecycleAssumption DEF Crash, TypeOK
  <2>3. batch' \in [Workers -> SUBSET Incidents]
    BY <1>4 DEF Crash, TypeOK
  <2>4. QED
    BY <1>n, <1>1, <1>2, <1>4, <2>1, <2>2, <2>3, TxnType DEF TypeOK, Crash
<1>5. QED
  BY <1>3, <1>4

\* A decision types what it writes.
LEMMA DecideType ==
  ASSUME TypeOK, NEW i \in Incidents, NEW seen \in Row, NEW a \in Approvals,
         NEW r \in 0 .. MaxRecs, Decide(i, seen, a, r)
  PROVE  /\ row' \in [Incidents -> Row]
         /\ decisions' \in [Incidents -> Seq(0 .. MaxRecs)]
<1>1. row[i] \in Row /\ decisions[i] \in Seq(0 .. MaxRecs)
  BY DEF TypeOK
<1> DEFINE e == [row[i] EXCEPT !.approval = Written(row[i].approval, seen.approval, a),
                               !.rank = Written(row[i].rank, seen.rank, r)]
<1>2. e \in Row
  BY <1>1 DEF Row, Written
<1>3. row' = [row EXCEPT ![i] = e]
  BY DEF Decide
<1>4. decisions' = [decisions EXCEPT ![i] = Append(decisions[i], r)]
  BY DEF Decide
<1>5. Append(decisions[i], r) \in Seq(0 .. MaxRecs)
  BY <1>1, AppendProperties
<1> HIDE DEF e
<1>6. QED
  BY <1>2, <1>3, <1>4, <1>5, FunUpdate DEF TypeOK

LEMMA ReviewType ==
  ASSUME TypeOK, NEW c \in Reviewers, Review(c)
  PROVE  TypeOK'
<1> USE DEF outside, counts, db
<1>k. call[c] \in Call /\ (call[c].pc # "idle" => call[c].inc \in Incidents)
  BY DEF TypeOK
<1>n. NoCall \in Call /\ NoCall.pc = "idle"
  BY NullRecords DEF NoCall
<1>1. ASSUME NEW i \in Incidents, ReadForApproval(c, i) \/ ReadForRejection(c, i)
      PROVE  TypeOK'
  <2>1. PICK pc \in CallPcs :
          call' = [call EXCEPT ![c] = [pc |-> pc, inc |-> i, seen |-> row[i], rank |-> 0]]
    BY <1>1 DEF ReadForApproval, ReadForRejection, CallPcs
  <2> DEFINE k == [pc |-> pc, inc |-> i, seen |-> row[i], rank |-> 0]
  <2>2. k \in Call /\ k.inc \in Incidents
    BY LifecycleAssumption DEF Call, TypeOK
  <2>3. call' = [call EXCEPT ![c] = k]
    BY <2>1
  <2> HIDE DEF k
  <2>4. QED
    BY <1>1, <2>2, <2>3, CallType DEF TypeOK, Idle, ReadForApproval, ReadForRejection
<1>2. CASE CheckRank(c)
  <2>1. PICK r \in Ranks :
          call' = [call EXCEPT ![c] = [call[c] EXCEPT !.pc = "approving", !.rank = r]]
    BY <1>2 DEF CheckRank
  <2> DEFINE k == [call[c] EXCEPT !.pc = "approving", !.rank = r]
  <2>2. k \in Call /\ k.inc \in Incidents
    <3>1. call[c].inc \in Incidents
      BY <1>2, <1>k DEF CheckRank
    <3>2. "approving" \in CallPcs /\ r \in 0 .. MaxRecs
      BY DEF CallPcs, Ranks
    <3>3. QED
      BY <1>k, <3>1, <3>2 DEF Call
  <2>3. call' = [call EXCEPT ![c] = k]
    BY <2>1
  <2> HIDE DEF k
  <2>4. QED
    BY <1>2, <2>2, <2>3, CallType DEF TypeOK, Idle, CheckRank
<1>3. CASE CommitApproval(c)
  <2>1. /\ call[c].inc \in Incidents /\ call[c].seen \in Row
        /\ call[c].rank \in 0 .. MaxRecs /\ "approved" \in Approvals
    BY <1>3, <1>k DEF CommitApproval, Call, Approvals
  <2>2. Decide(call[c].inc, call[c].seen, "approved", call[c].rank)
    BY <1>3 DEF CommitApproval
  <2>3. QED
    BY <1>3, <1>n, <2>1, <2>2, DecideType, CallType DEF TypeOK, Idle, CommitApproval
<1>4. CASE CommitRejection(c)
  <2>1. /\ call[c].inc \in Incidents /\ call[c].seen \in Row
        /\ 0 \in 0 .. MaxRecs /\ "rejected" \in Approvals
    BY <1>4, <1>k, LifecycleAssumption DEF CommitRejection, Call, Approvals
  <2>2. Decide(call[c].inc, call[c].seen, "rejected", 0)
    BY <1>4 DEF CommitRejection
  <2>3. QED
    BY <1>4, <1>n, <2>1, <2>2, DecideType, CallType DEF TypeOK, Idle, CommitRejection
<1>5. CASE Abandon(c)
  BY <1>5, <1>n, CallType DEF TypeOK, Idle, Abandon
<1>6. QED
  BY <1>1, <1>2, <1>3, <1>4, <1>5 DEF Review

LEMMA IngestType ==
  ASSUME TypeOK, NEW i \in Incidents, Ingest(i)
  PROVE  TypeOK'
<1>1. row[i] \in Row /\ "new" \in Statuses
  BY DEF TypeOK, Statuses
<1>2. [row[i] EXCEPT !.status = "new"] \in Row
  BY <1>1 DEF Row
<1>3. row' = [row EXCEPT ![i] = [row[i] EXCEPT !.status = "new"]]
  BY DEF Ingest
<1>4. row' \in [Incidents -> Row]
  BY <1>2, <1>3, FunUpdate DEF TypeOK
<1>5. QED
  BY <1>4 DEF Ingest, TypeOK, Idle, outside, counts

LEMMA StepType == TypeOK /\ [Next]_vars => TypeOK'
<1> SUFFICES ASSUME TypeOK, [Next]_vars
             PROVE  TypeOK'
  OBVIOUS
<1>1. CASE UNCHANGED vars
  BY <1>1 DEF vars, TypeOK, Idle
<1>2. CASE Next
  BY <1>2, WorkType, UndoneType, ReviewType, IngestType DEF Next
<1>3. QED
  BY <1>1, <1>2

\* Every reachable state is well-typed, for every fleet, set of incidents and bound.
THEOREM TypeCorrect == Spec => []TypeOK
<1>1. Init => TypeOK
  BY InitType
<1>2. TypeOK /\ [Next]_vars => TypeOK'
  BY StepType
<1>3. QED
  BY <1>1, <1>2, PTL DEF Spec
-----------------------------------------------------------------------------
(* The approval gate.                                                      *)

Elements(s) == {s[k] : k \in DOMAIN s}

LEMMA AppendElements ==
  ASSUME NEW T, NEW s \in Seq(T), NEW e \in T
  PROVE  Elements(Append(s, e)) = Elements(s) \cup {e}
<1> DEFINE u == Append(s, e)
           n == Len(s)
<1>1. n \in Nat /\ DOMAIN s = 1 .. n /\ DOMAIN u = 1 .. n + 1
  BY LenProperties, AppendProperties
<1>2. u[n + 1] = e /\ \A k \in 1 .. n : u[k] = s[k]
  BY AppendProperties
<1> HIDE DEF u, n
<1>3. \A k \in 1 .. n + 1 : k \in 1 .. n \/ k = n + 1
  BY <1>1
<1>4. n + 1 \in 1 .. n + 1 /\ \A k \in 1 .. n : k \in 1 .. n + 1
  BY <1>1
<1>5. {u[k] : k \in DOMAIN u} = {s[k] : k \in DOMAIN s} \cup {e}
  BY <1>1, <1>2, <1>3, <1>4
<1>6. QED
  BY <1>5 DEF Elements, u

\* A decision adds its rank to the ranks on record of its incident, and no other.
LEMMA DecideApproves ==
  ASSUME TypeOK, NEW i \in Incidents, NEW seen, NEW a, NEW r \in 0 .. MaxRecs,
         Decide(i, seen, a, r)
  PROVE  /\ ApprovedRanks(i)' = ApprovedRanks(i) \cup ({r} \ {0})
         /\ \A j \in Incidents : j # i => ApprovedRanks(j)' = ApprovedRanks(j)
<1>1. decisions' = [decisions EXCEPT ![i] = Append(decisions[i], r)]
  BY DEF Decide
<1>a. decisions \in [Incidents -> Seq(0 .. MaxRecs)]
  BY DEF TypeOK
<1>2. decisions[i] \in Seq(0 .. MaxRecs) /\ decisions'[i] = Append(decisions[i], r)
  BY <1>1, <1>a
<1>3. Elements(decisions'[i]) = Elements(decisions[i]) \cup {r}
  <2> DEFINE T == 0 .. MaxRecs
  <2>1. decisions[i] \in Seq(T) /\ r \in T
    BY <1>2
  <2> HIDE DEF T
  <2>2. QED
    BY <1>2, <2>1, AppendElements
<1>4. \A j \in Incidents : j # i => decisions'[j] = decisions[j]
  BY <1>1 DEF TypeOK
<1>5. QED
  BY <1>3, <1>4 DEF ApprovedRanks, Elements

\* A new session sees only what the row shows.
LEMMA RowGivesSession ==
  ASSUME NEW i \in Incidents, ApprovalOnRecord(i)
  PROVE  /\ row[i].rank \in ApprovedRanks(i) \cup {0}
         /\ Approved(row[i]) => ApprovedRanks(i) # {}
BY DEF ApprovalOnRecord, Approved

\* No step of a worker touches the approval columns of a row.
LEMMA WorkKeepsApproval ==
  ASSUME TypeOK, NEW w \in Workers, Work(w), NEW i \in Incidents
  PROVE  row'[i].approval = row[i].approval /\ row'[i].rank = row[i].rank
<1>1. row[i] \in Row
  BY DEF TypeOK
<1>2. CASE row' = row
  BY <1>2
<1>3. CASE \E s : row' = [row EXCEPT ![txn[w].inc] = [row[txn[w].inc] EXCEPT !.status = s]]
  <2>1. PICK s : row' = [row EXCEPT ![txn[w].inc] = [row[txn[w].inc] EXCEPT !.status = s]]
    BY <1>3
  <2>2. CASE i = txn[w].inc
    <3>1. row'[i] = [row[i] EXCEPT !.status = s]
      BY <2>1, <2>2 DEF TypeOK
    <3>2. QED
      BY <1>1, <3>1 DEF Row
  <2>3. CASE i # txn[w].inc
    BY <2>1, <2>3 DEF TypeOK
  <2>4. QED
    BY <2>2, <2>3
<1>4. row' = row \/ \E s : row' = [row EXCEPT ![txn[w].inc] = [row[txn[w].inc] EXCEPT !.status = s]]
  <2>1. CASE CommitAnalysis(w)
    BY <2>1 DEF CommitAnalysis
  <2>2. CASE CommitRemediation(w)
    BY <2>2 DEF CommitRemediation
  <2>3. CASE ~ CommitAnalysis(w) /\ ~ CommitRemediation(w)
    BY <2>3 DEF Work, Poll, Open, Raise, BeginAnalysis, RunPipeline, LoadApproved,
                BeginRemediation, RunPrAgent
  <2>4. QED
    BY <2>1, <2>2, <2>3
<1>5. QED
  BY <1>2, <1>3, <1>4

\* A worker's session after each of its steps still sees only what is on record.
LEMMA WorkSession ==
  ASSUME TypeOK, GateInv, NEW w \in Workers, Work(w)
  PROVE  /\ SessionOnRecord(txn'[w])
         /\ \A v \in Workers : v # w => txn'[v] = txn[v]
<1>1. SessionOnRecord(txn[w]) /\ txn[w] \in Txn
  BY DEF GateInv, TypeOK
<1>2. CASE Poll(w)
  BY <1>1, <1>2 DEF Poll
<1>3. CASE Open(w)
  <2>1. PICK j \in Oldest(batch[w]) :
          txn' = IF Runnable(row[j])
                 THEN [txn EXCEPT ![w] = [NoTxn EXCEPT !.pc = "opened", !.inc = j,
                                                       !.seen = row[j]]]
                 ELSE txn
    BY <1>3 DEF Open
  <2>2. j \in Incidents
    BY DEF Oldest, TypeOK
  <2>3. row[j].rank \in ApprovedRanks(j) \cup {0} /\ (Approved(row[j]) => ApprovedRanks(j) # {})
    BY <2>2, RowGivesSession DEF GateInv
  <2> DEFINE t == [NoTxn EXCEPT !.pc = "opened", !.inc = j, !.seen = row[j]]
  <2>4. t.pc = "opened" /\ t.inc = j /\ t.seen = row[j]
    BY DEF NoTxn
  <2> HIDE DEF t
  <2>5. SessionOnRecord(t)
    BY <2>3, <2>4 DEF SessionOnRecord
  <2>6. txn' = [txn EXCEPT ![w] = t] \/ txn' = txn
    BY <2>1 DEF t
  <2>7. QED
    BY <1>1, <2>5, <2>6 DEF TypeOK
<1>4. CASE Raise(w) \/ CommitAnalysis(w) \/ CommitRemediation(w)
  <2>1. txn' = [txn EXCEPT ![w] = NoTxn]
    BY <1>4 DEF Raise, CommitAnalysis, CommitRemediation
  <2>2. SessionOnRecord(NoTxn)
    BY DEF SessionOnRecord, NoTxn
  <2>3. QED
    BY <2>1, <2>2 DEF TypeOK
<1>5. ASSUME NEW t, txn' = [txn EXCEPT ![w] = t], txn[w].pc # "idle",
             t.inc = txn[w].inc, t.seen = txn[w].seen,
             t.pc \in {"loaded", "remediating", "remediated"} => Approved(t.seen)
      PROVE  SessionOnRecord(txn'[w]) /\ \A v \in Workers : v # w => txn'[v] = txn[v]
  <2>1. SessionOnRecord(t)
    BY <1>1, <1>5 DEF SessionOnRecord
  <2>2. QED
    BY <1>5, <2>1 DEF TypeOK
<1>6. CASE BeginAnalysis(w)
  <2> DEFINE t == [txn[w] EXCEPT !.pc = "analysing"]
  <2>1. t.inc = txn[w].inc /\ t.seen = txn[w].seen /\ t.pc = "analysing"
    BY <1>1 DEF Txn
  <2>2. txn' = [txn EXCEPT ![w] = t] /\ txn[w].pc # "idle"
    BY <1>6 DEF BeginAnalysis
  <2> HIDE DEF t
  <2>3. QED
    BY <1>5, <2>1, <2>2
<1>7. CASE RunPipeline(w)
  <2>1. PICK recs \in 0 .. MaxRecs, bug, failed \in BOOLEAN :
          txn' = [txn EXCEPT ![w] = [@ EXCEPT !.pc = "analysed", !.recs = recs,
                                              !.bug = bug, !.failed = failed]]
    BY <1>7 DEF RunPipeline
  <2> DEFINE t == [txn[w] EXCEPT !.pc = "analysed", !.recs = recs, !.bug = bug,
                                 !.failed = failed]
  <2>2. t.inc = txn[w].inc /\ t.seen = txn[w].seen /\ t.pc = "analysed"
    BY <1>1 DEF Txn
  <2>3. txn' = [txn EXCEPT ![w] = t]
    BY <2>1
  <2>4. txn[w].pc # "idle"
    BY <1>7 DEF RunPipeline
  <2> HIDE DEF t
  <2>5. QED
    BY <1>5, <2>2, <2>3, <2>4
<1>8. CASE LoadApproved(w)
  <2>1. PICK recs, item :
          txn' = [txn EXCEPT ![w] = [@ EXCEPT !.pc = "loaded", !.recs = recs, !.item = item]]
    BY <1>8 DEF LoadApproved
  <2> DEFINE t == [txn[w] EXCEPT !.pc = "loaded", !.recs = recs, !.item = item]
  <2>2. t.inc = txn[w].inc /\ t.seen = txn[w].seen
    BY <1>1 DEF Txn
  <2>3. /\ txn' = [txn EXCEPT ![w] = t] /\ txn[w].pc # "idle"
        /\ Approved(txn[w].seen)
    BY <1>8, <2>1 DEF LoadApproved
  <2> HIDE DEF t
  <2>4. QED
    BY <1>5, <2>2, <2>3
<1>9. CASE BeginRemediation(w)
  <2> DEFINE t == [txn[w] EXCEPT !.pc = "remediating"]
  <2>1. t.inc = txn[w].inc /\ t.seen = txn[w].seen
    BY <1>1 DEF Txn
  <2>2. /\ txn' = [txn EXCEPT ![w] = t] /\ txn[w].pc # "idle"
        /\ Approved(txn[w].seen)
    BY <1>1, <1>9 DEF BeginRemediation, SessionOnRecord
  <2> HIDE DEF t
  <2>3. QED
    BY <1>5, <2>1, <2>2
<1>10. CASE RunPrAgent(w)
  <2>1. PICK failed, pr :
          txn' = [txn EXCEPT ![w] = [@ EXCEPT !.pc = "remediated", !.failed = failed, !.pr = pr]]
    BY <1>10 DEF RunPrAgent
  <2> DEFINE t == [txn[w] EXCEPT !.pc = "remediated", !.failed = failed, !.pr = pr]
  <2>2. t.inc = txn[w].inc /\ t.seen = txn[w].seen
    BY <1>1 DEF Txn
  <2>3. /\ txn' = [txn EXCEPT ![w] = t] /\ txn[w].pc # "idle"
        /\ Approved(txn[w].seen)
    BY <1>1, <1>10, <2>1 DEF RunPrAgent, SessionOnRecord
  <2> HIDE DEF t
  <2>4. QED
    BY <1>5, <2>2, <2>3
<1>11. QED
  BY <1>2, <1>3, <1>4, <1>6, <1>7, <1>8, <1>9, <1>10 DEF Work

\* A worker opens pull requests, and closes an incident, on what is on record.
LEMMA WorkOpens ==
  ASSUME TypeOK, GateInv, NEW w \in Workers, Work(w), NEW i \in Incidents
  PROVE  /\ PrRanks(i)' \subseteq ApprovedRanks(i)
         /\ row'[i].status = "pr_created" => ApprovedRanks(i) # {}
<1>1. PrRanks(i) \subseteq ApprovedRanks(i)
      /\ (row[i].status = "pr_created" => ApprovedRanks(i) # {})
  BY DEF GateInv, NoPrWithoutApproval
<1>2. SessionOnRecord(txn[w]) /\ txn[w] \in Txn
  BY DEF GateInv, TypeOK
<1>3. CASE RunPrAgent(w)
  <2>1. PICK j \in Incidents : j = txn[w].inc
    BY <1>3 DEF RunPrAgent, TypeOK, Idle
  <2>2. row' = row
    BY <1>3 DEF RunPrAgent
  <2>3. txn[w].seen.rank \in ApprovedRanks(j) \cup {0}
    BY <1>2, <1>3, <2>1 DEF RunPrAgent, SessionOnRecord
  <2>4. txn[w].seen.rank \in 0 .. MaxRecs
    BY <1>2 DEF Txn, Row
  <2>5. \/ prs' = prs
        \/ /\ txn[w].seen.rank # 0
           /\ prs' = [prs EXCEPT ![j] = Append(prs[j], txn[w].seen.rank)]
    <3>1. PICK created \in BOOLEAN :
            /\ created => ~ Skipped(txn[w])
            /\ prs' = [prs EXCEPT ![j] = IF created THEN Append(@, ChosenRank(txn[w])) ELSE @]
      BY <1>3, <2>1 DEF RunPrAgent
    <3>2. CASE created
      BY <3>1, <3>2 DEF Skipped, ChosenRank
    <3>3. CASE ~ created
      BY <3>1, <3>3 DEF TypeOK
    <3>4. QED
      BY <3>2, <3>3
  <2>6. CASE prs' = prs
    BY <1>1, <2>2, <2>6 DEF PrRanks
  <2>7. CASE /\ txn[w].seen.rank # 0
             /\ prs' = [prs EXCEPT ![j] = Append(prs[j], txn[w].seen.rank)]
    <3>1. CASE i = j
      <4>1. prs[j] \in Seq(Ranks) /\ prs'[j] = Append(prs[j], txn[w].seen.rank)
        BY <2>7 DEF TypeOK
      <4>2. txn[w].seen.rank \in Ranks
        BY <2>4, <2>7 DEF Ranks
      <4>3. PrRanks(j)' = PrRanks(j) \cup {txn[w].seen.rank}
        <5>1. Elements(prs'[j]) = Elements(prs[j]) \cup {txn[w].seen.rank}
          BY <4>1, <4>2, AppendElements
        <5> QED BY <5>1 DEF PrRanks, Elements
      <4>4. QED
        BY <1>1, <2>2, <2>3, <2>7, <3>1, <4>3
    <3>2. CASE i # j
      BY <1>1, <2>2, <2>7, <3>2 DEF PrRanks, TypeOK
    <3>3. QED
      BY <3>1, <3>2
  <2>8. QED
    BY <2>5, <2>6, <2>7
<1>4. CASE CommitRemediation(w)
  <2>1. PICK j \in Incidents : j = txn[w].inc
    BY <1>4 DEF CommitRemediation, TypeOK, Idle
  <2>2. ApprovedRanks(j) # {}
    BY <1>2, <1>4, <2>1 DEF CommitRemediation, SessionOnRecord
  <2>3. prs' = prs
    BY <1>4 DEF CommitRemediation, outside
  <2>4. i = j \/ row'[i] = row[i]
    BY <1>4, <2>1 DEF CommitRemediation, TypeOK
  <2>5. QED
    BY <1>1, <2>2, <2>3, <2>4 DEF PrRanks
<1>5. CASE CommitAnalysis(w)
  <2>1. PICK j \in Incidents : j = txn[w].inc
    BY <1>5 DEF CommitAnalysis, TypeOK, Idle
  <2>2. prs' = prs
    BY <1>5 DEF CommitAnalysis, outside
  <2>3. row' = [row EXCEPT ![j] = [row[j] EXCEPT !.status = AnalysisStatus(txn[w].failed)]]
    BY <1>5, <2>1 DEF CommitAnalysis
  <2>4. row'[j].status = AnalysisStatus(txn[w].failed) /\ (i # j => row'[i] = row[i])
    BY <2>3 DEF TypeOK, Row
  <2>5. row'[j].status # "pr_created"
    BY <2>4 DEF AnalysisStatus
  <2>6. QED
    BY <1>1, <2>2, <2>4, <2>5 DEF PrRanks
<1>6. CASE ~ RunPrAgent(w) /\ ~ CommitRemediation(w) /\ ~ CommitAnalysis(w)
  <2>1. row' = row /\ prs' = prs
    BY <1>6 DEF Work, Poll, Open, Raise, BeginAnalysis, RunPipeline, LoadApproved,
                BeginRemediation, outside
  <2>2. QED
    BY <1>1, <2>1 DEF PrRanks
<1>7. QED
  BY <1>3, <1>4, <1>5, <1>6

LEMMA WorkGate ==
  ASSUME TypeOK, GateInv, NEW w \in Workers, Work(w)
  PROVE  GateInv'
<1>1. call' = call /\ decisions' = decisions
  BY DEF Work, Poll, Open, Raise, BeginAnalysis, RunPipeline, CommitAnalysis, LoadApproved,
         BeginRemediation, RunPrAgent, CommitRemediation, outside
<1>2. \A i : ApprovedRanks(i)' = ApprovedRanks(i)
  BY <1>1 DEF ApprovedRanks
<1>3. \A i \in Incidents : ApprovalOnRecord(i)'
  BY <1>2, WorkKeepsApproval DEF GateInv, ApprovalOnRecord
<1>4. \A v \in Workers : SessionOnRecord(txn[v])'
  <2>1. SessionOnRecord(txn'[w]) /\ \A v \in Workers : v # w => txn'[v] = txn[v]
    BY WorkSession
  <2>2. \A v \in Workers : SessionOnRecord(txn'[v])
    BY <2>1 DEF GateInv
  <2>3. QED
    BY <1>2, <2>2 DEF SessionOnRecord
<1>5. NoPrWithoutApproval'
  BY <1>2, WorkOpens DEF NoPrWithoutApproval
<1>6. QED
  BY <1>1, <1>3, <1>4, <1>5 DEF GateInv

LEMMA UndoneGate ==
  ASSUME TypeOK, GateInv, NEW w \in Workers, Rollback(w) \/ Crash(w)
  PROVE  GateInv'
<1>1. /\ row' = row /\ call' = call /\ decisions' = decisions /\ prs' = prs
      /\ txn' = [txn EXCEPT ![w] = NoTxn]
  BY DEF Rollback, Crash, outside
<1>2. \A i : ApprovedRanks(i)' = ApprovedRanks(i) /\ PrRanks(i)' = PrRanks(i)
  BY <1>1 DEF ApprovedRanks, PrRanks
<1>3. \A v \in Workers : txn'[v] = txn[v] \/ txn'[v] = NoTxn
  BY <1>1 DEF TypeOK
<1>4. \A v \in Workers : SessionOnRecord(txn'[v])
  BY <1>3 DEF GateInv, SessionOnRecord, NoTxn
<1>5. \A v \in Workers : SessionOnRecord(txn[v])'
  BY <1>2, <1>4 DEF SessionOnRecord
<1>6. QED
  BY <1>1, <1>2, <1>5 DEF GateInv, ApprovalOnRecord, NoPrWithoutApproval

LEMMA IngestGate ==
  ASSUME TypeOK, GateInv, NEW i \in Incidents, Ingest(i)
  PROVE  GateInv'
<1>1. /\ call' = call /\ decisions' = decisions /\ prs' = prs /\ txn' = txn
      /\ row' = [row EXCEPT ![i] = [row[i] EXCEPT !.status = "new"]]
  BY DEF Ingest, outside
<1>2. \A j : ApprovedRanks(j)' = ApprovedRanks(j) /\ PrRanks(j)' = PrRanks(j)
  BY <1>1 DEF ApprovedRanks, PrRanks
<1>3. \A j \in Incidents : /\ row'[j].approval = row[j].approval /\ row'[j].rank = row[j].rank
                           /\ row'[j].status = "pr_created" => row[j].status = "pr_created"
  BY <1>1 DEF TypeOK, Row
<1>4. \A v \in Workers : SessionOnRecord(txn[v])'
  BY <1>1, <1>2 DEF GateInv, SessionOnRecord
<1>5. QED
  BY <1>1, <1>2, <1>3, <1>4 DEF GateInv, ApprovalOnRecord, NoPrWithoutApproval

\* A decision leaves on record whatever the approval columns then show: the
\* columns it does not write were on record before it.
LEMMA DecideGate ==
  ASSUME TypeOK, GateInv, NEW i \in Incidents, NEW seen, NEW a, NEW r \in 0 .. MaxRecs,
         a = "approved" => r # 0, txn' = txn, prs' = prs,
         \A c \in Reviewers : call'[c].pc = "approving" => call'[c].rank \in Ranks,
         Decide(i, seen, a, r)
  PROVE  GateInv'
<1>1. /\ ApprovedRanks(i)' = ApprovedRanks(i) \cup ({r} \ {0})
      /\ \A j \in Incidents : j # i => ApprovedRanks(j)' = ApprovedRanks(j)
  BY DecideApproves
<1>2. row[i] \in Row /\ \A j \in Incidents : j # i => row'[j] = row[j]
  BY DEF TypeOK, Decide
<1>3. row'[i] = [row[i] EXCEPT !.approval = Written(row[i].approval, seen.approval, a),
                               !.rank = Written(row[i].rank, seen.rank, r)]
  BY DEF Decide, TypeOK
<1>4. /\ row'[i].status = row[i].status
      /\ row'[i].approval \in {row[i].approval, a}
      /\ row'[i].rank \in {row[i].rank, r}
  BY <1>2, <1>3 DEF Row, Written
<1>5. \A j \in Incidents : ApprovedRanks(j) \subseteq ApprovedRanks(j)'
  BY <1>1
<1>6. \A j \in Incidents : PrRanks(j)' = PrRanks(j)
  BY DEF PrRanks
<1>7. \A j \in Incidents : ApprovalOnRecord(j)'
  <2>1. ApprovalOnRecord(i)'
    BY <1>1, <1>4 DEF GateInv, ApprovalOnRecord
  <2>2. \A j \in Incidents : j # i => ApprovalOnRecord(j)'
    BY <1>1, <1>2 DEF GateInv, ApprovalOnRecord
  <2>3. QED
    BY <2>1, <2>2
<1>8. \A v \in Workers : SessionOnRecord(txn[v])'
  <2>1. \A v \in Workers : txn[v].pc # "idle" => txn[v].inc \in Incidents
    BY DEF TypeOK, Idle
  <2>2. QED
    BY <1>5, <2>1 DEF GateInv, SessionOnRecord
<1>9. NoPrWithoutApproval'
  <2>1. \A j \in Incidents : row'[j].status = row[j].status
    BY <1>2, <1>4
  <2>2. QED
    BY <1>5, <1>6, <2>1 DEF GateInv, NoPrWithoutApproval
<1>10. QED
  BY <1>7, <1>8, <1>9 DEF GateInv

LEMMA ReviewGate ==
  ASSUME TypeOK, GateInv, NEW c \in Reviewers, Review(c)
  PROVE  GateInv'
<1>k. call[c] \in Call /\ (call[c].pc # "idle" => call[c].inc \in Incidents)
  BY DEF TypeOK
<1>r. \A d \in Reviewers : call[d].pc = "approving" => call[d].rank \in Ranks
  BY DEF GateInv
<1>1. CASE CommitApproval(c)
  <2>1. /\ call[c].inc \in Incidents /\ call[c].rank \in 0 .. MaxRecs /\ call[c].rank # 0
    BY <1>1, <1>k, <1>r DEF CommitApproval, Call, Ranks
  <2>2. \A d \in Reviewers : call'[d].pc = "approving" => call'[d].rank \in Ranks
    BY <1>1, <1>r DEF CommitApproval, TypeOK, NoCall
  <2>3. txn' = txn /\ prs' = prs /\ Decide(call[c].inc, call[c].seen, "approved", call[c].rank)
    BY <1>1 DEF CommitApproval, outside
  <2>4. QED
    BY <2>1, <2>2, <2>3, DecideGate
<1>2. CASE CommitRejection(c)
  <2>1. call[c].inc \in Incidents /\ 0 \in 0 .. MaxRecs
    BY <1>2, <1>k, LifecycleAssumption DEF CommitRejection
  <2>2. \A d \in Reviewers : call'[d].pc = "approving" => call'[d].rank \in Ranks
    BY <1>2, <1>r DEF CommitRejection, TypeOK, NoCall
  <2>3. txn' = txn /\ prs' = prs /\ Decide(call[c].inc, call[c].seen, "rejected", 0)
    BY <1>2 DEF CommitRejection, outside
  <2>4. QED
    BY <2>1, <2>2, <2>3, DecideGate
<1>3. CASE ~ CommitApproval(c) /\ ~ CommitRejection(c)
  <2>1. row' = row /\ decisions' = decisions /\ prs' = prs /\ txn' = txn
    BY <1>3 DEF Review, ReadForApproval, ReadForRejection, CheckRank, Abandon, db, outside
  <2>2. \A d \in Reviewers : call'[d].pc = "approving" => call'[d].rank \in Ranks
    <3>1. CASE \E i \in Incidents : ReadForApproval(c, i) \/ ReadForRejection(c, i)
      <4>1. PICK k : call' = [call EXCEPT ![c] = k] /\ k.pc # "approving"
        BY <3>1 DEF ReadForApproval, ReadForRejection
      <4>2. QED
        BY <1>r, <4>1 DEF TypeOK
    <3>2. CASE CheckRank(c)
      <4>1. PICK r \in Ranks :
              call' = [call EXCEPT ![c] = [call[c] EXCEPT !.pc = "approving", !.rank = r]]
        BY <3>2 DEF CheckRank
      <4>2. call'[c].rank = r /\ \A d \in Reviewers : d # c => call'[d] = call[d]
        BY <1>k, <4>1 DEF TypeOK, Call
      <4>3. QED
        BY <1>r, <4>2
    <3>3. CASE Abandon(c)
      BY <1>r, <3>3 DEF Abandon, TypeOK, NoCall
    <3>4. QED
      BY <1>3, <3>1, <3>2, <3>3 DEF Review
  <2>3. \A i : ApprovedRanks(i)' = ApprovedRanks(i) /\ PrRanks(i)' = PrRanks(i)
    BY <2>1 DEF ApprovedRanks, PrRanks
  <2>4. \A v \in Workers : SessionOnRecord(txn[v])'
    BY <2>1, <2>3 DEF GateInv, SessionOnRecord
  <2>5. QED
    BY <2>1, <2>2, <2>3, <2>4 DEF GateInv, ApprovalOnRecord, NoPrWithoutApproval
<1>4. QED
  BY <1>1, <1>2, <1>3

LEMMA StepGate == TypeOK /\ GateInv /\ [Next]_vars => GateInv'
<1> SUFFICES ASSUME TypeOK, GateInv, [Next]_vars
             PROVE  GateInv'
  OBVIOUS
<1>1. CASE UNCHANGED vars
  <2>1. row' = row /\ txn' = txn /\ call' = call /\ decisions' = decisions /\ prs' = prs
    BY <1>1 DEF vars
  <2>2. \A i : ApprovedRanks(i)' = ApprovedRanks(i) /\ PrRanks(i)' = PrRanks(i)
    BY <2>1 DEF ApprovedRanks, PrRanks
  <2>3. \A v \in Workers : SessionOnRecord(txn[v])'
    BY <2>1, <2>2 DEF GateInv, SessionOnRecord
  <2>4. QED
    BY <2>1, <2>2, <2>3 DEF GateInv, ApprovalOnRecord, NoPrWithoutApproval
<1>2. CASE Next
  BY <1>2, WorkGate, UndoneGate, ReviewGate, IngestGate DEF Next
<1>3. QED
  BY <1>1, <1>2

LEMMA InitGate == Init => GateInv
<1> SUFFICES ASSUME Init PROVE GateInv
  OBVIOUS
<1>1. \A i \in Incidents : PrRanks(i) = {} /\ row[i] = NoRow
  BY DEF Init, PrRanks
<1>2. \A w \in Workers : txn[w] = NoTxn
  BY DEF Init
<1>3. \A c \in Reviewers : call[c] = NoCall
  BY DEF Init
<1>4. QED
  BY <1>1, <1>2, <1>3 DEF GateInv, ApprovalOnRecord, SessionOnRecord, NoPrWithoutApproval,
                          NoRow, NoTxn, NoCall

\* The approval gate, for any number of workers, reviewers and incidents: no
\* pull request exists for a rank that no committed approval named.
THEOREM GateHolds == Spec => []NoPrWithoutApproval
<1>1. Init => TypeOK /\ GateInv
  BY InitType, InitGate
<1>2. TypeOK /\ GateInv /\ [Next]_vars => TypeOK' /\ GateInv'
  BY StepType, StepGate
<1>3. GateInv => NoPrWithoutApproval
  BY DEF GateInv
<1>4. QED
  BY <1>1, <1>2, <1>3, PTL DEF Spec
-----------------------------------------------------------------------------
(* Atomicity of a run's writes.                                            *)

LEMMA AppendLen ==
  ASSUME NEW T, NEW s \in Seq(T), NEW e \in T
  PROVE  Append(s, e) # <<>> /\ Len(Append(s, e)) = Len(s) + 1 /\ Len(s) \in Nat
BY AppendProperties, LenProperties

\* A step that leaves the tables of an incident alone, and takes none of its
\* bugs away, leaves its row consistent.
LEMMA RowKept ==
  ASSUME NEW i \in Incidents, RowPersisted(i), TypeOK, row'[i].status = row[i].status,
         analyses'[i] = analyses[i], workItems'[i] = workItems[i],
         bugs'[i] \in Nat, bugs'[i] >= bugs[i]
  PROVE  RowPersisted(i)'
<1>1. workItems[i] \in Seq(0 .. MaxRecs) /\ bugs[i] \in Nat
  BY DEF TypeOK
<1>2. Len(workItems[i]) \in Nat
  BY <1>1, LenProperties
<1>3. Len(workItems'[i]) <= bugs'[i]
  BY <1>1, <1>2 DEF RowPersisted
<1>4. QED
  BY <1>3 DEF RowPersisted

\* The same for the session of a worker that does not move.
LEMMA SessionKept ==
  ASSUME TypeOK, NEW v \in Workers, SessionPersisted(v, txn[v]), txn'[v] = txn[v],
         txn[v].pc # "idle" =>
           LET i == txn[v].inc IN
           /\ txn[v].pc \in Holding => lock'[i] = v
           /\ analyses[i] # <<>> => analyses'[i] # <<>>
           /\ txn[v].pc = "analysed" => workItems'[i] = workItems[i]
           /\ bugs'[i] \in Nat /\ bugs'[i] >= bugs[i]
  PROVE  SessionPersisted(v, txn[v])'
<1>1. CASE txn[v].pc = "idle"
  BY <1>1 DEF SessionPersisted, Holding
<1>2. CASE txn[v].pc # "idle"
  <2>1. PICK i \in Incidents : i = txn[v].inc
    BY <1>2 DEF TypeOK, Idle
  <2>2. bugs[i] \in Nat /\ workItems[i] \in Seq(0 .. MaxRecs)
    BY DEF TypeOK
  <2>3. Len(workItems[i]) \in Nat
    BY <2>2, LenProperties
  <2>4. txn[v].pc = "analysed" /\ txn[v].bug => Len(workItems'[i]) < bugs'[i]
    BY <1>2, <2>1, <2>2, <2>3 DEF SessionPersisted
  <2>5. QED
    BY <1>2, <2>1, <2>4 DEF SessionPersisted, Holding
<1>3. QED
  BY <1>1, <1>2

\* What a step of worker w can do to the tables of an incident: it rewrites the
\* work items only while it holds the row, and takes the row only when it is free.
LEMMA WorkShape ==
  ASSUME TypeOK, PersistInv, NEW w \in Workers, Work(w), NEW i \in Incidents
  PROVE  /\ lock'[i] = lock[i] \/ (lock[i] = NoOne /\ lock'[i] = w) \/ lock[i] = w
         /\ analyses'[i] = analyses[i] \/ analyses'[i] # <<>>
         /\ workItems'[i] = workItems[i] \/ lock[i] = w
         /\ bugs'[i] \in Nat /\ bugs'[i] >= bugs[i]
         /\ \A v \in Workers : v # w => txn'[v] = txn[v]
<1>1. TypeOK'
  BY WorkType
<1>2. bugs[i] \in Nat /\ bugs'[i] \in Nat
  BY <1>1 DEF TypeOK
<1>3. \A v \in Workers : v # w => txn'[v] = txn[v]
  BY DEF Work, TypeOK, Poll, Open, Raise, BeginAnalysis, RunPipeline, CommitAnalysis,
         LoadApproved, BeginRemediation, RunPrAgent, CommitRemediation
<1>4. txn[w].pc \in Holding => lock[txn[w].inc] = w
  BY DEF PersistInv, SessionPersisted
<1> DEFINE Goal == /\ lock'[i] = lock[i] \/ (lock[i] = NoOne /\ lock'[i] = w) \/ lock[i] = w
                   /\ analyses'[i] = analyses[i] \/ analyses'[i] # <<>>
                   /\ workItems'[i] = workItems[i] \/ lock[i] = w
                   /\ bugs'[i] >= bugs[i]
<1>5. CASE BeginAnalysis(w) \/ BeginRemediation(w)
  <2>1. /\ analyses' = analyses /\ workItems' = workItems /\ bugs' = bugs
        /\ lock' = [lock EXCEPT ![txn[w].inc] = w] /\ lock[txn[w].inc] = NoOne
    BY <1>5 DEF BeginAnalysis, BeginRemediation, outside
  <2>2. Goal
    BY <1>2, <2>1 DEF TypeOK
  <2>3. QED
    BY <1>2, <1>3, <2>2
<1>6. CASE RunPipeline(w)
  <2>1. /\ analyses' = analyses /\ workItems' = workItems /\ lock' = lock
        /\ bugs' = bugs \/ bugs' = [bugs EXCEPT ![txn[w].inc] = bugs[txn[w].inc] + 1]
    <3>1. PICK created \in BOOLEAN :
            bugs' = [bugs EXCEPT ![txn[w].inc] = IF created THEN @ + 1 ELSE @]
      BY <1>6 DEF RunPipeline
    <3>2. CASE created
      BY <1>6, <3>1, <3>2 DEF RunPipeline
    <3>3. CASE ~ created
      BY <1>6, <3>1, <3>3 DEF RunPipeline, TypeOK
    <3>4. QED
      BY <3>2, <3>3
  <2>2. bugs'[i] = bugs[i] \/ bugs'[i] = bugs[i] + 1
    BY <2>1 DEF TypeOK
  <2>3. Goal
    BY <1>2, <2>1, <2>2
  <2>4. QED
    BY <1>2, <1>3, <2>3
<1>7. CASE CommitAnalysis(w)
  <2>1. PICK j \in Incidents : j = txn[w].inc
    BY <1>7 DEF CommitAnalysis, TypeOK, Idle
  <2>2. lock[j] = w
    BY <1>4, <1>7, <2>1 DEF CommitAnalysis, Holding
  <2>3. analyses[j] \in Seq(0 .. MaxRecs) /\ txn[w].recs \in 0 .. MaxRecs
    BY DEF TypeOK, Txn
  <2>4. analyses'[j] # <<>>
    <3>1. analyses' = [analyses EXCEPT ![j] = Append(analyses[j], txn[w].recs)]
      BY <1>7, <2>1 DEF CommitAnalysis
    <3>2. analyses'[j] = Append(analyses[j], txn[w].recs)
      BY <3>1 DEF TypeOK
    <3>3. QED
      BY <2>3, <3>2, AppendLen
  <2>5. i # j => analyses'[i] = analyses[i] /\ workItems'[i] = workItems[i] /\ lock'[i] = lock[i]
    BY <1>7, <2>1 DEF CommitAnalysis, TypeOK
  <2>6. bugs' = bugs
    BY <1>7 DEF CommitAnalysis, outside
  <2>7. Goal
    BY <1>2, <2>2, <2>4, <2>5, <2>6
  <2>8. QED
    BY <1>2, <1>3, <2>7
<1>8. CASE CommitRemediation(w)
  <2>1. PICK j \in Incidents : j = txn[w].inc
    BY <1>8 DEF CommitRemediation, TypeOK, Idle
  <2>2. lock[j] = w
    BY <1>4, <1>8, <2>1 DEF CommitRemediation, Holding
  <2>3. i # j => workItems'[i] = workItems[i] /\ lock'[i] = lock[i]
    BY <1>8, <2>1 DEF CommitRemediation, TypeOK
  <2>4. analyses' = analyses /\ bugs' = bugs
    BY <1>8 DEF CommitRemediation, outside
  <2>5. Goal
    BY <1>2, <2>2, <2>3, <2>4
  <2>6. QED
    BY <1>2, <1>3, <2>5
<1>9. CASE ~ BeginAnalysis(w) /\ ~ BeginRemediation(w) /\ ~ RunPipeline(w)
           /\ ~ CommitAnalysis(w) /\ ~ CommitRemediation(w)
  <2>1. lock' = lock /\ analyses' = analyses /\ workItems' = workItems /\ bugs' = bugs
    BY <1>9 DEF Work, Poll, Open, Raise, LoadApproved, RunPrAgent, outside
  <2>2. QED
    BY <1>2, <1>3, <2>1
<1>10. QED
  BY <1>5, <1>6, <1>7, <1>8, <1>9

LEMMA WorkKeepsOthers ==
  ASSUME TypeOK, PersistInv, NEW w \in Workers, Work(w), NEW v \in Workers, v # w
  PROVE  SessionPersisted(v, txn[v])'
<1>a. txn'[v] = txn[v]
  BY DEF TypeOK, Work, Poll, Open, Raise, BeginAnalysis, RunPipeline, CommitAnalysis,
         LoadApproved, BeginRemediation, RunPrAgent, CommitRemediation
<1>1. SessionPersisted(v, txn[v]) /\ txn'[v] = txn[v]
  BY <1>a DEF PersistInv
<1>2. CASE txn[v].pc = "idle"
  BY <1>1, <1>2, SessionKept
<1>3. CASE txn[v].pc # "idle"
  <2>1. PICK j \in Incidents : j = txn[v].inc
    BY <1>3 DEF TypeOK, Idle
  <2>2. v # NoOne
    BY LifecycleAssumption DEF NoOne
  <2>3. txn[v].pc \in Holding => lock[j] = v
    BY <1>1, <2>1 DEF SessionPersisted
  <2>4. /\ txn[v].pc \in Holding => lock'[j] = v
        /\ analyses[j] # <<>> => analyses'[j] # <<>>
        /\ txn[v].pc = "analysed" => workItems'[j] = workItems[j]
        /\ bugs'[j] \in Nat /\ bugs'[j] >= bugs[j]
    BY <2>2, <2>3, WorkShape DEF Holding
  <2>5. QED
    BY <1>1, <2>1, <2>4, SessionKept
<1>4. QED
  BY <1>2, <1>3

\* The session of the worker that moves.
LEMMA WorkMovesSession ==
  ASSUME TypeOK, PersistInv, NEW w \in Workers, Work(w)
  PROVE  SessionPersisted(w, txn[w])'
<1>1. SessionPersisted(w, txn[w]) /\ txn[w] \in Txn
  BY DEF PersistInv, TypeOK
<1>2. CASE Poll(w)
  BY <1>1, <1>2 DEF Poll, SessionPersisted, outside
<1>3. CASE Open(w)
  <2>1. PICK j \in Oldest(batch[w]) :
          txn' = IF Runnable(row[j])
                 THEN [txn EXCEPT ![w] = [NoTxn EXCEPT !.pc = "opened", !.inc = j,
                                                       !.seen = row[j]]]
                 ELSE txn
    BY <1>3 DEF Open
  <2>2. j \in Incidents
    BY DEF Oldest, TypeOK
  <2>3. Approved(row[j]) => analyses[j] # <<>>
    BY <2>2 DEF PersistInv, RowPersisted, Approved
  <2>4. CASE txn'[w] = txn[w]
    BY <1>1, <1>3, <2>4 DEF Open, SessionPersisted, outside
  <2>5. CASE Runnable(row[j])
    <3> DEFINE t == [NoTxn EXCEPT !.pc = "opened", !.inc = j, !.seen = row[j]]
    <3>1. t.pc = "opened" /\ t.inc = j /\ t.seen = row[j]
      BY DEF NoTxn
    <3>2. txn'[w] = t
      BY <2>1, <2>5 DEF TypeOK
    <3>3. analyses' = analyses
      BY <1>3 DEF Open
    <3> HIDE DEF t
    <3>4. QED
      BY <2>3, <3>1, <3>2, <3>3 DEF SessionPersisted, Holding
  <2>6. QED
    BY <2>1, <2>4, <2>5
<1>4. CASE Raise(w) \/ CommitAnalysis(w) \/ CommitRemediation(w)
  <2>1. txn'[w] = NoTxn
    BY <1>4 DEF Raise, CommitAnalysis, CommitRemediation, TypeOK
  <2>2. QED
    BY <2>1 DEF SessionPersisted, NoTxn, Holding
<1>5. CASE BeginAnalysis(w) \/ BeginRemediation(w)
  <2>1. PICK i \in Incidents : i = txn[w].inc
    BY <1>5 DEF BeginAnalysis, BeginRemediation, TypeOK, Idle
  <2>2. PICK pc \in {"analysing", "remediating"} : txn' = [txn EXCEPT ![w] = [txn[w] EXCEPT !.pc = pc]]
    BY <1>5 DEF BeginAnalysis, BeginRemediation
  <2>3. txn'[w].pc = pc /\ txn'[w].inc = i /\ txn'[w].seen = txn[w].seen
    BY <1>1, <2>1, <2>2 DEF TypeOK, Txn
  <2>4. lock'[i] = w /\ analyses' = analyses
    BY <1>5, <2>1 DEF BeginAnalysis, BeginRemediation, TypeOK
  <2>5. pc = "remediating" => Approved(txn[w].seen)
    <3>1. CASE BeginAnalysis(w)
      <4>1. txn' = [txn EXCEPT ![w] = [txn[w] EXCEPT !.pc = "analysing"]]
        BY <3>1 DEF BeginAnalysis
      <4>2. txn'[w].pc = "analysing"
        BY <1>1, <4>1 DEF TypeOK, Txn
      <4>3. QED
        BY <2>3, <4>2
    <3>2. CASE BeginRemediation(w)
      BY <1>1, <3>2 DEF BeginRemediation, SessionPersisted
    <3>3. QED
      BY <1>5, <3>1, <3>2
  <2>6. txn[w].pc # "idle"
    BY <1>5 DEF BeginAnalysis, BeginRemediation
  <2>7. QED
    BY <1>1, <2>1, <2>2, <2>3, <2>4, <2>5, <2>6 DEF SessionPersisted
<1>6. CASE RunPipeline(w)
  <2>1. PICK i \in Incidents : i = txn[w].inc
    BY <1>6 DEF RunPipeline, TypeOK, Idle
  <2>2. PICK recs \in 0 .. MaxRecs, created, answered, failed \in BOOLEAN :
          /\ answered => created
          /\ bugs' = [bugs EXCEPT ![i] = IF created THEN @ + 1 ELSE @]
          /\ txn' = [txn EXCEPT ![w] = [@ EXCEPT !.pc = "analysed", !.recs = recs,
                                                 !.bug = answered, !.failed = failed]]
    BY <1>6, <2>1 DEF RunPipeline
  <2>3. /\ txn'[w].pc = "analysed" /\ txn'[w].inc = i /\ txn'[w].seen = txn[w].seen
        /\ txn'[w].bug = answered
    BY <1>1, <2>1, <2>2 DEF TypeOK, Txn
  <2>4. lock' = lock /\ analyses' = analyses /\ workItems' = workItems /\ txn[w].pc = "analysing"
    BY <1>6 DEF RunPipeline
  <2>5. lock[i] = w
    BY <1>1, <2>1, <2>4 DEF SessionPersisted, Holding
  <2>6. answered => Len(workItems[i]) < bugs'[i]
    <3>1. bugs[i] \in Nat /\ workItems[i] \in Seq(0 .. MaxRecs)
      BY DEF TypeOK
    <3>2. Len(workItems[i]) \in Nat /\ Len(workItems[i]) <= bugs[i]
      BY <3>1, LenProperties DEF PersistInv, RowPersisted
    <3>3. created => bugs'[i] = bugs[i] + 1
      <4>1. CASE created
        BY <2>2, <4>1 DEF TypeOK
      <4>2. QED
        BY <4>1
    <3>4. CASE answered
      BY <2>2, <3>1, <3>2, <3>3, <3>4
    <3>5. QED
      BY <3>4
  <2>7. QED
    BY <1>1, <2>1, <2>3, <2>4, <2>5, <2>6 DEF SessionPersisted
<1>7. CASE LoadApproved(w)
  <2>1. PICK recs, item :
          txn' = [txn EXCEPT ![w] = [@ EXCEPT !.pc = "loaded", !.recs = recs, !.item = item]]
    BY <1>7 DEF LoadApproved
  <2>2. txn'[w].pc = "loaded" /\ txn'[w].inc = txn[w].inc /\ txn'[w].seen = txn[w].seen
    BY <1>1, <2>1 DEF TypeOK, Txn
  <2>3. Approved(txn[w].seen) /\ txn[w].pc # "idle" /\ analyses' = analyses
    BY <1>7 DEF LoadApproved
  <2>4. QED
    BY <1>1, <2>2, <2>3 DEF SessionPersisted, Holding
<1>8. CASE RunPrAgent(w)
  <2>1. PICK failed, pr :
          txn' = [txn EXCEPT ![w] = [@ EXCEPT !.pc = "remediated", !.failed = failed, !.pr = pr]]
    BY <1>8 DEF RunPrAgent
  <2>2. txn'[w].pc = "remediated" /\ txn'[w].inc = txn[w].inc /\ txn'[w].seen = txn[w].seen
    BY <1>1, <2>1 DEF TypeOK, Txn
  <2>3. txn[w].pc = "remediating" /\ analyses' = analyses /\ lock' = lock
    BY <1>8 DEF RunPrAgent
  <2>4. QED
    BY <1>1, <2>2, <2>3 DEF SessionPersisted, Holding
<1>9. QED
  BY <1>2, <1>3, <1>4, <1>5, <1>6, <1>7, <1>8 DEF Work

\* A worker's commit moves a row, its analyses and its work items together.
LEMMA WorkKeepsRow ==
  ASSUME TypeOK, PersistInv, NEW w \in Workers, Work(w), NEW i \in Incidents
  PROVE  RowPersisted(i)'
<1>1. RowPersisted(i) /\ SessionPersisted(w, txn[w])
  BY DEF PersistInv
<1>2. bugs'[i] \in Nat /\ bugs'[i] >= bugs[i]
  BY WorkShape
<1>3. CASE CommitAnalysis(w)
  <2>1. PICK j \in Incidents : j = txn[w].inc
    BY <1>3 DEF CommitAnalysis, TypeOK, Idle
  <2>2. CASE i # j
    <3>1. row'[i] = row[i] /\ analyses'[i] = analyses[i] /\ workItems'[i] = workItems[i]
      BY <1>3, <2>1, <2>2 DEF CommitAnalysis, TypeOK
    <3>2. QED
      BY <1>1, <1>2, <3>1, RowKept
  <2>3. CASE i = j
    <3>1. /\ analyses[i] \in Seq(0 .. MaxRecs) /\ txn[w].recs \in 0 .. MaxRecs
          /\ workItems[i] \in Seq(0 .. MaxRecs) /\ 0 \in 0 .. MaxRecs
          /\ bugs[i] \in Nat /\ row[i] \in Row
      <4>1. txn[w] \in Txn
        BY DEF TypeOK
      <4>2. txn[w].recs \in 0 .. MaxRecs
        BY <4>1, TxnFields
      <4>3. QED
        BY <4>2, LifecycleAssumption DEF TypeOK
    <3>2. row' = [row EXCEPT ![i] = [row[i] EXCEPT !.status = AnalysisStatus(txn[w].failed)]]
      BY <1>3, <2>1, <2>3 DEF CommitAnalysis
    <3>3. row'[i].status = AnalysisStatus(txn[w].failed)
      BY <3>1, <3>2 DEF TypeOK, Row
    <3>4. analyses' = [analyses EXCEPT ![i] = Append(analyses[i], txn[w].recs)]
      BY <1>3, <2>1, <2>3 DEF CommitAnalysis
    <3>5. analyses'[i] # <<>>
      <4>1. analyses'[i] = Append(analyses[i], txn[w].recs)
        BY <3>4 DEF TypeOK
      <4>2. QED
        BY <3>1, <4>1, AppendLen
    <3>6. Len(workItems'[i]) <= bugs'[i]
      <4>1. bugs' = bugs
        BY <1>3 DEF CommitAnalysis, outside
      <4>2. Len(workItems[i]) \in Nat /\ Len(workItems[i]) <= bugs[i]
        BY <1>1, <3>1, LenProperties DEF RowPersisted
      <4>3. CASE txn[w].bug
        <5>1. workItems' = [workItems EXCEPT ![i] = Append(workItems[i], 0)]
          BY <1>3, <2>1, <2>3, <4>3 DEF CommitAnalysis
        <5>2. workItems'[i] = Append(workItems[i], 0)
          BY <5>1 DEF TypeOK
        <5>3. Len(workItems'[i]) = Len(workItems[i]) + 1
          BY <3>1, <5>2, AppendLen
        <5>4. Len(workItems[i]) < bugs[i]
          BY <1>1, <1>3, <2>1, <2>3, <4>3 DEF CommitAnalysis, SessionPersisted
        <5>5. QED
          BY <3>1, <4>1, <4>2, <5>3, <5>4
      <4>4. CASE ~ txn[w].bug
        <5>1. workItems'[i] = workItems[i]
          BY <1>3, <2>1, <2>3, <4>4 DEF CommitAnalysis, TypeOK
        <5>2. QED
          BY <4>1, <4>2, <5>1
      <4>5. QED
        BY <4>3, <4>4
    <3>7. QED
      BY <3>3, <3>5, <3>6 DEF RowPersisted, AnalysisStatus
  <2>4. QED
    BY <2>2, <2>3
<1>4. CASE CommitRemediation(w)
  <2>1. PICK j \in Incidents : j = txn[w].inc
    BY <1>4 DEF CommitRemediation, TypeOK, Idle
  <2>2. analyses' = analyses /\ bugs' = bugs
    BY <1>4 DEF CommitRemediation, outside
  <2>3. CASE i # j
    <3>1. row'[i] = row[i] /\ workItems'[i] = workItems[i]
      BY <1>4, <2>1, <2>3 DEF CommitRemediation, TypeOK
    <3>2. QED
      BY <1>1, <1>2, <2>2, <3>1, RowKept
  <2>4. CASE i = j
    <3>1. row[i] \in Row /\ workItems[i] \in Seq(0 .. MaxRecs)
      BY DEF TypeOK
    <3>2. row' = [row EXCEPT ![i] = [row[i] EXCEPT !.status = RemediationStatus(txn[w].failed)]]
      BY <1>4, <2>1, <2>4 DEF CommitRemediation
    <3>3. row'[i].status = RemediationStatus(txn[w].failed)
      BY <3>1, <3>2 DEF TypeOK, Row
    <3>4. analyses[i] # <<>>
      BY <1>1, <1>4, <2>1, <2>4 DEF CommitRemediation, SessionPersisted
    <3>5. Len(workItems'[i]) = Len(workItems[i])
      <4> DEFINE e == [workItems[i] EXCEPT ![txn[w].item] = txn[w].pr]
      <4>1. workItems' = [workItems EXCEPT ![i] = e] \/ workItems' = workItems
        BY <1>4, <2>1, <2>4 DEF CommitRemediation
      <4>2. txn[w].pr \in 0 .. MaxRecs
        BY DEF TypeOK, Txn
      <4>3. Len(e) = Len(workItems[i])
        BY <3>1, <4>2, SeqUpdate
      <4> HIDE DEF e
      <4>4. QED
        BY <4>1, <4>3 DEF TypeOK
    <3>6. QED
      BY <1>1, <2>2, <3>3, <3>4, <3>5 DEF RowPersisted, RemediationStatus
  <2>5. QED
    BY <2>3, <2>4
<1>5. CASE ~ CommitAnalysis(w) /\ ~ CommitRemediation(w)
  <2>1. row' = row /\ analyses' = analyses /\ workItems' = workItems
    BY <1>5 DEF Work, Poll, Open, Raise, BeginAnalysis, RunPipeline, LoadApproved,
                BeginRemediation, RunPrAgent
  <2>2. QED
    BY <1>1, <1>2, <2>1, RowKept
<1>6. QED
  BY <1>3, <1>4, <1>5

LEMMA WorkPersist ==
  ASSUME TypeOK, PersistInv, NEW w \in Workers, Work(w)
  PROVE  PersistInv'
BY WorkKeepsRow, WorkKeepsOthers, WorkMovesSession DEF PersistInv

LEMMA UndonePersist ==
  ASSUME TypeOK, PersistInv, NEW w \in Workers, Rollback(w) \/ Crash(w)
  PROVE  PersistInv'
<1>1. /\ row' = row /\ analyses' = analyses /\ workItems' = workItems /\ bugs' = bugs
      /\ txn' = [txn EXCEPT ![w] = NoTxn] /\ lock' = Released(w)
  BY DEF Rollback, Crash, outside
<1>2. ASSUME NEW i \in Incidents
      PROVE  RowPersisted(i)'
  BY <1>1 DEF PersistInv, RowPersisted
<1>3. SessionPersisted(w, txn[w])'
  BY <1>1 DEF TypeOK, SessionPersisted, NoTxn, Holding
<1>4. ASSUME NEW v \in Workers, v # w
      PROVE  SessionPersisted(v, txn[v])'
  <2>1. SessionPersisted(v, txn[v]) /\ txn'[v] = txn[v]
    BY <1>1, <1>4 DEF PersistInv, TypeOK
  <2>2. txn[v].pc # "idle" => bugs[txn[v].inc] \in Nat /\ txn[v].inc \in Incidents
    BY DEF TypeOK, Idle
  <2>3. txn[v].pc \in Holding => lock'[txn[v].inc] = v
    BY <1>1, <1>4, <2>1, <2>2 DEF Released, SessionPersisted, Holding
  <2>4. QED
    BY <1>1, <2>1, <2>2, <2>3, SessionKept
<1>5. QED
  BY <1>2, <1>3, <1>4 DEF PersistInv

\* Steps that leave the sessions, the locks and the tables of a run alone and
\* move no status, except from absent to new.
LEMMA OutsidePersist ==
  ASSUME TypeOK, PersistInv, txn' = txn, lock' = lock, analyses' = analyses,
         workItems' = workItems, bugs' = bugs,
         \A i \in Incidents : \/ row'[i].status = row[i].status
                              \/ row[i].status = "absent" /\ row'[i].status = "new"
  PROVE  PersistInv'
<1>1. \A i \in Incidents : RowPersisted(i)'
  BY DEF PersistInv, RowPersisted
<1>2. \A w \in Workers : SessionPersisted(w, txn[w])'
  BY DEF PersistInv, SessionPersisted
<1>3. QED
  BY <1>1, <1>2 DEF PersistInv

LEMMA ReviewPersist ==
  ASSUME TypeOK, PersistInv, NEW c \in Reviewers, Review(c)
  PROVE  PersistInv'
<1>1. txn' = txn /\ lock' = lock /\ analyses' = analyses /\ workItems' = workItems /\ bugs' = bugs
  BY DEF Review, ReadForApproval, ReadForRejection, CheckRank, CommitApproval,
         CommitRejection, Abandon, db, outside
<1>2. ASSUME NEW i \in Incidents, NEW seen, NEW a, NEW r, Decide(i, seen, a, r)
      PROVE  \A j \in Incidents : row'[j].status = row[j].status
  BY <1>2 DEF Decide, TypeOK, Row
<1>3. \A i \in Incidents : row'[i].status = row[i].status
  <2>1. CASE CommitApproval(c)
    BY <1>2, <2>1 DEF CommitApproval, TypeOK
  <2>2. CASE CommitRejection(c)
    BY <1>2, <2>2 DEF CommitRejection, TypeOK
  <2>3. CASE ~ CommitApproval(c) /\ ~ CommitRejection(c)
    BY <2>3 DEF Review, ReadForApproval, ReadForRejection, CheckRank, Abandon, db
  <2>4. QED
    BY <2>1, <2>2, <2>3
<1>4. QED
  BY <1>1, <1>3, OutsidePersist

LEMMA IngestPersist ==
  ASSUME TypeOK, PersistInv, NEW i \in Incidents, Ingest(i)
  PROVE  PersistInv'
<1>1. /\ txn' = txn /\ lock' = lock /\ analyses' = analyses /\ workItems' = workItems
      /\ bugs' = bugs /\ row[i].status = "absent"
      /\ row' = [row EXCEPT ![i] = [row[i] EXCEPT !.status = "new"]]
  BY DEF Ingest, outside
<1>2. \A j \in Incidents : \/ row'[j].status = row[j].status
                           \/ row[j].status = "absent" /\ row'[j].status = "new"
  BY <1>1 DEF TypeOK, Row
<1>3. QED
  BY <1>1, <1>2, OutsidePersist

LEMMA InitPersist == Init => PersistInv
<1> SUFFICES ASSUME Init PROVE PersistInv
  OBVIOUS
<1>1. ASSUME NEW i \in Incidents PROVE RowPersisted(i)
  <2>1. analyses[i] = <<>> /\ workItems[i] = <<>> /\ bugs[i] = 0 /\ row[i].status = "absent"
    BY DEF Init, NoRow
  <2>2. QED
    BY <2>1 DEF RowPersisted
<1>2. \A w \in Workers : SessionPersisted(w, txn[w])
  BY DEF Init, SessionPersisted, NoTxn, Holding
<1>3. QED
  BY <1>1, <1>2 DEF PersistInv

LEMMA StepPersist == TypeOK /\ PersistInv /\ [Next]_vars => PersistInv'
<1> SUFFICES ASSUME TypeOK, PersistInv, [Next]_vars
             PROVE  PersistInv'
  OBVIOUS
<1>1. CASE UNCHANGED vars
  BY <1>1, OutsidePersist DEF vars
<1>2. CASE Next
  BY <1>2, WorkPersist, UndonePersist, ReviewPersist, IngestPersist DEF Next
<1>3. QED
  BY <1>1, <1>2

\* Atomicity, for any fleet: whatever interleaves or is killed, the status of a
\* row, its analyses and its work items are seen together or not at all.
THEOREM PersistenceAtomic == Spec => []PersistedTogether
<1>1. Init => TypeOK /\ PersistInv
  BY InitType, InitPersist
<1>2. TypeOK /\ PersistInv /\ [Next]_vars => TypeOK' /\ PersistInv'
  BY StepType, StepPersist
<1>3. PersistInv => PersistedTogether
  BY DEF PersistInv, RowPersisted, PersistedTogether
<1>4. QED
  BY <1>1, <1>2, <1>3, PTL DEF Spec
-----------------------------------------------------------------------------
(* How often a fleet can report one incident.                              *)

\* No run on the row has been committed.
Untouched(r) == r.status \in {"absent", "new"}

Visits(t, i) == t.pc # "idle" /\ t.inc = i

\* The session may still create a bug.
Reporting(t, i) ==
  Visits(t, i) /\ (t.pc = "analysing" \/ (t.pc = "opened" /\ ~ Approved(t.seen)))

\* The workers that can create a bug of the incident before one of them is rolled back.
MayReport(i) ==
  {w \in Workers : \/ Reporting(txn[w], i)
                   \/ Untouched(row[i]) /\ ~ Visits(txn[w], i)}

\* Each bug was paid for by a worker that may not report any more, or by a rollback.
FleetInv ==
  \A i \in Incidents : bugs[i] + Cardinality(MayReport(i)) <= Cardinality(Workers) + undone[i]

LEMMA ReportersFinite ==
  ASSUME NEW i \in Incidents
  PROVE  /\ IsFiniteSet(MayReport(i)) /\ Cardinality(MayReport(i)) \in Nat
         /\ Cardinality(MayReport(i)) <= Cardinality(Workers)
         /\ Cardinality(Workers) \in Nat
<1>1. MayReport(i) \in SUBSET Workers BY DEF MayReport
<1>2. IsFiniteSet(Workers) BY LifecycleAssumption
<1> QED BY <1>1, <1>2, FS_Subset, FS_CardinalityType

LEMMA InitFleet == Init => FleetInv
<1> SUFFICES ASSUME Init, NEW i \in Incidents
             PROVE  bugs[i] + Cardinality(MayReport(i)) <= Cardinality(Workers) + undone[i]
  BY DEF FleetInv
<1>1. bugs[i] = 0 /\ undone[i] = 0 BY DEF Init
<1> QED BY <1>1, ReportersFinite
-----------------------------------------------------------------------------
(* The steps of a worker.                                                  *)

\* Nothing brings a row back to where no run has been committed.
LEMMA OthersReport ==
  ASSUME NEW w \in Workers, NEW i \in Incidents,
         \A v \in Workers : v # w => txn'[v] = txn[v],
         Untouched(row'[i]) => Untouched(row[i]),
         Reporting(txn'[w], i) => w \in MayReport(i),
         Untouched(row'[i]) /\ ~ Visits(txn'[w], i) => w \in MayReport(i)
  PROVE  MayReport(i)' \subseteq MayReport(i)
BY DEF MayReport

LEMMA WorkReports ==
  ASSUME TypeOK, PersistInv, NEW w \in Workers, Work(w), NEW i \in Incidents
  PROVE  /\ MayReport(i)' \subseteq MayReport(i)
         /\ undone'[i] = undone[i]
         /\ \/ bugs'[i] = bugs[i]
            \/ bugs'[i] = bugs[i] + 1 /\ w \in MayReport(i) /\ w \notin MayReport(i)'
<1>1. \A v \in Workers : v # w => txn'[v] = txn[v]
  BY WorkShape
<1>2. undone'[i] = undone[i]
  BY DEF Work, Poll, Open, Raise, BeginAnalysis, RunPipeline, CommitAnalysis, LoadApproved,
         BeginRemediation, RunPrAgent, CommitRemediation, counts
<1>3. txn[w] \in Txn /\ row[i] \in Row /\ txn \in [Workers -> Txn] /\ row \in [Incidents -> Row]
      /\ bugs \in [Incidents -> Nat]
  BY DEF TypeOK
<1>4. ~ Idle(w) => txn[w].inc \in Incidents BY DEF TypeOK
<1>5. ~ Idle(w) /\ Approved(txn[w].seen) => ~ Untouched(row[txn[w].inc])
  BY <1>4 DEF PersistInv, SessionPersisted, RowPersisted, Untouched, Idle
<1>6. CASE Poll(w)
  BY <1>2, <1>6 DEF Poll, MayReport, outside
<1>7. CASE Open(w)
  <2>1. row' = row /\ bugs' = bugs /\ txn[w].pc = "idle" BY <1>7 DEF Open, outside, Idle
  <2>2. CASE txn' = txn BY <1>2, <2>1, <2>2 DEF MayReport
  <2>3. CASE txn' # txn
    <3>1. PICK j \in Incidents :
            /\ Runnable(row[j])
            /\ txn' = [txn EXCEPT ![w] = [NoTxn EXCEPT !.pc = "opened", !.inc = j, !.seen = row[j]]]
      BY <1>7, <2>3 DEF Open, Oldest, TypeOK
    <3>2. txn'[w].pc = "opened" /\ txn'[w].inc = j /\ txn'[w].seen = row[j]
      BY <1>3, <3>1 DEF NoTxn
    <3>3. Reporting(txn'[w], i) => w \in MayReport(i)
      BY <2>1, <3>1, <3>2 DEF Reporting, Visits, MayReport, Runnable, Untouched
    <3>4. Untouched(row'[i]) /\ ~ Visits(txn'[w], i) => w \in MayReport(i)
      BY <2>1 DEF MayReport, Visits
    <3> QED BY <1>1, <1>2, <2>1, <3>3, <3>4, OthersReport
  <2> QED BY <2>2, <2>3
<1>8. CASE Raise(w)
  <2>1. row' = row /\ bugs' = bugs /\ txn[w].pc = "opened" /\ txn'[w].pc = "idle"
    BY <1>3, <1>8 DEF Raise, outside, NoTxn
  <2>2. Untouched(row[i]) => w \in MayReport(i)
    BY <1>5, <2>1 DEF MayReport, Reporting, Visits, Idle
  <2> QED BY <1>1, <1>2, <2>1, <2>2, OthersReport DEF Reporting, Visits
<1>9. CASE BeginAnalysis(w) \/ LoadApproved(w) \/ BeginRemediation(w) \/ RunPrAgent(w)
  <2>1. row' = row /\ bugs' = bugs
    BY <1>9 DEF BeginAnalysis, LoadApproved, BeginRemediation, RunPrAgent, outside
  <2>2. /\ txn[w].pc # "idle" /\ txn'[w].pc # "idle" /\ txn'[w].inc = txn[w].inc
        /\ txn'[w].pc = "analysing" => txn[w].pc = "opened" /\ ~ Approved(txn[w].seen)
        /\ txn'[w].pc # "opened"
    <3>1. CASE BeginAnalysis(w) BY <1>3, <3>1 DEF BeginAnalysis, Txn
    <3>2. CASE LoadApproved(w) BY <1>3, <3>2 DEF LoadApproved, Txn
    <3>3. CASE BeginRemediation(w) BY <1>3, <3>3 DEF BeginRemediation, Txn
    <3>4. CASE RunPrAgent(w) BY <1>3, <3>4 DEF RunPrAgent, Txn
    <3> QED BY <1>9, <3>1, <3>2, <3>3, <3>4
  <2>3. Reporting(txn'[w], i) => w \in MayReport(i)
    BY <2>2 DEF Reporting, Visits, MayReport
  <2>4. Untouched(row'[i]) /\ ~ Visits(txn'[w], i) => w \in MayReport(i)
    BY <2>1, <2>2 DEF Visits, MayReport
  <2> QED BY <1>1, <1>2, <2>1, <2>3, <2>4, OthersReport
<1>10. CASE RunPipeline(w)
  <2>1. row' = row /\ txn[w].pc = "analysing" BY <1>10 DEF RunPipeline
  <2>2. txn'[w].pc = "analysed" /\ txn'[w].inc = txn[w].inc
    BY <1>3, <1>10 DEF RunPipeline, Txn
  <2>3. ~ Reporting(txn'[w], i) BY <2>2 DEF Reporting
  <2>4. Untouched(row'[i]) /\ ~ Visits(txn'[w], i) => w \in MayReport(i)
    BY <2>1, <2>2 DEF Visits, MayReport
  <2>5. MayReport(i)' \subseteq MayReport(i)
    BY <1>1, <2>1, <2>3, <2>4, OthersReport
  <2>6. PICK created \in BOOLEAN :
          bugs' = [bugs EXCEPT ![txn[w].inc] = IF created THEN @ + 1 ELSE @]
    BY <1>10 DEF RunPipeline
  <2>7. CASE i = txn[w].inc
    <3>a. Visits(txn[w], i) BY <2>1, <2>7 DEF Visits
    <3>b. Reporting(txn[w], i) BY <2>1, <3>a DEF Reporting
    <3>1. w \in MayReport(i) BY <3>b DEF MayReport
    <3>2. w \notin MayReport(i)' BY <2>2, <2>3, <2>7 DEF MayReport, Visits
    <3> QED BY <1>2, <1>3, <2>5, <2>6, <2>7, <3>1, <3>2
  <2>8. CASE i # txn[w].inc
    <3>1. bugs'[i] = bugs[i] BY <1>3, <2>6, <2>8
    <3> QED BY <1>2, <2>5, <3>1
  <2> QED BY <2>7, <2>8
<1>11. CASE CommitAnalysis(w) \/ CommitRemediation(w)
  <2>1. bugs' = bugs /\ txn[w].pc # "idle" /\ txn'[w].pc = "idle"
    BY <1>3, <1>11 DEF CommitAnalysis, CommitRemediation, outside, NoTxn
  <2>2. \E s \in {"analyzed", "analysis_failed", "pr_created"} :
          row' = [row EXCEPT ![txn[w].inc] = [row[txn[w].inc] EXCEPT !.status = s]]
    BY <1>11 DEF CommitAnalysis, CommitRemediation, AnalysisStatus, RemediationStatus
  <2>3. Untouched(row'[i]) => i # txn[w].inc /\ Untouched(row[i])
    BY <1>3, <1>4, <2>1, <2>2 DEF Row, Untouched, Idle
  <2>4. Untouched(row'[i]) => w \in MayReport(i)
    BY <2>3 DEF MayReport, Visits
  <2> QED BY <1>1, <1>2, <2>1, <2>3, <2>4, OthersReport DEF Reporting, Visits
<1> QED BY <1>6, <1>7, <1>8, <1>9, <1>10, <1>11 DEF Work

\* A run that is rolled back gives its worker back the chance, and is counted.
LEMMA UndoneReports ==
  ASSUME TypeOK, NEW w \in Workers, Rollback(w) \/ Crash(w), NEW i \in Incidents
  PROVE  /\ bugs'[i] = bugs[i]
         /\ \/ MayReport(i)' \subseteq MayReport(i) /\ undone'[i] = undone[i]
            \/ MayReport(i)' \subseteq MayReport(i) \cup {w} /\ undone'[i] = undone[i] + 1
<1>1. bugs' = bugs /\ row' = row /\ txn' = [txn EXCEPT ![w] = NoTxn]
  BY DEF Rollback, Crash, outside
<1>2. txn'[w].pc = "idle" /\ \A v \in Workers : v # w => txn'[v] = txn[v]
  BY <1>1 DEF TypeOK, NoTxn
<1>3. MayReport(i)' \subseteq MayReport(i) \cup {w} BY <1>1, <1>2 DEF MayReport
<1>4. CASE Idle(w)
  <2>1. undone' = undone BY <1>4 DEF Rollback, Crash
  <2>2. Untouched(row[i]) => w \in MayReport(i) BY <1>4 DEF Idle, MayReport, Visits
  <2> QED BY <1>1, <1>2, <2>1, <2>2, OthersReport DEF Reporting, Visits
<1>5. CASE ~ Idle(w)
  <2>1. undone' = [undone EXCEPT ![txn[w].inc] = undone[txn[w].inc] + 1]
    BY <1>5 DEF Rollback, Crash
  <2>2. CASE i = txn[w].inc BY <1>1, <1>3, <2>1, <2>2 DEF TypeOK
  <2>3. CASE i # txn[w].inc
    <3>1. undone'[i] = undone[i] BY <2>1, <2>3 DEF TypeOK
    <3>2. Untouched(row[i]) => w \in MayReport(i) BY <2>3 DEF MayReport, Visits
    <3> QED BY <1>1, <1>2, <3>1, <3>2, OthersReport DEF Reporting, Visits
  <2> QED BY <2>2, <2>3
<1> QED BY <1>4, <1>5
-----------------------------------------------------------------------------
(* The theorem.                                                            *)

LEMMA FleetKept ==
  ASSUME TypeOK, FleetInv, NEW i \in Incidents, TypeOK',
         \/ MayReport(i)' \subseteq MayReport(i) /\ bugs'[i] = bugs[i] /\ undone'[i] = undone[i]
         \/ /\ \E w \in MayReport(i) : MayReport(i)' \subseteq MayReport(i) \ {w}
            /\ bugs'[i] = bugs[i] + 1 /\ undone'[i] = undone[i]
         \/ /\ \E w \in Workers : MayReport(i)' \subseteq MayReport(i) \cup {w}
            /\ bugs'[i] = bugs[i] /\ undone'[i] = undone[i] + 1
  PROVE  bugs'[i] + Cardinality(MayReport(i)') <= Cardinality(Workers) + undone'[i]
<1> DEFINE before == MayReport(i)
           after == MayReport(i)'
<1>1. /\ IsFiniteSet(before) /\ Cardinality(before) \in Nat /\ Cardinality(Workers) \in Nat
      /\ bugs[i] + Cardinality(before) <= Cardinality(Workers) + undone[i]
      /\ bugs[i] \in Nat /\ undone[i] \in Nat
  BY ReportersFinite DEF FleetInv, TypeOK
<1>2. ASSUME NEW S, IsFiniteSet(S), after \subseteq S
      PROVE  Cardinality(after) \in Nat /\ Cardinality(after) <= Cardinality(S)
             /\ Cardinality(S) \in Nat
  <2>1. after \in SUBSET S BY <1>2
  <2> QED BY <1>2, <2>1, FS_Subset, FS_CardinalityType
<1> HIDE DEF before, after
<1>3. CASE after \subseteq before /\ bugs'[i] = bugs[i] /\ undone'[i] = undone[i]
  <2>1. Cardinality(after) \in Nat /\ Cardinality(after) <= Cardinality(before)
    BY <1>1, <1>2, <1>3
  <2> QED BY <1>1, <1>3, <2>1 DEF after
<1>4. CASE /\ \E w \in before : after \subseteq before \ {w}
           /\ bugs'[i] = bugs[i] + 1 /\ undone'[i] = undone[i]
  <2>1. PICK w \in before : after \subseteq before \ {w} BY <1>4
  <2>2. IsFiniteSet(before \ {w}) /\ Cardinality(before \ {w}) = Cardinality(before) - 1
    BY <1>1, FS_RemoveElement
  <2>3. Cardinality(after) \in Nat /\ Cardinality(after) <= Cardinality(before) - 1
    BY <1>2, <2>1, <2>2
  <2> QED BY <1>1, <1>4, <2>3 DEF after
<1>5. CASE /\ \E w \in Workers : after \subseteq before \cup {w}
           /\ bugs'[i] = bugs[i] /\ undone'[i] = undone[i] + 1
  <2>1. PICK w \in Workers : after \subseteq before \cup {w} BY <1>5
  <2>2. IsFiniteSet(before \cup {w}) /\ Cardinality(before \cup {w}) <= Cardinality(before) + 1
    <3>1. IsFiniteSet(before) BY <1>1
    <3>2. /\ IsFiniteSet(before \cup {w})
          /\ Cardinality(before \cup {w}) = IF w \in before THEN Cardinality(before)
                                           ELSE Cardinality(before) + 1
      BY <3>1, FS_AddElement
    <3> QED BY <1>1, <3>2
  <2>3. Cardinality(after) \in Nat /\ Cardinality(after) <= Cardinality(before) + 1
    BY <1>1, <1>2, <2>1, <2>2
  <2> QED BY <1>1, <1>5, <2>3 DEF after
<1> QED BY <1>3, <1>4, <1>5 DEF before, after

\* A step of the reviewers, or an ingestion, makes no row untouched again.
LEMMA ElsewhereReports ==
  ASSUME TypeOK, NEW i \in Incidents,
         \/ \E j \in Incidents : Ingest(j)
         \/ \E c \in Reviewers : Review(c)
         \/ UNCHANGED vars
  PROVE  /\ MayReport(i)' \subseteq MayReport(i)
         /\ bugs'[i] = bugs[i] /\ undone'[i] = undone[i]
<1>1. CASE \E j \in Incidents : Ingest(j)
  <2>1. PICK j \in Incidents : Ingest(j) BY <1>1
  <2>2. /\ row' = [row EXCEPT ![j] = [row[j] EXCEPT !.status = "new"]]
        /\ row[j].status = "absent" /\ txn' = txn /\ bugs' = bugs /\ undone' = undone
    BY <2>1 DEF Ingest, outside, counts
  <2>3. Untouched(row'[i]) => Untouched(row[i])
    BY <2>2 DEF TypeOK, Untouched
  <2> QED BY <2>2, <2>3 DEF MayReport
<1>2. CASE \E c \in Reviewers : Review(c)
  <2>1. PICK c \in Reviewers : Review(c) BY <1>2
  <2>2. txn' = txn /\ bugs' = bugs /\ undone' = undone
    BY <2>1 DEF Review, ReadForApproval, ReadForRejection, CheckRank, CommitApproval,
                CommitRejection, Abandon, outside, counts
  <2>3. ASSUME NEW j \in Incidents, NEW seen, NEW a, NEW r, Decide(j, seen, a, r)
        PROVE  row'[i].status = row[i].status
    BY <2>3 DEF Decide, TypeOK, Row
  <2>4. row'[i].status = row[i].status
    <3>1. CASE CommitApproval(c) BY <2>3, <3>1 DEF CommitApproval, TypeOK
    <3>2. CASE CommitRejection(c) BY <2>3, <3>2 DEF CommitRejection, TypeOK
    <3>3. CASE ~ CommitApproval(c) /\ ~ CommitRejection(c)
      BY <2>1, <3>3 DEF Review, ReadForApproval, ReadForRejection, CheckRank, Abandon, db
    <3> QED BY <3>1, <3>2, <3>3
  <2> QED BY <2>2, <2>4 DEF MayReport, Untouched
<1>3. CASE UNCHANGED vars BY <1>3 DEF vars, MayReport
<1> QED BY <1>1, <1>2, <1>3

LEMMA StepFleet == TypeOK /\ PersistInv /\ FleetInv /\ [Next]_vars => FleetInv'
<1> SUFFICES ASSUME TypeOK, PersistInv, FleetInv, [Next]_vars, NEW i \in Incidents
             PROVE  (bugs[i] + Cardinality(MayReport(i)) <= Cardinality(Workers) + undone[i])'
  BY DEF FleetInv
<1>1. TypeOK' BY StepType
<1>2. CASE \E w \in Workers : Work(w)
  <2>1. PICK w \in Workers : Work(w) BY <1>2
  <2>2. \/ MayReport(i)' \subseteq MayReport(i) /\ bugs'[i] = bugs[i]
        \/ /\ \E v \in MayReport(i) : MayReport(i)' \subseteq MayReport(i) \ {v}
           /\ bugs'[i] = bugs[i] + 1
    BY <2>1, WorkReports
  <2>3. undone'[i] = undone[i] BY <2>1, WorkReports
  <2> QED BY <1>1, <2>2, <2>3, FleetKept
<1>3. CASE \E w \in Workers : Rollback(w) \/ Crash(w)
  <2>1. PICK w \in Workers : Rollback(w) \/ Crash(w) BY <1>3
  <2> QED BY <1>1, <2>1, UndoneReports, FleetKept
<1>4. CASE \/ \E j \in Incidents : Ingest(j)
           \/ \E c \in Reviewers : Review(c)
           \/ UNCHANGED vars
  BY <1>1, <1>4, ElsewhereReports, FleetKept
<1> QED BY <1>2, <1>3, <1>4 DEF Next

\* However many replicas read an incident as new at once, and whatever is killed, each
\* of them reports it once, and once more for each run that was rolled back.
THEOREM BugsBounded == Spec => []BugsBoundedByFleet
<1>1. Init => TypeOK /\ PersistInv /\ FleetInv
  BY InitType, InitPersist, InitFleet
<1>2. TypeOK /\ PersistInv /\ FleetInv /\ [Next]_vars => TypeOK' /\ PersistInv' /\ FleetInv'
  BY StepType, StepPersist, StepFleet
<1>3. TypeOK /\ FleetInv => BugsBoundedByFleet
  <2> SUFFICES ASSUME TypeOK, FleetInv, NEW i \in Incidents
               PROVE  bugs[i] <= Cardinality(Workers) + undone[i]
    BY DEF BugsBoundedByFleet
  <2>1. bugs[i] + Cardinality(MayReport(i)) <= Cardinality(Workers) + undone[i]
    BY DEF FleetInv
  <2>2. bugs[i] \in Nat /\ undone[i] \in Nat BY DEF TypeOK
  <2> QED BY <2>1, <2>2, ReportersFinite
<1> QED BY <1>1, <1>2, <1>3, PTL DEF Spec
-----------------------------------------------------------------------------
(* One replica of the worker.                                              *)

OneWorker == \A v, w \in Workers : v = w
OneReviewer == \A c, d \in Reviewers : c = d

LEMMA RowSerialKept ==
  ASSUME TypeOK, TypeOK', NEW i \in Incidents, RowSerial(i),
         analyses'[i] = analyses[i], row'[i].rank = row[i].rank, prs'[i] = prs[i],
         \/ undone'[i] = undone[i] /\ (Remediated(i) => Remediated(i)')
         \/ undone'[i] = undone[i] + 1
  PROVE  RowSerial(i)'
<1>1. undone[i] \in Nat /\ Len(prs[i]) \in Nat
  BY LenProperties DEF TypeOK
<1>2. Len(prs'[i]) <= undone'[i] + (IF Remediated(i)' THEN 1 ELSE 0)
  BY <1>1 DEF RowSerial
<1> QED BY <1>2 DEF RowSerial, RankKnown

\* A run on a new incident is the first: what it commits is its only analysis.
LEMMA FirstAnalysis ==
  ASSUME TypeOK, PersistInv, SerialInv, NEW w \in Workers,
         txn[w].pc \in {"analysing", "analysed"}
  PROVE  /\ txn[w].inc \in Incidents
         /\ row[txn[w].inc].status = "new" /\ analyses[txn[w].inc] = <<>>
<1>1. txn[w].inc \in Incidents BY DEF TypeOK, Idle
<1>2. SessionSerial(txn[w]) /\ RowPersisted(txn[w].inc) BY <1>1 DEF SerialInv, PersistInv
<1> QED BY <1>1, <1>2 DEF SessionSerial, RowPersisted, Runnable

\* A session on an approved incident works on an analyzed row.
LEMMA StillAnalyzed ==
  ASSUME TypeOK, PersistInv, SerialInv, NEW w \in Workers,
         txn[w].pc \in {"loaded", "remediating", "remediated"}
  PROVE  /\ txn[w].inc \in Incidents
         /\ row[txn[w].inc].status = "analyzed" /\ analyses[txn[w].inc] # <<>>
         /\ Approved(txn[w].seen)
<1>1. txn[w].inc \in Incidents BY DEF TypeOK, Idle
<1>2. SessionSerial(txn[w]) /\ SessionPersisted(w, txn[w]) BY DEF SerialInv, PersistInv
<1> QED BY <1>1, <1>2 DEF SessionSerial, SessionPersisted, Approved

LEMMA WorkKeepsAnalysis ==
  ASSUME TypeOK, PersistInv, SerialInv, NEW w \in Workers, Work(w), NEW i \in Incidents
  PROVE  \/ analyses'[i] = analyses[i]
         \/ analyses[i] = <<>> /\ Len(analyses'[i]) = 1 /\ analyses'[i] # <<>>
<1>1. CASE CommitAnalysis(w)
  <2>1. PICK j \in Incidents : j = txn[w].inc
    BY <1>1 DEF CommitAnalysis, TypeOK, Idle
  <2>2. analyses[j] = <<>> BY <1>1, <2>1, FirstAnalysis DEF CommitAnalysis
  <2>3. analyses' = [analyses EXCEPT ![j] = Append(analyses[j], txn[w].recs)]
    BY <1>1, <2>1 DEF CommitAnalysis
  <2>4. CASE i = j
    <3>1. analyses'[i] = Append(analyses[i], txn[w].recs) BY <2>3, <2>4 DEF TypeOK
    <3> DEFINE T == 0 .. MaxRecs
    <3>2. txn[w].recs \in T /\ analyses[i] \in Seq(T) BY DEF TypeOK, Txn
    <3>3. Len(analyses[i]) = 0 BY <2>2, <2>4
    <3> HIDE DEF T
    <3>4. Len(analyses'[i]) = 1 /\ analyses'[i] # <<>> BY <3>1, <3>2, <3>3, AppendLen
    <3> QED BY <2>2, <2>4, <3>4
  <2>5. CASE i # j BY <2>3, <2>5 DEF TypeOK
  <2> QED BY <2>4, <2>5
<1>2. CASE ~ CommitAnalysis(w)
  BY <1>2 DEF Work, Poll, Open, Raise, BeginAnalysis, RunPipeline, LoadApproved,
              BeginRemediation, RunPrAgent, CommitRemediation
<1> QED BY <1>1, <1>2

LEMMA WorkRowSerial ==
  ASSUME OneWorker, TypeOK, PersistInv, SerialInv, NEW w \in Workers, Work(w),
         NEW i \in Incidents
  PROVE  RowSerial(i)'
<1>t. TypeOK' BY WorkType
<1>r. RowSerial(i) /\ txn[w] \in Txn /\ txn \in [Workers -> Txn] /\ row \in [Incidents -> Row]
      /\ row[i] \in Row
  BY DEF SerialInv, TypeOK
<1>o. \A v \in Workers : v = w BY DEF OneWorker
<1>a. row'[i].rank = row[i].rank BY WorkKeepsApproval
<1>u. undone' = undone
  BY DEF Work, Poll, Open, Raise, BeginAnalysis, RunPipeline, CommitAnalysis, LoadApproved,
         BeginRemediation, RunPrAgent, CommitRemediation, counts
<1>1. CASE Poll(w) \/ Open(w) \/ Raise(w) \/ BeginAnalysis(w) \/ RunPipeline(w)
           \/ LoadApproved(w) \/ BeginRemediation(w)
  <2>1. row' = row /\ analyses' = analyses /\ prs' = prs /\ txn[w].pc # "remediated"
    BY <1>1 DEF Poll, Open, Raise, BeginAnalysis, RunPipeline, LoadApproved,
                BeginRemediation, outside, Idle
  <2>2. Remediated(i) => Remediated(i)' BY <1>o, <2>1 DEF Remediated
  <2> QED BY <1>t, <1>r, <1>u, <2>1, <2>2, RowSerialKept
<1>2. CASE RunPrAgent(w)
  <2>1. row' = row /\ analyses' = analyses /\ txn[w].pc = "remediating"
    BY <1>2 DEF RunPrAgent
  <2>2. PICK j \in Incidents : j = txn[w].inc BY <2>1 DEF TypeOK, Idle
  <2>3. row[j].status = "analyzed" BY <2>1, <2>2, StillAnalyzed
  <2>4. txn'[w].pc = "remediated" /\ txn'[w].inc = j
    BY <1>r, <1>2, <2>2 DEF RunPrAgent, Txn
  <2>5. Remediated(j)' BY <2>4 DEF Remediated
  <2>6. ~ Remediated(j) BY <1>o, <2>1, <2>3 DEF Remediated
  <2>7. PICK created \in BOOLEAN :
          prs' = [prs EXCEPT ![j] = IF created THEN Append(@, ChosenRank(txn[w])) ELSE @]
    BY <1>2, <2>2 DEF RunPrAgent
  <2>8. CASE i # j
    <3>1. prs'[i] = prs[i] BY <2>7, <2>8 DEF TypeOK
    <3>2. Remediated(i) => Remediated(i)' BY <1>o, <2>1 DEF Remediated
    <3> QED BY <1>t, <1>r, <1>u, <2>1, <3>1, <3>2, RowSerialKept
  <2>9. CASE i = j
    <3>1. Len(prs[i]) \in Nat /\ undone[i] \in Nat /\ prs[i] \in Seq(Ranks) /\ prs'[i] \in Seq(Ranks)
      BY <1>t, LenProperties DEF TypeOK
    <3>2. Len(prs[i]) <= undone[i] BY <1>r, <2>6, <2>9, <3>1 DEF RowSerial
    <3>3. Len(prs'[i]) <= Len(prs[i]) + 1
      <4>1. CASE ~ created BY <2>7, <2>9, <3>1, <4>1 DEF TypeOK
      <4>2. CASE created
        <5>1. prs'[i] = Append(prs[i], ChosenRank(txn[w]))
          BY <2>7, <2>9, <4>2 DEF TypeOK
        <5>2. Len(prs'[i]) = Len(prs[i]) + 1
          BY <3>1, <5>1, LenProperties
        <5> QED BY <3>1, <5>2
      <4> QED BY <4>1, <4>2
    <3>4. Len(prs'[i]) \in Nat BY <3>1, LenProperties
    <3>5. Len(prs'[i]) <= undone'[i] + 1 BY <1>u, <3>1, <3>2, <3>3, <3>4
    <3> QED BY <1>r, <1>a, <2>1, <2>5, <2>9, <3>5 DEF RowSerial, RankKnown
  <2> QED BY <2>8, <2>9
<1>3. CASE CommitAnalysis(w)
  <2>1. PICK j \in Incidents : j = txn[w].inc
    BY <1>3 DEF CommitAnalysis, TypeOK, Idle
  <2>2. row[j].status = "new" /\ analyses[j] = <<>> /\ txn[w].pc = "analysed"
    BY <1>3, <2>1, FirstAnalysis DEF CommitAnalysis
  <2>3. prs' = prs BY <1>3 DEF CommitAnalysis, outside
  <2>4. row' = [row EXCEPT ![j] = [row[j] EXCEPT !.status = AnalysisStatus(txn[w].failed)]]
    BY <1>3, <2>1 DEF CommitAnalysis
  <2>5. Remediated(i) => Remediated(i)'
    BY <1>o, <1>r, <2>2, <2>4 DEF Remediated
  <2>6. CASE analyses'[i] = analyses[i]
    BY <1>t, <1>r, <1>a, <1>u, <2>3, <2>5, <2>6, RowSerialKept
  <2>7. CASE analyses[i] = <<>> /\ Len(analyses'[i]) = 1
    <3>1. row[i].rank = 0 BY <1>r, <2>7 DEF RowSerial, RankKnown
    <3>2. undone[i] \in Nat /\ Len(prs[i]) \in Nat BY LenProperties DEF TypeOK
    <3>3. Len(prs'[i]) <= undone'[i] + (IF Remediated(i)' THEN 1 ELSE 0)
      BY <1>r, <1>u, <2>3, <2>5, <3>2 DEF RowSerial
    <3> QED BY <1>a, <2>7, <3>1, <3>3 DEF RowSerial, RankKnown
  <2> QED BY <2>6, <2>7, WorkKeepsAnalysis
<1>4. CASE CommitRemediation(w)
  <2>1. PICK j \in Incidents : j = txn[w].inc
    BY <1>4 DEF CommitRemediation, TypeOK, Idle
  <2>2. analyses' = analyses /\ prs' = prs
    BY <1>4 DEF CommitRemediation, outside
  <2>3. row' = [row EXCEPT ![j] = [row[j] EXCEPT !.status = RemediationStatus(txn[w].failed)]]
    BY <1>4, <2>1 DEF CommitRemediation
  <2>4. row'[j].status \in {"pr_created", "analysis_failed"} /\ (i # j => row'[i] = row[i])
    BY <1>r, <2>3 DEF RemediationStatus, Row
  <2>5. Remediated(i) => Remediated(i)' BY <1>o, <2>1, <2>4 DEF Remediated
  <2> QED BY <1>t, <1>r, <1>a, <1>u, <2>2, <2>5, RowSerialKept
<1> QED BY <1>1, <1>2, <1>3, <1>4 DEF Work

LEMMA WorkSessionSerial ==
  ASSUME TypeOK, PersistInv, SerialInv, NEW w \in Workers, Work(w)
  PROVE  SessionSerial(txn[w])'
<1>r. SessionSerial(txn[w]) /\ txn[w] \in Txn BY DEF SerialInv, TypeOK
<1>1. CASE Poll(w) BY <1>r, <1>1 DEF Poll, SessionSerial, RankKnown
<1>2. CASE Open(w)
  <2>1. PICK j \in Oldest(batch[w]) :
          txn' = IF Runnable(row[j])
                 THEN [txn EXCEPT ![w] = [NoTxn EXCEPT !.pc = "opened", !.inc = j,
                                                       !.seen = row[j]]]
                 ELSE txn
    BY <1>2 DEF Open
  <2>2. j \in Incidents /\ row' = row /\ analyses' = analyses
    BY <1>2 DEF Open, Oldest, TypeOK
  <2>3. CASE txn' = txn BY <1>r, <2>2, <2>3 DEF SessionSerial, RankKnown
  <2>4. CASE Runnable(row[j])
    <3> DEFINE t == [NoTxn EXCEPT !.pc = "opened", !.inc = j, !.seen = row[j]]
    <3>1. t.pc = "opened" /\ t.inc = j /\ t.seen = row[j] BY DEF NoTxn
    <3>2. txn'[w] = t BY <2>1, <2>4 DEF TypeOK
    <3>3. RankKnown(j, row[j].rank) BY <2>2 DEF SerialInv, RowSerial
    <3> HIDE DEF t
    <3> QED BY <2>2, <2>4, <3>1, <3>2, <3>3 DEF SessionSerial, RankKnown
  <2> QED BY <2>1, <2>3, <2>4
<1>3. CASE Raise(w) \/ CommitAnalysis(w) \/ CommitRemediation(w)
  <2>1. txn'[w].pc = "idle"
    BY <1>3 DEF Raise, CommitAnalysis, CommitRemediation, TypeOK, NoTxn
  <2> QED BY <2>1 DEF SessionSerial
<1>4. ASSUME row' = row, analyses' = analyses, txn[w].pc # "idle",
             txn'[w].inc = txn[w].inc, txn'[w].seen = txn[w].seen,
             txn'[w].pc \in {"analysing", "analysed"} => ~ Approved(txn[w].seen),
             txn'[w].pc \in {"loaded", "remediating"} => txn'[w].recs = analyses[txn[w].inc][1]
      PROVE  SessionSerial(txn[w])'
  BY <1>r, <1>4 DEF SessionSerial, RankKnown
<1>5. CASE BeginAnalysis(w)
  <2>1. /\ row' = row /\ analyses' = analyses /\ txn[w].pc # "idle" /\ ~ Approved(txn[w].seen)
        /\ txn' = [txn EXCEPT ![w] = [txn[w] EXCEPT !.pc = "analysing"]]
    BY <1>5 DEF BeginAnalysis
  <2>2. txn'[w].inc = txn[w].inc /\ txn'[w].seen = txn[w].seen /\ txn'[w].pc = "analysing"
    BY <1>r, <2>1 DEF TypeOK, Txn
  <2> QED BY <1>4, <2>1, <2>2
<1>6. CASE RunPipeline(w)
  <2>1. row' = row /\ analyses' = analyses /\ txn[w].pc = "analysing"
    BY <1>6 DEF RunPipeline
  <2>2. txn'[w].inc = txn[w].inc /\ txn'[w].seen = txn[w].seen /\ txn'[w].pc = "analysed"
    BY <1>r, <1>6 DEF RunPipeline, TypeOK, Txn
  <2>3. ~ Approved(txn[w].seen) BY <1>r, <2>1 DEF SessionSerial
  <2> QED BY <1>4, <2>1, <2>2, <2>3
<1>7. CASE LoadApproved(w)
  <2>1. /\ row' = row /\ analyses' = analyses /\ txn[w].pc = "opened" /\ Approved(txn[w].seen)
    BY <1>7 DEF LoadApproved
  <2>2. PICK j \in Incidents : j = txn[w].inc BY <2>1 DEF TypeOK, Idle
  <2>3. PICK recs, item :
          recs \in SomeRecs(j)
          /\ txn' = [txn EXCEPT ![w] = [txn[w] EXCEPT !.pc = "loaded", !.recs = recs, !.item = item]]
    BY <1>7, <2>2 DEF LoadApproved
  <2>4. /\ txn'[w].inc = txn[w].inc /\ txn'[w].seen = txn[w].seen /\ txn'[w].pc = "loaded"
        /\ txn'[w].recs = recs
    BY <1>r, <2>3 DEF TypeOK, Txn
  <2>5. recs = analyses[j][1]
    <3>1. analyses[j] # <<>> BY <2>1, <2>2 DEF PersistInv, SessionPersisted
    <3>2. analyses[j] \in Seq(0 .. MaxRecs) /\ Len(analyses[j]) <= 1
      BY DEF TypeOK, SerialInv, RowSerial
    <3>3. \A k \in DOMAIN analyses[j] : k = 1 BY <3>2, LenProperties
    <3>4. recs \in {analyses[j][k] : k \in DOMAIN analyses[j]} BY <2>3, <3>1 DEF SomeRecs
    <3> QED BY <3>3, <3>4
  <2> QED BY <1>4, <2>1, <2>2, <2>4, <2>5
<1>8. CASE BeginRemediation(w)
  <2>1. /\ row' = row /\ analyses' = analyses /\ txn[w].pc = "loaded"
        /\ txn' = [txn EXCEPT ![w] = [txn[w] EXCEPT !.pc = "remediating"]]
    BY <1>8 DEF BeginRemediation
  <2>2. /\ txn'[w].inc = txn[w].inc /\ txn'[w].seen = txn[w].seen /\ txn'[w].pc = "remediating"
        /\ txn'[w].recs = txn[w].recs
    BY <1>r, <2>1 DEF TypeOK, Txn
  <2>3. txn[w].recs = analyses[txn[w].inc][1] BY <1>r, <2>1 DEF SessionSerial
  <2> QED BY <1>4, <2>1, <2>2, <2>3
<1>9. CASE RunPrAgent(w)
  <2>1. row' = row /\ analyses' = analyses /\ txn[w].pc = "remediating"
    BY <1>9 DEF RunPrAgent
  <2>2. txn'[w].inc = txn[w].inc /\ txn'[w].seen = txn[w].seen /\ txn'[w].pc = "remediated"
    BY <1>r, <1>9 DEF RunPrAgent, TypeOK, Txn
  <2> QED BY <1>4, <2>1, <2>2
<1> QED BY <1>1, <1>2, <1>3, <1>5, <1>6, <1>7, <1>8, <1>9 DEF Work

LEMMA WorkSerial ==
  ASSUME OneWorker, TypeOK, PersistInv, SerialInv, NEW w \in Workers, Work(w)
  PROVE  SerialInv'
<1>1. \A i \in Incidents : RowSerial(i)' BY WorkRowSerial
<1>2. \A v \in Workers : SessionSerial(txn[v])' BY WorkSessionSerial DEF OneWorker
<1>3. call' = call
  BY DEF Work, Poll, Open, Raise, BeginAnalysis, RunPipeline, CommitAnalysis, LoadApproved,
         BeginRemediation, RunPrAgent, CommitRemediation
<1>4. ASSUME NEW c \in Reviewers, call[c].pc = "approving"
      PROVE  analyses'[call[c].inc] # <<>> /\ RankKnown(call[c].inc, call[c].rank)'
  <2>1. PICK j \in Incidents : j = call[c].inc BY <1>4 DEF TypeOK
  <2>2. analyses[j] # <<>> /\ RankKnown(j, call[c].rank) BY <1>4, <2>1 DEF SerialInv
  <2>3. analyses'[j] = analyses[j] BY <2>2, WorkKeepsAnalysis
  <2> QED BY <1>3, <2>1, <2>2, <2>3 DEF RankKnown
<1> QED BY <1>1, <1>2, <1>3, <1>4 DEF SerialInv

\* A run that is rolled back may open its pull request again, and is counted.
LEMMA UndoneSerial ==
  ASSUME OneWorker, TypeOK, SerialInv, NEW w \in Workers, Rollback(w) \/ Crash(w)
  PROVE  SerialInv'
<1>t. TypeOK' BY UndoneType
<1>1. /\ row' = row /\ analyses' = analyses /\ prs' = prs /\ call' = call
      /\ txn' = [txn EXCEPT ![w] = NoTxn]
  BY DEF Rollback, Crash, outside
<1>2. \A v \in Workers : v = w BY DEF OneWorker
<1>3. txn'[w].pc = "idle" BY <1>1 DEF TypeOK, NoTxn
<1>4. ASSUME NEW i \in Incidents PROVE RowSerial(i)'
  <2>1. \/ undone'[i] = undone[i] /\ (Remediated(i) => Remediated(i)')
        \/ undone'[i] = undone[i] + 1
    <3>1. CASE Idle(w)
      <4>1. undone' = undone BY <3>1 DEF Rollback, Crash
      <4> QED BY <1>1, <1>2, <3>1, <4>1 DEF Remediated, Idle
    <3>2. CASE ~ Idle(w)
      <4>1. undone' = [undone EXCEPT ![txn[w].inc] = undone[txn[w].inc] + 1]
        BY <3>2 DEF Rollback, Crash
      <4>2. CASE i = txn[w].inc BY <4>1, <4>2 DEF TypeOK
      <4>3. CASE i # txn[w].inc
        <5>1. undone'[i] = undone[i] BY <4>1, <4>3 DEF TypeOK
        <5> QED BY <1>1, <1>2, <4>3, <5>1 DEF Remediated
      <4> QED BY <4>2, <4>3
    <3> QED BY <3>1, <3>2
  <2> QED BY <1>t, <1>1, <2>1, RowSerialKept DEF SerialInv
<1>5. \A v \in Workers : SessionSerial(txn[v])' BY <1>2, <1>3 DEF SessionSerial
<1> QED BY <1>1, <1>4, <1>5 DEF SerialInv, RankKnown

LEMMA IngestSerial ==
  ASSUME TypeOK, SerialInv, NEW i \in Incidents, Ingest(i)
  PROVE  SerialInv'
<1>t. TypeOK' BY IngestType
<1>1. /\ analyses' = analyses /\ prs' = prs /\ call' = call /\ txn' = txn /\ undone' = undone
      /\ row[i].status = "absent" /\ row' = [row EXCEPT ![i] = [row[i] EXCEPT !.status = "new"]]
  BY DEF Ingest, outside, counts
<1>2. /\ \A j \in Incidents : row'[j].rank = row[j].rank
      /\ \A j \in Incidents : row[j].status # "absent" => row'[j] = row[j]
  BY <1>1 DEF TypeOK, Row
<1>3. ASSUME NEW j \in Incidents PROVE RowSerial(j)'
  <2>1. Remediated(j) => Remediated(j)' BY <1>1, <1>2 DEF Remediated
  <2> QED BY <1>t, <1>1, <1>2, <2>1, RowSerialKept DEF SerialInv
<1>4. ASSUME NEW v \in Workers PROVE SessionSerial(txn[v])'
  <2>1. SessionSerial(txn[v]) /\ (txn[v].pc # "idle" => txn[v].inc \in Incidents)
    BY DEF SerialInv, TypeOK, Idle
  <2>2. txn[v].pc # "idle" => row'[txn[v].inc] = row[txn[v].inc]
    BY <1>2, <2>1 DEF SessionSerial, Runnable, Approved
  <2> QED BY <1>1, <2>1, <2>2 DEF SessionSerial, RankKnown
<1> QED BY <1>1, <1>3, <1>4 DEF SerialInv, RankKnown

\* A decision names a rank of the analysis; the rank column it may leave alone
\* was one before.
LEMMA DecideSerial ==
  ASSUME TypeOK, TypeOK', SerialInv, NEW i \in Incidents, NEW seen, NEW a,
         NEW r \in 0 .. MaxRecs, RankKnown(i, r), Decide(i, seen, a, r),
         txn' = txn, prs' = prs, analyses' = analyses, undone' = undone,
         \A c \in Reviewers : call'[c].pc = "approving" => call'[c] = call[c]
  PROVE  SerialInv'
<1>1. row[i] \in Row /\ \A j \in Incidents : j # i => row'[j] = row[j]
  BY DEF TypeOK, Decide
<1>2. row'[i] = [row[i] EXCEPT !.approval = Written(row[i].approval, seen.approval, a),
                               !.rank = Written(row[i].rank, seen.rank, r)]
  BY DEF Decide, TypeOK
<1>3. row'[i].status = row[i].status /\ row'[i].rank \in {row[i].rank, r}
  BY <1>1, <1>2 DEF Row, Written
<1>4. \A j \in Incidents : row'[j].status = row[j].status /\ RankKnown(j, row'[j].rank)
  BY <1>1, <1>3 DEF SerialInv, RowSerial
<1>5. \A j \in Incidents : Remediated(j)' <=> Remediated(j) BY <1>4 DEF Remediated
<1>6. ASSUME NEW j \in Incidents PROVE RowSerial(j)'
  BY <1>4, <1>5 DEF SerialInv, RowSerial, RankKnown
<1>7. ASSUME NEW v \in Workers PROVE SessionSerial(txn[v])'
  <2>1. SessionSerial(txn[v]) /\ (txn[v].pc # "idle" => txn[v].inc \in Incidents)
    BY DEF SerialInv, TypeOK, Idle
  <2> QED BY <1>4, <2>1 DEF SessionSerial, RankKnown
<1> QED BY <1>6, <1>7 DEF SerialInv, RankKnown

LEMMA ReviewSerial ==
  ASSUME TypeOK, PersistInv, SerialInv, NEW c \in Reviewers, Review(c)
  PROVE  SerialInv'
<1>t. TypeOK' BY ReviewType
<1>1. txn' = txn /\ prs' = prs /\ analyses' = analyses /\ undone' = undone
  BY DEF Review, ReadForApproval, ReadForRejection, CheckRank, CommitApproval,
         CommitRejection, Abandon, db, outside, counts
<1>k. call[c] \in Call /\ (call[c].pc # "idle" => call[c].inc \in Incidents)
  BY DEF TypeOK
<1>2. CASE CommitApproval(c)
  <2>1. /\ call[c].inc \in Incidents /\ call[c].rank \in 0 .. MaxRecs
        /\ RankKnown(call[c].inc, call[c].rank)
    BY <1>2, <1>k DEF CommitApproval, Call, SerialInv
  <2>2. Decide(call[c].inc, call[c].seen, "approved", call[c].rank)
    BY <1>2 DEF CommitApproval
  <2>3. \A d \in Reviewers : call'[d].pc = "approving" => call'[d] = call[d]
    BY <1>2 DEF CommitApproval, TypeOK, NoCall
  <2> QED BY <1>t, <1>1, <2>1, <2>2, <2>3, DecideSerial
<1>3. CASE CommitRejection(c)
  <2>1. /\ call[c].inc \in Incidents /\ 0 \in 0 .. MaxRecs /\ RankKnown(call[c].inc, 0)
    BY <1>3, <1>k, LifecycleAssumption DEF CommitRejection, RankKnown
  <2>2. Decide(call[c].inc, call[c].seen, "rejected", 0)
    BY <1>3 DEF CommitRejection
  <2>3. \A d \in Reviewers : call'[d].pc = "approving" => call'[d] = call[d]
    BY <1>3 DEF CommitRejection, TypeOK, NoCall
  <2> QED BY <1>t, <1>1, <2>1, <2>2, <2>3, DecideSerial
<1>4. CASE ~ CommitApproval(c) /\ ~ CommitRejection(c)
  <2>1. row' = row BY <1>4 DEF Review, ReadForApproval, ReadForRejection, CheckRank, Abandon, db
  <2>2. ASSUME NEW d \in Reviewers, call'[d].pc = "approving"
        PROVE  analyses[call'[d].inc] # <<>> /\ RankKnown(call'[d].inc, call'[d].rank)
    <3>1. CASE call'[d] = call[d] BY <2>2, <3>1 DEF SerialInv
    <3>2. CASE CheckRank(c) /\ d = c
      <4>1. PICK j \in Incidents : j = call[c].inc BY <1>k, <3>2 DEF CheckRank
      <4>2. PICK r \in Ranks :
              /\ InRange(r, IF analyses[j] = <<>> THEN 0 ELSE analyses[j][Len(analyses[j])])
              /\ call' = [call EXCEPT ![c] = [call[c] EXCEPT !.pc = "approving", !.rank = r]]
        BY <3>2, <4>1 DEF CheckRank
      <4>3. call'[c].inc = j /\ call'[c].rank = r BY <1>k, <4>1, <4>2 DEF TypeOK, Call
      <4>4. analyses[j] # <<>> BY <4>2 DEF InRange, Ranks
      <4>5. Len(analyses[j]) = 1
        <5>1. analyses[j] \in Seq(0 .. MaxRecs) /\ Len(analyses[j]) <= 1
          BY DEF TypeOK, SerialInv, RowSerial
        <5>2. Len(analyses[j]) \in Nat /\ Len(analyses[j]) # 0
          BY <4>4, <5>1, LenProperties, EmptySeq
        <5>3. Len(analyses[j]) <= 1 BY <5>1
        <5>4. \A n \in Nat : n # 0 /\ n <= 1 => n = 1 OBVIOUS
        <5> QED BY <5>2, <5>3, <5>4
      <4>6. r <= analyses[j][1] BY <4>2, <4>4, <4>5 DEF InRange
      <4> QED BY <3>2, <4>3, <4>4, <4>6 DEF RankKnown
    <3>3. CASE ~ (CheckRank(c) /\ d = c) /\ call'[d] # call[d]
      <4>1. CASE CheckRank(c) BY <3>3, <4>1 DEF CheckRank, TypeOK
      <4>2. CASE ~ CheckRank(c)
        <5>1. CASE \E i \in Incidents : ReadForApproval(c, i) \/ ReadForRejection(c, i)
          <6>1. PICK k : call' = [call EXCEPT ![c] = k] /\ k.pc # "approving"
            BY <5>1 DEF ReadForApproval, ReadForRejection
          <6> QED BY <2>2, <3>3, <6>1 DEF TypeOK
        <5>2. CASE Abandon(c) BY <2>2, <3>3, <5>2 DEF Abandon, TypeOK, NoCall
        <5> QED BY <1>4, <4>2, <5>1, <5>2 DEF Review
      <4> QED BY <4>1, <4>2
    <3> QED BY <3>1, <3>2, <3>3
  <2>3. \A i \in Incidents : RowSerial(i)'
    BY <1>1, <2>1 DEF SerialInv, RowSerial, RankKnown, Remediated
  <2>4. \A v \in Workers : SessionSerial(txn[v])'
    BY <1>1, <2>1 DEF SerialInv, SessionSerial, RankKnown
  <2> QED BY <1>1, <2>2, <2>3, <2>4 DEF SerialInv, RankKnown
<1> QED BY <1>2, <1>3, <1>4

LEMMA InitSerial == Init => SerialInv
<1> SUFFICES ASSUME Init PROVE SerialInv
  OBVIOUS
<1>1. ASSUME NEW i \in Incidents PROVE RowSerial(i)
  <2>1. analyses[i] = <<>> /\ prs[i] = <<>> /\ undone[i] = 0 /\ row[i].rank = 0
    BY DEF Init, NoRow
  <2>2. Len(analyses[i]) = 0 /\ Len(prs[i]) = 0 BY <2>1
  <2> QED BY <2>1, <2>2 DEF RowSerial, RankKnown
<1>2. \A w \in Workers : txn[w] = NoTxn BY DEF Init
<1>3. \A c \in Reviewers : call[c] = NoCall BY DEF Init
<1> QED BY <1>1, <1>2, <1>3 DEF SerialInv, SessionSerial, NoTxn, NoCall

LEMMA StepSerial ==
  ASSUME OneWorker
  PROVE  TypeOK /\ PersistInv /\ SerialInv /\ [Next]_vars => SerialInv'
<1> SUFFICES ASSUME TypeOK, PersistInv, SerialInv, [Next]_vars
             PROVE  SerialInv'
  OBVIOUS
<1>1. CASE UNCHANGED vars
  <2>1. /\ row' = row /\ txn' = txn /\ call' = call /\ analyses' = analyses /\ prs' = prs
        /\ undone' = undone
    BY <1>1 DEF vars
  <2>2. \A i \in Incidents : RowSerial(i)'
    BY <2>1 DEF SerialInv, RowSerial, RankKnown, Remediated
  <2>3. \A v \in Workers : SessionSerial(txn[v])'
    BY <2>1 DEF SerialInv, SessionSerial, RankKnown
  <2> QED BY <2>1, <2>2, <2>3 DEF SerialInv, RankKnown
<1>2. CASE Next
  BY <1>2, WorkSerial, UndoneSerial, ReviewSerial, IngestSerial DEF Next
<1> QED BY <1>1, <1>2

LEMMA AlwaysSerial ==
  ASSUME OneWorker
  PROVE  Spec => [](TypeOK /\ PersistInv /\ SerialInv)
<1>1. Init => TypeOK /\ PersistInv /\ SerialInv
  BY InitType, InitPersist, InitSerial
<1>2. TypeOK /\ PersistInv /\ SerialInv /\ [Next]_vars => TypeOK' /\ PersistInv' /\ SerialInv'
  BY StepType, StepPersist, StepSerial
<1> QED BY <1>1, <1>2, PTL DEF Spec

\* A step of a run, one reviewer or many, moves no status but to the next one.
LEMMA WorkAdvances ==
  ASSUME OneWorker, TypeOK, PersistInv, SerialInv, NEW w \in Workers, Work(w),
         NEW i \in Incidents, row'[i].status # row[i].status
  PROVE  /\ i = txn[w].inc
         /\ \/ /\ CommitAnalysis(w) /\ row[i].status = "new"
               /\ row'[i].status \in {"analyzed", "analysis_failed"}
            \/ /\ CommitRemediation(w) /\ row[i].status = "analyzed"
               /\ row'[i].status \in {"pr_created", "analysis_failed"}
<1>r. row \in [Incidents -> Row] /\ row[i] \in Row BY DEF TypeOK
<1>1. CASE CommitAnalysis(w)
  <2>1. PICK j \in Incidents : j = txn[w].inc
    BY <1>1 DEF CommitAnalysis, TypeOK, Idle
  <2>2. row' = [row EXCEPT ![j] = [row[j] EXCEPT !.status = AnalysisStatus(txn[w].failed)]]
    BY <1>1, <2>1 DEF CommitAnalysis
  <2>3. row[j].status = "new" BY <1>1, <2>1, FirstAnalysis DEF CommitAnalysis
  <2>4. i = j BY <1>r, <2>2
  <2>5. row'[i].status \in {"analyzed", "analysis_failed"}
    BY <1>r, <2>2, <2>4 DEF AnalysisStatus, Row
  <2> QED BY <1>1, <2>1, <2>3, <2>4, <2>5
<1>2. CASE CommitRemediation(w)
  <2>1. PICK j \in Incidents : j = txn[w].inc
    BY <1>2 DEF CommitRemediation, TypeOK, Idle
  <2>2. row' = [row EXCEPT ![j] = [row[j] EXCEPT !.status = RemediationStatus(txn[w].failed)]]
    BY <1>2, <2>1 DEF CommitRemediation
  <2>3. row[j].status = "analyzed" BY <1>2, <2>1, StillAnalyzed DEF CommitRemediation
  <2>4. i = j BY <1>r, <2>2
  <2>5. row'[i].status \in {"pr_created", "analysis_failed"}
    BY <1>r, <2>2, <2>4 DEF RemediationStatus, Row
  <2> QED BY <1>2, <2>1, <2>3, <2>4, <2>5
<1>3. CASE ~ CommitAnalysis(w) /\ ~ CommitRemediation(w)
  BY <1>3 DEF Work, Poll, Open, Raise, BeginAnalysis, RunPipeline, LoadApproved,
              BeginRemediation, RunPrAgent
<1> QED BY <1>1, <1>2, <1>3

LEMMA ReviewKeepsStatus ==
  ASSUME TypeOK, NEW c \in Reviewers, Review(c), NEW i \in Incidents
  PROVE  row'[i].status = row[i].status
<1>1. ASSUME NEW j \in Incidents, NEW seen, NEW a, NEW r, Decide(j, seen, a, r)
      PROVE  row'[i].status = row[i].status
  BY <1>1 DEF Decide, TypeOK, Row
<1>2. CASE CommitApproval(c) BY <1>1, <1>2 DEF CommitApproval, TypeOK
<1>3. CASE CommitRejection(c) BY <1>1, <1>3 DEF CommitRejection, TypeOK
<1>4. CASE ~ CommitApproval(c) /\ ~ CommitRejection(c)
  BY <1>4 DEF Review, ReadForApproval, ReadForRejection, CheckRank, Abandon, db
<1> QED BY <1>2, <1>3, <1>4

\* With one replica the committed status of an incident only moves forward: no
\* stale session and no decision opens a closed incident again.
THEOREM StatusAdvances ==
  ASSUME OneWorker
  PROVE  Spec => StatusOnlyAdvances
<1> DEFINE Advances == \A i \in Incidents :
             row'[i].status # row[i].status => row'[i].status \in Follows(row[i].status)
<1>1. TypeOK /\ PersistInv /\ SerialInv /\ [Next]_vars => [Advances]_vars
  <2> SUFFICES ASSUME TypeOK, PersistInv, SerialInv, Next, NEW i \in Incidents,
                      row'[i].status # row[i].status
               PROVE  row'[i].status \in Follows(row[i].status)
    OBVIOUS
  <2>1. ASSUME NEW w \in Workers, Work(w) PROVE row'[i].status \in Follows(row[i].status)
    BY <2>1, WorkAdvances DEF Follows
  <2>2. ASSUME NEW j \in Incidents, Ingest(j) PROVE row'[i].status \in Follows(row[i].status)
    BY <2>2 DEF Ingest, Follows, TypeOK, Row
  <2>3. \A w \in Workers : ~ Rollback(w) /\ ~ Crash(w) BY DEF Rollback, Crash
  <2>4. \A c \in Reviewers : ~ Review(c) BY ReviewKeepsStatus
  <2> QED BY <2>1, <2>2, <2>3, <2>4 DEF Next
<1>2. Spec => [](TypeOK /\ PersistInv /\ SerialInv) BY AlwaysSerial
<1> QED BY <1>1, <1>2, PTL DEF Spec, StatusOnlyAdvances

\* With one replica an outside effect is repeated only for a run that was rolled
\* back or killed, and an incident is analysed once.
THEOREM EffectsRepeat ==
  ASSUME OneWorker
  PROVE  Spec => []EffectsRepeatOnlyAfterRollback
<1>1. Cardinality(Workers) \in Nat /\ Cardinality(Workers) <= 1
  <2>1. CASE Workers = {} BY <2>1, FS_EmptySet
  <2>2. CASE Workers # {}
    <3>1. PICK w \in Workers : Workers = {w} BY <2>2 DEF OneWorker
    <3>2. Cardinality({w}) = 1 BY FS_Singleton
    <3> QED BY <3>1, <3>2
  <2> QED BY <2>1, <2>2
<1>2. BugsBoundedByFleet /\ TypeOK /\ SerialInv => EffectsRepeatOnlyAfterRollback
  <2> SUFFICES ASSUME BugsBoundedByFleet, TypeOK, SerialInv, NEW i \in Incidents
               PROVE  /\ bugs[i] <= 1 + undone[i]
                      /\ Len(prs[i]) <= 1 + undone[i]
                      /\ Len(analyses[i]) <= 1
    BY DEF EffectsRepeatOnlyAfterRollback
  <2>1. bugs[i] \in Nat /\ undone[i] \in Nat /\ Len(prs[i]) \in Nat
    BY LenProperties DEF TypeOK
  <2>2. bugs[i] <= Cardinality(Workers) + undone[i] BY DEF BugsBoundedByFleet
  <2>3. Len(prs[i]) <= undone[i] + (IF Remediated(i) THEN 1 ELSE 0) /\ Len(analyses[i]) <= 1
    BY DEF SerialInv, RowSerial
  <2>4. Len(prs[i]) <= 1 + undone[i] BY <2>1, <2>3
  <2> QED BY <1>1, <2>1, <2>2, <2>3, <2>4
<1> QED BY <1>2, BugsBounded, AlwaysSerial, PTL
-----------------------------------------------------------------------------
(* One reviewer.                                                           *)

LEMMA WorkReview ==
  ASSUME TypeOK, ReviewInv, NEW w \in Workers, Work(w)
  PROVE  ReviewInv'
<1>1. call' = call /\ decisions' = decisions
  BY DEF Work, Poll, Open, Raise, BeginAnalysis, RunPipeline, CommitAnalysis, LoadApproved,
         BeginRemediation, RunPrAgent, CommitRemediation, outside
<1>2. \A i \in Incidents : row'[i].approval = row[i].approval /\ row'[i].rank = row[i].rank
  BY WorkKeepsApproval
<1>3. ApprovalIsLastDecision'
  BY <1>1, <1>2 DEF ReviewInv, ApprovalIsLastDecision
<1>4. \A c \in Reviewers : call'[c].pc # "idle" =>
        /\ call'[c].seen.approval = row'[call'[c].inc].approval
        /\ call'[c].seen.rank = row'[call'[c].inc].rank
  BY <1>1, <1>2 DEF ReviewInv, TypeOK
<1>5. \A v \in Workers : v # w => txn'[v] = txn[v]
  BY DEF Work, TypeOK, Poll, Open, Raise, BeginAnalysis, RunPipeline, CommitAnalysis,
         LoadApproved, BeginRemediation, RunPrAgent, CommitRemediation
<1>6. txn'[w].seen.approval = "approved" => txn'[w].seen.rank # 0
  <2>1. CASE txn'[w].seen = txn[w].seen BY <2>1 DEF ReviewInv
  <2>2. CASE Open(w) /\ txn' # txn
    <3>1. PICK j \in Incidents :
            txn' = [txn EXCEPT ![w] = [NoTxn EXCEPT !.pc = "opened", !.inc = j, !.seen = row[j]]]
      BY <2>2 DEF Open, Oldest, TypeOK
    <3>2. txn'[w].seen = row[j] BY <3>1 DEF TypeOK, NoTxn
    <3>3. decisions[j] \in Seq(0 .. MaxRecs) BY DEF TypeOK
    <3>4. Len(decisions[j]) \in Nat BY <3>3, LenProperties
    <3>5. row[j].approval = "approved" => row[j].rank # 0
      BY <3>4 DEF ReviewInv, ApprovalIsLastDecision
    <3> QED BY <3>2, <3>5
  <2>3. CASE Raise(w) \/ CommitAnalysis(w) \/ CommitRemediation(w)
    BY <2>3 DEF Raise, CommitAnalysis, CommitRemediation, TypeOK, NoTxn, NoRow
  <2>4. txn[w] \in Txn /\ txn \in [Workers -> Txn] BY DEF TypeOK
  <2>5. CASE BeginAnalysis(w) BY <2>1, <2>4, <2>5 DEF BeginAnalysis, Txn
  <2>6. CASE RunPipeline(w) BY <2>1, <2>4, <2>6 DEF RunPipeline, Txn
  <2>7. CASE LoadApproved(w) BY <2>1, <2>4, <2>7 DEF LoadApproved, Txn
  <2>8. CASE BeginRemediation(w) BY <2>1, <2>4, <2>8 DEF BeginRemediation, Txn
  <2>9. CASE RunPrAgent(w) BY <2>1, <2>4, <2>9 DEF RunPrAgent, Txn
  <2>10. CASE txn' = txn BY <2>1, <2>10
  <2> QED BY <2>2, <2>3, <2>5, <2>6, <2>7, <2>8, <2>9, <2>10 DEF Work, Poll
<1>7. \A v \in Workers : txn'[v].seen.approval = "approved" => txn'[v].seen.rank # 0
  BY <1>5, <1>6 DEF ReviewInv
<1> QED BY <1>3, <1>4, <1>7 DEF ReviewInv

\* A decision by the only reviewer is written whole: the row still shows what the
\* request read, so a column it leaves alone has the value it wants.
LEMMA DecideShows ==
  ASSUME TypeOK, ReviewInv, NEW i \in Incidents, NEW seen \in Row, NEW a, NEW r \in 0 .. MaxRecs,
         seen.approval = row[i].approval, seen.rank = row[i].rank,
         a = (IF r = 0 THEN "rejected" ELSE "approved"), Decide(i, seen, a, r)
  PROVE  ApprovalIsLastDecision'
<1>1. row[i] \in Row /\ decisions[i] \in Seq(0 .. MaxRecs)
      /\ \A j \in Incidents : j # i => row'[j] = row[j] /\ decisions'[j] = decisions[j]
  BY DEF TypeOK, Decide
<1>2. row'[i] = [row[i] EXCEPT !.approval = Written(row[i].approval, seen.approval, a),
                               !.rank = Written(row[i].rank, seen.rank, r)]
  BY DEF Decide, TypeOK
<1>3. row'[i].approval = a /\ row'[i].rank = r
  BY <1>1, <1>2 DEF Row, Written
<1>4. decisions'[i] = Append(decisions[i], r) BY DEF Decide, TypeOK
<1>5. /\ Len(decisions'[i]) = Len(decisions[i]) + 1 /\ Len(decisions[i]) \in Nat
      /\ decisions'[i][Len(decisions[i]) + 1] = r
  <2> DEFINE T == 0 .. MaxRecs
  <2>1. decisions[i] \in Seq(T) /\ r \in T BY <1>1
  <2> HIDE DEF T
  <2> QED BY <1>4, <2>1, AppendProperties, LenProperties
<1> QED BY <1>1, <1>3, <1>5 DEF ReviewInv, ApprovalIsLastDecision

LEMMA ReviewReview ==
  ASSUME OneReviewer, TypeOK, GateInv, ReviewInv, NEW c \in Reviewers, Review(c)
  PROVE  ReviewInv'
<1>o. \A d \in Reviewers : d = c BY DEF OneReviewer
<1>k. call[c] \in Call /\ (call[c].pc # "idle" => call[c].inc \in Incidents)
  BY DEF TypeOK
<1>1. txn' = txn
  BY DEF Review, ReadForApproval, ReadForRejection, CheckRank, CommitApproval,
         CommitRejection, Abandon
<1>2. CASE CommitApproval(c) \/ CommitRejection(c)
  <2>1. PICK i \in Incidents : i = call[c].inc
    BY <1>2, <1>k DEF CommitApproval, CommitRejection
  <2>2. /\ call[c].seen \in Row /\ call[c].seen.approval = row[i].approval
        /\ call[c].seen.rank = row[i].rank
    BY <1>2, <1>k, <2>1 DEF CommitApproval, CommitRejection, ReviewInv, Call
  <2>3. ApprovalIsLastDecision'
    <3>1. CASE CommitApproval(c)
      <4>1. call[c].rank \in 0 .. MaxRecs /\ call[c].rank # 0
        BY <1>k, <3>1 DEF CommitApproval, GateInv, Ranks, Call
      <4>2. Decide(i, call[c].seen, "approved", call[c].rank) BY <2>1, <3>1 DEF CommitApproval
      <4> QED BY <2>2, <4>1, <4>2, DecideShows
    <3>2. CASE CommitRejection(c)
      <4>1. 0 \in 0 .. MaxRecs BY LifecycleAssumption
      <4>2. Decide(i, call[c].seen, "rejected", 0) BY <2>1, <3>2 DEF CommitRejection
      <4> QED BY <2>2, <4>1, <4>2, DecideShows
    <3> QED BY <1>2, <3>1, <3>2
  <2>4. call'[c].pc = "idle"
    BY <1>2 DEF CommitApproval, CommitRejection, TypeOK, NoCall
  <2> QED BY <1>o, <1>1, <2>3, <2>4 DEF ReviewInv
<1>3. CASE ~ CommitApproval(c) /\ ~ CommitRejection(c)
  <2>1. row' = row /\ decisions' = decisions
    BY <1>3 DEF Review, ReadForApproval, ReadForRejection, CheckRank, Abandon, db
  <2>2. call'[c].pc # "idle" => /\ call'[c].seen.approval = row[call'[c].inc].approval
                                /\ call'[c].seen.rank = row[call'[c].inc].rank
    <3>1. CASE \E i \in Incidents : ReadForApproval(c, i) \/ ReadForRejection(c, i)
      BY <3>1 DEF ReadForApproval, ReadForRejection, TypeOK
    <3>2. CASE CheckRank(c)
      <4>1. PICK r : call' = [call EXCEPT ![c] = [call[c] EXCEPT !.pc = "approving", !.rank = r]]
        BY <3>2 DEF CheckRank
      <4>2. call'[c].seen = call[c].seen /\ call'[c].inc = call[c].inc
        BY <1>k, <4>1 DEF TypeOK, Call
      <4> QED BY <3>2, <4>2 DEF CheckRank, ReviewInv
    <3>3. CASE Abandon(c) BY <3>3 DEF Abandon, TypeOK, NoCall
    <3> QED BY <1>3, <3>1, <3>2, <3>3 DEF Review
  <2>3. ApprovalIsLastDecision' BY <2>1 DEF ReviewInv, ApprovalIsLastDecision
  <2> QED BY <1>o, <1>1, <2>1, <2>2, <2>3 DEF ReviewInv
<1> QED BY <1>2, <1>3

LEMMA StepReview ==
  ASSUME OneReviewer
  PROVE  TypeOK /\ GateInv /\ ReviewInv /\ [Next]_vars => ReviewInv'
<1> SUFFICES ASSUME TypeOK, GateInv, ReviewInv, [Next]_vars
             PROVE  ReviewInv'
  OBVIOUS
<1>1. CASE UNCHANGED vars BY <1>1 DEF vars, ReviewInv, ApprovalIsLastDecision
<1>2. ASSUME NEW w \in Workers, Rollback(w) \/ Crash(w) PROVE ReviewInv'
  <2>1. row' = row /\ call' = call /\ decisions' = decisions /\ txn' = [txn EXCEPT ![w] = NoTxn]
    BY <1>2 DEF Rollback, Crash
  <2>2. \A v \in Workers : txn'[v] = txn[v] \/ txn'[v] = NoTxn BY <2>1 DEF TypeOK
  <2> QED BY <2>1, <2>2 DEF ReviewInv, ApprovalIsLastDecision, NoTxn, NoRow
<1>3. ASSUME NEW i \in Incidents, Ingest(i) PROVE ReviewInv'
  <2>1. call' = call /\ decisions' = decisions /\ txn' = txn
        /\ row' = [row EXCEPT ![i] = [row[i] EXCEPT !.status = "new"]]
    BY <1>3 DEF Ingest
  <2>2. \A j \in Incidents : row'[j].approval = row[j].approval /\ row'[j].rank = row[j].rank
    BY <2>1 DEF TypeOK, Row
  <2>3. ApprovalIsLastDecision' BY <2>1, <2>2 DEF ReviewInv, ApprovalIsLastDecision
  <2>4. \A c \in Reviewers : call'[c].pc # "idle" =>
          /\ call'[c].seen.approval = row'[call'[c].inc].approval
          /\ call'[c].seen.rank = row'[call'[c].inc].rank
    <3>1. \A c \in Reviewers : call[c].pc # "idle" => call[c].inc \in Incidents BY DEF TypeOK
    <3> QED BY <2>1, <2>2, <3>1 DEF ReviewInv
  <2> QED BY <2>1, <2>3, <2>4 DEF ReviewInv
<1> QED BY <1>1, <1>2, <1>3, WorkReview, ReviewReview DEF Next

LEMMA InitReview == Init => ReviewInv
<1> SUFFICES ASSUME Init PROVE ReviewInv
  OBVIOUS
<1>1. \A i \in Incidents : row[i] = NoRow /\ decisions[i] = <<>> /\ Len(decisions[i]) = 0
  BY DEF Init
<1>2. \A w \in Workers : txn[w] = NoTxn BY DEF Init
<1>3. \A c \in Reviewers : call[c] = NoCall BY DEF Init
<1> QED BY <1>1, <1>2, <1>3 DEF ReviewInv, ApprovalIsLastDecision, NoTxn, NoRow, NoCall

LEMMA AlwaysReviewed ==
  ASSUME OneReviewer
  PROVE  Spec => [](TypeOK /\ GateInv /\ ReviewInv)
<1>1. Init => TypeOK /\ GateInv /\ ReviewInv
  BY InitType, InitGate, InitReview
<1>2. TypeOK /\ GateInv /\ ReviewInv /\ [Next]_vars => TypeOK' /\ GateInv' /\ ReviewInv'
  BY StepType, StepGate, StepReview
<1> QED BY <1>1, <1>2, PTL DEF Spec

\* With one reviewer and any number of replicas, the approval columns show the
\* last decision of the audit log: no run overwrites one that arrived during it.
THEOREM LastDecisionShown ==
  ASSUME OneReviewer
  PROVE  Spec => []ApprovalIsLastDecision
<1>1. ReviewInv => ApprovalIsLastDecision BY DEF ReviewInv
<1> QED BY <1>1, AlwaysReviewed, PTL
-----------------------------------------------------------------------------
(* One replica and one reviewer.                                           *)

\* The rank the approve endpoint checked is a rank of the analysis that the
\* remediation run loads: the run is neither skipped nor out of range.
THEOREM ApprovedRankValid ==
  ASSUME OneWorker, OneReviewer
  PROVE  Spec => []RankStillValid
<1>1. TypeOK /\ PersistInv /\ SerialInv /\ ReviewInv => RankStillValid
  <2> SUFFICES ASSUME TypeOK, PersistInv, SerialInv, ReviewInv, NEW w \in Workers,
                      txn[w].pc \in {"loaded", "remediating"}
               PROVE  ~ Skipped(txn[w]) /\ ~ OutOfRange(txn[w])
    BY DEF RankStillValid
  <2>1. /\ Approved(txn[w].seen) /\ RankKnown(txn[w].inc, txn[w].seen.rank)
        /\ txn[w].recs = analyses[txn[w].inc][1]
    BY StillAnalyzed DEF SerialInv, SessionSerial
  <2>2. txn[w].seen.rank # 0 BY <2>1 DEF ReviewInv, Approved
  <2>3. txn[w].seen.rank \in Nat /\ txn[w].recs \in Nat BY DEF TypeOK, Txn, Row
  <2> QED BY <2>1, <2>2, <2>3 DEF RankKnown, Skipped, OutOfRange
<1> QED BY <1>1, AlwaysSerial, AlwaysReviewed, PTL
-----------------------------------------------------------------------------
(* The abstract policy.                                                    *)

statusBar == [i \in Incidents |-> row[i].status]
approvedBar == [i \in Incidents |-> ApprovedRanks(i)]
prBar == [i \in Incidents |-> PrRanks(i)]

LEMMA InitPolicy == Init => Policy!Init
<1> SUFFICES ASSUME Init PROVE Policy!Init
  OBVIOUS
<1>1. \A i \in Incidents : /\ row[i].status = "absent" /\ ApprovedRanks(i) = {}
                           /\ PrRanks(i) = {}
  BY DEF Init, NoRow, ApprovedRanks, PrRanks
<1> QED BY <1>1 DEF Policy!Init

LEMMA PolicyStutters ==
  ASSUME \A i \in Incidents : row'[i].status = row[i].status, decisions' = decisions, prs' = prs
  PROVE  UNCHANGED Policy!policyVars
BY DEF Policy!policyVars, ApprovedRanks, PrRanks

\* Each step of a run is one step of the policy, or none.
LEMMA WorkPolicy ==
  ASSUME OneWorker, TypeOK, GateInv, PersistInv, SerialInv, NEW w \in Workers, Work(w)
  PROVE  [Policy!Next]_(Policy!policyVars)
<1>d. decisions' = decisions
  BY DEF Work, Poll, Open, Raise, BeginAnalysis, RunPipeline, CommitAnalysis, LoadApproved,
         BeginRemediation, RunPrAgent, CommitRemediation
<1>a. approvedBar' = approvedBar BY <1>d DEF approvedBar, ApprovedRanks
<1>s. ASSUME NEW i \in Incidents, row'[i].status # row[i].status
      PROVE  statusBar' = [statusBar EXCEPT ![i] = row'[i].status]
  <2>1. \A j \in Incidents : j # i => row'[j].status = row[j].status
    BY <1>s, WorkAdvances
  <2> QED BY <2>1 DEF statusBar
<1>1. CASE RunPrAgent(w)
  <2>1. row' = row /\ txn[w].pc = "remediating" BY <1>1 DEF RunPrAgent
  <2>2. PICK j \in Incidents : j = txn[w].inc BY <2>1 DEF TypeOK, Idle
  <2>3. PICK created \in BOOLEAN :
          /\ created => ~ Skipped(txn[w])
          /\ prs' = [prs EXCEPT ![j] = IF created THEN Append(@, ChosenRank(txn[w])) ELSE @]
    BY <1>1, <2>2 DEF RunPrAgent
  <2>4. CASE ~ created
    <3>1. prs' = prs BY <2>3, <2>4 DEF TypeOK
    <3> QED BY <1>d, <2>1, <3>1, PolicyStutters
  <2>5. CASE created
    <3> DEFINE r == txn[w].seen.rank
    <3>1. r \in Ranks /\ r \in ApprovedRanks(j)
      <4>1. txn[w].seen.rank \in 0 .. MaxRecs BY DEF TypeOK, Txn, Row
      <4>2. txn[w].seen.rank # 0 BY <2>3, <2>5 DEF Skipped
      <4>3. txn[w].seen.rank \in ApprovedRanks(j) \cup {0}
        BY <2>1, <2>2 DEF GateInv, SessionOnRecord
      <4> QED BY <4>1, <4>2, <4>3 DEF Ranks
    <3>2. row[j].status = "analyzed" BY <2>1, <2>2, StillAnalyzed
    <3>3. prs' = [prs EXCEPT ![j] = Append(prs[j], r)] BY <2>3, <2>5 DEF ChosenRank
    <3> HIDE DEF r
    <3>4. PrRanks(j)' = PrRanks(j) \cup {r}
      <4>1. prs[j] \in Seq(Ranks) /\ prs'[j] = Append(prs[j], r) BY <3>3 DEF TypeOK
      <4>2. Elements(prs'[j]) = Elements(prs[j]) \cup {r} BY <3>1, <4>1, AppendElements
      <4> QED BY <4>2 DEF PrRanks, Elements
    <3>5. \A k \in Incidents : k # j => PrRanks(k)' = PrRanks(k)
      BY <3>3 DEF PrRanks, TypeOK
    <3>6. prBar' = [prBar EXCEPT ![j] = @ \cup {r}] BY <3>4, <3>5 DEF prBar
    <3>7. statusBar' = statusBar /\ statusBar[j] = "analyzed" /\ r \in approvedBar[j]
      BY <2>1, <3>1, <3>2 DEF statusBar, approvedBar
    <3>8. Policy!OpenPullRequest(j, r)
      BY <1>a, <3>6, <3>7 DEF Policy!OpenPullRequest, statusBar, approvedBar, prBar
    <3> QED BY <3>1, <3>8 DEF Policy!Next
  <2> QED BY <2>4, <2>5
<1>2. CASE ~ RunPrAgent(w) /\ \E i \in Incidents : row'[i].status # row[i].status
  <2>1. PICK i \in Incidents : row'[i].status # row[i].status BY <1>2
  <2>2. prs' = prs
    BY <1>2 DEF Work, Poll, Open, Raise, BeginAnalysis, RunPipeline, CommitAnalysis,
                LoadApproved, BeginRemediation, CommitRemediation, outside
  <2>3. prBar' = prBar BY <2>2 DEF prBar, PrRanks
  <2>4. statusBar' = [statusBar EXCEPT ![i] = row'[i].status] BY <1>s, <2>1
  <2>5. CASE row[i].status = "new" /\ row'[i].status \in {"analyzed", "analysis_failed"}
    <3>1. statusBar[i] = "new" BY <2>5 DEF statusBar
    <3>2. Policy!Analyse(i)
      BY <1>a, <2>3, <2>4, <2>5, <3>1 DEF Policy!Analyse, statusBar, approvedBar, prBar
    <3> QED BY <3>2 DEF Policy!Next
  <2>6. CASE /\ CommitRemediation(w) /\ i = txn[w].inc /\ row[i].status = "analyzed"
             /\ row'[i].status \in {"pr_created", "analysis_failed"}
    <3>1. ApprovedRanks(i) # {}
      BY <2>6 DEF CommitRemediation, GateInv, SessionOnRecord
    <3>2. statusBar[i] = "analyzed" /\ approvedBar[i] # {}
      BY <2>6, <3>1 DEF statusBar, approvedBar
    <3>3. Policy!Close(i)
      BY <1>a, <2>3, <2>4, <2>6, <3>2 DEF Policy!Close, statusBar, approvedBar, prBar
    <3> QED BY <3>3 DEF Policy!Next
  <2> QED BY <2>1, <2>5, <2>6, WorkAdvances
<1>3. CASE ~ RunPrAgent(w) /\ \A i \in Incidents : row'[i].status = row[i].status
  <2>1. prs' = prs
    BY <1>3 DEF Work, Poll, Open, Raise, BeginAnalysis, RunPipeline, CommitAnalysis,
                LoadApproved, BeginRemediation, CommitRemediation, outside
  <2> QED BY <1>3, <1>d, <2>1, PolicyStutters
<1> QED BY <1>1, <1>2, <1>3

LEMMA ReviewPolicy ==
  ASSUME TypeOK, GateInv, PersistInv, SerialInv, NEW c \in Reviewers, Review(c)
  PROVE  [Policy!Next]_(Policy!policyVars)
<1>k. call[c] \in Call /\ (call[c].pc # "idle" => call[c].inc \in Incidents)
  BY DEF TypeOK
<1>s. \A i \in Incidents : row'[i].status = row[i].status BY ReviewKeepsStatus
<1>p. prs' = prs
  BY DEF Review, ReadForApproval, ReadForRejection, CheckRank, CommitApproval,
         CommitRejection, Abandon, outside
<1>b. statusBar' = statusBar /\ prBar' = prBar
  BY <1>s, <1>p DEF statusBar, prBar, PrRanks
<1>d. ASSUME NEW i \in Incidents, NEW a, NEW r \in 0 .. MaxRecs, Decide(i, call[c].seen, a, r)
      PROVE  approvedBar' = [approvedBar EXCEPT ![i] = @ \cup ({r} \ {0})]
  BY <1>d, DecideApproves DEF approvedBar
<1>1. CASE CommitApproval(c)
  <2>1. PICK i \in Incidents : i = call[c].inc BY <1>1, <1>k DEF CommitApproval
  <2>2. call[c].rank \in Ranks /\ call[c].rank \in 0 .. MaxRecs /\ call[c].rank # 0
    BY <1>1, <1>k DEF CommitApproval, GateInv, Ranks, Call
  <2>3. Decide(i, call[c].seen, "approved", call[c].rank) BY <1>1, <2>1 DEF CommitApproval
  <2>4. approvedBar' = [approvedBar EXCEPT ![i] = @ \cup {call[c].rank}]
    <3>1. {call[c].rank} \ {0} = {call[c].rank} BY <2>2
    <3> QED BY <1>d, <2>2, <2>3, <3>1
  <2>5. statusBar[i] \notin {"absent", "new"}
    <3>1. analyses[i] # <<>> BY <1>1, <2>1 DEF CommitApproval, SerialInv
    <3> QED BY <3>1 DEF PersistInv, RowPersisted, statusBar
  <2>6. Policy!Approve(i, call[c].rank)
    BY <1>b, <2>4, <2>5 DEF Policy!Approve, statusBar, approvedBar, prBar
  <2> QED BY <2>2, <2>6 DEF Policy!Next
<1>2. CASE CommitRejection(c)
  <2>1. PICK i \in Incidents : i = call[c].inc BY <1>2, <1>k DEF CommitRejection
  <2>2. Decide(i, call[c].seen, "rejected", 0) /\ 0 \in 0 .. MaxRecs
    BY <1>2, <2>1, LifecycleAssumption DEF CommitRejection
  <2>3. \A j \in Incidents : ApprovedRanks(j)' = ApprovedRanks(j)
    <3>1. {0} \ {0} = {} OBVIOUS
    <3> QED BY <2>2, <3>1, DecideApproves
  <2>4. approvedBar' = approvedBar BY <2>3 DEF approvedBar
  <2> QED BY <1>b, <2>4 DEF Policy!policyVars, statusBar, approvedBar, prBar
<1>3. CASE ~ CommitApproval(c) /\ ~ CommitRejection(c)
  <2>1. decisions' = decisions
    BY <1>3 DEF Review, ReadForApproval, ReadForRejection, CheckRank, Abandon, db
  <2> QED BY <1>s, <1>p, <2>1, PolicyStutters
<1> QED BY <1>1, <1>2, <1>3

LEMMA IngestPolicy ==
  ASSUME TypeOK, NEW i \in Incidents, Ingest(i)
  PROVE  Policy!Next
<1>1. /\ decisions' = decisions /\ prs' = prs /\ row[i].status = "absent"
      /\ row' = [row EXCEPT ![i] = [row[i] EXCEPT !.status = "new"]]
  BY DEF Ingest, outside
<1>2. row'[i].status = "new" /\ \A j \in Incidents : j # i => row'[j] = row[j]
  BY <1>1 DEF TypeOK, Row
<1>3. statusBar' = [statusBar EXCEPT ![i] = "new"] /\ statusBar[i] = "absent"
  <2>1. \A j \in Incidents : j # i => row'[j].status = row[j].status BY <1>2
  <2> QED BY <1>1, <1>2, <2>1 DEF statusBar
<1>4. approvedBar' = approvedBar /\ prBar' = prBar
  BY <1>1 DEF approvedBar, prBar, ApprovedRanks, PrRanks
<1>5. Policy!Report(i)
  BY <1>3, <1>4 DEF Policy!Report, statusBar, approvedBar, prBar
<1> QED BY <1>5 DEF Policy!Next

LEMMA StepPolicy ==
  ASSUME OneWorker
  PROVE  TypeOK /\ GateInv /\ PersistInv /\ SerialInv /\ [Next]_vars
           => [Policy!Next]_(Policy!policyVars)
<1> SUFFICES ASSUME TypeOK, GateInv, PersistInv, SerialInv, [Next]_vars
             PROVE  [Policy!Next]_(Policy!policyVars)
  OBVIOUS
<1>1. CASE UNCHANGED vars BY <1>1, PolicyStutters DEF vars
<1>2. ASSUME NEW w \in Workers, Rollback(w) \/ Crash(w) PROVE UNCHANGED Policy!policyVars
  BY <1>2, PolicyStutters DEF Rollback, Crash, outside
<1> QED BY <1>1, <1>2, WorkPolicy, ReviewPolicy, IngestPolicy DEF Next

\* With one replica of the worker and any number of reviewers, the lifecycle
\* implements the abstract policy: statuses move forward, pull requests open only
\* while the row is analyzed and for approved ranks, decisions come after analysis.
THEOREM LifecycleImplementsPolicy ==
  ASSUME OneWorker
  PROVE  Spec => ImplementsPolicy
<1>1. Spec => [](TypeOK /\ GateInv)
  <2>1. Init => TypeOK /\ GateInv BY InitType, InitGate
  <2>2. TypeOK /\ GateInv /\ [Next]_vars => TypeOK' /\ GateInv' BY StepType, StepGate
  <2> QED BY <2>1, <2>2, PTL DEF Spec
<1>2. Init => Policy!Init BY InitPolicy
<1>3. TypeOK /\ GateInv /\ PersistInv /\ SerialInv /\ [Next]_vars
        => [Policy!Next]_(Policy!policyVars)
  BY StepPolicy
<1> QED BY <1>1, <1>2, <1>3, AlwaysSerial, PTL DEF Spec, ImplementsPolicy, Policy!Spec
=============================================================================
