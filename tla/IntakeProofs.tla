---------------------------- MODULE IntakeProofs ----------------------------
(***************************************************************************)
(* Proofs about Intake, for every set of fingerprints, any number of       *)
(* ingestion cycles and requests, and every bound.                         *)
(***************************************************************************)
EXTENDS Intake, FiniteSetTheorems, SequenceTheorems, TLAPS

-----------------------------------------------------------------------------
(* The inductive invariant.                                                *)

\* A fingerprint is in the table, or inserted by one open transaction, or neither.
Exclusive ==
  /\ \A f \in Fingerprints : rows[f] \in {0, 1}
  /\ \A s \in Schedulers : \A f \in cycle[s].mine : rows[f] = 0
  /\ \A s, t \in Schedulers : \A f \in Fingerprints :
       f \in cycle[s].mine /\ f \in cycle[t].mine => s = t

\* What a cycle fetched is in the table, in its transaction, or still to be scanned.
Covered(c) ==
  c.running => \A f \in c.fetched :
    \/ Stored(f) \/ f \in c.mine \/ f = c.adding
    \/ \E k \in 1 .. Len(c.todo) : c.todo[k] = f

\* AnswerMeansStored, for a fingerprint that was posted.
AnswersHold ==
  \A c \in Clients : answer[c].status \in {"created", "duplicate"} =>
    answer[c].fp \in Fingerprints /\ Stored(answer[c].fp)

IntakeInv ==
  TypeOK /\ Exclusive /\ AnswersHold /\ \A s \in Schedulers : Covered(cycle[s])

LEMMA NoRecords ==
  /\ NoCycle \in Cycle /\ ~ NoCycle.running /\ NoCycle.mine = {}
  /\ NoRequest \in Request /\ NoRequest.pc = "idle"
BY DEF NoCycle, Cycle, NoRequest, Request

LEMMA CycleFields ==
  ASSUME NEW c \in Cycle
  PROVE  /\ c.running \in BOOLEAN /\ c.todo \in Seq(Fingerprints)
         /\ c.adding \in Fingerprints \cup {NoFp}
         /\ c.mine \subseteq Fingerprints /\ c.fetched \subseteq Fingerprints
BY DEF Cycle

LEMMA InitIntake == Init => IntakeInv
<1> SUFFICES ASSUME Init PROVE IntakeInv OBVIOUS
<1>1. \A s \in Schedulers : cycle[s] = NoCycle BY DEF Init
<1>2. TypeOK BY NoRecords, IntakeAssumption DEF Init, TypeOK, Answer
<1>3. Exclusive BY <1>1, NoRecords DEF Init, Exclusive
<1>4. AnswersHold BY DEF Init, AnswersHold
<1>5. \A s \in Schedulers : Covered(cycle[s]) BY <1>1, NoRecords DEF Covered
<1> QED BY <1>2, <1>3, <1>4, <1>5 DEF IntakeInv
-----------------------------------------------------------------------------
(* Steps of a cycle that leave the table alone.                            *)

LEMMA CycleMove ==
  ASSUME IntakeInv, NEW s \in Schedulers, NEW c \in Cycle, cycle' = [cycle EXCEPT ![s] = c],
         UNCHANGED <<window, rows, request, answer>>, crashes' \in 0 .. MaxCrashes,
         Covered(c),
         \A f \in c.mine : /\ rows[f] = 0
                           /\ \A t \in Schedulers \ {s} : f \notin cycle[t].mine
  PROVE  IntakeInv'
<1>1. /\ cycle' \in [Schedulers -> Cycle] /\ cycle'[s] = c
      /\ \A t \in Schedulers : t # s => cycle'[t] = cycle[t]
  BY DEF IntakeInv, TypeOK
<1>2. TypeOK' BY <1>1 DEF IntakeInv, TypeOK
<1>3. Exclusive' BY <1>1 DEF IntakeInv, Exclusive
<1>4. AnswersHold' BY DEF IntakeInv, AnswersHold, Stored
<1>5. (\A t \in Schedulers : Covered(cycle[t]))'
  BY <1>1 DEF IntakeInv, Covered, Stored
<1> QED BY <1>2, <1>3, <1>4, <1>5 DEF IntakeInv

\* A rolled-back cycle leaves nothing behind.
LEMMA RollbackKeeps ==
  ASSUME IntakeInv, NEW s \in Schedulers, cycle' = [cycle EXCEPT ![s] = NoCycle],
         UNCHANGED <<window, rows, request, answer>>, crashes' \in 0 .. MaxCrashes
  PROVE  IntakeInv'
BY NoRecords, CycleMove DEF Covered

LEMMA FetchKeeps ==
  ASSUME IntakeInv, NEW s \in Schedulers, Fetch(s) PROVE IntakeInv'
<1>1. PICK b \in Batches :
        cycle' = [cycle EXCEPT ![s] = [NoCycle EXCEPT !.running = TRUE, !.todo = b,
                                                      !.fetched = RowsOf(b)]]
  BY DEF Fetch
<1> DEFINE c == [NoCycle EXCEPT !.running = TRUE, !.todo = b, !.fetched = RowsOf(b)]
<1>2. PICK n \in 0 .. MaxRows : b \in [1 .. n -> window] BY DEF Batches
<1>3. window \subseteq Fingerprints /\ MaxRows \in Nat
  BY IntakeAssumption DEF IntakeInv, TypeOK
<1>4. b \in Seq(Fingerprints) /\ Len(b) = n /\ DOMAIN b = 1 .. n
  BY <1>2, <1>3
<1>5. RowsOf(b) \subseteq Fingerprints BY <1>2, <1>3 DEF RowsOf
<1>6. /\ c \in Cycle /\ c.todo = b /\ c.fetched = RowsOf(b) /\ c.mine = {}
  BY <1>4, <1>5 DEF NoCycle, Cycle
<1> HIDE DEF c
<1>7. Covered(c) BY <1>4, <1>6 DEF Covered, RowsOf
<1>8. cycle' = [cycle EXCEPT ![s] = c] BY <1>1 DEF c
<1>9. crashes' \in 0 .. MaxCrashes BY DEF Fetch, IntakeInv, TypeOK
<1> QED BY <1>6, <1>7, <1>8, <1>9, CycleMove DEF Fetch

LEMMA LookupKeeps ==
  ASSUME IntakeInv, NEW s \in Schedulers, Lookup(s) PROVE IntakeInv'
<1> DEFINE c == cycle[s]
           f == Head(c.todo)
           adding == IF Sees(s, f) THEN NoFp ELSE f
           d == [c EXCEPT !.todo = Tail(c.todo), !.adding = adding]
<1>1. c \in Cycle /\ Covered(c) /\ c.todo # <<>> /\ c.adding = NoFp
  BY DEF IntakeInv, TypeOK, Lookup
<1>2. c.todo \in Seq(Fingerprints) BY <1>1, CycleFields
<1>3. /\ f \in Fingerprints /\ Tail(c.todo) \in Seq(Fingerprints) /\ f = c.todo[1]
      /\ Len(Tail(c.todo)) = Len(c.todo) - 1 /\ Len(c.todo) \in Nat \ {0}
      /\ \A k \in 1 .. Len(Tail(c.todo)) : Tail(c.todo)[k] = c.todo[k + 1]
  BY <1>1, <1>2
<1>4. /\ d \in Cycle /\ d.todo = Tail(c.todo) /\ d.adding = adding /\ d.mine = c.mine
      /\ d.fetched = c.fetched /\ d.running = c.running
  BY <1>1, <1>3 DEF Cycle
<1>5. cycle' = [cycle EXCEPT ![s] = d] BY DEF Lookup
<1> HIDE DEF d
<1>6. Covered(d)
  <2> SUFFICES ASSUME d.running, NEW g \in d.fetched
               PROVE  \/ Stored(g) \/ g \in d.mine \/ g = d.adding
                      \/ \E k \in 1 .. Len(d.todo) : d.todo[k] = g
    BY DEF Covered
  <2>1. CASE Stored(g) \/ g \in c.mine BY <2>1, <1>4
  <2>2. CASE g = f BY <2>2, <1>4 DEF Sees
  <2>3. CASE \E k \in 2 .. Len(c.todo) : c.todo[k] = g
    <3>1. PICK k \in 2 .. Len(c.todo) : c.todo[k] = g BY <2>3
    <3>2. k - 1 \in 1 .. Len(d.todo) /\ d.todo[k - 1] = g BY <1>3, <1>4, <3>1
    <3> QED BY <3>2
  <2>4. g \in Fingerprints BY <1>1, <1>4, CycleFields
  <2>5. g # c.adding BY <1>1, <2>4, NoFpAssumption
  <2> QED BY <1>1, <1>3, <1>4, <2>1, <2>2, <2>3, <2>5 DEF Covered
<1>7. \A g \in d.mine : rows[g] = 0 /\ \A t \in Schedulers \ {s} : g \notin cycle[t].mine
  BY <1>1, <1>4, CycleFields DEF IntakeInv, Exclusive
<1>8. crashes' \in 0 .. MaxCrashes BY DEF Lookup, IntakeInv, TypeOK
<1> QED BY <1>4, <1>5, <1>6, <1>7, <1>8, CycleMove DEF Lookup

LEMMA InsertKeeps ==
  ASSUME IntakeInv, NEW s \in Schedulers, Insert(s) PROVE IntakeInv'
<1> DEFINE c == cycle[s]
           d == [c EXCEPT !.mine = c.mine \cup {c.adding}, !.adding = NoFp]
<1>1. c \in Cycle /\ Covered(c) /\ c.adding # NoFp BY DEF IntakeInv, TypeOK, Insert
<1>2. c.adding \in Fingerprints /\ c.mine \subseteq Fingerprints BY <1>1, CycleFields
<1>3. /\ d \in Cycle /\ d.todo = c.todo /\ d.adding = NoFp /\ d.mine = c.mine \cup {c.adding}
      /\ d.fetched = c.fetched /\ d.running = c.running
  BY <1>1, <1>2 DEF Cycle
<1>4. cycle' = [cycle EXCEPT ![s] = d] BY <1>1 DEF Insert
<1> HIDE DEF d
<1>5. Covered(d) BY <1>1, <1>3 DEF Covered
<1>6. /\ rows[c.adding] = 0
      /\ \A t \in Schedulers \ {s} : c.adding \notin cycle[t].mine
  BY <1>2 DEF Insert, Blocks, Refuses, Stored, IntakeInv, Exclusive
<1>7. \A g \in d.mine : rows[g] = 0 /\ \A t \in Schedulers \ {s} : g \notin cycle[t].mine
  BY <1>2, <1>3, <1>6 DEF IntakeInv, Exclusive
<1>8. crashes' \in 0 .. MaxCrashes BY DEF Insert, IntakeInv, TypeOK
<1> QED BY <1>3, <1>4, <1>5, <1>7, <1>8, CycleMove DEF Insert
-----------------------------------------------------------------------------
(* Steps that change the table.                                            *)

LEMMA CommitKeeps ==
  ASSUME IntakeInv, NEW s \in Schedulers, Commit(s)
  PROVE  IntakeInv' /\ \A f \in cycle[s].fetched : rows'[f] > 0
<1> DEFINE c == cycle[s]
<1>1. /\ c \in Cycle /\ Covered(c) /\ c.running /\ c.adding = NoFp /\ c.todo = <<>>
      /\ rows' = [f \in Fingerprints |-> IF f \in c.mine THEN rows[f] + 1 ELSE rows[f]]
      /\ cycle' = [cycle EXCEPT ![s] = NoCycle]
      /\ UNCHANGED <<window, request, answer, crashes>>
  BY DEF IntakeInv, TypeOK, Commit
<1>2. c.mine \subseteq Fingerprints /\ c.fetched \subseteq Fingerprints BY <1>1, CycleFields
<1>3. rows \in [Fingerprints -> Nat] /\ cycle \in [Schedulers -> Cycle]
  BY DEF IntakeInv, TypeOK
<1>4. /\ \A f \in c.mine : rows'[f] = 1
      /\ \A f \in Fingerprints \ c.mine : rows'[f] = rows[f]
      /\ rows' \in [Fingerprints -> Nat]
  BY <1>1, <1>2, <1>3 DEF IntakeInv, Exclusive
<1>5. /\ cycle' \in [Schedulers -> Cycle] /\ cycle'[s] = NoCycle
      /\ \A t \in Schedulers : t # s => cycle'[t] = cycle[t]
  BY <1>1, <1>3, NoRecords
<1>6. TypeOK' BY <1>1, <1>4, <1>5 DEF IntakeInv, TypeOK
<1>7. Exclusive'
  <2>1. \A f \in Fingerprints : rows'[f] \in {0, 1}
    BY <1>4 DEF IntakeInv, Exclusive
  <2>2. ASSUME NEW t \in Schedulers, NEW f \in cycle'[t].mine PROVE rows'[f] = 0
    <3>1. t # s /\ f \in cycle[t].mine BY <1>5, <2>2, NoRecords
    <3>2. f \in Fingerprints BY <3>1, <1>3, CycleFields
    <3>3. f \notin c.mine /\ rows[f] = 0 BY <3>1, <3>2 DEF IntakeInv, Exclusive
    <3> QED BY <1>4, <3>2, <3>3
  <2>3. \A t, u \in Schedulers : \A f \in Fingerprints :
          f \in cycle'[t].mine /\ f \in cycle'[u].mine => t = u
    BY <1>5, NoRecords DEF IntakeInv, Exclusive
  <2> QED BY <2>1, <2>2, <2>3 DEF Exclusive
<1>8. \A f \in Fingerprints : Stored(f) => rows'[f] > 0
  BY <1>3, <1>4 DEF Stored
<1>9. AnswersHold'
  <2> SUFFICES ASSUME NEW k \in Clients, answer[k].status \in {"created", "duplicate"}
               PROVE  answer[k].fp \in Fingerprints /\ rows'[answer[k].fp] > 0
    BY <1>1 DEF AnswersHold, Stored
  <2>1. Stored(answer[k].fp) BY DEF IntakeInv, AnswersHold
  <2>2. answer[k].fp \in Fingerprints
    BY DEF IntakeInv, AnswersHold
  <2> QED BY <1>8, <2>1, <2>2
<1>10. ASSUME NEW t \in Schedulers PROVE Covered(cycle[t])'
  <2>1. CASE t = s BY <1>5, <2>1, NoRecords DEF Covered
  <2>2. CASE t # s
    <3>1. cycle'[t] = cycle[t] /\ Covered(cycle[t]) /\ cycle[t].fetched \subseteq Fingerprints
      BY <1>3, <1>5, <2>2, CycleFields DEF IntakeInv
    <3> QED BY <1>8, <3>1 DEF Covered, Stored
  <2> QED BY <2>1, <2>2
<1>11. \A f \in c.fetched : rows'[f] > 0
  <2> SUFFICES ASSUME NEW f \in c.fetched PROVE rows'[f] > 0 OBVIOUS
  <2>1. f \in Fingerprints /\ f # NoFp BY <1>2, NoFpAssumption
  <2>2. Stored(f) \/ f \in c.mine BY <1>1, <2>1 DEF Covered
  <2> QED BY <1>4, <1>8, <2>1, <2>2
<1> QED BY <1>6, <1>7, <1>9, <1>10, <1>11 DEF IntakeInv

\* A request that is answered, or goes on, with the table as it is.
LEMMA RequestMove ==
  ASSUME IntakeInv, NEW c \in Clients, NEW q \in Request, NEW a \in Answer,
         q.pc # "idle" => q.fp \in Fingerprints,
         a.status \in {"created", "duplicate"} => a.fp \in Fingerprints /\ Stored(a.fp),
         request' = [request EXCEPT ![c] = q], answer' = [answer EXCEPT ![c] = a],
         UNCHANGED <<window, rows, cycle>>, crashes' \in 0 .. MaxCrashes
  PROVE  IntakeInv'
<1>1. TypeOK' BY DEF IntakeInv, TypeOK
<1>2. AnswersHold' BY DEF IntakeInv, TypeOK, AnswersHold, Stored
<1>3. (\A s \in Schedulers : Covered(cycle[s]))' BY DEF IntakeInv, Covered, Stored
<1> QED BY <1>1, <1>2, <1>3 DEF IntakeInv, Exclusive

LEMMA CreateKeeps ==
  ASSUME IntakeInv, NEW c \in Clients, Create(c) PROVE IntakeInv'
<1> DEFINE f == request[c].fp
<1>1. /\ request[c].pc = "insert" /\ ~ Blocks(NoFp, f) /\ ~ Refuses(f)
      /\ rows' = [rows EXCEPT ![f] = @ + 1]
      /\ answer' = [answer EXCEPT ![c] = [fp |-> f, status |-> "created"]]
      /\ request' = [request EXCEPT ![c] = NoRequest]
      /\ UNCHANGED <<window, cycle, crashes>>
  BY DEF Create, Reply
<1>2. f \in Fingerprints BY <1>1 DEF IntakeInv, TypeOK
<1>3. rows \in [Fingerprints -> Nat] /\ rows[f] = 0
  BY <1>1, <1>2 DEF IntakeInv, TypeOK, Exclusive, Refuses, Stored
<1>4. \A s \in Schedulers : f \notin cycle[s].mine
  BY <1>1, NoFpAssumption DEF Blocks
<1>5. /\ rows' \in [Fingerprints -> Nat] /\ rows'[f] = 1
      /\ \A g \in Fingerprints : g # f => rows'[g] = rows[g]
  BY <1>1, <1>2, <1>3
<1>6. TypeOK'
  BY <1>1, <1>2, <1>5, NoRecords DEF IntakeInv, TypeOK, Answer
<1>7. \A s \in Schedulers : cycle[s].mine \subseteq Fingerprints
                            /\ cycle[s].fetched \subseteq Fingerprints
  BY CycleFields DEF IntakeInv, TypeOK
<1>8. Exclusive' BY <1>1, <1>4, <1>5, <1>7 DEF IntakeInv, Exclusive
<1>9. \A g \in Fingerprints : Stored(g) => rows'[g] > 0
  BY <1>3, <1>5 DEF Stored
<1>10. AnswersHold'
  <2>1. ASSUME NEW k \in Clients, answer'[k].status \in {"created", "duplicate"}
        PROVE  answer'[k].fp \in Fingerprints /\ rows'[answer'[k].fp] > 0
    <3>1. CASE k = c
      <4>1. answer'[k].fp = f BY <1>1, <3>1 DEF IntakeInv, TypeOK
      <4> QED BY <4>1, <1>2, <1>5
    <3>2. CASE k # c
      <4>1. answer'[k] = answer[k] BY <1>1, <3>2 DEF IntakeInv, TypeOK
      <4> QED BY <2>1, <4>1, <1>9 DEF IntakeInv, AnswersHold
    <3> QED BY <3>1, <3>2
  <2> QED BY <2>1 DEF AnswersHold, Stored
<1>11. (\A s \in Schedulers : Covered(cycle[s]))'
  BY <1>1, <1>7, <1>9 DEF IntakeInv, Covered, Stored
<1> QED BY <1>6, <1>8, <1>10, <1>11 DEF IntakeInv

LEMMA ServeKeeps ==
  ASSUME IntakeInv, NEW c \in Clients,
         Serve(c) \/ CutOff(c) \/ \E f \in Fingerprints : Post(c, f)
  PROVE  IntakeInv'
<1>1. /\ request[c] \in Request /\ answer[c] \in Answer
      /\ request \in [Clients -> Request] /\ answer \in [Clients -> Answer]
      /\ request[c].fp \in Fingerprints \cup {NoFp} /\ crashes \in 0 .. MaxCrashes
      /\ request[c].pc # "idle" => request[c].fp \in Fingerprints
      /\ answer = [answer EXCEPT ![c] = answer[c]]
  BY DEF IntakeInv, TypeOK, Request
<1>2. answer[c].status \in {"created", "duplicate"} =>
        answer[c].fp \in Fingerprints /\ Stored(answer[c].fp)
  BY DEF IntakeInv, AnswersHold
<1>3. CASE AlreadyThere(c)
  <2> DEFINE a == [fp |-> request[c].fp, status |-> "duplicate"]
  <2>1. a \in Answer BY <1>1 DEF Answer
  <2> QED BY <1>1, <1>3, <2>1, NoRecords, RequestMove DEF AlreadyThere, Reply
<1>4. CASE NotThere(c)
  <2> DEFINE q == [request[c] EXCEPT !.pc = "insert"]
  <2>1. q \in Request /\ q.fp \in Fingerprints BY <1>1, <1>4 DEF NotThere, Request
  <2>2. request' = [request EXCEPT ![c] = q] BY <1>4 DEF NotThere
  <2> HIDE DEF q
  <2> DEFINE a == answer[c]
  <2>3. /\ answer' = [answer EXCEPT ![c] = a] /\ crashes' \in 0 .. MaxCrashes
        /\ UNCHANGED <<window, rows, cycle>>
    BY <1>1, <1>4 DEF NotThere
  <2>5. a \in Answer /\ (a.status \in {"created", "duplicate"} =>
                           a.fp \in Fingerprints /\ Stored(a.fp))
    BY <1>1, <1>2
  <2> HIDE DEF a
  <2> QED BY <2>1, <2>2, <2>3, <2>5, RequestMove
<1>5. CASE Create(c) BY <1>5, CreateKeeps
<1>6. CASE CreateFails(c)
  <2> DEFINE a == [fp |-> request[c].fp, status |-> "error"]
  <2>1. a \in Answer BY <1>1 DEF Answer
  <2> QED BY <1>1, <1>6, <2>1, NoRecords, RequestMove DEF CreateFails, Reply
<1>7. CASE CutOff(c)
  <2>1. crashes' \in 0 .. MaxCrashes BY <1>1, <1>7, IntakeAssumption DEF CutOff
  <2> QED BY <1>1, <1>2, <1>7, <2>1, NoRecords, RequestMove DEF CutOff
<1>8. CASE \E f \in Fingerprints : Post(c, f)
  <2>1. PICK f \in Fingerprints : Post(c, f) BY <1>8
  <2> DEFINE q == [pc |-> "lookup", fp |-> f]
  <2>2. q \in Request /\ q.fp \in Fingerprints BY DEF Request
  <2>3. request' = [request EXCEPT ![c] = q] BY <2>1 DEF Post
  <2> HIDE DEF q
  <2> DEFINE a == answer[c]
  <2>4. /\ answer' = [answer EXCEPT ![c] = a] /\ crashes' \in 0 .. MaxCrashes
        /\ UNCHANGED <<window, rows, cycle>>
    BY <1>1, <2>1 DEF Post
  <2>5. a \in Answer /\ (a.status \in {"created", "duplicate"} =>
                           a.fp \in Fingerprints /\ Stored(a.fp))
    BY <1>1, <1>2
  <2> HIDE DEF a
  <2> QED BY <2>2, <2>3, <2>4, <2>5, RequestMove
<1> QED BY <1>3, <1>4, <1>5, <1>6, <1>7, <1>8 DEF Serve
-----------------------------------------------------------------------------
(* The theorems.                                                           *)

LEMMA CycleStepKeeps ==
  ASSUME IntakeInv, NEW s \in Schedulers, Ingest(s) \/ Killed(s) PROVE IntakeInv'
<1>1. crashes \in 0 .. MaxCrashes BY DEF IntakeInv, TypeOK
<1>2. CASE InsertFails(s) BY <1>1, <1>2, RollbackKeeps DEF InsertFails
<1>3. CASE DeadlockVictim(s) BY <1>1, <1>3, RollbackKeeps DEF DeadlockVictim
<1>4. CASE Killed(s)
  <2>1. crashes' \in 0 .. MaxCrashes BY <1>1, <1>4, IntakeAssumption DEF Killed
  <2> QED BY <1>4, <2>1, RollbackKeeps DEF Killed
<1> QED BY <1>2, <1>3, <1>4, FetchKeeps, LookupKeeps, InsertKeeps, CommitKeeps DEF Ingest

LEMMA NextKeepsIntake == IntakeInv /\ [Next]_vars => IntakeInv'
<1> SUFFICES ASSUME IntakeInv, [Next]_vars PROVE IntakeInv' OBVIOUS
<1>1. CASE \E f \in Fingerprints : Occur(f) \/ Expire(f)
  BY <1>1 DEF Occur, Expire, IntakeInv, TypeOK, Exclusive, AnswersHold, Covered, Stored
<1>2. CASE UNCHANGED vars
  BY <1>2 DEF vars, IntakeInv, TypeOK, Exclusive, AnswersHold, Covered, Stored
<1> QED BY <1>1, <1>2, CycleStepKeeps, ServeKeeps DEF Next

LEMMA InvIsInductive == Spec => []IntakeInv
BY InitIntake, NextKeepsIntake, PTL DEF Spec

\* Every variable keeps the type of its table, session or request.
THEOREM TypeCorrect == Spec => []TypeOK
<1>1. IntakeInv => TypeOK BY DEF IntakeInv
<1> QED BY InvIsInductive, <1>1, PTL

LEMMA AtMostOneInserter ==
  ASSUME IntakeInv, NEW f \in Fingerprints
  PROVE  Cardinality({s \in Schedulers : f \in cycle[s].mine}) + rows[f] <= 1
<1> DEFINE inserters == {s \in Schedulers : f \in cycle[s].mine}
<1>1. rows[f] \in {0, 1} BY DEF IntakeInv, Exclusive
<1> SUFFICES Cardinality(inserters) + rows[f] <= 1 OBVIOUS
<1>2. CASE inserters = {}
  <2>1. Cardinality(inserters) = 0 BY <1>2, FS_EmptySet
  <2> HIDE DEF inserters
  <2> QED BY <1>1, <2>1
<1>3. CASE inserters # {}
  <2>1. PICK s \in Schedulers : f \in cycle[s].mine BY <1>3
  <2>2. inserters = {s} /\ rows[f] = 0 BY <2>1 DEF IntakeInv, Exclusive
  <2>3. Cardinality({s}) = 1 BY FS_Singleton
  <2>4. Cardinality(inserters) = 1 BY <2>2, <2>3
  <2> HIDE DEF inserters
  <2> QED BY <2>2, <2>4
<1> QED BY <1>2, <1>3

\* However many cycles and requests race between lookup and insert, a fingerprint
\* gets one row.
THEOREM OneRow == Spec => []OneRowPerFingerprint
<1>1. IntakeInv => OneRowPerFingerprint BY AtMostOneInserter DEF OneRowPerFingerprint
<1> QED BY InvIsInductive, <1>1, PTL

\* A caller who was told "created" or "duplicate" can rely on the row for ever.
THEOREM AnswersStored == Spec => []AnswerMeansStored
<1>1. IntakeInv => AnswerMeansStored BY DEF IntakeInv, AnswersHold, AnswerMeansStored
<1> QED BY InvIsInductive, <1>1, PTL

\* What a step that ends a cycle does to the table.
EndsWhole ==
  \A s \in Schedulers :
    cycle[s].running /\ ~ cycle'[s].running =>
      IF Commit(s) THEN \A f \in cycle[s].fetched : rows'[f] > 0 ELSE rows' = rows

LEMMA StepEndsWhole == IntakeInv /\ [Next]_vars => EndsWhole
<1> SUFFICES ASSUME IntakeInv, [Next]_vars, NEW s \in Schedulers,
                    cycle[s].running, ~ cycle'[s].running, ~ Commit(s)
             PROVE  rows' = rows
  BY CommitKeeps DEF EndsWhole
<1>1. cycle \in [Schedulers -> Cycle] BY DEF IntakeInv, TypeOK
<1>2. ASSUME NEW t \in Schedulers, Commit(t) PROVE FALSE
  <2>1. t # s BY <1>2
  <2> QED BY <1>1, <1>2, <2>1 DEF Commit
<1>3. ASSUME NEW c \in Clients, Create(c) PROVE FALSE BY <1>3 DEF Create
<1>4. CASE \E t \in Schedulers : Ingest(t) \/ Killed(t)
  BY <1>2, <1>4 DEF Ingest, Fetch, Lookup, Insert, InsertFails, DeadlockVictim, Killed
<1>5. CASE \E c \in Clients : Serve(c) \/ CutOff(c) \/ \E f \in Fingerprints : Post(c, f)
  BY <1>3, <1>5 DEF Serve, AlreadyThere, NotThere, CreateFails, CutOff, Post
<1>6. CASE \E f \in Fingerprints : Occur(f) \/ Expire(f) BY <1>6 DEF Occur, Expire
<1>7. CASE UNCHANGED vars BY <1>7 DEF vars
<1> QED BY <1>4, <1>5, <1>6, <1>7 DEF Next

\* A cycle stores all it fetched or nothing, whatever other transactions do.
THEOREM CyclesAtomic == Spec => CycleIsAtomic
<1>1. IntakeInv /\ [Next]_vars => [EndsWhole]_vars BY StepEndsWhole
<1>2. Spec => [][EndsWhole]_vars BY InvIsInductive, <1>1, PTL DEF Spec
<1>3. Spec => CycleIsAtomic BY <1>2 DEF EndsWhole, CycleIsAtomic
<1> QED BY <1>3
=============================================================================
