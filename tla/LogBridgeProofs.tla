-------------------------- MODULE LogBridgeProofs --------------------------
(***************************************************************************)
(* Proofs about LogBridge: what it detects is whole, its allowlist is      *)
(* honoured and its list stays bounded, for any set of containers and of   *)
(* lines and every cap.                                                    *)
(***************************************************************************)
EXTENDS LogBridge, Integers, FiniteSetTheorems, SequenceTheorems, WellFoundedInduction, TLAPS

Labels == {"connect", "read", "refresh", "store", "check", "post", "push", "trim", "ended"}

\* What a thread fetched, and what the bridge uses, was enabled when it was
\* read, however long ago and in whatever order the answers were stored.
AllowInv ==
  /\ pc \in [Services -> Labels]
  /\ answer \in [Services -> SUBSET Services]
  /\ enabled \subseteq Services /\ enabled \subseteq ever
  /\ allow \subseteq ever
  /\ \A s \in Services : answer[s] \subseteq ever
  /\ OnlyEverEnabled

LEMMA InitAllow == Init => AllowInv
  BY DEF Init, AllowInv, Labels, OnlyEverEnabled, At

\* A thread's step that does not touch the targets, and does not go to the post.
LEMMA MovesOn ==
  ASSUME AllowInv, NEW s \in Services, NEW label \in Labels \ {"post"}, Goto(s, label),
         UNCHANGED <<answer, allow, enabled, ever>>
  PROVE  AllowInv'
  BY DEF AllowInv, Goto, Labels, OnlyEverEnabled, At

LEMMA ThreadKeepsAllow ==
  ASSUME AllowInv, NEW s \in Services,
         \/ Connect(s) \/ StreamEnds(s) \/ Leave(s)
         \/ \E ln \in Lines : HandleLine(s, ln)
         \/ SkipRefresh(s) \/ FetchTargets(s) \/ FetchFails(s) \/ StoreTargets(s)
         \/ CheckTarget(s) \/ IngestException(s)
         \/ Push(s) \/ Trim(s) \/ RedisFails(s)
  PROVE  AllowInv'
<1>1. CASE Connect(s) BY <1>1, MovesOn DEF Connect, Labels
<1>2. CASE StreamEnds(s) BY <1>2, MovesOn DEF StreamEnds, Labels
<1>3. CASE Leave(s) BY <1>3, MovesOn DEF Leave, Labels
<1>4. CASE \E ln \in Lines : HandleLine(s, ln)
  <2>1. PICK ln \in Lines : HandleLine(s, ln) BY <1>4
  <2>2. Goto(s, "push") \/ Goto(s, "refresh") BY <2>1 DEF HandleLine
  <2>3. UNCHANGED <<answer, allow, enabled, ever>> BY <2>1 DEF HandleLine
  <2> QED BY <2>2, <2>3, MovesOn DEF Labels
<1>5. CASE SkipRefresh(s) BY <1>5, MovesOn DEF SkipRefresh, Labels
<1>6. CASE FetchTargets(s)
  BY <1>6 DEF FetchTargets, AllowInv, Goto, Labels, OnlyEverEnabled, At
<1>7. CASE FetchFails(s) BY <1>7, MovesOn DEF FetchFails, Labels
<1>8. CASE StoreTargets(s)
  BY <1>8 DEF StoreTargets, AllowInv, Goto, Labels, OnlyEverEnabled, At
<1>9. CASE CheckTarget(s)
  <2>1. CASE IsEnabled(s)
    <3>1. s \in ever BY <2>1 DEF IsEnabled, AllowInv
    <3>2. Goto(s, "post") BY <1>9, <2>1 DEF CheckTarget
    <3> QED BY <1>9, <3>1, <3>2 DEF CheckTarget, AllowInv, Goto, Labels, OnlyEverEnabled, At
  <2>2. CASE ~ IsEnabled(s) BY <1>9, <2>2, MovesOn DEF CheckTarget, Labels
  <2> QED BY <2>1, <2>2
<1>10. CASE IngestException(s) BY <1>10, MovesOn DEF IngestException, Labels
<1>11. CASE Push(s) BY <1>11, MovesOn DEF Push, Labels
<1>12. CASE Trim(s) BY <1>12, MovesOn DEF Trim, Labels
<1>13. CASE RedisFails(s) BY <1>13, MovesOn DEF RedisFails, Labels
<1> QED BY <1>1, <1>2, <1>3, <1>4, <1>5, <1>6, <1>7, <1>8, <1>9, <1>10, <1>11, <1>12, <1>13

LEMMA NextKeepsAllow == AllowInv /\ [Next]_vars => AllowInv'
<1> SUFFICES ASSUME AllowInv, [Next]_vars PROVE AllowInv' OBVIOUS
<1>1. CASE \E selection \in SUBSET Services : UpsertTargets(selection)
  BY <1>1 DEF UpsertTargets, AllowInv, OnlyEverEnabled, At
<1>2. CASE RefreshDue BY <1>2 DEF RefreshDue, AllowInv, OnlyEverEnabled, At
<1>3. CASE Shutdown BY <1>3 DEF Shutdown, AllowInv, OnlyEverEnabled, At
<1>4. CASE UNCHANGED vars BY <1>4 DEF vars, AllowInv, OnlyEverEnabled, At
<1> QED BY <1>1, <1>2, <1>3, <1>4, ThreadKeepsAllow DEF Next

\* An exception is posted only for a container that was enabled at some time, for
\* any number of containers whose threads refresh the allowlist side by side.
THEOREM AllowlistHonoured == Spec => []OnlyEverEnabled
<1>1. AllowInv => OnlyEverEnabled BY DEF AllowInv
<1> QED BY InitAllow, NextKeepsAllow, <1>1, PTL DEF Spec
-----------------------------------------------------------------------------
(* The size of the Redis list.                                             *)

\* The threads between their push and their trim.
Trimming == {s \in Services : At(s, "trim")}

StoreInv ==
  /\ pc \in [Services -> Labels]
  /\ stored \in Nat /\ redisFailures \in Nat
  /\ IsFiniteSet(Trimming) /\ Cardinality(Trimming) \in Nat
  /\ StoreIsBounded

LEMMA InitStore == Init => StoreInv
<1> SUFFICES ASSUME Init PROVE StoreInv OBVIOUS
<1>1. Trimming = {} BY DEF Init, Trimming, At
<1>2. IsFiniteSet({}) /\ Cardinality({}) = 0 BY FS_EmptySet
<1>3. pc \in [Services -> Labels] BY DEF Init, Labels
<1>4. stored = 0 /\ redisFailures = 0 BY DEF Init
<1>5. IsFiniteSet(Trimming) /\ Cardinality(Trimming) = 0 BY <1>1, <1>2
<1>6. stored <= MaxStored + Cardinality(Trimming) + redisFailures
  BY <1>4, <1>5, LogBridgeAssumption
<1> QED BY <1>3, <1>4, <1>5, <1>6 DEF StoreInv, StoreIsBounded, Trimming

\* A thread's step that neither pushes nor trims.
LEMMA AwayFromList ==
  ASSUME StoreInv, NEW s \in Services, NEW label \in Labels \ {"trim"}, pc[s] # "trim",
         Goto(s, label), UNCHANGED <<stored, redisFailures>>
  PROVE  StoreInv'
<1>1. pc' \in [Services -> Labels] BY DEF StoreInv, Goto
<1>2. Trimming' = Trimming BY DEF StoreInv, Goto, Trimming, At
<1> QED BY <1>1, <1>2 DEF StoreInv, StoreIsBounded, Trimming

LEMMA PushKeepsStore ==
  ASSUME StoreInv, NEW s \in Services, Push(s) PROVE StoreInv'
<1>1. pc' \in [Services -> Labels] BY DEF StoreInv, Push, Goto, Labels
<1>2. Trimming' = Trimming \cup {s} /\ s \notin Trimming
  BY DEF StoreInv, Push, Goto, Trimming, At
<1>3. IsFiniteSet(Trimming) BY DEF StoreInv
<1>4. IsFiniteSet(Trimming') /\ Cardinality(Trimming') = Cardinality(Trimming) + 1
  BY <1>2, <1>3, FS_AddElement
<1>5. /\ stored' = stored + 1 /\ redisFailures' = redisFailures
      /\ stored <= MaxStored + Cardinality(Trimming) + redisFailures
      /\ stored \in Nat /\ redisFailures \in Nat /\ Cardinality(Trimming) \in Nat
  BY DEF StoreInv, StoreIsBounded, Trimming, Push
<1>6. stored' <= MaxStored + Cardinality(Trimming') + redisFailures'
  BY <1>4, <1>5, LogBridgeAssumption
<1> QED BY <1>1, <1>4, <1>5, <1>6 DEF StoreInv, StoreIsBounded, Trimming

\* The trim of s takes it out of the threads that have one to do.
LEMMA FewerTrimming ==
  ASSUME StoreInv, NEW s \in Services, pc[s] = "trim", NEW label \in Labels \ {"trim"},
         Goto(s, label)
  PROVE  /\ pc' \in [Services -> Labels] /\ IsFiniteSet(Trimming')
         /\ Cardinality(Trimming') \in Nat
         /\ Cardinality(Trimming') = Cardinality(Trimming) - 1
<1>1. pc' \in [Services -> Labels] BY DEF StoreInv, Goto
<1>2. Trimming' = Trimming \ {s} /\ s \in Trimming
  BY DEF StoreInv, Goto, Trimming, At
<1>3. IsFiniteSet(Trimming) BY DEF StoreInv
<1>4. IsFiniteSet(Trimming') /\ Cardinality(Trimming') = Cardinality(Trimming) - 1
  BY <1>2, <1>3, FS_RemoveElement
<1>5. Cardinality(Trimming') \in Nat BY <1>4, FS_CardinalityType
<1> QED BY <1>1, <1>4, <1>5

LEMMA TrimKeepsStore ==
  ASSUME StoreInv, NEW s \in Services, Trim(s) PROVE StoreInv'
<1>1. /\ pc' \in [Services -> Labels] /\ IsFiniteSet(Trimming')
      /\ Cardinality(Trimming') \in Nat
  BY FewerTrimming DEF Trim, At, Labels
<1>2. stored' \in Nat /\ stored' <= MaxStored /\ redisFailures' = redisFailures
  BY LogBridgeAssumption DEF StoreInv, Trim, Trimmed
<1>3. stored' <= MaxStored + Cardinality(Trimming') + redisFailures'
  BY <1>1, <1>2, LogBridgeAssumption DEF StoreInv
<1> QED BY <1>1, <1>2, <1>3 DEF StoreInv, StoreIsBounded, Trimming

\* A lost trim leaves at most the one line its push added.
LEMMA FailureKeepsStore ==
  ASSUME StoreInv, NEW s \in Services, RedisFails(s) PROVE StoreInv'
<1>1. /\ Goto(s, "connect") /\ "connect" \in Labels \ {"trim"} /\ stored' = stored
      /\ redisFailures' = redisFailures + 1 /\ stored \in Nat /\ redisFailures \in Nat
      /\ Cardinality(Trimming) \in Nat
      /\ stored <= MaxStored + Cardinality(Trimming) + redisFailures
  BY DEF StoreInv, StoreIsBounded, Trimming, RedisFails, Labels
<1>2. CASE pc[s] = "push"
  <2>1. pc' \in [Services -> Labels] BY <1>1 DEF StoreInv, Goto
  <2>2. Trimming' = Trimming BY <1>1, <1>2 DEF StoreInv, Goto, Trimming, At
  <2>3. stored' <= MaxStored + Cardinality(Trimming') + redisFailures'
    BY <1>1, <2>2, LogBridgeAssumption
  <2> QED BY <1>1, <2>1, <2>2, <2>3 DEF StoreInv, StoreIsBounded, Trimming
<1>3. CASE pc[s] = "trim"
  <2>1. /\ pc' \in [Services -> Labels] /\ IsFiniteSet(Trimming')
        /\ Cardinality(Trimming') \in Nat
        /\ Cardinality(Trimming') = Cardinality(Trimming) - 1
    BY <1>1, <1>3, FewerTrimming
  <2>2. stored' <= MaxStored + Cardinality(Trimming') + redisFailures'
    BY <1>1, <2>1, LogBridgeAssumption
  <2> QED BY <1>1, <2>1, <2>2 DEF StoreInv, StoreIsBounded, Trimming
<1> QED BY <1>2, <1>3 DEF RedisFails

LEMMA NextKeepsStore == StoreInv /\ [Next]_vars => StoreInv'
<1> SUFFICES ASSUME StoreInv, [Next]_vars PROVE StoreInv' OBVIOUS
<1>1. ASSUME NEW s \in Services,
             \/ Connect(s) \/ StreamEnds(s) \/ Leave(s)
             \/ SkipRefresh(s) \/ FetchTargets(s) \/ FetchFails(s) \/ StoreTargets(s)
             \/ CheckTarget(s) \/ IngestException(s)
      PROVE  StoreInv'
  <2>1. /\ pc[s] # "trim" /\ UNCHANGED <<stored, redisFailures>>
        /\ \E label \in Labels \ {"trim"} : Goto(s, label)
    BY <1>1 DEF Connect, StreamEnds, Leave, SkipRefresh, FetchTargets, FetchFails,
                StoreTargets, CheckTarget, IngestException, At, Labels
  <2> QED BY <2>1, AwayFromList
<1>2. ASSUME NEW s \in Services, NEW ln \in Lines, HandleLine(s, ln) PROVE StoreInv'
  <2>1. Goto(s, "push") \/ Goto(s, "refresh") BY <1>2 DEF HandleLine
  <2>2. pc[s] # "trim" /\ UNCHANGED <<stored, redisFailures>> BY <1>2 DEF HandleLine, At
  <2> QED BY <2>1, <2>2, AwayFromList DEF Labels
<1>3. CASE \/ \E selection \in SUBSET Services : UpsertTargets(selection)
           \/ RefreshDue \/ Shutdown \/ UNCHANGED vars
  BY <1>3 DEF UpsertTargets, RefreshDue, Shutdown, vars, StoreInv, StoreIsBounded, Trimming, At
<1> QED BY <1>1, <1>2, <1>3, PushKeepsStore, TrimKeepsStore, FailureKeepsStore DEF Next

\* Push and trim are two calls of many threads, and either may fail: the list exceeds
\* its size by the trims that are still to come or were lost, for any number of threads.
THEOREM StoreBounded == Spec => []StoreIsBounded
<1>1. StoreInv => StoreIsBounded BY DEF StoreInv
<1> QED BY InitStore, NextKeepsStore, <1>1, PTL DEF Spec
-----------------------------------------------------------------------------
(* Induction over numbers, and over the lines that a JSON line unwraps into. *)

LEMMA LeastNumber ==
  ASSUME NEW T \in SUBSET Nat, T # {} PROVE \E m \in T : \A j \in T : m <= j
<1> DEFINE R == OpToRel(<, Nat)
<1>1. IsWellFoundedOn(R, Nat) BY NatLessThanWellFounded
<1>2. \A j, m \in Nat : j < m => <<j, m>> \in R BY DEF OpToRel
<1> HIDE DEF R
<1>3. PICK m \in T : \A j \in T : ~ (<<j, m>> \in R) BY <1>1, WFMin
<1>4. \A j \in T : ~ (j < m) BY <1>2, <1>3
<1> QED BY <1>4

LEMMA MaxOfSet ==
  ASSUME NEW n \in Nat, NEW T \in SUBSET (1 .. n), T # {}
  PROVE  Max(T) \in T /\ \A j \in T : j <= Max(T)
<1> DEFINE U == {k \in 0 .. n : \A j \in T : j <= k}
<1>1. U \in SUBSET Nat /\ n \in U OBVIOUS
<1>2. PICK m \in U : \A k \in U : m <= k
  <2> HIDE DEF U
  <2> QED BY <1>1, LeastNumber
<1>3. m \in T
  <2> SUFFICES ASSUME m \notin T PROVE FALSE OBVIOUS
  <2>1. m \in 0 .. n /\ \A j \in T : j <= m /\ j # m /\ j \in 1 .. n OBVIOUS
  <2>2. m # 0
    <3>1. PICK j \in T : TRUE OBVIOUS
    <3> QED BY <2>1, <3>1
  <2>3. m - 1 \in 0 .. n /\ \A j \in T : j <= m - 1 BY <2>1, <2>2
  <2>4. m - 1 \in U /\ ~ (m <= m - 1) BY <2>3
  <2> QED BY <1>2, <2>4
<1>4. \A j \in T : m >= j OBVIOUS
<1> QED BY <1>3, <1>4 DEF Max

\* Induction up to n: what holds of 0 and is handed on holds of n.
LEMMA UpTo ==
  ASSUME NEW n \in Nat, NEW S, 0 \in S, \A k \in 0 .. n - 1 : k \in S => k + 1 \in S
  PROVE  n \in S
<1> SUFFICES ASSUME n \notin S PROVE FALSE OBVIOUS
<1> DEFINE T == {k \in 0 .. n : k \notin S}
<1>1. T \in SUBSET Nat /\ T # {} OBVIOUS
<1>2. PICK m \in T : \A j \in T : m <= j
  <2> HIDE DEF T
  <2> QED BY <1>1, LeastNumber
<1>3. m \in Nat /\ m <= n /\ m # 0 OBVIOUS
<1>4. m - 1 \in S BY <1>2, <1>3
<1>5. m - 1 \in 0 .. n - 1 /\ (m - 1) + 1 = m BY <1>3
<1> QED BY <1>4, <1>5

LEMMA MaxOfInterval == ASSUME NEW n \in Nat \ {0} PROVE Max(1 .. n) = n BY DEF Max

Fold(base, seq) == FoldLeft(ProcessLine, base, seq)

\* A fold from the left is the last of a chain of values, one for each element: the
\* function by which the library defines it, on the sets of indices, exists, and the
\* chain is what it does to the initial ones.
LEMMA FoldLeftUnfolds ==
  ASSUME NEW base, NEW n \in Nat, NEW seq, DOMAIN seq = 1 .. n
  PROVE  \E f : /\ f[0] = base
                /\ \A i \in 1 .. n : f[i] = ProcessLine(f[i - 1], seq[i])
                /\ Fold(base, seq) = f[n]
<1> DEFINE S == SUBSET (1 .. n)
           Body(g, s) == IF s = {} THEN base ELSE ProcessLine(g[s \ {Max(s)}], seq[Max(s)])
           Eq(g) == g = [s \in S |-> Body(g, s)]
           G == {k \in 0 .. n : \E g : \A s \in SUBSET (1 .. k) : g[s] = Body(g, s)}
<1>1. 0 \in G
  <2> DEFINE g == [s \in {{}} |-> base]
  <2>1. \A s \in SUBSET (1 .. 0) : s = {} OBVIOUS
  <2>2. g[{}] = base OBVIOUS
  <2>3. \A s \in SUBSET (1 .. 0) : g[s] = Body(g, s) BY <2>1, <2>2
  <2>4. 0 \in 0 .. n OBVIOUS
  <2> HIDE DEF g, Body
  <2> QED BY <2>3, <2>4
<1>2. ASSUME NEW k \in 0 .. n - 1, k \in G PROVE k + 1 \in G
  <2>1. PICK g : \A s \in SUBSET (1 .. k) : g[s] = Body(g, s) BY <1>2
  <2> DEFINE h == [s \in SUBSET (1 .. k + 1) |-> Body(g, s)]
  <2>2. ASSUME NEW s \in SUBSET (1 .. k + 1), s # {} PROVE h[s \ {Max(s)}] = g[s \ {Max(s)}]
    <3> DEFINE r == s \ {Max(s)}
    <3>1. Max(s) \in s /\ \A j \in s : j <= Max(s)
      <4>1. k + 1 \in Nat OBVIOUS
      <4> QED BY <2>2, <4>1, MaxOfSet
    <3>2. ASSUME NEW j \in r PROVE j \in 1 .. k
      <4>1. j \in 1 .. k + 1 /\ Max(s) \in 1 .. k + 1 /\ j # Max(s) /\ j <= Max(s) BY <3>1
      <4> QED BY <4>1
    <3>3. r \in SUBSET (1 .. k) BY <3>2
    <3> HIDE DEF r
    <3>4. r \in SUBSET (1 .. k + 1) BY <3>3
    <3>5. h[r] = Body(g, r) BY <3>4
    <3> QED BY <2>1, <3>3, <3>5 DEF r
  <2>3. \A s \in SUBSET (1 .. k + 1) : h[s] = Body(h, s) BY <2>2
  <2>4. k + 1 \in 0 .. n OBVIOUS
  <2> HIDE DEF h, Body
  <2> QED BY <2>3, <2>4
<1>3. n \in G
  <2> HIDE DEF G
  <2> QED BY <1>1, <1>2, UpTo
<1>4. \E g : Eq(g)
  <2>1. PICK g : \A s \in S : g[s] = Body(g, s) BY <1>3
  <2> DEFINE h == [s \in S |-> g[s]]
  <2>2. \A s \in S : s \ {Max(s)} \in S OBVIOUS
  <2>3. \A s \in S : h[s \ {Max(s)}] = g[s \ {Max(s)}] BY <2>2
  <2>4. \A s \in S : Body(h, s) = Body(g, s) BY <2>3
  <2>5. \A s \in S : g[s] = Body(h, s) BY <2>1, <2>4
  <2>6. Eq(h)
    <3> HIDE DEF Body, S
    <3> QED BY <2>5
  <2> QED BY <2>6
<1> DEFINE iter == CHOOSE g : Eq(g)
<1>5. Eq(iter)
  <2> HIDE DEF Eq
  <2> QED BY <1>4
<1>6. Fold(base, seq) = iter[1 .. n] BY DEF Fold, FoldLeft, MapThenFoldSet
<1> HIDE DEF iter
<1>7. \A i \in 0 .. n : iter[1 .. i] = Body(iter, 1 .. i)
  <2>1. \A i \in 0 .. n : 1 .. i \in S OBVIOUS
  <2> HIDE DEF Body, S
  <2> QED BY <1>5, <2>1
<1> DEFINE f == [i \in 0 .. n |-> iter[1 .. i]]
<1>8. f[0] = base
  <2>1. 1 .. 0 = {} /\ 0 \in 0 .. n OBVIOUS
  <2>2. iter[1 .. 0] = Body(iter, 1 .. 0)
    <3> HIDE DEF Body, S
    <3> QED BY <1>7, <2>1
  <2>3. iter[1 .. 0] = base BY <2>1, <2>2
  <2> QED BY <2>1, <2>3
<1>9. ASSUME NEW i \in 1 .. n PROVE f[i] = ProcessLine(f[i - 1], seq[i])
  <2>1. Max(1 .. i) = i BY MaxOfInterval
  <2>2. (1 .. i) \ {i} = 1 .. i - 1 OBVIOUS
  <2>3. 1 .. i # {} OBVIOUS
  <2>4. iter[1 .. i] = Body(iter, 1 .. i)
    <3>1. i \in 0 .. n OBVIOUS
    <3> HIDE DEF Body, S
    <3> QED BY <1>7, <3>1
  <2>5. iter[1 .. i] = ProcessLine(iter[1 .. i - 1], seq[i])
    <3> HIDE DEF S
    <3> QED BY <2>1, <2>2, <2>3, <2>4
  <2>6. f[i] = iter[1 .. i] /\ f[i - 1] = iter[1 .. i - 1] OBVIOUS
  <2> QED BY <2>5, <2>6
<1>10. f[n] = iter[1 .. n] OBVIOUS
<1> HIDE DEF f
<1> QED BY <1>6, <1>8, <1>9, <1>10

\* What the operator keeps, for any element of the sequence, holds of the fold.
LEMMA FoldLeftKeeps ==
  ASSUME NEW base, NEW n \in Nat, NEW seq, DOMAIN seq = 1 .. n,
         NEW Good, base \in Good, \A v \in Good, i \in 1 .. n : ProcessLine(v, seq[i]) \in Good
  PROVE  Fold(base, seq) \in Good
<1>1. PICK f : /\ f[0] = base
               /\ \A i \in 1 .. n : f[i] = ProcessLine(f[i - 1], seq[i])
               /\ Fold(base, seq) = f[n]
  BY FoldLeftUnfolds
<1> DEFINE S == {k \in 0 .. n : f[k] \in Good}
<1>2. 0 \in S BY <1>1
<1>3. ASSUME NEW k \in 0 .. n - 1, k \in S PROVE k + 1 \in S
  <2>1. k + 1 \in 1 .. n /\ (k + 1) - 1 = k OBVIOUS
  <2>2. f[k + 1] = ProcessLine(f[k], seq[k + 1]) BY <1>1, <2>1
  <2>3. f[k] \in Good BY <1>3
  <2>4. f[k + 1] \in Good BY <2>1, <2>2, <2>3
  <2> QED BY <2>1, <2>4
<1>4. n \in S
  <2> HIDE DEF S
  <2> QED BY <1>2, <1>3, UpTo
<1> QED BY <1>1, <1>4
-----------------------------------------------------------------------------
(* The parser.                                                             *)

\* What a parser can hold: of the format it is reading the header and, behind it, only
\* lines that do not end a traceback of that format.
Pending(p) ==
  /\ p \in Parser
  /\ p.mode = "none" => p.lines = <<>>
  /\ p.mode = "python" =>
       /\ p.lines # <<>> /\ p.lines[1] = "start"
       /\ \A k \in 2 .. Len(p.lines) : p.lines[k] \notin {"error", "neterror"}
  /\ p.mode = "net" =>
       /\ p.lines # <<>> /\ p.lines[1] \in {"neterror", "netinner"}
       /\ \A k \in 2 .. Len(p.lines) : p.lines[k] = "frame"

Detections ==
  {exc \in [kind : {"python", "net", "single", "http"}, trace : Seq(Kinds)] : Whole(exc)}

\* What reading one kind may yield.
Readings == {r \in [parser : Parser, done : Seq(Detections)] : Pending(r.parser)}

\* What reading a line may have yielded so far.
Feeding ==
  {so \in [parser : Parser, done : Seq(Detections), out : Seq(Detections)] : Pending(so.parser)}

LEMMA ParserLines ==
  ASSUME NEW p \in Parser
  PROVE  /\ p.mode \in {"none", "python", "net"}
         /\ p.lines \in Seq(Kinds) /\ Len(p.lines) \in 0 .. TracebackCap
         /\ DOMAIN p.lines = 1 .. Len(p.lines)
<1>1. PICK n \in 0 .. TracebackCap : p.lines \in [1 .. n -> Kinds] BY DEF Parser
<1>2. n \in Nat BY LogBridgeAssumption
<1>3. p.lines \in Seq(Kinds) BY <1>1, <1>2, IsASeq
<1>4. Len(p.lines) = n BY <1>1, <1>2, <1>3, LenProperties
<1>5. DOMAIN p.lines = 1 .. n BY <1>1
<1>6. p.mode \in {"none", "python", "net"} BY DEF Parser
<1> QED BY <1>3, <1>4, <1>5, <1>6

LEMMA ParserOf ==
  ASSUME NEW mode \in {"none", "python", "net"}, NEW lines \in Seq(Kinds),
         Len(lines) <= TracebackCap
  PROVE  [mode |-> mode, lines |-> lines] \in Parser
<1>1. Len(lines) \in 0 .. TracebackCap /\ lines \in [1 .. Len(lines) -> Kinds]
  BY LenProperties, LogBridgeAssumption
<1> QED BY <1>1 DEF Parser

LEMMA CapIsPositive == TracebackCap \in Nat /\ TracebackCap >= 1
BY LogBridgeAssumption

LEMMA FreshIsPending == Fresh \in Parser /\ Pending(Fresh)
<1>1. <<>> \in Seq(Kinds) /\ Len(<<>>) = 0 BY EmptySeq, LenProperties
<1>2. Len(<<>>) <= TracebackCap BY <1>1, CapIsPositive
<1>3. [mode |-> "none", lines |-> <<>>] \in Parser BY <1>1, <1>2, ParserOf
<1>4. Fresh \in Parser BY <1>3 DEF Fresh
<1> QED BY <1>4 DEF Fresh, Pending

\* One kind, as a sequence.
LEMMA Singleton ==
  ASSUME NEW S, NEW e \in S
  PROVE  <<e>> \in Seq(S) /\ Len(<<e>>) = 1 /\ <<e>>[1] = e /\ <<e>> # <<>>
OBVIOUS

LEMMA QuietReading == ASSUME NEW p, Pending(p) PROVE Quiet(p) \in Readings
<1>1. <<>> \in Seq(Detections) BY EmptySeq
<1>2. p \in Parser BY DEF Pending
<1> QED BY <1>1, <1>2 DEF Quiet, Readings

LEMMA FoundReading ==
  ASSUME NEW exc \in Detections PROVE Found(exc.kind, exc.trace) \in Readings
<1>1. exc = [kind |-> exc.kind, trace |-> exc.trace] BY DEF Detections
<1>2. <<exc>> \in Seq(Detections) BY Singleton
<1>3. Found(exc.kind, exc.trace) = [parser |-> Fresh, done |-> <<exc>>] BY <1>1 DEF Found
<1> QED BY <1>2, <1>3, FreshIsPending DEF Readings

\* A traceback goes on, or is given up.
LEMMA LongerIsPending ==
  ASSUME NEW p, Pending(p), NEW k \in Kinds,
         \/ p.mode = "python" /\ k \notin {"error", "neterror"}
         \/ p.mode = "net" /\ k = "frame"
  PROVE  Pending(Longer(p, k))
<1>1. p \in Parser BY DEF Pending
<1>2. /\ p.lines \in Seq(Kinds) /\ Len(p.lines) \in Nat /\ Len(p.lines) >= 1
      /\ p.mode \in {"none", "python", "net"}
  <2>1. p.lines # <<>> BY DEF Pending
  <2> QED BY <1>1, <2>1, ParserLines, EmptySeq, LenProperties
<1>3. CASE Len(p.lines) + 1 > TracebackCap BY <1>3, FreshIsPending DEF Longer
<1>4. CASE ~ (Len(p.lines) + 1 > TracebackCap)
  <2> DEFINE lines == Append(p.lines, k)
             n == Len(p.lines)
  <2>1. Longer(p, k) = [mode |-> p.mode, lines |-> lines] BY <1>1, <1>4 DEF Longer, Parser
  <2>2. /\ lines \in Seq(Kinds) /\ Len(lines) = n + 1 /\ lines[n + 1] = k
        /\ \A i \in 1 .. n : lines[i] = p.lines[i]
    BY <1>2, AppendProperties
  <2> HIDE DEF lines
  <2>3. [mode |-> p.mode, lines |-> lines] \in Parser BY <1>2, <1>4, <2>2, ParserOf, CapIsPositive
  <2>4. lines[1] = p.lines[1] /\ lines # <<>> BY <1>2, <2>2, EmptySeq
  <2>5. ASSUME NEW i \in 2 .. n + 1 PROVE (i \in 2 .. n /\ lines[i] = p.lines[i]) \/ lines[i] = k
    BY <1>2, <2>2
  <2>6. p.mode = "python" => \A i \in 2 .. Len(lines) : lines[i] \notin {"error", "neterror"}
    BY <2>2, <2>5 DEF Pending
  <2>7. p.mode = "net" => \A i \in 2 .. Len(lines) : lines[i] = "frame"
    BY <2>2, <2>5 DEF Pending
  <2> QED BY <2>1, <2>3, <2>4, <2>6, <2>7 DEF Pending
<1> QED BY <1>3, <1>4

LEMMA BareDetection ==
  ASSUME NEW kind \in {"single", "http"} PROVE [kind |-> kind, trace |-> <<>>] \in Detections
<1>1. <<>> \in Seq(Kinds) /\ Len(<<>>) = 0 BY EmptySeq, LenProperties
<1> QED BY <1>1 DEF Detections, Whole

LEMMA HeaderIsPending ==
  ASSUME NEW mode \in {"python", "net"}, NEW k \in Kinds,
         mode = "python" => k = "start", mode = "net" => k \in {"neterror", "netinner"}
  PROVE  Pending([mode |-> mode, lines |-> <<k>>])
<1>1. <<k>> \in Seq(Kinds) /\ Len(<<k>>) = 1 /\ <<k>>[1] = k /\ <<k>> # <<>> BY Singleton
<1>2. [mode |-> mode, lines |-> <<k>>] \in Parser
  <2>1. Len(<<k>>) <= TracebackCap BY <1>1, CapIsPositive
  <2> QED BY <1>1, <2>1, ParserOf
<1>3. 2 .. Len(<<k>>) = {} BY <1>1
<1> QED BY <1>1, <1>2, <1>3 DEF Pending

\* At most one exception is complete after a line that is read outside a traceback.
LEMMA OutsideReads == ASSUME NEW k \in Kinds PROVE ReadOutside(k) \in Readings
<1>1. CASE k = "start" BY <1>1, HeaderIsPending, QuietReading DEF ReadOutside
<1>2. CASE k = "error"
  <2>1. [kind |-> "single", trace |-> <<>>] \in Detections BY BareDetection
  <2>2. Found("single", <<>>) \in Readings BY <2>1, FoundReading
  <2> QED BY <1>2, <2>2 DEF ReadOutside
<1>3. CASE k \in {"neterror", "netinner"} BY <1>3, HeaderIsPending, QuietReading DEF ReadOutside
<1>4. CASE k = "http"
  <2>1. [kind |-> "http", trace |-> <<>>] \in Detections BY BareDetection
  <2>2. Found("http", <<>>) \in Readings BY <2>1, FoundReading
  <2> QED BY <1>4, <2>2 DEF ReadOutside
<1>5. CASE k \in {"frame", "plain"} BY <1>5, FreshIsPending, QuietReading DEF ReadOutside
<1> QED BY <1>1, <1>2, <1>3, <1>4, <1>5 DEF Kinds

\* An error ends a Python traceback and is its last line.
LEMMA PythonReads ==
  ASSUME NEW p, Pending(p), p.mode = "python", NEW k \in Kinds
  PROVE  ReadInPython(p, k) \in Readings
<1>1. CASE k \in {"error", "neterror"}
  <2> DEFINE trace == Append(p.lines, k)
             n == Len(p.lines)
             exc == [kind |-> "python", trace |-> trace]
  <2>1. p \in Parser /\ p.lines # <<>> BY DEF Pending
  <2>2. p.lines \in Seq(Kinds) /\ n \in 1 .. TracebackCap
    BY <2>1, ParserLines, EmptySeq, LenProperties
  <2>3. /\ trace \in Seq(Kinds) /\ Len(trace) = n + 1 /\ trace[n + 1] = k
        /\ \A i \in 1 .. n : trace[i] = p.lines[i]
    BY <2>2, AppendProperties
  <2> HIDE DEF trace
  <2>4. n \in Nat /\ n + 1 \in 2 .. TracebackCap + 1 BY <2>2, LogBridgeAssumption
  <2>5. trace[1] = "start" BY <2>2, <2>3 DEF Pending
  <2>6. ASSUME NEW i \in 2 .. (n + 1) - 1 PROVE trace[i] \notin {"error", "neterror"}
    <3>1. i \in 2 .. n /\ i \in 1 .. n BY <2>4
    <3> QED BY <2>3, <3>1 DEF Pending
  <2>7. exc \in Detections BY <1>1, <2>3, <2>4, <2>5, <2>6 DEF Detections, Whole
  <2>8. ReadInPython(p, k) = Found(exc.kind, exc.trace) BY <1>1 DEF ReadInPython, trace
  <2> QED BY <2>7, <2>8, FoundReading
<1>2. CASE k \notin {"error", "neterror"}
  BY <1>2, LongerIsPending, QuietReading DEF ReadInPython
<1> QED BY <1>1, <1>2

\* A line that is not a frame ends a .NET trace, and is read afresh.
LEMMA NetReads ==
  ASSUME NEW p, Pending(p), p.mode = "net", NEW k \in Kinds
  PROVE  ReadInNet(p, k) \in Readings
<1>1. [kind |-> "net", trace |-> p.lines] \in Detections
  <2>1. p \in Parser /\ p.lines # <<>> BY DEF Pending
  <2>2. p.lines \in Seq(Kinds) /\ Len(p.lines) \in 1 .. TracebackCap
    BY <2>1, ParserLines, EmptySeq, LenProperties
  <2> QED BY <2>2 DEF Pending, Detections, Whole
<1>2. CASE k = "frame" BY <1>2, LongerIsPending, QuietReading DEF ReadInNet
<1>3. CASE k # "frame"
  <2> DEFINE exc == [kind |-> "net", trace |-> p.lines]
             next == ReadOutside(k)
  <2>1. next \in Readings BY OutsideReads
  <2>2. ReadInNet(p, k) = [next EXCEPT !.done = <<exc>> \o next.done] BY <1>3 DEF ReadInNet
  <2>3. <<exc>> \in Seq(Detections) BY <1>1, Singleton
  <2> HIDE DEF exc, next
  <2>4. next.done \in Seq(Detections) BY <2>1 DEF Readings
  <2>5. <<exc>> \o next.done \in Seq(Detections) BY <2>3, <2>4, ConcatProperties
  <2> QED BY <2>1, <2>2, <2>5 DEF Readings
<1> QED BY <1>2, <1>3

LEMMA ProcessLineFeeds ==
  ASSUME NEW so \in Feeding, NEW k \in Kinds PROVE ProcessLine(so, k) \in Feeding
<1> DEFINE r == CASE so.parser.mode = "net" -> ReadInNet(so.parser, k)
                  [] so.parser.mode = "python" -> ReadInPython(so.parser, k)
                  [] OTHER -> ReadOutside(k)
           done == so.done \o r.done
           out == IF r.done = <<>> THEN so.out ELSE <<r.done[1]>>
<1>1. Pending(so.parser) BY DEF Feeding
<1>2. r \in Readings
  <2>1. CASE so.parser.mode = "net" BY <1>1, <2>1, NetReads
  <2>2. CASE so.parser.mode = "python" BY <1>1, <2>2, PythonReads
  <2>3. CASE so.parser.mode \notin {"net", "python"} BY <2>3, OutsideReads
  <2> QED BY <2>1, <2>2, <2>3
<1>3. ProcessLine(so, k) = [parser |-> r.parser, done |-> done, out |-> out] BY DEF ProcessLine
<1> HIDE DEF r
<1>4. r.parser \in Parser /\ Pending(r.parser) /\ r.done \in Seq(Detections)
  BY <1>2 DEF Readings
<1>5. so.done \in Seq(Detections) /\ so.out \in Seq(Detections) BY DEF Feeding
<1>6. done \in Seq(Detections) BY <1>4, <1>5, ConcatProperties
<1>7. out \in Seq(Detections)
  <2>1. CASE r.done = <<>> BY <1>5, <2>1
  <2>2. CASE r.done # <<>>
    <3>1. 1 \in 1 .. Len(r.done) BY <1>4, <2>2, EmptySeq, LenProperties
    <3>2. r.done[1] \in Detections BY <1>4, <3>1, ElementOfSeq
    <3> QED BY <2>2, <3>2, Singleton
  <2> QED BY <2>1, <2>2
<1> HIDE DEF done, out
<1> QED BY <1>3, <1>4, <1>6, <1>7 DEF Feeding

LEMMA FlushFeeds == ASSUME NEW so \in Feeding PROVE FlushNet(so) \in Feeding
<1>1. CASE so.parser.mode # "net" BY <1>1 DEF FlushNet
<1>2. CASE so.parser.mode = "net"
  <2> DEFINE p == so.parser
             exc == [kind |-> "net", trace |-> p.lines]
             done == Append(so.done, exc)
             out == IF so.out = <<>> THEN <<exc>> ELSE so.out
  <2>1. Pending(p) /\ p \in Parser /\ p.lines # <<>> BY <1>2 DEF Feeding, Pending
  <2>2. p.lines \in Seq(Kinds) /\ Len(p.lines) \in 1 .. TracebackCap
    BY <2>1, ParserLines, EmptySeq, LenProperties
  <2>3. exc \in Detections BY <1>2, <2>1, <2>2 DEF Pending, Detections, Whole
  <2>4. so.done \in Seq(Detections) /\ so.out \in Seq(Detections) BY DEF Feeding
  <2>5. FlushNet(so) = [parser |-> Fresh, done |-> done, out |-> out] BY <1>2 DEF FlushNet
  <2> HIDE DEF exc
  <2>6. done \in Seq(Detections) BY <2>3, <2>4, AppendProperties
  <2>7. out \in Seq(Detections) BY <2>3, <2>4, Singleton
  <2> HIDE DEF done, out
  <2> QED BY <2>5, <2>6, <2>7, FreshIsPending DEF Feeding
<1> QED BY <1>1, <1>2

\* Whatever the parser holds, a line of any length leaves it so, and completes whole
\* exceptions only.
LEMMA LineFeeds ==
  ASSUME NEW p, Pending(p), NEW ln \in Line PROVE Feed(p, ln) \in Feeding
<1> DEFINE base == [parser |-> p, done |-> <<>>, out |-> <<>>]
           read == Fold(base, ln.body)
<1>1. base \in Feeding
  <2>1. <<>> \in Seq(Detections) /\ p \in Parser BY EmptySeq DEF Pending
  <2> QED BY <2>1 DEF Feeding
<1>2. ln.body \in Seq(Kinds) BY DEF Line
<1>3. Len(ln.body) \in Nat /\ DOMAIN ln.body = 1 .. Len(ln.body) BY <1>2, LenProperties
<1> HIDE DEF base
<1>4. \A so \in Feeding, i \in 1 .. Len(ln.body) : ProcessLine(so, ln.body[i]) \in Feeding
  <2>1. \A i \in 1 .. Len(ln.body) : ln.body[i] \in Kinds BY <1>2, ElementOfSeq
  <2> QED BY <2>1, ProcessLineFeeds
<1>5. read \in Feeding BY <1>1, <1>3, <1>4, FoldLeftKeeps
<1>6. FoldLeft(ProcessLine, base, ln.body) = read BY DEF Fold, FoldLeft, MapThenFoldSet
<1> HIDE DEF read
<1>7. Feed(p, ln) = IF ln.json /\ (Len(ln.body) > 1 \/ read.out = <<>>)
                    THEN FlushNet(read) ELSE read
  BY <1>6 DEF Feed, base
<1> QED BY <1>5, <1>7, FlushFeeds
-----------------------------------------------------------------------------
(* The parsers of all threads.                                             *)

BridgeInv == TypeOK /\ \A s \in Services : Pending(parser[s])

\* A step that reads no line, goes to some label and keeps the other variables in range.
LEMMA ParsersKept ==
  ASSUME BridgeInv, parser' = parser, pc' \in [Services -> Labels],
         answer' \in [Services -> SUBSET Services],
         allow' \in SUBSET Services, enabled' \in SUBSET Services, ever' \in SUBSET Services,
         due' \in BOOLEAN, stopping' \in BOOLEAN, stored' \in Nat,
         redisFailures' \in 0 .. MaxRedisFailures
  PROVE  BridgeInv'
BY DEF BridgeInv, TypeOK, Labels

LEMMA GotoLabel ==
  ASSUME BridgeInv, NEW s \in Services, NEW label \in Labels, Goto(s, label)
  PROVE  pc' \in [Services -> Labels]
BY DEF BridgeInv, TypeOK, Labels, Goto

LEMMA InitBridge == Init => BridgeInv
<1> SUFFICES ASSUME Init PROVE BridgeInv OBVIOUS
<1>1. Fresh \in Parser /\ Pending(Fresh) BY FreshIsPending
<1>2. TypeOK
  <2>1. MaxRedisFailures \in Nat BY LogBridgeAssumption
  <2>2. parser \in [Services -> Parser] BY <1>1 DEF Init
  <2>3. /\ pc \in [Services -> Labels] /\ answer \in [Services -> SUBSET Services]
        /\ redisFailures \in 0 .. MaxRedisFailures /\ stored \in Nat
    BY <2>1 DEF Init, Labels
  <2>4. /\ allow \in SUBSET Services /\ enabled \in SUBSET Services /\ ever \in SUBSET Services
        /\ due \in BOOLEAN /\ stopping \in BOOLEAN
    BY DEF Init
  <2> QED BY <2>2, <2>3, <2>4 DEF TypeOK, Labels
<1>3. \A s \in Services : Pending(parser[s]) BY <1>1 DEF Init
<1> QED BY <1>2, <1>3 DEF BridgeInv

LEMMA HandleLineKeepsParsers ==
  ASSUME BridgeInv, NEW s \in Services, NEW ln \in Lines, HandleLine(s, ln) PROVE BridgeInv'
<1> DEFINE fed == Feed(parser[s], ln)
<1>1. fed \in Feeding
  <2>1. Pending(parser[s]) /\ ln \in Line BY LogBridgeAssumption DEF BridgeInv
  <2> QED BY <2>1, LineFeeds
<1>2. /\ parser' = [parser EXCEPT ![s] = fed.parser]
      /\ Goto(s, "push") \/ Goto(s, "refresh")
      /\ UNCHANGED <<answer, allow, due, stored, stopping, enabled, ever, redisFailures>>
  BY DEF HandleLine
<1> HIDE DEF fed
<1>3. fed.parser \in Parser /\ Pending(fed.parser) BY <1>1 DEF Feeding
<1>4. parser \in [Services -> Parser] BY DEF BridgeInv, TypeOK
<1>5. parser' \in [Services -> Parser] BY <1>2, <1>3, <1>4
<1>6. \A t \in Services : Pending(parser'[t])
  <2>1. \A t \in Services : parser'[t] = IF t = s THEN fed.parser ELSE parser[t] BY <1>2, <1>4
  <2> QED BY <1>3, <2>1 DEF BridgeInv
<1>7. pc' \in [Services -> Labels] BY <1>2, GotoLabel DEF Labels
<1>8. TypeOK' BY <1>2, <1>5, <1>7 DEF BridgeInv, TypeOK, Labels
<1> QED BY <1>6, <1>8 DEF BridgeInv

LEMMA ThreadKeepsParsers ==
  ASSUME BridgeInv, NEW s \in Services,
         \/ Connect(s) \/ StreamEnds(s) \/ Leave(s)
         \/ SkipRefresh(s) \/ FetchTargets(s) \/ FetchFails(s) \/ StoreTargets(s)
         \/ CheckTarget(s) \/ IngestException(s)
         \/ Push(s) \/ Trim(s) \/ RedisFails(s)
  PROVE  BridgeInv'
<1>1. pc' \in [Services -> Labels]
  <2>1. \E label \in Labels : Goto(s, label)
    BY DEF Connect, StreamEnds, Leave, SkipRefresh, FetchTargets, FetchFails, StoreTargets,
           CheckTarget, IngestException, Push, Trim, RedisFails, Labels
  <2> QED BY <2>1, GotoLabel
<1>2. /\ answer \in [Services -> SUBSET Services] /\ stored \in Nat
      /\ redisFailures \in 0 .. MaxRedisFailures /\ MaxRedisFailures \in Nat /\ MaxStored \in Nat
      /\ allow \in SUBSET Services /\ enabled \in SUBSET Services /\ ever \in SUBSET Services
      /\ due \in BOOLEAN /\ stopping \in BOOLEAN
  BY LogBridgeAssumption DEF BridgeInv, TypeOK
<1>3. answer' \in [Services -> SUBSET Services] /\ allow' \in SUBSET Services
  BY <1>2 DEF Connect, StreamEnds, Leave, SkipRefresh, FetchTargets, FetchFails, StoreTargets,
              CheckTarget, IngestException, Push, Trim, RedisFails
<1>4. stored' \in Nat /\ redisFailures' \in 0 .. MaxRedisFailures
  BY <1>2 DEF Connect, StreamEnds, Leave, SkipRefresh, FetchTargets, FetchFails, StoreTargets,
              CheckTarget, IngestException, Push, Trim, Trimmed, RedisFails
<1>5. /\ UNCHANGED <<parser, stopping, enabled, ever>> /\ due' \in BOOLEAN
  BY <1>2 DEF Connect, StreamEnds, Leave, SkipRefresh, FetchTargets, FetchFails, StoreTargets,
              CheckTarget, IngestException, Push, Trim, RedisFails
<1> QED BY <1>1, <1>2, <1>3, <1>4, <1>5, ParsersKept

LEMMA NextKeepsParsers == BridgeInv /\ [Next]_vars => BridgeInv'
<1> SUFFICES ASSUME BridgeInv, [Next]_vars PROVE BridgeInv' OBVIOUS
<1>1. CASE \/ \E selection \in SUBSET Services : UpsertTargets(selection)
           \/ RefreshDue \/ Shutdown \/ UNCHANGED vars
  BY <1>1 DEF UpsertTargets, RefreshDue, Shutdown, vars, BridgeInv, TypeOK
<1> QED BY <1>1, HandleLineKeepsParsers, ThreadKeepsParsers DEF Next

LEMMA BridgeInvariant == Spec => []BridgeInv
BY InitBridge, NextKeepsParsers, PTL DEF Spec

\* No sequence of lines makes a parser hold more than the cap.
THEOREM TypeCorrect == Spec => []TypeOK
<1>1. BridgeInv => TypeOK BY DEF BridgeInv
<1> QED BY <1>1, BridgeInvariant, PTL

\* Whatever lines the parser has read, in text or JSON of any length, and however often its
\* container was connected to again, what the next line completes is whole.
THEOREM DetectionsWhole == Spec => []DetectionsAreWhole
<1>1. BridgeInv => DetectionsAreWhole
  <2> SUFFICES ASSUME BridgeInv, NEW s \in Services, NEW ln \in Lines
               PROVE  LET done == Feed(parser[s], ln).done
                      IN  \A k \in DOMAIN done : Whole(done[k])
    BY DEF DetectionsAreWhole
  <2> DEFINE done == Feed(parser[s], ln).done
  <2>1. Pending(parser[s]) /\ ln \in Line BY LogBridgeAssumption DEF BridgeInv
  <2>2. done \in Seq(Detections) BY <2>1, LineFeeds DEF Feeding
  <2> HIDE DEF done
  <2>3. \A k \in DOMAIN done : done[k] \in Detections BY <2>2, ElementOfSeq, LenProperties
  <2>4. \A k \in DOMAIN done : Whole(done[k]) BY <2>3 DEF Detections
  <2> QED BY <2>4 DEF done
<1> QED BY <1>1, BridgeInvariant, PTL
=============================================================================
