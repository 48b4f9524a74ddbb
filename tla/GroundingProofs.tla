-------------------------- MODULE GroundingProofs --------------------------
(***************************************************************************)
(* Proofs about Grounding, for traces of any length, any files and numbers *)
(* of lines, and every number of frames and context lines.                 *)
(***************************************************************************)
EXTENDS Grounding, FiniteSetTheorems, TLAPS

-----------------------------------------------------------------------------
(* The items of a sequence at some places.                                 *)

Rank(K, k) == Cardinality({j \in K : j <= k})
Nth(K, i) == CHOOSE k \in K : Rank(K, k) = i

\* The places of items of some sequence.
Places(K) == \E n \in Nat : K \in SUBSET (1 .. n)

LEMMA PlacesIn ==
  ASSUME NEW n \in Nat, NEW K \in SUBSET (1 .. n)
  PROVE  Places(K) /\ IsFiniteSet(K) /\ Cardinality(K) \in Nat /\ Cardinality(K) <= n
<1>1. IsFiniteSet(1 .. n) /\ Cardinality(1 .. n) = n BY FS_Interval
<1> QED BY <1>1, FS_Subset, FS_CardinalityType DEF Places

LEMMA PlacesFinite ==
  ASSUME NEW K, Places(K)
  PROVE  K \in SUBSET Nat /\ IsFiniteSet(K) /\ Cardinality(K) \in Nat
<1>1. PICK n \in Nat : K \in SUBSET (1 .. n) BY DEF Places
<1>2. K \in SUBSET Nat BY <1>1
<1> QED BY <1>1, <1>2, PlacesIn

LEMMA PlacesPart ==
  ASSUME NEW K, Places(K), NEW L \in SUBSET K
  PROVE  Places(L)
BY DEF Places

\* The place of an item among the others: later ones have a higher rank.
LEMMA Ranks ==
  ASSUME NEW K, Places(K), NEW k \in K
  PROVE  /\ Rank(K, k) \in 1 .. Cardinality(K)
         /\ \A j \in K : j < k => Rank(K, j) < Rank(K, k)
<1> DEFINE Upto(j) == {i \in K : i <= j}
<1>1. IsFiniteSet(K) /\ Cardinality(K) \in Nat BY PlacesFinite
<1>2. \A j \in K : /\ IsFiniteSet(Upto(j)) /\ Cardinality(Upto(j)) \in Nat
                   /\ Cardinality(Upto(j)) <= Cardinality(K)
  <2> TAKE j \in K
  <2>1. Upto(j) \in SUBSET K OBVIOUS
  <2> HIDE DEF Upto
  <2> QED BY <1>1, <2>1, FS_Subset, FS_CardinalityType
<1>3. Cardinality(Upto(k)) # 0
  <2>1. k \in Upto(k) BY PlacesFinite
  <2> HIDE DEF Upto
  <2> QED BY <1>2, <2>1, FS_EmptySet
<1>4. ASSUME NEW j \in K, j < k PROVE Cardinality(Upto(j)) < Cardinality(Upto(k))
  <2>1. Upto(j) \in SUBSET Upto(k) /\ k \in Upto(k) /\ k \notin Upto(j)
    <3>1. \A i \in K : i \in Nat BY PlacesFinite
    <3>2. \A i \in K : i <= j => i <= k BY <1>4, <3>1
    <3>3. k <= k /\ ~ (k <= j) BY <1>4, <3>1
    <3> QED BY <3>2, <3>3
  <2> HIDE DEF Upto
  <2>2. Cardinality(Upto(j)) <= Cardinality(Upto(k)) /\ Cardinality(Upto(j)) # Cardinality(Upto(k))
    BY <1>2, <2>1, FS_Subset
  <2> QED BY <1>2, <2>2
<1> HIDE DEF Upto
<1>5. \A j \in K : Rank(K, j) = Cardinality(Upto(j)) BY DEF Rank, Upto
<1> QED BY <1>1, <1>2, <1>3, <1>4, <1>5

\* Every rank is the rank of one item: the ranks are as many as the items.
LEMMA Nths ==
  ASSUME NEW K, Places(K)
  PROVE  /\ \A i \in 1 .. Cardinality(K) : Nth(K, i) \in K /\ Rank(K, Nth(K, i)) = i
         /\ \A k \in K : Nth(K, Rank(K, k)) = k
<1> DEFINE c == Cardinality(K)
           f == [k \in K |-> Rank(K, k)]
<1>1. IsFiniteSet(K) /\ c \in Nat BY PlacesFinite
<1>2. \A j, k \in K : Rank(K, j) = Rank(K, k) => j = k
  <2> TAKE j, k \in K
  <2>1. Rank(K, j) \in 1 .. c /\ Rank(K, k) \in 1 .. c /\ j \in Nat /\ k \in Nat BY Ranks, PlacesFinite
  <2>2. j < k => Rank(K, j) < Rank(K, k) BY Ranks
  <2>3. k < j => Rank(K, k) < Rank(K, j) BY Ranks
  <2> HIDE DEF c
  <2> QED BY <1>1, <2>1, <2>2, <2>3
<1>3. f \in Injection(K, 1 .. c)
  <2>1. f \in [K -> 1 .. c] BY Ranks
  <2>2. \A j, k \in K : f[j] = f[k] => j = k BY <1>2
  <2> HIDE DEF f, c
  <2> QED BY <2>1, <2>2 DEF Injection, IsInjective
<1>4. IsFiniteSet(1 .. c) /\ Cardinality(1 .. c) = c BY <1>1, FS_Interval
<1>5. f \in Surjection(K, 1 .. c)
  <2> HIDE DEF f
  <2> QED BY <1>3, <1>4, FS_Injection
<1>6. \A i \in 1 .. c : \E k \in K : Rank(K, k) = i
  <2>1. \A i \in 1 .. c : \E k \in K : f[k] = i
    <3> HIDE DEF f, c
    <3> QED BY <1>5 DEF Surjection
  <2> QED BY <2>1
<1>7. \A i \in 1 .. c : Nth(K, i) \in K /\ Rank(K, Nth(K, i)) = i BY <1>6 DEF Nth
<1>8. \A k \in K : Nth(K, Rank(K, k)) \in K /\ Rank(K, Nth(K, Rank(K, k))) = Rank(K, k)
  BY <1>7, Ranks
<1> QED BY <1>2, <1>7, <1>8

LEMMA KeptNth ==
  ASSUME NEW s, NEW K
  PROVE  Kept(s, K) = [i \in 1 .. Cardinality(K) |-> s[Nth(K, i)]]
BY DEF Kept, Nth, Rank

\* What is kept is what was at these places, and nothing else.
LEMMA KeptAt ==
  ASSUME NEW s, NEW K, Places(K)
  PROVE  \A k \in K : Rank(K, k) \in DOMAIN Kept(s, K) /\ Kept(s, K)[Rank(K, k)] = s[k]
<1> DEFINE t == Kept(s, K)
<1>1. t = [i \in 1 .. Cardinality(K) |-> s[Nth(K, i)]] BY KeptNth
<1>2. \A k \in K : Rank(K, k) \in 1 .. Cardinality(K) /\ Nth(K, Rank(K, k)) = k BY Ranks, Nths
<1> HIDE DEF t
<1>3. \A k \in K : Rank(K, k) \in DOMAIN t /\ t[Rank(K, k)] = s[k] BY <1>1, <1>2
<1> QED BY <1>3 DEF t

\* Every item that is kept stood at the place of its rank.
LEMMA KeptFrom ==
  ASSUME NEW s, NEW K, Places(K)
  PROVE  \A i \in DOMAIN Kept(s, K) :
           Nth(K, i) \in K /\ Rank(K, Nth(K, i)) = i /\ Kept(s, K)[i] = s[Nth(K, i)]
<1> DEFINE t == Kept(s, K)
<1>1. t = [i \in 1 .. Cardinality(K) |-> s[Nth(K, i)]] BY KeptNth
<1>2. \A i \in 1 .. Cardinality(K) : Nth(K, i) \in K /\ Rank(K, Nth(K, i)) = i BY Nths
<1> HIDE DEF t
<1>3. \A i \in DOMAIN t : Nth(K, i) \in K /\ Rank(K, Nth(K, i)) = i /\ t[i] = s[Nth(K, i)]
  BY <1>1, <1>2
<1> QED BY <1>3 DEF t

\* The places of L in what is kept at the places of K.
Inner(K, L) == {i \in 1 .. Cardinality(K) : Nth(K, i) \in L}

\* The rank of an item that is kept twice.
LEMMA RankTwice ==
  ASSUME NEW K, Places(K), NEW L \in SUBSET K, NEW k \in L
  PROVE  Rank(Inner(K, L), Rank(K, k)) = Rank(L, k)
<1> DEFINE I == {i \in 1 .. Cardinality(K) : Nth(K, i) \in L}
           S == {j \in L : j <= k}
           T == {i \in I : i <= Rank(K, k)}
           f == [j \in S |-> Rank(K, j)]
<1>1. \A j \in K : Rank(K, j) \in 1 .. Cardinality(K) /\ Nth(K, Rank(K, j)) = j BY Ranks, Nths
<1>2. \A i \in 1 .. Cardinality(K) : Nth(K, i) \in K /\ Rank(K, Nth(K, i)) = i BY Nths
<1>3. \A j \in K : j < k => Rank(K, j) < Rank(K, k) BY Ranks
<1>4. \A j \in K : k < j => Rank(K, k) < Rank(K, j)
  <2> TAKE j \in K
  <2> QED BY Ranks
<1>5. Cardinality(K) \in Nat BY PlacesFinite
<1>6. f \in [S -> T]
  <2> SUFFICES ASSUME NEW j \in S PROVE Rank(K, j) \in T OBVIOUS
  <2>1. j \in K /\ k \in K /\ j \in Nat /\ k \in Nat /\ j <= k BY PlacesFinite
  <2>2. Rank(K, j) \in I BY <1>1, <2>1
  <2>3. Rank(K, j) <= Rank(K, k) BY <1>1, <1>3, <1>5, <2>1
  <2> QED BY <2>2, <2>3
<1>7. \A i, j \in S : f[i] = f[j] => i = j BY <1>1
<1>8. \A i \in T : \E j \in S : f[j] = i
  <2> SUFFICES ASSUME NEW i \in T PROVE Nth(K, i) \in S /\ Rank(K, Nth(K, i)) = i OBVIOUS
  <2>1. Nth(K, i) \in L /\ Nth(K, i) \in K /\ Rank(K, Nth(K, i)) = i BY <1>2
  <2>2. Nth(K, i) \in Nat /\ k \in K /\ k \in Nat BY <2>1, PlacesFinite
  <2>3. ~ (k < Nth(K, i))
    <3>1. k < Nth(K, i) => Rank(K, k) < i BY <1>4, <2>1
    <3>2. i <= Rank(K, k) /\ i \in 1 .. Cardinality(K) OBVIOUS
    <3>3. Rank(K, k) \in 1 .. Cardinality(K) BY <1>1, <2>2
    <3> QED BY <1>5, <3>1, <3>2, <3>3
  <2> QED BY <2>1, <2>2, <2>3
<1>9. IsFiniteSet(S)
  <2>1. S \in SUBSET K OBVIOUS
  <2> HIDE DEF S
  <2> QED BY <2>1, PlacesFinite, FS_Subset
<1>10. Rank(L, k) = Cardinality(S) /\ Rank(I, Rank(K, k)) = Cardinality(T) BY DEF Rank
<1>11. I = Inner(K, L) BY DEF Inner
<1> HIDE DEF I, S, T, f
<1>12. f \in Bijection(S, T)
  BY <1>6, <1>7, <1>8 DEF Bijection, Injection, IsInjective, Surjection
<1>13. Cardinality(S) = Cardinality(T) BY <1>9, <1>12, FS_Bijection DEF ExistsBijection
<1> QED BY <1>10, <1>13, <1>11

\* To keep some of what is kept is to keep it at once.
LEMMA KeptTwice ==
  ASSUME NEW s, NEW K, Places(K), NEW L \in SUBSET K
  PROVE  Kept(Kept(s, K), Inner(K, L)) = Kept(s, L)
<1> DEFINE I == {i \in 1 .. Cardinality(K) : Nth(K, i) \in L}
           t == Kept(s, K)
           u == Kept(t, I)
           v == Kept(s, L)
           c == Cardinality(K)
<1>1. I \in SUBSET (1 .. c) /\ c \in Nat /\ Places(I) /\ Places(L)
  <2>1. I \in SUBSET (1 .. c) OBVIOUS
  <2> HIDE DEF I
  <2> QED BY <2>1, PlacesFinite, PlacesIn, PlacesPart
<1>2. t = [i \in 1 .. c |-> s[Nth(K, i)]] BY KeptNth
<1>3. v = [i \in 1 .. Cardinality(L) |-> s[Nth(L, i)]] BY KeptNth
<1>4. u = [i \in 1 .. Cardinality(I) |-> t[Nth(I, i)]]
  <2> HIDE DEF t
  <2> QED BY KeptNth
<1>5. \A i \in I : i \in 1 .. c /\ Nth(K, i) \in L BY <1>1
<1>6. I = Inner(K, L) BY DEF Inner
<1>7. \A k \in L : /\ Rank(K, k) \in I /\ Nth(K, Rank(K, k)) = k
                   /\ Rank(I, Rank(K, k)) = Rank(L, k)
  <2> TAKE k \in L
  <2>1. Rank(K, k) \in I /\ Nth(K, Rank(K, k)) = k BY Ranks, Nths
  <2> HIDE DEF I
  <2>2. Rank(I, Rank(K, k)) = Rank(L, k) BY <1>6, RankTwice
  <2> QED BY <2>1, <2>2
<1> HIDE DEF I, t, u, v, c
<1>8. \A i \in 1 .. Cardinality(I) : i \in 1 .. Cardinality(L) /\ u[i] = v[i]
  <2> TAKE i \in 1 .. Cardinality(I)
  <2> DEFINE k == Nth(K, Nth(I, i))
  <2>1. Nth(I, i) \in I /\ Rank(I, Nth(I, i)) = i BY <1>1, Nths
  <2>2. k \in L /\ Nth(I, i) \in 1 .. c BY <1>5, <2>1
  <2>3. Rank(K, k) = Nth(I, i) BY <2>2, Nths DEF c
  <2> HIDE DEF k
  <2>4. Rank(L, k) = i BY <1>7, <2>1, <2>2, <2>3
  <2>5. Rank(L, k) \in 1 .. Cardinality(L) /\ Nth(L, Rank(L, k)) = k BY <1>1, <2>2, Ranks, Nths
  <2>6. u[i] = s[k] BY <1>2, <1>4, <2>2 DEF k
  <2>7. v[i] = s[k] BY <1>3, <2>4, <2>5
  <2> QED BY <2>4, <2>5, <2>6, <2>7
<1>9. \A i \in 1 .. Cardinality(L) : i \in 1 .. Cardinality(I)
  <2> TAKE i \in 1 .. Cardinality(L)
  <2>1. Nth(L, i) \in L /\ Rank(L, Nth(L, i)) = i BY <1>1, Nths
  <2>2. Rank(K, Nth(L, i)) \in I /\ Rank(I, Rank(K, Nth(L, i))) = i BY <1>7, <2>1
  <2> QED BY <1>1, <2>2, Ranks
<1>10. 1 .. Cardinality(I) = 1 .. Cardinality(L) BY <1>8, <1>9
<1>11. u = v BY <1>3, <1>4, <1>8, <1>10
<1> QED BY <1>6, <1>11 DEF t, u, v

\* What is kept of a sequence is a sequence.
LEMMA KeptSeq ==
  ASSUME NEW s, NEW K, Places(K), NEW S, \A k \in K : s[k] \in S
  PROVE  Kept(s, K) \in Seq(S) /\ Len(Kept(s, K)) = Cardinality(K)
<1> DEFINE t == Kept(s, K)
<1>1. t = [i \in 1 .. Cardinality(K) |-> s[Nth(K, i)]] BY KeptNth
<1>2. Cardinality(K) \in Nat BY PlacesFinite
<1>3. \A i \in 1 .. Cardinality(K) : s[Nth(K, i)] \in S BY Nths
<1> HIDE DEF t
<1>4. t \in Seq(S) /\ Len(t) = Cardinality(K) BY <1>1, <1>2, <1>3
<1> QED BY <1>4 DEF t
-----------------------------------------------------------------------------
(* The parser and the filter.                                              *)

Located(line) == line.form \in {"dotnet", "python"} /\ line.file # NoFile

Frames == [language : {"dotnet", "python", "nodejs", "java"},
           file : Files \cup {Foreign, NoFile}, number : Nat, user : BOOLEAN]

LEMMA LineFields ==
  ASSUME NEW line \in Lines
  PROVE  /\ line.form \in {"dotnet", "python", "nodejs", "java", "text"}
         /\ line.origin \in {"app", "library", "framework"}
         /\ line.file \in Files \cup {Foreign, NoFile} /\ line.number \in Nat \ {0}
<1>1. \/ line \in Line("dotnet", "app", Files, Numbers) \cup Line("python", "app", Files, Numbers)
      \/ line \in Line("nodejs", "app", Preferred, {1}) \cup Line("java", "app", Preferred, {1})
      \/ \E origin \in {"library", "framework"} : line \in Line("dotnet", origin, {NoFile}, {1})
      \/ \E origin \in {"library", "framework"} : line \in Line("python", origin, {Foreign}, {1})
      \/ line \in Line("text", "app", {NoFile}, {1})
  BY DEF Lines
<1>2. /\ Numbers \subseteq Nat \ {0} /\ 1 \in Nat \ {0} /\ Preferred \subseteq Files
  BY GroundingAssumption
<1> QED BY <1>1, <1>2 DEF Line

LEMMA MinOf ==
  ASSUME NEW T \in SUBSET Int, NEW m \in T, \A j \in T : m <= j
  PROVE  Min(T) = m
<1>1. \A i \in T : (\A j \in T : i <= j) => i = m OBVIOUS
<1> QED BY <1>1 DEF Min

LEMMA FrameOf ==
  ASSUME NEW language \in {"dotnet", "python", "nodejs", "java"}, NEW line \in Lines,
         NEW file \in Files \cup {Foreign, NoFile}, NEW user \in BOOLEAN
  PROVE  LET frame == Frame(language, line, file, user) IN
         /\ frame \in Frames /\ frame # NoFrame
         /\ frame.file = file /\ frame.number = line.number /\ frame.user = user
<1>1. line.number \in Nat BY LineFields
<1>2. Frame(language, line, file, user).language # NoFrame.language BY DEF Frame, NoFrame
<1> QED BY <1>1, <1>2 DEF Frame, Frames

\* The first parser that matches a line: its frame is located where the line is, unless
\* the .NET expression has taken a line that is not its own.
LEMMA ParsedLine ==
  ASSUME NEW line \in Lines
  PROVE  LET frame == ParseLine(line) IN
         /\ line.form = "text" => frame = NoFrame
         /\ line.form # "text" =>
              /\ frame \in Frames /\ frame # NoFrame
              /\ frame.user = LooksLikeUser(line) /\ frame.number = line.number
              /\ frame.file = IF Located(line) THEN line.file ELSE NoFile
<1> DEFINE tries == <<TryDotnet(line), TryPython(line), TryNodejs(line), TryJava(line)>>
           hits == {k \in DOMAIN tries : tries[k] # NoFrame}
<1>1. ParseLine(line) = IF hits = {} THEN NoFrame ELSE tries[Min(hits)] BY DEF ParseLine
<1>2. DOMAIN tries = 1 .. 4 OBVIOUS
<1>3. /\ line.form \in {"dotnet", "python", "nodejs", "java", "text"}
      /\ line.file \in Files \cup {Foreign, NoFile}
  BY LineFields
<1>4. CASE line.form = "text"
  <2>1. /\ TryDotnet(line) = NoFrame /\ TryPython(line) = NoFrame
        /\ TryNodejs(line) = NoFrame /\ TryJava(line) = NoFrame
    BY <1>4 DEF TryDotnet, TryPython, TryNodejs, TryJava
  <2>2. \A k \in 1 .. 4 : tries[k] = NoFrame BY <2>1
  <2>3. hits = {} BY <1>2, <2>2
  <2> QED BY <1>1, <1>4, <2>3
<1>5. CASE line.form = "python"
  <2> DEFINE user == line.origin # "framework"
             frame == Frame("python", line, line.file, user)
  <2>1. TryDotnet(line) = NoFrame /\ TryPython(line) = frame
    BY <1>5 DEF TryDotnet, TryPython
  <2>2. user \in BOOLEAN /\ user = LooksLikeUser(line) BY <1>5 DEF LooksLikeUser
  <2> HIDE DEF user
  <2>3. frame \in Frames /\ frame # NoFrame BY <1>3, <2>2, FrameOf
  <2>4. frame.file = line.file /\ frame.number = line.number /\ frame.user = user
    BY <1>3, <2>2, FrameOf
  <2> HIDE DEF frame
  <2>5. tries[1] = NoFrame /\ tries[2] = frame BY <2>1
  <2>6. 2 \in hits /\ \A k \in hits : 2 <= k /\ k \in Int BY <1>2, <2>3, <2>5
  <2>7. hits # {} /\ Min(hits) = 2
    <3> HIDE DEF hits
    <3> QED BY <2>6, MinOf
  <2>8. ParseLine(line) = frame BY <1>1, <2>5, <2>7
  <2>9. Located(line) => frame.file = line.file BY <2>4
  <2>10. ~ Located(line) => frame.file = NoFile BY <1>5, <2>4 DEF Located
  <2> QED BY <1>5, <2>2, <2>3, <2>4, <2>8, <2>9, <2>10
<1>6. CASE line.form \in {"dotnet", "nodejs", "java"}
  <2> DEFINE file == IF line.form = "dotnet" THEN line.file ELSE NoFile
             user == ~ (line.form = "dotnet" /\ line.origin = "framework")
             frame == Frame("dotnet", line, file, user)
  <2>1. TryDotnet(line) = frame BY <1>6 DEF TryDotnet
  <2>2. file \in Files \cup {Foreign, NoFile} /\ user \in BOOLEAN BY <1>3
  <2>3. file = (IF Located(line) THEN line.file ELSE NoFile) /\ user = LooksLikeUser(line)
    BY <1>6 DEF Located, LooksLikeUser
  <2> HIDE DEF file, user
  <2>4. frame \in Frames /\ frame # NoFrame BY <2>2, FrameOf
  <2>5. frame.file = file /\ frame.number = line.number /\ frame.user = user BY <2>2, FrameOf
  <2> HIDE DEF frame
  <2>6. tries[1] = frame BY <2>1
  <2>7. 1 \in hits /\ \A k \in hits : 1 <= k /\ k \in Int BY <1>2, <2>4, <2>6
  <2>8. hits # {} /\ Min(hits) = 1
    <3> HIDE DEF hits
    <3> QED BY <2>7, MinOf
  <2>9. ParseLine(line) = frame BY <1>1, <2>6, <2>8
  <2> QED BY <1>6, <2>3, <2>4, <2>5, <2>9
<1> QED BY <1>3, <1>4, <1>5, <1>6

\* The places of the lines of user code, and which of them are near.
UserPlaces(lines) == {k \in DOMAIN lines : LooksLikeUser(lines[k])}

Near(lines) ==
  {k \in UserPlaces(lines) : Located(lines[k]) /\ Rank(UserPlaces(lines), k) <= MaxFrames}

\* A located line is near when it is among the first MaxFrames lines of user code.
LEMMA NearRanks ==
  ASSUME NEW n \in Nat, trace \in [1 .. n -> Lines]
  PROVE  NearLines = Near(trace)
<1> DEFINE U == UserPlaces(trace)
<1>1. DOMAIN trace = 1 .. n /\ U \in SUBSET (1 .. n) BY DEF UserPlaces
<1>2. ASSUME NEW k \in U
      PROVE  Rank(U, k) <= MaxFrames <=> Cardinality({j \in 1 .. k - 1 : LooksLikeUser(trace[j])}) < MaxFrames
  <2> DEFINE before == {j \in 1 .. k - 1 : LooksLikeUser(trace[j])}
  <2>1. k \in 1 .. n /\ LooksLikeUser(trace[k]) BY <1>2 DEF UserPlaces
  <2>2. {j \in U : j <= k} = before \cup {k}
    <3>1. \A j \in 1 .. n : j <= k <=> (j \in 1 .. k - 1 \/ j = k) BY <2>1
    <3>2. \A j \in 1 .. k - 1 : j \in 1 .. n BY <2>1
    <3>3. \A j : j \in U <=> j \in 1 .. n /\ LooksLikeUser(trace[j]) BY <1>1 DEF UserPlaces
    <3> HIDE DEF U
    <3> QED BY <2>1, <3>1, <3>2, <3>3
  <2>3. before \in SUBSET (1 .. n) /\ k \notin before BY <2>1
  <2> HIDE DEF before
  <2>4. IsFiniteSet(before) /\ Cardinality(before) \in Nat BY <2>3, PlacesIn
  <2>5. Cardinality(before \cup {k}) = Cardinality(before) + 1 BY <2>3, <2>4, FS_AddElement
  <2>6. Rank(U, k) = Cardinality(before) + 1 BY <2>2, <2>5 DEF Rank
  <2>7. MaxFrames \in Nat BY GroundingAssumption
  <2> QED BY <2>4, <2>6, <2>7 DEF before
<1>3. \A k \in DOMAIN trace : k \in U <=> LooksLikeUser(trace[k]) BY DEF UserPlaces
<1> HIDE DEF U
<1>4. \A k : k \in NearLines <=> k \in U /\ Located(trace[k]) /\ Rank(U, k) <= MaxFrames
  BY <1>1, <1>2, <1>3 DEF NearLines, Located
<1> QED BY <1>4 DEF Near, U

\* The frames of user code in the trace are those of its lines of user code, in their order.
LEMMA UserFramesOf ==
  ASSUME NEW n \in Nat, NEW lines \in [1 .. n -> Lines]
  PROVE  LET parsed == [k \in 1 .. n |-> ParseLine(lines[k])]
             frames == ParsedFrames(lines)
         IN /\ UserFrames(frames) = Kept(parsed, UserPlaces(lines))
            /\ frames \in Seq(Frames)
<1> DEFINE parsed == [k \in 1 .. n |-> ParseLine(lines[k])]
           P == {k \in 1 .. n : parsed[k] # NoFrame}
           U == UserPlaces(lines)
           frames == Kept(parsed, P)
           I == Inner(P, U)
<1>1. DOMAIN lines = 1 .. n OBVIOUS
<1>2. ParsedFrames(lines) = frames BY <1>1 DEF ParsedFrames
<1>3. P \in SUBSET (1 .. n) /\ Places(P)
  <2>1. P \in SUBSET (1 .. n) OBVIOUS
  <2> HIDE DEF P
  <2> QED BY <2>1, PlacesIn
<1>4. \A k \in 1 .. n : /\ k \in U <=> LooksLikeUser(lines[k])
                        /\ k \in P <=> lines[k].form # "text"
                        /\ k \in P => parsed[k] \in Frames /\ (parsed[k].user <=> k \in U)
  <2> TAKE k \in 1 .. n
  <2>1. lines[k] \in Lines /\ parsed[k] = ParseLine(lines[k]) OBVIOUS
  <2>2. k \in U <=> LooksLikeUser(lines[k]) BY <1>1 DEF UserPlaces
  <2>3. k \in P <=> parsed[k] # NoFrame OBVIOUS
  <2> HIDE DEF parsed, P, U
  <2> QED BY <2>1, <2>2, <2>3, ParsedLine
<1>5. U \in SUBSET P
  <2>1. \A k \in U : k \in 1 .. n /\ LooksLikeUser(lines[k]) BY <1>1 DEF UserPlaces
  <2>2. \A k \in U : lines[k].form # "text" BY <2>1 DEF LooksLikeUser
  <2> HIDE DEF U, P
  <2> QED BY <1>4, <2>1, <2>2
<1> HIDE DEF parsed, P, U
<1>6. frames \in Seq(Frames)
  <2>1. \A k \in P : parsed[k] \in Frames BY <1>3, <1>4
  <2> QED BY <1>3, <2>1, KeptSeq
<1>7. {i \in DOMAIN frames : frames[i].user} = I
  <2>1. DOMAIN frames = 1 .. Cardinality(P) BY <1>3, KeptNth
  <2>2. \A i \in 1 .. Cardinality(P) : Nth(P, i) \in P /\ frames[i] = parsed[Nth(P, i)]
    <3>1. \A i \in DOMAIN Kept(parsed, P) : Nth(P, i) \in P /\ Kept(parsed, P)[i] = parsed[Nth(P, i)]
      BY <1>3, KeptFrom
    <3> QED BY <2>1, <3>1
  <2>3. \A i \in 1 .. Cardinality(P) : frames[i].user <=> Nth(P, i) \in U BY <1>3, <1>4, <2>2
  <2> HIDE DEF frames
  <2> QED BY <2>1, <2>3 DEF Inner
<1>8. UserFrames(frames) = Kept(frames, I) BY <1>7 DEF UserFrames
<1>9. Kept(frames, I) = Kept(parsed, U) BY <1>3, <1>5, KeptTwice
<1> QED BY <1>2, <1>6, <1>8, <1>9 DEF parsed, U

LEMMA TakeSeq ==
  ASSUME NEW S, NEW s \in Seq(S), NEW m \in Nat
  PROVE  /\ Take(s, m) \in Seq(S) /\ Len(Take(s, m)) <= m
         /\ \A i : i \in DOMAIN Take(s, m) <=> i \in 1 .. Len(s) /\ i <= m
         /\ \A i \in DOMAIN Take(s, m) : Take(s, m)[i] = s[i]
<1> DEFINE t == Take(s, m)
<1>1. CASE Len(s) <= m
  <2>1. t = s BY <1>1 DEF Take
  <2> HIDE DEF t
  <2>2. DOMAIN s = 1 .. Len(s) /\ Len(s) \in Nat OBVIOUS
  <2>3. \A i \in 1 .. Len(s) : i <= m BY <1>1, <2>2
  <2> QED BY <1>1, <2>1, <2>2, <2>3 DEF t
<1>2. CASE ~ (Len(s) <= m)
  <2>1. t = SubSeq(s, 1, m) BY <1>2 DEF Take
  <2> HIDE DEF t
  <2>2. Len(s) \in Nat /\ m < Len(s) BY <1>2
  <2>3. t \in Seq(S) /\ Len(t) = m /\ \A i \in 1 .. m : t[i] = s[i] BY <2>1, <2>2
  <2>4. DOMAIN t = 1 .. m BY <2>3
  <2>5. \A i : i \in 1 .. m <=> i \in 1 .. Len(s) /\ i <= m BY <2>2
  <2> QED BY <2>3, <2>4, <2>5 DEF t
<1> QED BY <1>1, <1>2

Joined(both, s, t) == both = s \o t

\* Every item of s is an item of t.
Among(s, t) == \A i \in DOMAIN s : \E j \in DOMAIN t : s[i] = t[j]

LEMMA JoinedItems ==
  ASSUME NEW S, NEW s \in Seq(S), NEW t \in Seq(S), NEW both, Joined(both, s, t)
  PROVE  /\ both \in Seq(S) /\ Among(s, both) /\ Among(t, both)
         /\ \A u : Among(s, u) /\ Among(t, u) => Among(both, u)
<1>1. /\ Len(s) \in Nat /\ DOMAIN s = 1 .. Len(s) /\ Len(t) \in Nat /\ DOMAIN t = 1 .. Len(t) OBVIOUS
<1>2. /\ both \in Seq(S) /\ DOMAIN both = 1 .. Len(s) + Len(t)
      /\ \A i \in 1 .. Len(s) + Len(t) : both[i] = IF i <= Len(s) THEN s[i] ELSE t[i - Len(s)]
  BY DEF Joined
<1>3. \A i \in DOMAIN both : \/ \E j \in DOMAIN s : both[i] = s[j]
                             \/ \E j \in DOMAIN t : both[i] = t[j]
  <2> TAKE i \in DOMAIN both
  <2>1. CASE i <= Len(s) BY <1>1, <1>2, <2>1
  <2>2. CASE ~ (i <= Len(s))
    <3>1. i - Len(s) \in DOMAIN t /\ both[i] = t[i - Len(s)] BY <1>1, <1>2, <2>2
    <3> QED BY <3>1
  <2> QED BY <2>1, <2>2
<1>4. \A j \in DOMAIN s : j \in DOMAIN both /\ both[j] = s[j] BY <1>1, <1>2
<1>5. \A j \in DOMAIN t : Len(s) + j \in DOMAIN both /\ both[Len(s) + j] = t[j]
  <2> TAKE j \in DOMAIN t
  <2>1. j \in 1 .. Len(t) BY <1>1
  <2>2. Len(s) + j \in 1 .. Len(s) + Len(t) /\ ~ (Len(s) + j <= Len(s)) /\ (Len(s) + j) - Len(s) = j
    BY <1>1, <2>1
  <2> QED BY <1>2, <2>2
<1>6. Among(s, both) /\ Among(t, both) BY <1>4, <1>5 DEF Among
<1>7. ASSUME NEW u, Among(s, u), Among(t, u) PROVE Among(both, u) BY <1>3, <1>7 DEF Among
<1> QED BY <1>2, <1>6, <1>7

\* What the stack parser returns: the frames of the first MaxFrames lines of user code, or
\* frames of no user code.
LEMMA ParsedStack ==
  ASSUME NEW n \in Nat, NEW lines \in [1 .. n -> Lines]
  PROVE  LET stack == ParseStackFrames(lines)
             U == UserPlaces(lines)
         IN /\ stack \in Seq(Frames) /\ Len(stack) <= MaxFrames
            /\ \A i \in DOMAIN stack : stack[i].user =>
                 \E k \in U : Rank(U, k) <= MaxFrames /\ stack[i] = ParseLine(lines[k])
            /\ \A k \in U : Rank(U, k) <= MaxFrames =>
                 \E i \in DOMAIN stack : stack[i] = ParseLine(lines[k])
<1> DEFINE parsed == [k \in 1 .. n |-> ParseLine(lines[k])]
           frames == ParsedFrames(lines)
           user == UserFrames(frames)
           U == UserPlaces(lines)
           stack == ParseStackFrames(lines)
<1>1. user = Kept(parsed, U) /\ frames \in Seq(Frames) BY UserFramesOf
<1>2. U \in SUBSET (1 .. n) /\ Places(U)
  <2>1. U \in SUBSET (1 .. n) BY DEF UserPlaces
  <2> HIDE DEF U
  <2> QED BY <2>1, PlacesIn
<1>3. \A k \in U  : parsed[k] = ParseLine(lines[k]) /\ lines[k] \in Lines /\ LooksLikeUser(lines[k])
  BY DEF UserPlaces
<1>4. \A k \in U : parsed[k] \in Frames /\ parsed[k].user
  BY <1>3, ParsedLine DEF LooksLikeUser
<1>5. stack = Take(IF user # <<>> THEN user ELSE frames, MaxFrames) BY DEF ParseStackFrames
<1>6. MaxFrames \in Nat \ {0} BY GroundingAssumption
<1> HIDE DEF parsed, frames, U
<1>7. user \in Seq(Frames) /\ Len(user) = Cardinality(U) BY <1>1, <1>2, <1>4, KeptSeq
<1>8. DOMAIN Kept(parsed, U) = 1 .. Len(user) BY <1>1, <1>7
<1>9. \A k \in U : Rank(U, k) \in 1 .. Len(user) /\ user[Rank(U, k)] = parsed[k]
  <2>1. \A k \in U : Rank(U, k) \in DOMAIN Kept(parsed, U)
                      /\ Kept(parsed, U)[Rank(U, k)] = parsed[k]
    BY <1>2, KeptAt
  <2> HIDE DEF user
  <2> QED BY <1>1, <1>8, <2>1
<1>10. \A i \in 1 .. Len(user) : /\ Nth(U, i) \in U /\ Rank(U, Nth(U, i)) = i
                                /\ user[i] = parsed[Nth(U, i)]
  <2>1. \A i \in DOMAIN Kept(parsed, U) : /\ Nth(U, i) \in U /\ Rank(U, Nth(U, i)) = i
                                          /\ Kept(parsed, U)[i] = parsed[Nth(U, i)]
    BY <1>2, KeptFrom
  <2> HIDE DEF user
  <2> QED BY <1>1, <1>8, <2>1
<1> HIDE DEF user, stack
<1>11. CASE user # <<>>
  <2>1. stack = Take(user, MaxFrames) BY <1>5, <1>11
  <2>2. /\ stack \in Seq(Frames) /\ Len(stack) <= MaxFrames
        /\ \A i : i \in DOMAIN stack <=> i \in 1 .. Len(user) /\ i <= MaxFrames
        /\ \A i \in DOMAIN stack : stack[i] = user[i]
    BY <1>6, <1>7, <2>1, TakeSeq
  <2>3. \A i \in DOMAIN stack :
          Nth(U, i) \in U /\ Rank(U, Nth(U, i)) <= MaxFrames /\ stack[i] = ParseLine(lines[Nth(U, i)])
    BY <1>3, <1>10, <2>2
  <2>4. \A k \in U : Rank(U, k) <= MaxFrames =>
          Rank(U, k) \in DOMAIN stack /\ stack[Rank(U, k)] = ParseLine(lines[k])
    BY <1>3, <1>9, <2>2
  <2> QED BY <2>2, <2>3, <2>4 DEF U, stack
<1>12. CASE user = <<>>
  <2>1. stack = Take(frames, MaxFrames) BY <1>5, <1>12
  <2>2. /\ stack \in Seq(Frames) /\ Len(stack) <= MaxFrames
        /\ \A i \in DOMAIN stack : i \in 1 .. Len(frames) /\ stack[i] = frames[i]
    BY <1>1, <1>6, <2>1, TakeSeq
  <2>3. Len(user) = 0 BY <1>12
  <2>4. \A k \in U : FALSE BY <1>9, <2>3
  <2>5. \A i \in 1 .. Len(frames) : ~ frames[i].user
    <3>1. UserFrames(frames) = <<>> BY <1>12 DEF user
    <3> DEFINE W == {i \in DOMAIN frames : frames[i].user}
    <3>2. Kept(frames, W) = <<>> BY <3>1 DEF UserFrames
    <3>3. Len(frames) \in Nat /\ DOMAIN frames = 1 .. Len(frames) BY <1>1
    <3>4. W \in SUBSET (1 .. Len(frames)) BY <3>3
    <3>5. \A i \in DOMAIN frames : frames[i].user => i \in W OBVIOUS
    <3> HIDE DEF W
    <3>6. Places(W) BY <3>3, <3>4, PlacesIn
    <3>7. \A i \in W : Rank(W, i) \in DOMAIN Kept(frames, W) BY <3>6, KeptAt
    <3>8. \A i \in W : FALSE BY <3>2, <3>7
    <3> QED BY <3>3, <3>5, <3>8
  <2> QED BY <2>2, <2>4, <2>5 DEF U, stack
<1> QED BY <1>11, <1>12

\* Of the frames it is given, the filter returns those of user code that have a file, each
\* of them and nothing else: the cut at MaxFrames and the fallback never lose or add one.
LEMMA FilterMembers ==
  ASSUME NEW frames \in Seq(Frames), Len(frames) <= MaxFrames
  PROVE  LET kept == FilterFrames(frames) IN
         /\ kept \in Seq(Frames)
         /\ \A i \in DOMAIN kept : kept[i].user /\ kept[i].file # NoFile
                                     /\ \E k \in DOMAIN frames : kept[i] = frames[k]
         /\ \A k \in DOMAIN frames : frames[k].user /\ frames[k].file # NoFile =>
              \E i \in DOMAIN kept : kept[i] = frames[k]
<1> DEFINE Q == {k \in DOMAIN frames : frames[k].user /\ frames[k].file # NoFile}
           qualifying == Kept(frames, Q)
           A == {k \in DOMAIN qualifying : ~ IsInternal(qualifying[k])}
           allowed == Kept(qualifying, A)
           preferred == {k \in DOMAIN allowed : allowed[k].file \in Preferred}
           others == DOMAIN allowed \ preferred
           first == Kept(allowed, preferred)
           rest == Kept(allowed, others)
           kept == FilterFrames(frames)
           n == Len(frames)
           c == Len(allowed)
<1>1. n \in Nat /\ DOMAIN frames = 1 .. n /\ Q \in SUBSET (1 .. n) OBVIOUS
<1>2. \A k \in Q : frames[k] \in Frames /\ frames[k].user /\ frames[k].file # NoFile OBVIOUS
<1>3. \A k \in DOMAIN frames : frames[k].user /\ frames[k].file # NoFile => k \in Q OBVIOUS
<1>4. kept = IF allowed = <<>> /\ qualifying # <<>> THEN Take(qualifying, FallbackFrames)
             ELSE Take(first \o rest, MaxFrames)
  BY DEF FilterFrames
<1> HIDE DEF Q, n, kept
<1>5. Places(Q) /\ Cardinality(Q) \in Nat /\ Cardinality(Q) <= n BY <1>1, PlacesIn
<1>6. /\ DOMAIN qualifying = 1 .. Cardinality(Q) /\ Cardinality(Q) \in Nat /\ Cardinality(Q) <= n
      /\ \A i \in 1 .. Cardinality(Q) : Nth(Q, i) \in Q /\ qualifying[i] = frames[Nth(Q, i)]
  <2>1. DOMAIN qualifying = 1 .. Cardinality(Q) BY KeptNth
  <2>2. Cardinality(Q) \in Nat /\ Cardinality(Q) <= n BY <1>5
  <2>3. \A i \in DOMAIN qualifying : Nth(Q, i) \in Q /\ qualifying[i] = frames[Nth(Q, i)]
    BY <1>5, KeptFrom
  <2> HIDE DEF qualifying
  <2> QED BY <2>1, <2>2, <2>3
<1>7. qualifying \in Seq(Frames) BY <1>5, <1>2, KeptSeq
<1> HIDE DEF qualifying
<1>8. A = Inner(Q, Q)
  <2>1. \A i \in 1 .. Cardinality(Q) : ~ IsInternal(qualifying[i]) BY <1>2, <1>6 DEF IsInternal
  <2> QED BY <1>6, <2>1 DEF Inner
<1>9. allowed = qualifying
  <2> HIDE DEF A
  <2> QED BY <1>5, <1>8, KeptTwice DEF qualifying
<1> HIDE DEF A, allowed
<1>10. /\ c \in Nat /\ c <= MaxFrames /\ DOMAIN allowed = 1 .. c /\ allowed \in Seq(Frames)
      /\ \A i \in 1 .. c : Nth(Q, i) \in Q /\ allowed[i] = frames[Nth(Q, i)]
  <2>1. c = Cardinality(Q) BY <1>6, <1>7, <1>9
  <2>2. n <= MaxFrames /\ MaxFrames \in Nat BY GroundingAssumption DEF n
  <2> QED BY <1>1, <1>6, <1>7, <1>9, <2>1, <2>2
<1>11. /\ preferred \in SUBSET (1 .. c) /\ others \in SUBSET (1 .. c)
       /\ preferred \cup others = 1 .. c /\ preferred \cap others = {}
  BY <1>10
<1>12. /\ \A i \in preferred : allowed[i] \in Frames
       /\ \A i \in others : allowed[i] \in Frames
  BY <1>10, <1>11
<1> HIDE DEF preferred, others, c
<1>13. /\ Places(preferred) /\ IsFiniteSet(preferred) /\ Cardinality(preferred) \in Nat
      /\ Places(others) /\ IsFiniteSet(others) /\ Cardinality(others) \in Nat
  BY <1>10, <1>11, PlacesIn
<1>14. /\ first \in Seq(Frames) /\ Len(first) = Cardinality(preferred)
       /\ rest \in Seq(Frames) /\ Len(rest) = Cardinality(others)
  BY <1>13, <1>12, KeptSeq
<1>15. Len(first) + Len(rest) = c
  <2>1. /\ IsFiniteSet(preferred) /\ IsFiniteSet(others)
        /\ Cardinality(preferred) \in Nat /\ Cardinality(others) \in Nat
    BY <1>13
  <2>2. Cardinality(1 .. c) = Cardinality(preferred) + Cardinality(others) - Cardinality({})
    BY <1>11, <2>1, FS_Union
  <2>3. Cardinality({}) = 0 BY FS_EmptySet
  <2>4. Cardinality(1 .. c) = c BY <1>10, FS_Interval
  <2> QED BY <1>14, <2>1, <2>2, <2>3, <2>4
<1>16. /\ Among(first, allowed)
       /\ \A j \in preferred : \E i \in DOMAIN first : first[i] = allowed[j]
  <2>1. \A i \in DOMAIN first : Nth(preferred, i) \in preferred /\ first[i] = allowed[Nth(preferred, i)]
    BY <1>13, KeptFrom
  <2>2. \A j \in preferred : Rank(preferred, j) \in DOMAIN first /\ first[Rank(preferred, j)] = allowed[j]
    BY <1>13, KeptAt
  <2> HIDE DEF first
  <2> QED BY <1>10, <1>11, <2>1, <2>2 DEF Among
<1>17. /\ Among(rest, allowed)
       /\ \A j \in others : \E i \in DOMAIN rest : rest[i] = allowed[j]
  <2>1. \A i \in DOMAIN rest : Nth(others, i) \in others /\ rest[i] = allowed[Nth(others, i)]
    BY <1>13, KeptFrom
  <2>2. \A j \in others : Rank(others, j) \in DOMAIN rest /\ rest[Rank(others, j)] = allowed[j]
    BY <1>13, KeptAt
  <2> HIDE DEF rest
  <2> QED BY <1>10, <1>11, <2>1, <2>2 DEF Among
<1> HIDE DEF first, rest
<1>18. Joined(kept, first, rest)
  <2> DEFINE both == first \o rest
  <2>1. Len(both) = c /\ both \in Seq(Frames) BY <1>14, <1>15
  <2>2. kept = Take(both, MaxFrames) BY <1>4, <1>9
  <2> HIDE DEF both
  <2>3. kept = both BY <1>10, <2>1, <2>2 DEF Take
  <2> QED BY <2>3 DEF both, Joined
<1>19. kept \in Seq(Frames) /\ Among(first, kept) /\ Among(rest, kept) /\ Among(kept, allowed)
  BY <1>14, <1>16, <1>17, <1>18, JoinedItems
<1>20. Among(allowed, kept)
  <2> SUFFICES ASSUME NEW j \in 1 .. c PROVE \E i \in DOMAIN kept : allowed[j] = kept[i]
    BY <1>10 DEF Among
  <2>1. j \in preferred \/ j \in others BY <1>11
  <2> QED BY <1>16, <1>17, <1>19, <2>1 DEF Among
<1>21. \A i \in DOMAIN kept : kept[i].user /\ kept[i].file # NoFile
                                /\ \E k \in DOMAIN frames : kept[i] = frames[k]
  <2> TAKE i \in DOMAIN kept
  <2>1. PICK j \in 1 .. c : kept[i] = allowed[j] BY <1>10, <1>19 DEF Among
  <2>2. Nth(Q, j) \in Q /\ kept[i] = frames[Nth(Q, j)] BY <1>10, <2>1
  <2> QED BY <1>1, <1>2, <2>2
<1>22. \A k \in Q : \E j \in 1 .. c : allowed[j] = frames[k]
  <2> TAKE k \in Q
  <2>1. Rank(Q, k) \in DOMAIN qualifying /\ qualifying[Rank(Q, k)] = frames[k]
    BY <1>5, KeptAt DEF qualifying
  <2> QED BY <1>9, <1>10, <2>1
<1>23. \A k \in Q : \E i \in DOMAIN kept : kept[i] = frames[k]
  <2> TAKE k \in Q
  <2>1. PICK j \in DOMAIN allowed : allowed[j] = frames[k] BY <1>10, <1>22
  <2>2. PICK i \in DOMAIN kept : allowed[j] = kept[i] BY <1>20 DEF Among
  <2> QED BY <2>1, <2>2
<1> QED BY <1>3, <1>19, <1>21, <1>23 DEF kept

About(frame, line) == frame.file = line.file /\ frame.number = line.number

\* The frames to fetch are those of the near lines, all of them and no others.
LEMMA FetchList ==
  ASSUME NEW n \in Nat, trace \in [1 .. n -> Lines]
  PROVE  LET list == FilterFrames(ParseStackFrames(trace)) IN
         /\ list \in Seq(Frames)
         /\ \A i \in DOMAIN list : \E l \in NearLines : About(list[i], trace[l])
         /\ \A l \in NearLines : \E i \in DOMAIN list : About(list[i], trace[l])
<1> DEFINE stack == ParseStackFrames(trace)
           list == FilterFrames(stack)
           U == UserPlaces(trace)
<1>1. /\ stack \in Seq(Frames) /\ Len(stack) <= MaxFrames
      /\ \A i \in DOMAIN stack : stack[i].user =>
           \E k \in U : Rank(U, k) <= MaxFrames /\ stack[i] = ParseLine(trace[k])
      /\ \A k \in U : Rank(U, k) <= MaxFrames => \E i \in DOMAIN stack : stack[i] = ParseLine(trace[k])
  BY ParsedStack
<1> HIDE DEF stack
<1>2. /\ list \in Seq(Frames)
      /\ \A i \in DOMAIN list : /\ list[i].user /\ list[i].file # NoFile
                                /\ \E k \in DOMAIN stack : list[i] = stack[k]
      /\ \A k \in DOMAIN stack : stack[k].user /\ stack[k].file # NoFile =>
           \E i \in DOMAIN list : list[i] = stack[k]
  BY <1>1, FilterMembers
<1>3. \A l : l \in NearLines <=> l \in U /\ Located(trace[l]) /\ Rank(U, l) <= MaxFrames
  BY NearRanks DEF Near
<1>4. \A k \in U : LET frame == ParseLine(trace[k]) IN
        /\ frame.user /\ frame.number = trace[k].number
        /\ frame.file = IF Located(trace[k]) THEN trace[k].file ELSE NoFile
  <2> TAKE k \in U
  <2>1. trace[k] \in Lines /\ LooksLikeUser(trace[k]) BY DEF UserPlaces
  <2>2. trace[k].form # "text" BY <2>1 DEF LooksLikeUser
  <2> QED BY <2>1, <2>2, ParsedLine
<1> HIDE DEF list, U
<1>5. ASSUME NEW i \in DOMAIN list PROVE \E l \in NearLines : About(list[i], trace[l])
  <2>1. PICK j \in DOMAIN stack : list[i] = stack[j] BY <1>2
  <2>2. stack[j].user /\ stack[j].file # NoFile BY <1>2, <2>1
  <2>3. PICK k \in U : Rank(U, k) <= MaxFrames /\ stack[j] = ParseLine(trace[k]) BY <1>1, <2>2
  <2>4. Located(trace[k]) BY <1>4, <2>2, <2>3
  <2>5. k \in NearLines BY <1>3, <2>3, <2>4
  <2>6. About(list[i], trace[k]) BY <1>4, <2>1, <2>3, <2>4 DEF About
  <2> QED BY <2>5, <2>6
<1>6. ASSUME NEW l \in NearLines PROVE \E i \in DOMAIN list : About(list[i], trace[l])
  <2>1. l \in U /\ Located(trace[l]) /\ Rank(U, l) <= MaxFrames BY <1>3
  <2>2. PICK j \in DOMAIN stack : stack[j] = ParseLine(trace[l]) BY <1>1, <2>1
  <2>3. stack[j].user /\ stack[j].file # NoFile BY <1>4, <2>1, <2>2 DEF Located
  <2>4. PICK i \in DOMAIN list : list[i] = stack[j] BY <1>2, <2>3
  <2>5. About(list[i], trace[l]) BY <1>4, <2>1, <2>2, <2>4 DEF About
  <2> QED BY <2>5
<1> QED BY <1>2, <1>5, <1>6 DEF list, stack
-----------------------------------------------------------------------------
(* The snippets.                                                           *)

Snippets == [file : Files, about : Nat \ {0}, startLine : Nat, endLine : Nat]

\* A snippet is of its file as it is now, and holds the line it is about unless the file
\* became too short for it.
Fits(s) ==
  /\ s.about <= Length[s.file] => s.about \in s.startLine .. s.endLine
  /\ s.endLine <= Length[s.file]
  /\ s.startLine + 2 * ContextLines >= s.endLine

LEMMA SnippetFits ==
  ASSUME NEW frame \in Frames, frame.file \in Files, frame.number # 0
  PROVE  /\ Snippet(frame) \in Snippets /\ Fits(Snippet(frame))
         /\ Snippet(frame).file = frame.file /\ Snippet(frame).about = frame.number
<1> DEFINE number == frame.number
           total == Length[frame.file]
           from == (IF number - 1 <= ContextLines THEN 0 ELSE number - 1 - ContextLines) + 1
           to == IF number + ContextLines <= total THEN number + ContextLines ELSE total
           s == Snippet(frame)
<1>1. number \in Nat \ {0} /\ total \in Nat /\ ContextLines \in Nat
  BY GroundingAssumption DEF Frames
<1>2. s = [file |-> frame.file, about |-> number, startLine |-> from, endLine |-> to]
  BY DEF Snippet
<1> HIDE DEF number, total, s
<1>3. /\ from \in Nat /\ to \in Nat
      /\ number <= total => number \in from .. to
      /\ to <= total /\ from + 2 * ContextLines >= to
  BY <1>1
<1> HIDE DEF from, to
<1>4. s.file = frame.file /\ s.about = number /\ s.startLine = from /\ s.endLine = to BY <1>2
<1>5. s \in Snippets BY <1>1, <1>2, <1>3 DEF Snippets
<1>6. Fits(s) BY <1>3, <1>4 DEF Fits, total
<1> QED BY <1>4, <1>5, <1>6 DEF number, s

\* What is known of a near line while the agent fetches: its file could not be read, its
\* snippet is there, or its frame still waits.
Accounted(l) ==
  \/ trace[l].file \in unread
  \/ \E k \in DOMAIN snippets : <<snippets[k].file, snippets[k].about>> = <<trace[l].file, trace[l].number>>
  \/ \E i \in DOMAIN todo : About(todo[i], trace[l])

GroundingInv ==
  /\ trace \in Traces
  /\ todo \in Seq(Frames) /\ snippets \in Seq(Snippets)
  /\ \A i \in DOMAIN todo : \E l \in NearLines : About(todo[i], trace[l])
  /\ \A k \in DOMAIN snippets :
       /\ Fits(snippets[k])
       /\ \E l \in NearLines :
            <<trace[l].file, trace[l].number>> = <<snippets[k].file, snippets[k].about>>
  /\ pc \in {"fetch", "done"} => \A l \in NearLines : Accounted(l)
  /\ pc = "done" => todo = <<>>

LEMMA NearUnchanged ==
  ASSUME UNCHANGED trace
  PROVE  NearLines' = NearLines
BY DEF NearLines

LEMMA TraceOfLines ==
  ASSUME trace \in Traces
  PROVE  \E n \in Nat : trace \in [1 .. n -> Lines]
<1>1. PICK n \in 0 .. MaxLines : trace \in [1 .. n -> Lines] BY DEF Traces
<1>2. n \in Nat BY <1>1, GroundingAssumption
<1> QED BY <1>1, <1>2

\* A near line names a line number, and so do the frames that are about it.
LEMMA NearNumber ==
  ASSUME trace \in Traces, NEW l \in NearLines
  PROVE  trace[l].number \in Nat \ {0}
<1>1. PICK n \in Nat : trace \in [1 .. n -> Lines] BY TraceOfLines
<1>2. l \in 1 .. n BY <1>1 DEF NearLines
<1> QED BY <1>1, <1>2, LineFields

LEMMA InvInit == Init => GroundingInv
<1> SUFFICES ASSUME Init PROVE GroundingInv OBVIOUS
<1>1. /\ trace \in Traces /\ todo = <<>> /\ snippets = <<>> /\ pc = "triage" BY DEF Init
<1> QED BY <1>1 DEF GroundingInv

\* What a step that keeps the trace, the frames to fetch and the snippets preserves.
LEMMA InvKeep ==
  ASSUME GroundingInv, UNCHANGED <<trace, todo, snippets, unread>>,
         pc' \in {"fetch", "done"} => pc \in {"fetch", "done"},
         pc' = "done" => todo = <<>>
  PROVE  GroundingInv'
<1>1. NearLines' = NearLines BY NearUnchanged
<1>2. \A l : Accounted(l)' <=> Accounted(l) BY DEF Accounted
<1> QED BY <1>1, <1>2 DEF GroundingInv

LEMMA InvFindFrames ==
  ASSUME GroundingInv, FindFrames
  PROVE  GroundingInv'
<1> DEFINE list == FilterFrames(ParseStackFrames(trace))
<1>1. NearLines' = NearLines /\ trace' = trace /\ snippets' = snippets /\ unread' = unread
  BY NearUnchanged DEF FindFrames
<1>2. /\ list \in Seq(Frames)
      /\ \A i \in DOMAIN list : \E l \in NearLines : About(list[i], trace[l])
      /\ \A l \in NearLines : \E i \in DOMAIN list : About(list[i], trace[l])
  <2>1. \E n \in Nat : trace \in [1 .. n -> Lines] BY TraceOfLines DEF GroundingInv
  <2> QED BY <2>1, FetchList
<1>3. \/ todo' = list /\ pc' = "fetch"
      \/ todo' = <<>> /\ pc' = "skipped"
  BY DEF FindFrames
<1> HIDE DEF list
<1>4. CASE todo' = list /\ pc' = "fetch"
  <2>1. \A l \in NearLines : Accounted(l)' BY <1>1, <1>2, <1>4 DEF Accounted
  <2> QED BY <1>1, <1>2, <1>4, <2>1 DEF GroundingInv
<1>5. CASE todo' = <<>> /\ pc' = "skipped" BY <1>1, <1>5 DEF GroundingInv
<1> QED BY <1>3, <1>4, <1>5

\* The frames that remain are those after the first.
LEMMA RestOfTodo ==
  ASSUME GroundingInv, todo # <<>>
  PROVE  /\ Head(todo) \in Frames /\ Tail(todo) \in Seq(Frames)
         /\ \E l \in NearLines : About(Head(todo), trace[l])
         /\ \A i \in DOMAIN Tail(todo) : \E l \in NearLines : About(Tail(todo)[i], trace[l])
         /\ \A i \in DOMAIN todo :
              todo[i] = Head(todo) \/ \E j \in DOMAIN Tail(todo) : Tail(todo)[j] = todo[i]
<1>1. /\ todo \in Seq(Frames)
      /\ \A i \in DOMAIN todo : \E l \in NearLines : About(todo[i], trace[l])
  BY DEF GroundingInv
<1>2. /\ DOMAIN todo = 1 .. Len(todo) /\ Len(todo) \in Nat \ {0} /\ Head(todo) = todo[1]
      /\ Tail(todo) \in Seq(Frames) /\ DOMAIN Tail(todo) = 1 .. Len(todo) - 1
      /\ \A j \in 1 .. Len(todo) - 1 : Tail(todo)[j] = todo[j + 1]
  BY <1>1
<1>3. 1 \in DOMAIN todo /\ Head(todo) \in Frames BY <1>1, <1>2
<1>4. \A j \in 1 .. Len(todo) - 1 : j + 1 \in DOMAIN todo BY <1>2
<1>5. \A i \in DOMAIN todo : i = 1 \/ (i - 1 \in 1 .. Len(todo) - 1 /\ (i - 1) + 1 = i) BY <1>2
<1>6. \A i \in DOMAIN todo :
        todo[i] = Head(todo) \/ \E j \in DOMAIN Tail(todo) : Tail(todo)[j] = todo[i]
  BY <1>2, <1>5
<1>7. \A i \in DOMAIN Tail(todo) : \E l \in NearLines : About(Tail(todo)[i], trace[l])
  BY <1>1, <1>2, <1>4
<1> QED BY <1>1, <1>2, <1>3, <1>6, <1>7

LEMMA InvFetchFile ==
  ASSUME GroundingInv, FetchFile
  PROVE  GroundingInv'
<1> DEFINE frame == Head(todo)
           s == Snippet(frame)
<1>1. /\ pc = "fetch" /\ todo # <<>> /\ frame.file \in Files
      /\ snippets' = Append(snippets, s) /\ todo' = Tail(todo)
      /\ trace' = trace /\ pc' = pc /\ unread' = unread
  BY DEF FetchFile
<1>2. NearLines' = NearLines BY <1>1, NearUnchanged
<1>3. /\ frame \in Frames /\ Tail(todo) \in Seq(Frames)
      /\ \A i \in DOMAIN Tail(todo) : \E l \in NearLines : About(Tail(todo)[i], trace[l])
      /\ \A i \in DOMAIN todo :
           todo[i] = frame \/ \E j \in DOMAIN Tail(todo) : Tail(todo)[j] = todo[i]
  BY <1>1, RestOfTodo
<1>4. PICK l \in NearLines : About(frame, trace[l]) BY <1>1, RestOfTodo
<1>5. frame.number # 0
  <2>1. trace[l].number \in Nat \ {0} BY NearNumber DEF GroundingInv
  <2> QED BY <1>4, <2>1 DEF About
<1>6. s \in Snippets /\ Fits(s) /\ s.file = frame.file /\ s.about = frame.number
  BY <1>1, <1>3, <1>5, SnippetFits
<1> HIDE DEF frame, s
<1>7. snippets \in Seq(Snippets) BY DEF GroundingInv
<1>8. /\ snippets' \in Seq(Snippets) /\ DOMAIN snippets = 1 .. Len(snippets)
      /\ DOMAIN snippets' = 1 .. Len(snippets) + 1 /\ Len(snippets) \in Nat
      /\ snippets'[Len(snippets) + 1] = s
      /\ \A k \in 1 .. Len(snippets) : snippets'[k] = snippets[k]
  BY <1>1, <1>6, <1>7
<1>9. /\ \A k \in DOMAIN snippets : k \in DOMAIN snippets' /\ snippets'[k] = snippets[k]
      /\ \E k \in DOMAIN snippets' : snippets'[k] = s
      /\ \A k \in DOMAIN snippets' : snippets'[k] = s \/ (k \in DOMAIN snippets /\ snippets'[k] = snippets[k])
  BY <1>8
<1>10. \A k \in DOMAIN snippets' :
         /\ Fits(snippets'[k])
         /\ \E m \in NearLines :
              <<trace[m].file, trace[m].number>> = <<snippets'[k].file, snippets'[k].about>>
  <2> TAKE k \in DOMAIN snippets'
  <2>1. CASE snippets'[k] = s BY <1>4, <1>6, <2>1 DEF About
  <2>2. CASE k \in DOMAIN snippets /\ snippets'[k] = snippets[k] BY <2>2 DEF GroundingInv
  <2> QED BY <1>9, <2>1, <2>2
<1>11. \A m \in NearLines : Accounted(m)'
  <2> TAKE m \in NearLines
  <2>1. Accounted(m) BY <1>1 DEF GroundingInv
  <2>2. CASE trace[m].file \in unread BY <1>1, <2>2 DEF Accounted
  <2>3. CASE \E k \in DOMAIN snippets :
               <<snippets[k].file, snippets[k].about>> = <<trace[m].file, trace[m].number>>
    BY <1>1, <1>9, <2>3 DEF Accounted
  <2>4. CASE \E i \in DOMAIN todo : About(todo[i], trace[m])
    <3>1. PICK i \in DOMAIN todo : About(todo[i], trace[m]) BY <2>4
    <3>2. CASE todo[i] = frame
      <4>1. PICK k \in DOMAIN snippets' : snippets'[k] = s BY <1>9
      <4>2. <<snippets'[k].file, snippets'[k].about>> = <<trace[m].file, trace[m].number>>
        BY <1>6, <3>1, <3>2, <4>1 DEF About
      <4> QED BY <1>1, <4>2 DEF Accounted
    <3>3. CASE \E j \in DOMAIN Tail(todo) : Tail(todo)[j] = todo[i]
      BY <1>1, <3>1, <3>3 DEF Accounted
    <3> QED BY <1>3, <3>2, <3>3
  <2> QED BY <2>1, <2>2, <2>3, <2>4 DEF Accounted
<1>12. pc' # "done" BY <1>1
<1> QED BY <1>1, <1>2, <1>3, <1>8, <1>10, <1>11, <1>12 DEF GroundingInv, Fits

LEMMA InvFileNotFound ==
  ASSUME GroundingInv, FileNotFound
  PROVE  GroundingInv'
<1> DEFINE frame == Head(todo)
<1>1. /\ pc = "fetch" /\ todo # <<>> /\ todo' = Tail(todo)
      /\ unread' = unread \cup {frame.file}
      /\ trace' = trace /\ pc' = pc /\ snippets' = snippets
  BY DEF FileNotFound
<1>2. NearLines' = NearLines BY <1>1, NearUnchanged
<1>3. /\ Tail(todo) \in Seq(Frames)
      /\ \A i \in DOMAIN Tail(todo) : \E l \in NearLines : About(Tail(todo)[i], trace[l])
      /\ \A i \in DOMAIN todo :
           todo[i] = frame \/ \E j \in DOMAIN Tail(todo) : Tail(todo)[j] = todo[i]
  BY <1>1, RestOfTodo
<1> HIDE DEF frame
<1>4. \A m \in NearLines : Accounted(m)'
  <2> TAKE m \in NearLines
  <2>1. Accounted(m) BY <1>1 DEF GroundingInv
  <2>2. CASE trace[m].file \in unread BY <1>1, <2>2 DEF Accounted
  <2>3. CASE \E k \in DOMAIN snippets :
               <<snippets[k].file, snippets[k].about>> = <<trace[m].file, trace[m].number>>
    BY <1>1, <2>3 DEF Accounted
  <2>4. CASE \E i \in DOMAIN todo : About(todo[i], trace[m])
    <3>1. PICK i \in DOMAIN todo : About(todo[i], trace[m]) BY <2>4
    <3>2. CASE todo[i] = frame BY <1>1, <3>1, <3>2 DEF Accounted, About
    <3>3. CASE \E j \in DOMAIN Tail(todo) : Tail(todo)[j] = todo[i]
      BY <1>1, <3>1, <3>3 DEF Accounted
    <3> QED BY <1>3, <3>2, <3>3
  <2> QED BY <2>1, <2>2, <2>3, <2>4 DEF Accounted
<1> QED BY <1>1, <1>2, <1>3, <1>4 DEF GroundingInv

LEMMA InvContextFails ==
  ASSUME GroundingInv, ContextFails
  PROVE  GroundingInv'
<1>1. todo' = <<>> /\ pc' = "failed" /\ trace' = trace /\ snippets' = snippets BY DEF ContextFails
<1>2. NearLines' = NearLines BY <1>1, NearUnchanged
<1> QED BY <1>1, <1>2 DEF GroundingInv

LEMMA InvNext == GroundingInv /\ [Next]_vars => GroundingInv'
<1> SUFFICES ASSUME GroundingInv, [Next]_vars PROVE GroundingInv' OBVIOUS
<1>1. CASE Triage
  <2>1. UNCHANGED <<trace, todo, snippets, unread>> /\ pc' = "code_context" BY <1>1 DEF Triage
  <2> QED BY <2>1, InvKeep
<1>2. CASE FindFrames BY <1>2, InvFindFrames
<1>3. CASE FetchFile BY <1>3, InvFetchFile
<1>4. CASE FileNotFound BY <1>4, InvFileNotFound
<1>5. CASE Finish
  <2>1. UNCHANGED <<trace, todo, snippets, unread>> /\ pc = "fetch" /\ todo = <<>> BY <1>5 DEF Finish
  <2> QED BY <2>1, InvKeep
<1>6. CASE ContextFails BY <1>6, InvContextFails
<1>7. CASE UNCHANGED vars
  <2>1. UNCHANGED <<trace, todo, snippets, unread, pc>> BY <1>7 DEF vars
  <2>2. pc' = "done" => todo = <<>> BY <2>1 DEF GroundingInv
  <2> QED BY <2>1, <2>2, InvKeep
<1> QED BY <1>1, <1>2, <1>3, <1>4, <1>5, <1>6, <1>7 DEF Next

THEOREM GroundingInvariant == Spec => []GroundingInv
BY InvInit, InvNext, PTL DEF Spec

\* What the later agents see of the source are the near lines of the trace, each with its
\* snippet or a file that could not be read: code_context_agent, stack_parser and frame_filter.
THEOREM GroundedSnippets == Spec => []SnippetsMatchTrace
<1>1. GroundingInv => SnippetsMatchTrace
  <2> SUFFICES ASSUME GroundingInv PROVE SnippetsMatchTrace OBVIOUS
  <2>1. \A k \in DOMAIN snippets :
          /\ Fits(snippets[k])
          /\ \E l \in NearLines :
               <<trace[l].file, trace[l].number>> = <<snippets[k].file, snippets[k].about>>
    BY DEF GroundingInv
  <2>2. pc = "done" => \A l \in NearLines : Accounted(l) BY DEF GroundingInv
  <2>3. pc = "done" => \A i \in DOMAIN todo : FALSE BY DEF GroundingInv
  <2> QED BY <2>1, <2>2, <2>3 DEF SnippetsMatchTrace, Fits, Accounted
<1> QED BY <1>1, GroundingInvariant, PTL
-----------------------------------------------------------------------------
(* Triage.                                                                 *)

\* No rule of a table is more severe than an earlier one.
Descends(table) ==
  \A k, l \in DOMAIN table : k <= l => Severity[table[k]] >= Severity[table[l]]

LEMMA TablesDescend ==
  ASSUME NEW language
  PROVE  /\ Descends(Table(language)) /\ \E n \in Nat : DOMAIN Table(language) = 1 .. n
         /\ \A k \in DOMAIN Table(language) : Severity[Table(language)[k]] \in Nat
<1>1. Descends(Rules.dotnet) /\ DOMAIN Rules.dotnet = 1 .. 13
      /\ \A k \in DOMAIN Rules.dotnet : Severity[Rules.dotnet[k]] \in Nat
  BY DEF Rules, Severity, Descends
<1>2. Descends(Rules.python) /\ DOMAIN Rules.python = 1 .. 10
      /\ \A k \in DOMAIN Rules.python : Severity[Rules.python[k]] \in Nat
  BY DEF Rules, Severity, Descends
<1>3. Descends(Rules.nodejs) /\ DOMAIN Rules.nodejs = 1 .. 8
      /\ \A k \in DOMAIN Rules.nodejs : Severity[Rules.nodejs[k]] \in Nat
  BY DEF Rules, Severity, Descends
<1>4. Descends(Rules.java) /\ DOMAIN Rules.java = 1 .. 7
      /\ \A k \in DOMAIN Rules.java : Severity[Rules.java[k]] \in Nat
  BY DEF Rules, Severity, Descends
<1>5. Table(language) \in {Rules.dotnet, Rules.python, Rules.nodejs, Rules.java}
  <2>1. DOMAIN Rules = {"dotnet", "python", "nodejs", "java"} BY DEF Rules
  <2>2. \A l \in {"dotnet", "python", "nodejs", "java"} :
          Rules[l] \in {Rules.dotnet, Rules.python, Rules.nodejs, Rules.java} OBVIOUS
  <2> QED BY <2>1, <2>2 DEF Table
<1> QED BY <1>1, <1>2, <1>3, <1>4, <1>5

\* The order of the rules never costs an incident its severity: whatever other rule of the
\* table matches too, the first one is as severe (rules.py, apply_rules).
THEOREM TriageTakesTheWorst == Spec => []TriageNeverDowngrades
<1>1. TriageNeverDowngrades
  <2> DEFINE table == Table(Language)
  <2>1. Descends(table) /\ \A k \in DOMAIN table : Severity[table[k]] \in Nat BY TablesDescend
  <2>2. PICK n \in Nat : DOMAIN table = 1 .. n BY TablesDescend
  <2> HIDE DEF table
  <2>3. ASSUME NEW k \in DOMAIN table, NEW l \in DOMAIN table
        PROVE  Severity[ApplyRules(table, {k, l})] >= Severity[table[k]]
    <3> DEFINE hits == {k, l}
    <3>1. k \in 1 .. n /\ l \in 1 .. n BY <2>2
    <3>2. CASE k <= l
      <4>1. Min(hits) = k
        <5>1. hits \in SUBSET Int /\ k \in hits /\ \A j \in hits : k <= j BY <3>1, <3>2
        <5> HIDE DEF hits
        <5> QED BY <5>1, MinOf
      <4>2. Severity[table[k]] \in Nat BY <2>1
      <4> QED BY <4>1, <4>2 DEF ApplyRules
    <3>3. CASE ~ (k <= l)
      <4>1. l <= k BY <3>1, <3>3
      <4>2. Min(hits) = l
        <5>1. hits \in SUBSET Int /\ l \in hits /\ \A j \in hits : l <= j BY <3>1, <4>1
        <5> HIDE DEF hits
        <5> QED BY <5>1, MinOf
      <4> QED BY <2>1, <4>1, <4>2 DEF ApplyRules, Descends
    <3> QED BY <3>2, <3>3
  <2> QED BY <2>3 DEF TriageNeverDowngrades, table
<1> QED BY <1>1, PTL
=============================================================================
