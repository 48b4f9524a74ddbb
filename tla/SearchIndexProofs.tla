------------------------- MODULE SearchIndexProofs -------------------------
(***************************************************************************)
(* Proofs about SearchIndex, for any runbooks, versions of them and number *)
(* of runs and edits, and for every size of a chunk and of a batch.        *)
(*                                                                         *)
(* What the chunker makes of a text is an induction over its sections and  *)
(* over its length, which rests on the fact that every nonempty set of     *)
(* numbers has a least element: UpTo goes up, DownFrom goes down, and      *)
(* FoldLeftUnfolds is the step of a fold with AddSection.                  *)
(***************************************************************************)
EXTENDS SearchIndex, Integers, SequenceTheorems, FiniteSetTheorems, FunctionTheorems,
        WellFoundedInduction, TLAPS

-----------------------------------------------------------------------------
(* The inductive invariant.                                                *)

Chunk == Seq(Char)

Docs == [id : Runbooks \X Nat, file : Runbooks, nr : Nat, content : Chunk, vector : Chunk]

\* What a run is at each of its steps.
Run == [pc : {"ensure", "scan", "read", "embed", "upload", "raise", "done", "failed"},
        source : Sources, embed : BOOLEAN, left : SUBSET Runbooks, docs : Seq(Docs),
        vectors : Seq(Chunk), attempt : Nat, sent : Nat, refused : SUBSET Docs]

\* A document is a chunk of some version of its runbook, under the id of that chunk, and
\* has no vector but its own.
Genuine(doc) ==
  /\ doc \in Docs /\ doc.id = <<doc.file, doc.nr>>
  /\ \E text \in Texts[doc.file] :
       doc.nr \in DOMAIN Chunks[text] /\ Chunks[text][doc.nr] = doc.content
  /\ doc.vector \in {NoVector, doc.content}

\* The documents of a run: one for each id.
Apart(docs) == \A k, l \in DOMAIN docs : docs[k].id = docs[l].id => k = l

\* A document that was sent: in the index as it is, or refused.
Sent(doc, r, ix) ==
  doc \notin r.refused => doc.id \in DOMAIN ix /\ ix[doc.id] = doc

\* The vectors so far are those of the documents, in their order, and each document has
\* its own before the first one is uploaded.
Embedded(r) ==
  /\ \A k \in DOMAIN r.vectors : k \in DOMAIN r.docs /\ r.vectors[k] = r.docs[k].content
  /\ r.pc # "embed" => r.vectors = <<>>
  /\ r.embed /\ r.pc \in {"upload", "raise", "done"} =>
       \A k \in DOMAIN r.docs : r.docs[k].vector = r.docs[k].content

Uploaded(r, ix) ==
  /\ r.sent <= Len(r.docs)
  /\ r.pc \in {"ensure", "scan", "read", "embed"} => r.sent = 0
  /\ r.pc \in {"raise", "done"} => r.sent = Len(r.docs)
  /\ \A k \in 1 .. r.sent : Sent(r.docs[k], r, ix)

Progress(r, ix) ==
  /\ r \in Run
  /\ \A k \in DOMAIN r.docs : Genuine(r.docs[k])
  /\ Apart(r.docs)
  /\ r.pc \in {"ensure", "scan"} => r.docs = <<>>
  /\ r.pc = "read" => \A k \in DOMAIN r.docs : r.docs[k].file \notin r.left
  /\ Embedded(r) /\ Uploaded(r, ix)

\* The index: every document under its own id.
Held(ix) == \A id \in DOMAIN ix : Genuine(ix[id]) /\ ix[id].id = id

IndexInv ==
  /\ runbook \in [Runbooks -> DOMAIN Chunks \cup {Gone}]
  /\ \A file \in Runbooks : runbook[file] \in Texts[file] \cup {Gone}
  /\ Held(index) /\ Progress(run, index)
-----------------------------------------------------------------------------
(* Induction over numbers, and over the sections of a text.                *)

LEMMA LeastNumber ==
  ASSUME NEW T \in SUBSET Nat, T # {} PROVE \E m \in T : \A j \in T : m <= j
<1> DEFINE R == OpToRel(<, Nat)
<1>1. IsWellFoundedOn(R, Nat) BY NatLessThanWellFounded
<1>2. \A j, m \in Nat : j < m => <<j, m>> \in R BY DEF OpToRel
<1> HIDE DEF R
<1>3. PICK m \in T : \A j \in T : ~ (<<j, m>> \in R) BY <1>1, WFMin
<1>4. \A j \in T : ~ (j < m) BY <1>2, <1>3
<1> QED BY <1>4

LEMMA Extremes ==
  ASSUME NEW n \in Nat, NEW T \in SUBSET (1 .. n), T # {}
  PROVE  /\ \E m \in T : \A j \in T : m <= j
         /\ \E m \in T : \A j \in T : j <= m
<1>1. \E m \in T : \A j \in T : m <= j
  <2>1. T \in SUBSET Nat OBVIOUS
  <2> QED BY <2>1, LeastNumber
<1> DEFINE U == {k \in 0 .. n : \A j \in T : j <= k}
<1>2. U \in SUBSET Nat /\ n \in U OBVIOUS
<1>3. PICK m \in U : \A k \in U : m <= k
  <2> HIDE DEF U
  <2> QED BY <1>2, LeastNumber
<1>4. m \in T
  <2> SUFFICES ASSUME m \notin T PROVE FALSE OBVIOUS
  <2>1. m \in 0 .. n /\ \A j \in T : j <= m /\ j # m /\ j \in 1 .. n OBVIOUS
  <2>2. m # 0
    <3>1. PICK j \in T : TRUE OBVIOUS
    <3> QED BY <2>1, <3>1
  <2>3. m - 1 \in 0 .. n /\ \A j \in T : j <= m - 1 BY <2>1, <2>2
  <2>4. m - 1 \in U /\ ~ (m <= m - 1) BY <2>3
  <2> QED BY <1>3, <2>4
<1> QED BY <1>1, <1>4

LEMMA MaxOfSet ==
  ASSUME NEW n \in Nat, NEW T \in SUBSET (1 .. n), T # {}
  PROVE  Max(T) \in T /\ \A j \in T : j <= Max(T)
<1>1. \E m \in T : \A j \in T : m >= j BY Extremes
<1> QED BY <1>1 DEF Max

\* Induction up to n: what holds of 0 and is handed on holds of n.
LEMMA UpTo ==
  ASSUME NEW n \in Nat, NEW S, 0 \in S, \A k \in 0 .. n - 1 : k \in S => k + 1 \in S
  PROVE  n \in S
<1> SUFFICES ASSUME n \notin S PROVE FALSE OBVIOUS
<1> DEFINE T == {k \in 0 .. n : k \notin S}
<1>1. T \in SUBSET Nat /\ T # {} OBVIOUS
<1>2. PICK m \in T : \A j \in T : m <= j
  <2> HIDE DEF T
  <2> QED BY <1>1, LeastNumber
<1>3. m \in Nat /\ m <= n /\ m # 0 OBVIOUS
<1>4. m - 1 \in S BY <1>2, <1>3
<1>5. m - 1 \in 0 .. n - 1 /\ (m - 1) + 1 = m BY <1>3
<1> QED BY <1>4, <1>5

LEMMA MaxOfInterval == ASSUME NEW n \in Nat \ {0} PROVE Max(1 .. n) = n BY DEF Max

Fold(base, seq) == FoldLeft(AddSection, base, seq)

\* A fold from the left is the last of a chain of values, one for each element: the
\* function by which the library defines it, on the sets of indices, exists, and the
\* chain is what it does to the initial ones.
LEMMA FoldLeftUnfolds ==
  ASSUME NEW base, NEW n \in Nat, NEW seq, DOMAIN seq = 1 .. n
  PROVE  \E f : /\ f[0] = base
                /\ \A i \in 1 .. n : f[i] = AddSection(f[i - 1], seq[i])
                /\ Fold(base, seq) = f[n]
<1> DEFINE S == SUBSET (1 .. n)
           Body(g, s) == IF s = {} THEN base ELSE AddSection(g[s \ {Max(s)}], seq[Max(s)])
           Eq(g) == g = [s \in S |-> Body(g, s)]
           G == {k \in 0 .. n : \E g : \A s \in SUBSET (1 .. k) : g[s] = Body(g, s)}
<1>1. 0 \in G
  <2> DEFINE g == [s \in {{}} |-> base]
  <2>1. \A s \in SUBSET (1 .. 0) : s = {} OBVIOUS
  <2>2. g[{}] = base OBVIOUS
  <2>3. \A s \in SUBSET (1 .. 0) : g[s] = Body(g, s) BY <2>1, <2>2
  <2>4. 0 \in 0 .. n OBVIOUS
  <2> HIDE DEF g, Body
  <2> QED BY <2>3, <2>4
<1>2. ASSUME NEW k \in 0 .. n - 1, k \in G PROVE k + 1 \in G
  <2>1. PICK g : \A s \in SUBSET (1 .. k) : g[s] = Body(g, s) BY <1>2
  <2> DEFINE h == [s \in SUBSET (1 .. k + 1) |-> Body(g, s)]
  <2>2. ASSUME NEW s \in SUBSET (1 .. k + 1), s # {} PROVE h[s \ {Max(s)}] = g[s \ {Max(s)}]
    <3> DEFINE r == s \ {Max(s)}
    <3>1. Max(s) \in s /\ \A j \in s : j <= Max(s)
      <4>1. k + 1 \in Nat OBVIOUS
      <4> QED BY <2>2, <4>1, MaxOfSet
    <3>2. ASSUME NEW j \in r PROVE j \in 1 .. k
      <4>1. j \in 1 .. k + 1 /\ Max(s) \in 1 .. k + 1 /\ j # Max(s) /\ j <= Max(s) BY <3>1
      <4> QED BY <4>1
    <3>3. r \in SUBSET (1 .. k) BY <3>2
    <3> HIDE DEF r
    <3>4. r \in SUBSET (1 .. k + 1) BY <3>3
    <3>5. h[r] = Body(g, r) BY <3>4
    <3> QED BY <2>1, <3>3, <3>5 DEF r
  <2>3. \A s \in SUBSET (1 .. k + 1) : h[s] = Body(h, s) BY <2>2
  <2>4. k + 1 \in 0 .. n OBVIOUS
  <2> HIDE DEF h, Body
  <2> QED BY <2>3, <2>4
<1>3. n \in G
  <2> HIDE DEF G
  <2> QED BY <1>1, <1>2, UpTo
<1>4. \E g : Eq(g)
  <2>1. PICK g : \A s \in S : g[s] = Body(g, s) BY <1>3
  <2> DEFINE h == [s \in S |-> g[s]]
  <2>2. \A s \in S : s \ {Max(s)} \in S OBVIOUS
  <2>3. \A s \in S : h[s \ {Max(s)}] = g[s \ {Max(s)}] BY <2>2
  <2>4. \A s \in S : Body(h, s) = Body(g, s) BY <2>3
  <2>5. \A s \in S : g[s] = Body(h, s) BY <2>1, <2>4
  <2>6. Eq(h)
    <3> HIDE DEF Body, S
    <3> QED BY <2>5
  <2> QED BY <2>6
<1> DEFINE iter == CHOOSE g : Eq(g)
<1>5. Eq(iter)
  <2> HIDE DEF Eq
  <2> QED BY <1>4
<1>6. Fold(base, seq) = iter[1 .. n] BY DEF Fold, FoldLeft, MapThenFoldSet
<1> HIDE DEF iter
<1>7. \A i \in 0 .. n : iter[1 .. i] = Body(iter, 1 .. i)
  <2>1. \A i \in 0 .. n : 1 .. i \in S OBVIOUS
  <2> HIDE DEF Body, S
  <2> QED BY <1>5, <2>1
<1> DEFINE f == [i \in 0 .. n |-> iter[1 .. i]]
<1>8. f[0] = base
  <2>1. 1 .. 0 = {} /\ 0 \in 0 .. n OBVIOUS
  <2>2. iter[1 .. 0] = Body(iter, 1 .. 0)
    <3> HIDE DEF Body, S
    <3> QED BY <1>7, <2>1
  <2>3. iter[1 .. 0] = base BY <2>1, <2>2
  <2> QED BY <2>1, <2>3
<1>9. ASSUME NEW i \in 1 .. n PROVE f[i] = AddSection(f[i - 1], seq[i])
  <2>1. Max(1 .. i) = i BY MaxOfInterval
  <2>2. (1 .. i) \ {i} = 1 .. i - 1 OBVIOUS
  <2>3. 1 .. i # {} OBVIOUS
  <2>4. iter[1 .. i] = Body(iter, 1 .. i)
    <3>1. i \in 0 .. n OBVIOUS
    <3> HIDE DEF Body, S
    <3> QED BY <1>7, <3>1
  <2>5. iter[1 .. i] = AddSection(iter[1 .. i - 1], seq[i])
    <3> HIDE DEF S
    <3> QED BY <2>1, <2>2, <2>3, <2>4
  <2>6. f[i] = iter[1 .. i] /\ f[i - 1] = iter[1 .. i - 1] OBVIOUS
  <2> QED BY <2>5, <2>6
<1>10. f[n] = iter[1 .. n] OBVIOUS
<1> HIDE DEF f
<1> QED BY <1>6, <1>8, <1>9, <1>10

\* What the operator keeps, for any element of the sequence, holds of the fold.
LEMMA FoldLeftKeeps ==
  ASSUME NEW base, NEW n \in Nat, NEW seq, DOMAIN seq = 1 .. n,
         NEW Good, base \in Good, \A v \in Good, i \in 1 .. n : AddSection(v, seq[i]) \in Good
  PROVE  Fold(base, seq) \in Good
<1>1. PICK f : /\ f[0] = base
               /\ \A i \in 1 .. n : f[i] = AddSection(f[i - 1], seq[i])
               /\ Fold(base, seq) = f[n]
  BY FoldLeftUnfolds
<1> DEFINE S == {k \in 0 .. n : f[k] \in Good}
<1>2. 0 \in S BY <1>1
<1>3. ASSUME NEW k \in 0 .. n - 1, k \in S PROVE k + 1 \in S
  <2>1. k + 1 \in 1 .. n /\ (k + 1) - 1 = k OBVIOUS
  <2>2. f[k + 1] = AddSection(f[k], seq[k + 1]) BY <1>1, <2>1
  <2>3. f[k] \in Good BY <1>3
  <2>4. f[k + 1] \in Good BY <2>1, <2>2, <2>3
  <2> QED BY <2>1, <2>4
<1>4. n \in S
  <2> HIDE DEF S
  <2> QED BY <1>2, <1>3, UpTo
<1> QED BY <1>1, <1>4
-----------------------------------------------------------------------------
(* The chunker.                                                            *)

\* The texts that are long enough for a chunk.
Long == {s \in Chunk : Len(s) >= MinChars}

\* What the chunker has made of the sections it has read.
Cutting == [chunks : Seq(Long), carry : Chunk]

LEMMA Sizes ==
  /\ MaxChars \in Nat /\ OverlapChars \in Nat /\ MinChars \in Nat
  /\ 0 < OverlapChars /\ OverlapChars < MinChars /\ MinChars < MaxChars
BY SearchIndexAssumption

\* A part of a text is a text.
LEMMA PartOfText ==
  ASSUME NEW s \in Chunk, NEW a \in Nat, NEW b \in Nat, 1 <= a, b <= Len(s)
  PROVE  SubSeq(s, a, b) \in Chunk
<1>1. s \in Seq(Char) BY DEF Chunk
<1>2. \A i \in a .. b : s[i] \in Char
  <2>1. Len(s) \in Nat BY <1>1, LenProperties
  <2>2. \A i \in a .. b : i \in 1 .. Len(s) BY <2>1
  <2> QED BY <1>1, <2>2, ElementOfSeq
<1>3. SubSeq(s, a, b) \in Seq(Char) BY <1>2, SubSeqProperties
<1> QED BY <1>3 DEF Chunk

LEMMA StripIsText == ASSUME NEW s \in Chunk PROVE Strip(s) \in Chunk
<1> DEFINE kept == {k \in DOMAIN s : s[k] # Blank}
<1>1. Len(s) \in Nat /\ DOMAIN s = 1 .. Len(s) BY LenProperties DEF Chunk
<1>2. CASE kept = {}
  <2>1. Strip(s) = <<>> BY <1>2 DEF Strip
  <2> QED BY <2>1, EmptySeq DEF Chunk
<1>3. CASE kept # {}
  <2>1. Strip(s) = SubSeq(s, Min(kept), Max(kept)) BY <1>3 DEF Strip
  <2>2. kept \in SUBSET (1 .. Len(s)) BY <1>1
  <2> HIDE DEF kept
  <2>3. /\ \E m \in kept : \A j \in kept : m <= j
        /\ \E m \in kept : \A j \in kept : j <= m
    BY <1>1, <1>3, <2>2, Extremes
  <2>4. Min(kept) \in kept BY <2>2, <2>3 DEF Min
  <2>5. Max(kept) \in kept
    <3>1. \E m \in kept : \A j \in kept : m >= j BY <2>2, <2>3
    <3> QED BY <3>1 DEF Max
  <2>6. /\ Min(kept) \in Nat /\ Max(kept) \in Nat /\ 1 <= Min(kept) /\ Max(kept) <= Len(s)
    <3>1. Min(kept) \in 1 .. Len(s) /\ Max(kept) \in 1 .. Len(s) BY <2>2, <2>4, <2>5
    <3> HIDE DEF Min, Max
    <3> QED BY <1>1, <3>1
  <2> QED BY <2>1, <2>6, PartOfText
<1> QED BY <1>2, <1>3

LEMMA CarriedIsText == ASSUME NEW s \in Chunk PROVE Carried(s) \in Chunk
<1> DEFINE a == IF Len(s) > OverlapChars THEN Len(s) - OverlapChars + 1 ELSE 1
<1>1. Len(s) \in Nat BY LenProperties DEF Chunk
<1>2. a \in Nat /\ 1 <= a BY <1>1, Sizes
<1>3. Carried(s) = SubSeq(s, a, Len(s)) BY DEF Carried
<1> HIDE DEF a
<1> QED BY <1>1, <1>2, <1>3, PartOfText

\* The loop that cuts a block goes forward and ends at its end.
LEMMA CutGoesOn ==
  ASSUME NEW L \in Nat, NEW block, Len(block) = L, NEW pos \in 0 .. L - 1
  PROVE  /\ EndOf(block, pos) \in pos + 1 .. L
         /\ NextOf(block, pos) \in pos + 1 .. L
<1>1. EndOf(block, pos) \in pos + 1 .. L BY Sizes DEF EndOf
<1> HIDE DEF EndOf
<1>2. NextOf(block, pos) \in pos + 1 .. L BY <1>1, Sizes DEF NextOf
<1> QED BY <1>1, <1>2

\* Induction down from n.
LEMMA DownFrom ==
  ASSUME NEW n \in Nat, NEW S, n \in S,
         \A k \in 0 .. n - 1 : (\A j \in k + 1 .. n : j \in S) => k \in S
  PROVE  \A k \in 0 .. n : k \in S
<1> SUFFICES ASSUME NEW l \in 0 .. n, l \notin S PROVE FALSE OBVIOUS
<1> DEFINE T == {k \in 0 .. n : n - k \notin S}
<1>1. T \in SUBSET Nat /\ n - l \in T
  <2>1. n - l \in 0 .. n /\ n - (n - l) = l OBVIOUS
  <2> QED BY <2>1
<1>2. PICK m \in T : \A j \in T : m <= j
  <2> HIDE DEF T
  <2> QED BY <1>1, LeastNumber
<1>3. m \in 0 .. n /\ n - m \notin S OBVIOUS
<1>4. m # 0 BY <1>3
<1>5. ASSUME NEW j \in n - m + 1 .. n PROVE j \in S
  <2>1. n - j \in 0 .. n /\ n - j < m /\ n - (n - j) = j BY <1>3
  <2>2. n - j \notin T BY <1>2, <1>3, <2>1
  <2> QED BY <2>1, <2>2
<1>6. n - m \in 0 .. n - 1 BY <1>3, <1>4
<1> QED BY <1>3, <1>5, <1>6

\* The fragment behind pos, and what it adds to the chunks.
Fragment(block, pos) == Strip(SubSeq(block, pos + 1, EndOf(block, pos)))

FirstCut(block, pos) ==
  IF Len(Fragment(block, pos)) >= MinChars THEN <<Fragment(block, pos)>> ELSE <<>>

\* The recursion by which a block is cut is well defined.
LEMMA FragmentsUnfold ==
  ASSUME NEW block \in Chunk
  PROVE  \E from :
           /\ Fragments(block) = from[0]
           /\ from[Len(block)] = <<>>
           /\ \A pos \in 0 .. Len(block) - 1 :
                from[pos] = FirstCut(block, pos) \o from[NextOf(block, pos)]
<1> DEFINE L == Len(block)
           Body(g, pos) == IF pos = Len(block) THEN <<>>
                           ELSE FirstCut(block, pos) \o g[NextOf(block, pos)]
           Eq(g) == g = [pos \in 0 .. Len(block) |-> Body(g, pos)]
           from == CHOOSE g : Eq(g)
           G == {p \in 0 .. L : \E g : \A pos \in p .. L : g[pos] = Body(g, pos)}
<1>1. L \in Nat BY LenProperties DEF Chunk
<1>2. Fragments(block) = from[0] BY DEF Fragments, FirstCut, Fragment
<1>3. ASSUME NEW pos \in 0 .. L - 1
      PROVE  NextOf(block, pos) \in pos + 1 .. L
  BY <1>1, CutGoesOn
<1>4. L \in G
  <2> DEFINE g == [pos \in {L} |-> <<>>]
  <2>1. \A pos \in L .. L : pos = L BY <1>1
  <2>2. g[L] = Body(g, L) OBVIOUS
  <2>3. L \in 0 .. L BY <1>1
  <2> HIDE DEF g, Body
  <2> QED BY <2>1, <2>2, <2>3
<1>5. ASSUME NEW p \in 0 .. L - 1, \A q \in p + 1 .. L : q \in G PROVE p \in G
  <2>1. p + 1 \in G BY <1>1, <1>5
  <2>2. PICK g : \A pos \in p + 1 .. L : g[pos] = Body(g, pos) BY <2>1
  <2> DEFINE h == [pos \in p .. L |-> Body(g, pos)]
  <2>3. ASSUME NEW pos \in p .. L PROVE h[pos] = Body(h, pos)
    <3> DEFINE next == NextOf(block, pos)
    <3>1. h[pos] = Body(g, pos) OBVIOUS
    <3>2. CASE pos = L BY <3>1, <3>2
    <3>3. CASE pos # L
      <4>1. pos \in 0 .. L - 1 BY <1>1, <3>3
      <4>2. next \in pos + 1 .. L BY <1>3, <4>1
      <4> HIDE DEF next
      <4>3. next \in p + 1 .. L /\ next \in p .. L BY <1>1, <4>1, <4>2
      <4>4. h[next] = Body(g, next) BY <4>3
      <4>5. g[next] = Body(g, next) BY <2>2, <4>3
      <4>6. h[next] = g[next] BY <4>4, <4>5
      <4> QED BY <3>1, <4>6 DEF next
    <3> QED BY <3>2, <3>3
  <2>4. p \in 0 .. L BY <1>1
  <2> HIDE DEF h, Body
  <2> QED BY <2>3, <2>4
<1>6. 0 \in G
  <2>1. \A p \in 0 .. L : p \in G
    <3> HIDE DEF G, L
    <3> QED BY <1>1, <1>4, <1>5, DownFrom
  <2>2. 0 \in 0 .. L BY <1>1
  <2> HIDE DEF G
  <2> QED BY <2>1, <2>2
<1>7. \E g : Eq(g)
  <2>1. PICK g : \A pos \in 0 .. L : g[pos] = Body(g, pos) BY <1>6
  <2> DEFINE h == [pos \in 0 .. L |-> g[pos]]
  <2>2. ASSUME NEW pos \in 0 .. L PROVE Body(h, pos) = g[pos]
    <3>1. CASE pos = L BY <2>1, <3>1
    <3>2. CASE pos # L
      <4>1. pos \in 0 .. L - 1 BY <1>1, <3>2
      <4>2. NextOf(block, pos) \in 0 .. L BY <1>1, <1>3, <4>1
      <4>3. h[NextOf(block, pos)] = g[NextOf(block, pos)] BY <4>2
      <4> QED BY <2>1, <3>2, <4>3
    <3> QED BY <3>1, <3>2
  <2>3. Eq(h)
    <3> HIDE DEF Body
    <3> QED BY <2>2
  <2> QED BY <2>3
<1>8. Eq(from)
  <2> HIDE DEF Eq
  <2> QED BY <1>7
<1> HIDE DEF from
<1>9. \A pos \in 0 .. L : from[pos] = Body(from, pos)
  <2> HIDE DEF Body
  <2> QED BY <1>8
<1>10. from[L] = <<>> BY <1>1, <1>9
<1>11. ASSUME NEW pos \in 0 .. L - 1
       PROVE  from[pos] = FirstCut(block, pos) \o from[NextOf(block, pos)]
  <2>1. Body(from, pos) = FirstCut(block, pos) \o from[NextOf(block, pos)] BY <1>1
  <2>2. pos \in 0 .. L BY <1>1
  <2> HIDE DEF Body
  <2> QED BY <1>9, <2>1, <2>2
<1> QED BY <1>2, <1>10, <1>11

\* The fragments are long texts.
LEMMA FragmentsAreLong == ASSUME NEW block \in Chunk PROVE Fragments(block) \in Seq(Long)
<1> DEFINE L == Len(block)
<1>1. L \in Nat BY LenProperties DEF Chunk
<1>2. PICK from : /\ Fragments(block) = from[0]
                  /\ from[L] = <<>>
                  /\ \A pos \in 0 .. L - 1 :
                       from[pos] = FirstCut(block, pos) \o from[NextOf(block, pos)]
  BY FragmentsUnfold
<1>3. ASSUME NEW pos \in 0 .. L - 1 PROVE FirstCut(block, pos) \in Seq(Long)
  <2> DEFINE f == Fragment(block, pos)
  <2>1. EndOf(block, pos) \in Nat /\ EndOf(block, pos) <= Len(block) /\ pos + 1 \in Nat
    BY <1>1, CutGoesOn
  <2>2. SubSeq(block, pos + 1, EndOf(block, pos)) \in Chunk BY <2>1, PartOfText
  <2>3. f \in Chunk BY <2>2, StripIsText DEF Fragment
  <2> HIDE DEF f
  <2>4. CASE Len(f) >= MinChars
    <3>1. f \in Long BY <2>3, <2>4 DEF Long
    <3> QED BY <2>4, <3>1 DEF FirstCut, f
  <2>5. CASE ~ (Len(f) >= MinChars) BY <2>5, EmptySeq DEF FirstCut, f
  <2> QED BY <2>4, <2>5
<1> DEFINE H == {pos \in 0 .. L : from[pos] \in Seq(Long)}
<1>4. L \in H
  <2>1. L \in 0 .. L BY <1>1
  <2> QED BY <1>2, <2>1, EmptySeq
<1>5. ASSUME NEW pos \in 0 .. L - 1, \A q \in pos + 1 .. L : q \in H PROVE pos \in H
  <2>1. NextOf(block, pos) \in pos + 1 .. L BY <1>1, CutGoesOn
  <2>2. from[NextOf(block, pos)] \in Seq(Long) BY <1>5, <2>1
  <2>3. from[pos] = FirstCut(block, pos) \o from[NextOf(block, pos)] BY <1>2
  <2>4. from[pos] \in Seq(Long) BY <1>3, <2>2, <2>3, ConcatProperties
  <2>5. pos \in 0 .. L BY <1>1
  <2> QED BY <2>4, <2>5
<1>6. 0 \in H
  <2>1. \A pos \in 0 .. L : pos \in H
    <3> HIDE DEF H, L
    <3> QED BY <1>1, <1>4, <1>5, DownFrom
  <2>2. 0 \in 0 .. L BY <1>1
  <2> HIDE DEF H
  <2> QED BY <2>1, <2>2
<1> QED BY <1>2, <1>6

LEMMA BlockIsCut ==
  ASSUME NEW done \in Cutting, NEW block \in Chunk PROVE AddBlock(done, block) \in Cutting
<1>1. done.chunks \in Seq(Long) /\ Len(block) \in Nat BY LenProperties DEF Cutting, Chunk
<1>2. CASE Len(block) < MinChars BY <1>2 DEF AddBlock, Cutting
<1>3. CASE ~ (Len(block) < MinChars)
  <2>1. block \in Long BY <1>1, <1>3, Sizes DEF Long
  <2>2. Append(done.chunks, block) \in Seq(Long) BY <1>1, <2>1, AppendProperties
  <2>3. Carried(block) \in Chunk BY CarriedIsText
  <2> QED BY <1>3, <2>2, <2>3 DEF AddBlock, Cutting
<1> QED BY <1>2, <1>3

LEMMA SectionIsCut ==
  ASSUME NEW done \in Cutting, NEW section \in Chunk PROVE AddSection(done, section) \in Cutting
<1> DEFINE block == IF done.carry = <<>> THEN section
                    ELSE Strip(done.carry \o <<Blank>> \o section)
           fragments == Fragments(block)
<1>1. done.chunks \in Seq(Long) /\ done.carry \in Chunk BY DEF Cutting
<1>2. block \in Chunk
  <2>1. Blank \in Char BY DEF Blank, Char
  <2>2. <<Blank>> \in Chunk BY <2>1 DEF Chunk
  <2>3. done.carry \o <<Blank>> \in Chunk BY <1>1, <2>2, ConcatProperties DEF Chunk
  <2>4. done.carry \o <<Blank>> \o section \in Chunk BY <2>3, ConcatProperties DEF Chunk
  <2>5. Strip(done.carry \o <<Blank>> \o section) \in Chunk BY <2>4, StripIsText
  <2> QED BY <2>5
<1>3. \/ AddSection(done, section) = done
      \/ AddSection(done, section) = AddBlock(done, block)
      \/ AddSection(done, section) =
           [chunks |-> done.chunks \o fragments,
            carry |-> IF fragments = <<>> THEN done.carry ELSE Carried(Last(fragments))]
  <2>1. CASE section = <<>> BY <2>1 DEF AddSection
  <2>2. CASE section # <<>> /\ Len(block) <= MaxChars BY <2>2 DEF AddSection
  <2>3. CASE section # <<>> /\ ~ (Len(block) <= MaxChars)
    <3>1. Len(block) > MaxChars BY <1>2, <2>3, Sizes, LenProperties DEF Chunk
    <3> QED BY <2>3, <3>1 DEF AddSection
  <2> QED BY <2>1, <2>2, <2>3
<1> HIDE DEF block
<1>4. AddBlock(done, block) \in Cutting BY <1>2, BlockIsCut
<1>5. fragments \in Seq(Long) BY <1>2, FragmentsAreLong
<1> HIDE DEF fragments
<1>6. done.chunks \o fragments \in Seq(Long) BY <1>1, <1>5, ConcatProperties
<1>7. ASSUME fragments # <<>> PROVE Carried(Last(fragments)) \in Chunk
  <2>1. Len(fragments) \in 1 .. Len(fragments) BY <1>5, <1>7, EmptySeq, LenProperties
  <2>2. Last(fragments) \in Long BY <1>5, <2>1, ElementOfSeq DEF Last
  <2> QED BY <2>2, CarriedIsText DEF Long
<1>8. CASE AddSection(done, section) =
             [chunks |-> done.chunks \o fragments,
              carry |-> IF fragments = <<>> THEN done.carry ELSE Carried(Last(fragments))]
  <2> DEFINE carry == IF fragments = <<>> THEN done.carry ELSE Carried(Last(fragments))
  <2>1. carry \in Chunk BY <1>1, <1>7
  <2> HIDE DEF carry
  <2>2. [chunks |-> done.chunks \o fragments, carry |-> carry] \in Cutting
    BY <1>6, <2>1 DEF Cutting
  <2> QED BY <1>8, <2>2 DEF carry
<1> QED BY <1>3, <1>4, <1>8

\* What the chunker yields of any text is a sequence of texts that are not short.
LEMMA ChunkTextIsLong ==
  ASSUME NEW text \in Seq(Chunk) PROVE ChunkText(text) \in Seq(Long)
<1> DEFINE base == [chunks |-> <<>>, carry |-> <<>>]
           done == Fold(base, text)
<1>1. base \in Cutting BY EmptySeq DEF Cutting, Chunk
<1>2. Len(text) \in Nat /\ DOMAIN text = 1 .. Len(text) BY LenProperties
<1> HIDE DEF base
<1>3. \A v \in Cutting, i \in 1 .. Len(text) : AddSection(v, text[i]) \in Cutting
  <2>1. \A i \in 1 .. Len(text) : text[i] \in Chunk BY ElementOfSeq
  <2> QED BY <2>1, SectionIsCut
<1>4. done \in Cutting BY <1>1, <1>2, <1>3, FoldLeftKeeps
<1>5. FoldLeft(AddSection, base, text) = done BY DEF Fold, FoldLeft, MapThenFoldSet
<1> HIDE DEF done
<1>6. \/ ChunkText(text) = done.chunks
      \/ Len(done.carry) >= MinChars /\ ChunkText(text) = Append(done.chunks, done.carry)
  BY <1>5 DEF ChunkText, base
<1>7. done.chunks \in Seq(Long) /\ done.carry \in Chunk BY <1>4 DEF Cutting
<1>8. ASSUME Len(done.carry) >= MinChars PROVE Append(done.chunks, done.carry) \in Seq(Long)
  <2>1. done.carry \in Long BY <1>7, <1>8 DEF Long
  <2> QED BY <1>7, <2>1, AppendProperties
<1> QED BY <1>6, <1>7, <1>8

LEMMA ChunksLong == ChunksAreLong
<1> SUFFICES ASSUME NEW text \in DOMAIN Chunks
             PROVE  /\ Chunks[text] \in Seq(Seq(Char))
                    /\ \A k \in DOMAIN Chunks[text] : Len(Chunks[text][k]) >= MinChars
  BY DEF ChunksAreLong
<1>1. text \in UNION {Texts[file] : file \in Runbooks} /\ Chunks[text] = ChunkText(text)
  BY DEF Chunks
<1>2. text \in Seq(Chunk) BY <1>1, SearchIndexAssumption DEF Chunk, IsText
<1> DEFINE chunks == Chunks[text]
<1>3. chunks \in Seq(Long) BY <1>1, <1>2, ChunkTextIsLong
<1> HIDE DEF chunks
<1>4. \A k \in DOMAIN chunks : chunks[k] \in Long BY <1>3, ElementOfSeq, LenProperties
<1>5. chunks \in Seq(Chunk)
  <2>1. chunks \in [1 .. Len(chunks) -> Chunk] /\ Len(chunks) \in Nat
    BY <1>3, <1>4, LenProperties DEF Long
  <2> QED BY <2>1, IsASeq
<1>6. \A k \in DOMAIN chunks : Len(chunks[k]) >= MinChars BY <1>4 DEF Long
<1> QED BY <1>5, <1>6 DEF chunks, Chunk
-----------------------------------------------------------------------------
(* Blanks and slices.                                                      *)

\* A text whose blanks stand alone and are followed by a character.
Parted(s) ==
  /\ s \in Chunk /\ s # <<>> /\ s[Len(s)] # Blank
  /\ \A i \in 1 .. Len(s) - 1 : s[i] = Blank => s[i + 1] # Blank

\* Where the first character of such a text is.
Lead(s) == IF s[1] # Blank THEN 1 ELSE 2

\* t is what stands in s at the places from a to b.
Slice(t, s, a, b) ==
  /\ t \in Chunk /\ a \in 1 .. b /\ b \in 1 .. Len(s) /\ Len(t) = b - a + 1
  /\ \A i \in 1 .. b - a + 1 : t[i] = s[a + i - 1]

LEMMA ChunkFacts ==
  ASSUME NEW s \in Chunk
  PROVE  Len(s) \in Nat /\ DOMAIN s = 1 .. Len(s) /\ (s = <<>> <=> Len(s) = 0)
BY LenProperties, EmptySeq DEF Chunk

LEMMA LeadIn ==
  ASSUME NEW s, Parted(s)
  PROVE  /\ Lead(s) \in 1 .. Len(s) /\ s[Lead(s)] # Blank
         /\ \A i \in 1 .. Len(s) : s[i] # Blank => Lead(s) <= i
<1>1. Len(s) \in Nat /\ Len(s) >= 1
  <2>1. Len(s) \in Nat /\ Len(s) # 0 BY ChunkFacts DEF Parted
  <2> QED BY <2>1
<1>2. CASE s[1] # Blank BY <1>1, <1>2 DEF Lead
<1>3. CASE s[1] = Blank
  <2>1. Len(s) # 1 BY <1>3 DEF Parted
  <2>2. Len(s) >= 2 BY <1>1, <2>1
  <2>3. s[1] = Blank => s[1 + 1] # Blank
    <3>1. 1 \in 1 .. Len(s) - 1 BY <1>1, <2>2
    <3>2. \A i \in 1 .. Len(s) - 1 : s[i] = Blank => s[i + 1] # Blank BY DEF Parted
    <3> QED BY <3>1, <3>2
  <2>4. s[2] # Blank /\ Lead(s) = 2 BY <1>3, <2>3 DEF Lead
  <2>5. 2 \in 1 .. Len(s) BY <1>1, <2>2
  <2>6. \A i \in 1 .. Len(s) : i # 1 => 2 <= i BY <1>1
  <2> QED BY <1>3, <2>4, <2>5, <2>6
<1> QED BY <1>2, <1>3

LEMMA SubSeqSlice ==
  ASSUME NEW s \in Chunk, NEW b \in 1 .. Len(s), NEW a \in 1 .. b
  PROVE  Slice(SubSeq(s, a, b), s, a, b)
<1> DEFINE t == SubSeq(s, a, b)
<1>1. Len(s) \in Nat BY ChunkFacts
<1>2. a \in Nat /\ b \in Nat /\ 1 <= a /\ a <= b /\ b <= Len(s) BY <1>1
<1>3. t \in Chunk BY <1>2, PartOfText
<1>4. \A i \in a .. b : s[i] \in Char
  <2>1. \A i \in a .. b : i \in 1 .. Len(s) BY <1>1, <1>2
  <2> QED BY <2>1, ElementOfSeq DEF Chunk
<1>5. Len(t) = b - a + 1 /\ \A i \in 1 .. b - a + 1 : t[i] = s[a + i - 1]
  <2>1. /\ SubSeq(s, a, b) \in Seq(Char)
        /\ Len(SubSeq(s, a, b)) = IF a <= b THEN b - a + 1 ELSE 0
        /\ \A i \in 1 .. b - a + 1 : SubSeq(s, a, b)[i] = s[a + i - 1]
    BY <1>2, <1>4, SubSeqProperties
  <2> QED BY <1>2, <2>1
<1> HIDE DEF t
<1> QED BY <1>3, <1>5 DEF Slice, t

LEMMA SliceOfSlice ==
  ASSUME NEW s, NEW t, NEW u, NEW a, NEW b, NEW c, NEW d,
         s \in Chunk, Slice(t, s, a, b), Slice(u, t, c, d)
  PROVE  Slice(u, s, a + c - 1, a + d - 1)
<1>1. Len(s) \in Nat BY ChunkFacts
<1>2. /\ a \in 1 .. b /\ b \in 1 .. Len(s) /\ Len(t) = b - a + 1
      /\ \A i \in 1 .. b - a + 1 : t[i] = s[a + i - 1]
  BY DEF Slice
<1>3. /\ u \in Chunk /\ c \in 1 .. d /\ d \in 1 .. Len(t) /\ Len(u) = d - c + 1
      /\ \A i \in 1 .. d - c + 1 : u[i] = t[c + i - 1]
  BY DEF Slice
<1>4. a \in Nat /\ b \in Nat /\ c \in Nat /\ d \in Nat BY <1>1, <1>2, <1>3
<1>5. (a + d - 1) - (a + c - 1) = d - c BY <1>4
<1>6. a + c - 1 \in 1 .. a + d - 1 /\ a + d - 1 \in 1 .. Len(s) BY <1>1, <1>2, <1>3, <1>4
<1>7. \A i \in 1 .. d - c + 1 : u[i] = s[(a + c - 1) + i - 1]
  <2> TAKE i \in 1 .. d - c + 1
  <2>1. c + i - 1 \in 1 .. b - a + 1 /\ a + (c + i - 1) - 1 = (a + c - 1) + i - 1
    BY <1>2, <1>3, <1>4
  <2> QED BY <1>2, <1>3, <2>1
<1> QED BY <1>3, <1>5, <1>6, <1>7 DEF Slice

\* The characters of a slice.
LEMMA SliceChars ==
  ASSUME NEW s, NEW t, NEW a, NEW b, s \in Chunk, Slice(t, s, a, b)
  PROVE  /\ CharsOf(t) = {s[i] : i \in a .. b}
         /\ a \in Nat /\ b \in Nat /\ 1 <= a /\ a <= b /\ b <= Len(s)
<1>1. /\ t \in Chunk /\ a \in 1 .. b /\ b \in 1 .. Len(s) /\ Len(t) = b - a + 1
      /\ \A i \in 1 .. b - a + 1 : t[i] = s[a + i - 1]
  BY DEF Slice
<1>2. DOMAIN t = 1 .. b - a + 1 /\ Len(s) \in Nat BY <1>1, ChunkFacts
<1>3. a \in Nat /\ b \in Nat /\ 1 <= a /\ a <= b /\ b <= Len(s) BY <1>1, <1>2
<1>4. ASSUME NEW i \in a .. b PROVE \E j \in DOMAIN t : t[j] = s[i]
  <2>1. i - a + 1 \in 1 .. b - a + 1 /\ a + (i - a + 1) - 1 = i BY <1>3
  <2> QED BY <1>1, <1>2, <2>1
<1>5. ASSUME NEW j \in DOMAIN t PROVE \E i \in a .. b : t[j] = s[i]
  <2>1. a + j - 1 \in a .. b BY <1>2, <1>3
  <2> QED BY <1>1, <1>2, <2>1
<1>6. \A x \in CharsOf(t) : x \in {s[i] : i \in a .. b} BY <1>5 DEF CharsOf
<1>7. \A x \in {s[i] : i \in a .. b} : x \in CharsOf(t) BY <1>4 DEF CharsOf
<1> QED BY <1>3, <1>6, <1>7

LEMMA SliceParted ==
  ASSUME NEW s, NEW t, NEW a, NEW b, Parted(s), Slice(t, s, a, b), s[b] # Blank
  PROVE  Parted(t)
<1>1. /\ t \in Chunk /\ a \in 1 .. b /\ b \in 1 .. Len(s) /\ Len(t) = b - a + 1
      /\ \A i \in 1 .. b - a + 1 : t[i] = s[a + i - 1]
  BY DEF Slice
<1>2. Len(s) \in Nat BY ChunkFacts DEF Parted
<1>3. a \in Nat /\ b \in Nat BY <1>1, <1>2
<1>4. Len(t) \in 1 .. b - a + 1 /\ a + Len(t) - 1 = b BY <1>1, <1>3
<1>5. t[Len(t)] # Blank BY <1>1, <1>4
<1>6. t # <<>>
  <2>1. Len(t) # 0 BY <1>1, <1>3
  <2> QED BY <1>1, <2>1, ChunkFacts
<1>7. ASSUME NEW i \in 1 .. Len(t) - 1, t[i] = Blank PROVE t[i + 1] # Blank
  <2>1. /\ i \in 1 .. b - a + 1 /\ i + 1 \in 1 .. b - a + 1
        /\ a + i - 1 \in 1 .. Len(s) - 1 /\ (a + i - 1) + 1 = a + (i + 1) - 1
    BY <1>1, <1>2, <1>3
  <2>2. s[a + i - 1] = Blank => s[(a + i - 1) + 1] # Blank BY <2>1 DEF Parted
  <2> QED BY <1>1, <1>7, <2>1, <2>2
<1> QED BY <1>1, <1>5, <1>6, <1>7 DEF Parted

\* Stripping takes one blank from the front, if there is one.
LEMMA StripSlice ==
  ASSUME NEW s, Parted(s)
  PROVE  Slice(Strip(s), s, Lead(s), Len(s))
<1> DEFINE kept == {k \in DOMAIN s : s[k] # Blank}
<1>1. s \in Chunk /\ Len(s) \in Nat /\ Len(s) # 0 /\ DOMAIN s = 1 .. Len(s)
  BY ChunkFacts DEF Parted
<1>2. Len(s) \in kept BY <1>1 DEF Parted
<1>3. Lead(s) \in kept /\ \A i \in kept : Lead(s) <= i /\ i <= Len(s) BY <1>1, LeadIn
<1>4. kept \subseteq 1 .. Len(s) BY <1>1
<1> HIDE DEF kept
<1>5. Min(kept) = Lead(s)
  <2>1. ASSUME NEW x \in kept, \A y \in kept : x <= y PROVE x = Lead(s)
    <3>1. x <= Lead(s) /\ Lead(s) <= x BY <1>3, <2>1
    <3>2. x \in 1 .. Len(s) /\ Lead(s) \in 1 .. Len(s) BY <1>3, <1>4
    <3> QED BY <3>1, <3>2
  <2> QED BY <1>3, <2>1 DEF Min
<1>6. Max(kept) = Len(s)
  <2>1. ASSUME NEW x \in kept, \A y \in kept : x >= y PROVE x = Len(s)
    <3>1. x >= Len(s) /\ x \in 1 .. Len(s) BY <1>2, <1>4, <2>1
    <3>2. Len(s) \in Nat BY <1>1
    <3>3. x <= Len(s) BY <3>1, <3>2
    <3> QED BY <3>1, <3>2, <3>3
  <2>2. \A y \in kept : Len(s) >= y BY <1>1, <1>4
  <2> QED BY <1>2, <2>1, <2>2 DEF Max
<1>7. Strip(s) = SubSeq(s, Lead(s), Len(s)) BY <1>2, <1>5, <1>6 DEF Strip, kept
<1>8. Lead(s) \in 1 .. Len(s) /\ Len(s) \in 1 .. Len(s)
  <2>1. Lead(s) \in 1 .. Len(s) BY <1>3, <1>4
  <2> QED BY <1>1, <2>1
<1> QED BY <1>1, <1>7, <1>8, SubSeqSlice
-----------------------------------------------------------------------------
(* A block that is cut.                                                    *)

\* The texts of t follow each other in the block from p to e: none leaves it, each begins
\* inside the one before it, and together they have all of it.
Covers(t, block, p, e) ==
  /\ t \in Seq(Long) /\ t # <<>>
  /\ \A k \in DOMAIN t : CharsOf(t[k]) \subseteq {block[i] : i \in 1 .. e}
  /\ \A i \in p .. e : \E k \in DOMAIN t : block[i] \in CharsOf(t[k])
  /\ \A k \in 2 .. Len(t) : t[k][1] \in CharsOf(t[k - 1])
  /\ t[1][1] = block[p]
  /\ \E q \in Nat : Slice(Last(t), block, q, e)

\* The fragments from pos on, behind which the overlap of the one before ends.
Follows(t, block, pos, e) ==
  \/ t = <<>> /\ e = pos + OverlapChars
  \/ \E p \in pos + 1 .. pos + OverlapChars : Covers(t, block, p, e)

\* One more fragment in front.
LEMMA OneMoreFragment ==
  ASSUME NEW block \in Chunk, NEW f \in Long, NEW s, NEW p, NEW pos \in Nat, NEW e,
         Slice(f, block, p, pos + OverlapChars), p <= pos + 1,
         e \in pos + OverlapChars .. Len(block), Follows(s, block, pos, e)
  PROVE  Covers(<<f>> \o s, block, p, e)
<1> DEFINE a == pos + OverlapChars
           t == <<f>> \o s
<1>1. /\ CharsOf(f) = {block[i] : i \in p .. a} /\ Len(block) \in Nat
      /\ p \in Nat /\ a \in Nat /\ e \in Nat /\ 1 <= p /\ a <= e
  BY SliceChars, ChunkFacts, Sizes
<1>2. f[1] = block[p]
  <2>1. 1 \in 1 .. a - p + 1 /\ p + 1 - 1 = p
    <3>1. p <= a BY SliceChars
    <3> QED BY <1>1, <3>1
  <2> HIDE DEF a
  <2>2. \A i \in 1 .. a - p + 1 : f[i] = block[p + i - 1] BY DEF Slice, a
  <2> QED BY <2>1, <2>2
<1>3. CASE s = <<>> /\ e = a
  <2>1. t = <<f>> /\ Len(t) = 1 /\ DOMAIN t = {1} /\ t[1] = f /\ Last(t) = f
    <3>1. t = <<f>> BY <1>3, ConcatEmptySeq
    <3> QED BY <3>1 DEF Last
  <2>2. t \in Seq(Long) /\ t # <<>>
    <3>1. <<f>> \in Seq(Long) OBVIOUS
    <3>2. Len(<<f>>) = 1 OBVIOUS
    <3> QED BY <2>1, <3>1, <3>2, EmptySeq
  <2>3. CharsOf(f) \subseteq {block[i] : i \in 1 .. e} BY <1>1, <1>3
  <2>4. \A i \in p .. e : block[i] \in CharsOf(f) BY <1>1, <1>3
  <2> HIDE DEF t
  <2>5. \A k \in 2 .. Len(t) : FALSE BY <2>1
  <2> QED BY <1>1, <1>2, <1>3, <2>1, <2>2, <2>3, <2>4, <2>5 DEF Covers, t
<1>4. ASSUME NEW r \in pos + 1 .. a, Covers(s, block, r, e) PROVE Covers(t, block, p, e)
  <2>1. s \in Seq(Long) /\ s # <<>> /\ Len(s) \in Nat \ {0} /\ DOMAIN s = 1 .. Len(s)
    BY <1>4, EmptySeq, LenProperties DEF Covers
  <2>2. /\ t \in Seq(Long) /\ Len(t) = Len(s) + 1 /\ t[1] = f
        /\ \A k \in 2 .. Len(t) : t[k] = s[k - 1]
    <3>1. <<f>> \in Seq(Long) /\ Len(<<f>>) = 1 /\ <<f>>[1] = f OBVIOUS
    <3>2. /\ t \in Seq(Long) /\ Len(t) = 1 + Len(s)
          /\ \A i \in 1 .. 1 + Len(s) : t[i] = IF i <= 1 THEN <<f>>[i] ELSE s[i - 1]
      BY <2>1, <3>1, ConcatProperties
    <3> QED BY <2>1, <3>1, <3>2
  <2> HIDE DEF t
  <2>3. DOMAIN t = 1 .. Len(s) + 1 BY <2>2, LenProperties
  <2>4. t # <<>> BY <2>1, <2>2, EmptySeq
  <2>5. \A k \in 1 .. Len(s) : k + 1 \in DOMAIN t /\ t[k + 1] = s[k]
    <3> TAKE k \in 1 .. Len(s)
    <3>1. k + 1 \in 1 .. Len(s) + 1 /\ k + 1 \in 2 .. Len(t) /\ (k + 1) - 1 = k
      BY <2>1, <2>2
    <3>2. t[k + 1] = s[(k + 1) - 1] BY <2>2, <3>1
    <3> QED BY <2>3, <3>1, <3>2
  <2>6. Last(t) = Last(s) BY <2>1, <2>2, <2>5 DEF Last
  <2>7. \A k \in DOMAIN t : CharsOf(t[k]) \subseteq {block[i] : i \in 1 .. e}
    <3>1. CharsOf(f) \subseteq {block[i] : i \in 1 .. e} BY <1>1
    <3>2. \A k \in DOMAIN s : CharsOf(s[k]) \subseteq {block[i] : i \in 1 .. e}
      BY <1>4 DEF Covers
    <3>3. \A k \in DOMAIN t : k = 1 \/ (k - 1 \in DOMAIN s /\ t[k] = s[k - 1])
      BY <2>1, <2>2, <2>3
    <3> QED BY <2>2, <3>1, <3>2, <3>3
  <2>8. ASSUME NEW i \in p .. e PROVE \E k \in DOMAIN t : block[i] \in CharsOf(t[k])
    <3>1. CASE i <= a
      <4>1. block[i] \in CharsOf(f) BY <1>1, <3>1
      <4>2. 1 \in DOMAIN t BY <2>1, <2>3
      <4> QED BY <2>2, <4>1, <4>2
    <3>2. CASE ~ (i <= a)
      <4>1. i \in r .. e BY <1>1, <1>4, <3>2
      <4>2. PICK k \in DOMAIN s : block[i] \in CharsOf(s[k]) BY <1>4, <4>1 DEF Covers
      <4> QED BY <2>1, <2>5, <4>2
    <3> QED BY <3>1, <3>2
  <2>9. ASSUME NEW k \in 2 .. Len(t) PROVE t[k][1] \in CharsOf(t[k - 1])
    <3>1. CASE k = 2
      <4>1. t[2] = s[1] /\ s[1][1] = block[r] BY <1>4, <2>2, <2>9, <3>1 DEF Covers
      <4>2. block[r] \in CharsOf(f) BY <1>1, <1>4
      <4> QED BY <2>2, <3>1, <4>1, <4>2
    <3>2. CASE k # 2
      <4>1. k - 1 \in 2 .. Len(s) /\ k - 1 \in 2 .. Len(t) BY <2>1, <2>2, <3>2
      <4>2. t[k] = s[k - 1] /\ t[k - 1] = s[(k - 1) - 1] BY <2>2, <4>1
      <4>3. s[k - 1][1] \in CharsOf(s[(k - 1) - 1]) BY <1>4, <4>1 DEF Covers
      <4> QED BY <4>2, <4>3
    <3> QED BY <3>1, <3>2
  <2>10. \E q \in Nat : Slice(Last(t), block, q, e) BY <1>4, <2>6 DEF Covers
  <2> QED BY <1>2, <2>2, <2>4, <2>7, <2>8, <2>9, <2>10 DEF Covers
<1> QED BY <1>3, <1>4 DEF Follows

\* Where a fragment stands: one blank may be stripped from its front.
LEMMA FragmentAt ==
  ASSUME NEW block, Parted(block), NEW pos \in 0 .. Len(block) - 1,
         block[EndOf(block, pos)] # Blank
  PROVE  \E p \in {pos + 1, pos + 2} :
           /\ Slice(Fragment(block, pos), block, p, EndOf(block, pos))
           /\ block[p] # Blank
           /\ p = IF block[pos + 1] # Blank THEN pos + 1 ELSE pos + 2
<1> DEFINE e == EndOf(block, pos)
           t == SubSeq(block, pos + 1, e)
           p == pos + Lead(t)
<1>1. block \in Chunk /\ Len(block) \in Nat BY ChunkFacts DEF Parted
<1>2. e \in pos + 1 .. Len(block) BY <1>1, CutGoesOn
<1>3. block[e] # Blank OBVIOUS
<1> HIDE DEF e
<1>4. pos \in Nat /\ e \in 1 .. Len(block) /\ pos + 1 \in 1 .. e BY <1>1, <1>2
<1>5. Slice(t, block, pos + 1, e) BY <1>1, <1>4, SubSeqSlice
<1>6. Parted(t) BY <1>3, <1>5, SliceParted
<1>7. t \in Chunk /\ Len(t) = e - (pos + 1) + 1 /\ t[1] = block[pos + 1]
  <2>1. 1 \in 1 .. e - (pos + 1) + 1 /\ pos + 1 + 1 - 1 = pos + 1 BY <1>1, <1>4
  <2> QED BY <1>5, <2>1 DEF Slice
<1>8. Lead(t) \in 1 .. Len(t) /\ t[Lead(t)] # Blank BY <1>6, LeadIn
<1>9. Slice(Strip(t), t, Lead(t), Len(t)) BY <1>6, StripSlice
<1>10. Lead(t) = IF block[pos + 1] # Blank THEN 1 ELSE 2 BY <1>7 DEF Lead
<1>11. Slice(Strip(t), block, pos + 1 + Lead(t) - 1, pos + 1 + Len(t) - 1)
  <2> HIDE DEF t
  <2> QED BY <1>1, <1>5, <1>9, SliceOfSlice
<1>12. Fragment(block, pos) = Strip(t) BY DEF Fragment, t, e
<1>13. block[p] # Blank
  <2>1. t[Lead(t)] = block[pos + 1 + Lead(t) - 1]
    <3> HIDE DEF t
    <3>1. Lead(t) \in 1 .. e - (pos + 1) + 1 BY <1>7, <1>8
    <3> QED BY <1>5, <3>1 DEF Slice
  <2> HIDE DEF t
  <2>2. pos + 1 + Lead(t) - 1 = pos + Lead(t) BY <1>1, <1>4, <1>10
  <2> QED BY <1>8, <2>1, <2>2
<1> HIDE DEF t
<1>14. p \in {pos + 1, pos + 2} /\ p = IF block[pos + 1] # Blank THEN pos + 1 ELSE pos + 2
  BY <1>10
<1>15. pos + 1 + Lead(t) - 1 = p /\ pos + 1 + Len(t) - 1 = e BY <1>1, <1>4, <1>7, <1>10
<1>16. Slice(Fragment(block, pos), block, p, e) BY <1>11, <1>12, <1>15
<1> HIDE DEF p
<1> QED BY <1>13, <1>14, <1>16 DEF e

\* A block whose carried part holds the only blanks is cut without loss but a short end.
LEMMA FragmentsCover ==
  ASSUME NEW block, Parted(block), Len(block) > MaxChars, block[1] # Blank,
         \A i \in MinChars + 1 .. Len(block) : block[i] # Blank
  PROVE  \E e \in MaxChars .. Len(block) :
           /\ Len(block) - e < MinChars
           /\ Covers(Fragments(block), block, 1, e)
<1> DEFINE L == Len(block)
<1>1. block \in Chunk /\ L \in Nat BY ChunkFacts DEF Parted
<1>2. PICK from : /\ Fragments(block) = from[0]
                  /\ from[L] = <<>>
                  /\ \A pos \in 0 .. L - 1 :
                       from[pos] = FirstCut(block, pos) \o from[NextOf(block, pos)]
  BY <1>1, FragmentsUnfold
<1>3. L > MaxChars /\ MaxChars > MinChars /\ MinChars > OverlapChars /\ OverlapChars > 0
  BY Sizes
<1>4. \A i \in MaxChars .. L : block[i] # Blank
  <2>1. \A i \in MaxChars .. L : i \in MinChars + 1 .. L BY <1>1, <1>3, Sizes
  <2> QED BY <2>1
<1> HIDE DEF L
<1>5. ASSUME NEW pos \in 0 .. L - 1
      PROVE  LET e == EndOf(block, pos) f == Fragment(block, pos) IN
             /\ e = IF pos + MaxChars < L THEN pos + MaxChars ELSE L
             /\ \E p \in {pos + 1, pos + 2} :
                  /\ Slice(f, block, p, e) /\ block[p] # Blank
                  /\ p = IF block[pos + 1] # Blank THEN pos + 1 ELSE pos + 2
  <2>1. EndOf(block, pos) = IF pos + MaxChars < L THEN pos + MaxChars ELSE L BY DEF EndOf, L
  <2>2. EndOf(block, pos) \in MaxChars .. L BY <1>1, <1>3, <2>1, Sizes
  <2>3. block[EndOf(block, pos)] # Blank BY <1>4, <2>2
  <2> QED BY <2>1, <2>3, FragmentAt DEF L
<1>6. ASSUME NEW pos \in 0 .. L, L <= pos + OverlapChars PROVE from[pos] = <<>>
  <2>1. CASE pos = L BY <1>2, <2>1
  <2>2. CASE pos # L
    <3>1. pos \in 0 .. L - 1 BY <1>1, <2>2
    <3> DEFINE f == Fragment(block, pos)
    <3>2. EndOf(block, pos) = L BY <1>1, <1>3, <1>5, <1>6, <3>1, Sizes
    <3>3. PICK p \in {pos + 1, pos + 2} : Slice(f, block, p, L) BY <1>5, <3>1, <3>2
    <3>4. Len(f) = L - p + 1 /\ p \in Nat BY <3>1, <3>3 DEF Slice
    <3>5. Len(f) < MinChars BY <1>1, <1>3, <1>6, <3>1, <3>3, <3>4, Sizes
    <3>6. ~ (Len(f) >= MinChars) BY <1>1, <3>1, <3>4, <3>5, Sizes
    <3>7. FirstCut(block, pos) = <<>> BY <3>6 DEF FirstCut
    <3>8. NextOf(block, pos) = L BY <1>1, <1>6, <3>1, <3>2, Sizes DEF NextOf
    <3>9. from[pos] = <<>> \o <<>> BY <1>2, <3>1, <3>7, <3>8
    <3> QED BY <3>9
  <2> QED BY <2>1, <2>2
\* The fragments behind a fragment that is not the first.
<1> DEFINE Good(pos) == \E e \in pos + OverlapChars .. L :
                         L - e < MinChars /\ Follows(from[pos], block, pos, e)
           S == {pos \in 0 .. L : pos + OverlapChars \in MaxChars .. L => Good(pos)}
<1>7. ASSUME NEW pos \in 0 .. L - 1, pos + OverlapChars \in MaxChars .. L,
             \A q \in pos + 1 .. L : q \in S
      PROVE  Good(pos)
  <2> DEFINE f == Fragment(block, pos)
             end == EndOf(block, pos)
             next == NextOf(block, pos)
             a == pos + OverlapChars
  <2>1. end = IF pos + MaxChars < L THEN pos + MaxChars ELSE L BY <1>5
  <2>2. PICK p \in {pos + 1, pos + 2} :
          /\ Slice(f, block, p, end) /\ block[p] # Blank
          /\ p = IF block[pos + 1] # Blank THEN pos + 1 ELSE pos + 2
    BY <1>5
  <2>3. next = IF pos + OverlapChars < end THEN end - OverlapChars ELSE end BY DEF NextOf
  <2>4. from[pos] = FirstCut(block, pos) \o from[next] BY <1>2
  <2>5. FirstCut(block, pos) = IF Len(f) >= MinChars THEN <<f>> ELSE <<>> BY DEF FirstCut
  <2>6. Len(f) = end - p + 1 /\ f \in Chunk BY <2>2 DEF Slice
  <2> HIDE DEF f, end, next
  <2>7. p \in pos + 1 .. a
    <3>1. CASE p = pos + 1 BY <1>1, <1>3, <3>1, Sizes
    <3>2. CASE p # pos + 1
      <4>1. p = pos + 2 /\ block[pos + 1] = Blank BY <2>2, <3>2
      <4>2. block[a] # Blank BY <1>4, <1>7
      <4>3. OverlapChars # 1 BY <4>1, <4>2
      <4> QED BY <1>1, <1>3, <4>1, <4>3, Sizes
    <3> QED BY <3>1, <3>2
  <2>8. CASE L <= a
    <3>1. pos \in 0 .. L BY <1>1
    <3>2. from[pos] = <<>> BY <1>6, <2>8, <3>1
    <3>3. Follows(from[pos], block, pos, a) BY <3>2 DEF Follows
    <3>4. a \in a .. L /\ L - a < MinChars BY <1>1, <1>3, <1>7, <2>8, Sizes
    <3> QED BY <3>3, <3>4
  <2>9. CASE ~ (L <= a) /\ Len(f) >= MinChars
    <3>1. /\ end \in MaxChars .. L /\ a < end /\ next = end - OverlapChars
          /\ next \in pos + 1 .. L - 1 /\ next \in Nat /\ next + OverlapChars = end
          /\ p <= next + 1
      BY <1>1, <1>3, <1>7, <2>1, <2>2, <2>3, <2>9, Sizes
    <3>2. next \in S BY <1>1, <1>7, <3>1
    <3>3. PICK e \in next + OverlapChars .. L :
            L - e < MinChars /\ Follows(from[next], block, next, e)
      BY <3>1, <3>2
    <3>4. f \in Long BY <2>6, <2>9 DEF Long
    <3>5. Slice(f, block, p, next + OverlapChars) BY <2>2, <3>1
    <3>6. Covers(<<f>> \o from[next], block, p, e)
      BY <1>1, <3>1, <3>3, <3>4, <3>5, OneMoreFragment DEF L
    <3>7. from[pos] = <<f>> \o from[next] BY <2>4, <2>5, <2>9
    <3>8. Follows(from[pos], block, pos, e) BY <2>7, <3>6, <3>7 DEF Follows
    <3>9. e \in a .. L BY <1>1, <1>7, <3>1, <3>3, Sizes
    <3> QED BY <3>3, <3>8, <3>9
  <2>10. CASE ~ (L <= a) /\ ~ (Len(f) >= MinChars)
    <3>1. end = L
      <4>1. CASE pos + MaxChars < L
        <5>1. end = pos + MaxChars BY <2>1, <4>1
        <5>2. Len(f) = end - p + 1 BY <2>6
        <5>3. Len(f) >= MinChars BY <1>3, <2>2, <5>1, <5>2, Sizes
        <5> QED BY <2>10, <5>3
      <4>2. CASE ~ (pos + MaxChars < L) BY <2>1, <4>2
      <4> QED BY <4>1, <4>2
    <3>2. a < L /\ next = L - OverlapChars /\ next \in 0 .. L /\ L <= next + OverlapChars
      BY <1>1, <1>3, <1>7, <2>3, <2>10, <3>1, Sizes
    <3>3. from[next] = <<>> BY <1>6, <3>2
    <3>4. from[pos] = <<>> \o <<>> BY <2>4, <2>5, <2>10, <3>3
    <3>5. Follows(from[pos], block, pos, a) BY <3>4 DEF Follows
    <3>6. a \in a .. L BY <1>1, <1>7, <3>2, Sizes
    <3>7. L - a < MinChars BY <1>1, <1>3, <2>2, <2>6, <2>10, <3>1, Sizes
    <3> QED BY <3>5, <3>6, <3>7
  <2> QED BY <2>8, <2>9, <2>10
<1>8. \A pos \in 0 .. L : pos \in S
  <2>1. L \in S
    <3>1. ~ (L + OverlapChars \in MaxChars .. L) BY <1>1, Sizes
    <3>2. L \in 0 .. L BY <1>1
    <3> HIDE DEF Good
    <3> QED BY <3>1, <3>2
  <2>2. ASSUME NEW pos \in 0 .. L - 1, \A q \in pos + 1 .. L : q \in S PROVE pos \in S
    <3>1. pos \in 0 .. L BY <1>1
    <3>2. pos + OverlapChars \in MaxChars .. L => Good(pos) BY <1>7, <2>2
    <3> HIDE DEF Good
    <3> QED BY <3>1, <3>2
  <2> HIDE DEF S
  <2> QED BY <1>1, <2>1, <2>2, DownFrom
\* The first fragment.
<1> DEFINE f == Fragment(block, 0)
           next == MaxChars - OverlapChars
<1>9. 0 \in 0 .. L - 1 /\ 0 + MaxChars < L BY <1>1, <1>3, Sizes
<1>10. EndOf(block, 0) = MaxChars BY <1>5, <1>9, Sizes
<1>11. NextOf(block, 0) = next BY <1>3, <1>10, Sizes DEF NextOf
<1>12. Slice(f, block, 1, MaxChars)
  <2>1. PICK p \in {0 + 1, 0 + 2} :
          Slice(f, block, p, MaxChars) /\ p = IF block[0 + 1] # Blank THEN 0 + 1 ELSE 0 + 2
    BY <1>5, <1>9, <1>10
  <2>2. p = 1 BY <2>1
  <2> QED BY <2>1, <2>2
<1>13. Len(f) = MaxChars /\ f \in Long
  <2>1. Len(f) = MaxChars - 1 + 1 /\ f \in Chunk BY <1>12 DEF Slice
  <2>2. Len(f) = MaxChars BY <2>1, Sizes
  <2>3. Len(f) >= MinChars BY <1>3, <2>2, Sizes
  <2> QED BY <2>1, <2>2, <2>3 DEF Long
<1>14. Fragments(block) = <<f>> \o from[next]
  <2>1. Len(f) >= MinChars BY <1>13 DEF Long
  <2>2. FirstCut(block, 0) = <<f>> BY <2>1 DEF FirstCut
  <2> QED BY <1>2, <1>9, <1>11, <2>2
<1>15. /\ next \in 0 .. L /\ next \in Nat /\ next + OverlapChars = MaxChars
       /\ next + OverlapChars \in MaxChars .. L /\ 1 <= next + 1
  BY <1>1, <1>3, Sizes
<1>16. PICK e \in next + OverlapChars .. L :
         L - e < MinChars /\ Follows(from[next], block, next, e)
  BY <1>8, <1>15
<1> HIDE DEF f, next
<1>17. Covers(<<f>> \o from[next], block, 1, e)
  BY <1>1, <1>12, <1>13, <1>15, <1>16, OneMoreFragment DEF L
<1>18. e \in MaxChars .. L BY <1>1, <1>3, <1>15, <1>16, Sizes
<1> QED BY <1>14, <1>16, <1>17, <1>18 DEF L

\* A block that fits is its only fragment.
LEMMA BlockCovers ==
  ASSUME NEW block \in Long
  PROVE  Covers(<<block>>, block, 1, Len(block))
<1> DEFINE t == <<block>>
<1>1. t \in Seq(Long) /\ Len(t) = 1 /\ DOMAIN t = {1} /\ t[1] = block /\ Last(t) = block
  BY DEF Last
<1>2. t # <<>>
  <2> HIDE DEF t
  <2> QED BY <1>1, EmptySeq
<1>3. block \in Chunk /\ Len(block) \in Nat /\ Len(block) >= 1
  <2>1. block \in Chunk /\ Len(block) >= MinChars BY DEF Long
  <2>2. Len(block) \in Nat BY <2>1, ChunkFacts
  <2> QED BY <2>1, <2>2, Sizes
<1> HIDE DEF t
<1>4. Slice(block, block, 1, Len(block)) BY <1>3 DEF Slice
<1>5. CharsOf(block) = {block[i] : i \in 1 .. Len(block)} BY <1>3, ChunkFacts DEF CharsOf
<1>6. \A k \in 2 .. Len(t) : FALSE BY <1>1
<1>7. \A i \in 1 .. Len(block) : block[i] \in CharsOf(block) BY <1>5
<1> QED BY <1>1, <1>2, <1>4, <1>5, <1>6, <1>7 DEF Covers, t

\* What is carried from a chunk is its end, short and without a blank at the end.
LEMMA CarriedPart ==
  ASSUME NEW block, Parted(block), NEW s \in Chunk, NEW q \in Nat, NEW e,
         Slice(s, block, q, e), block[e] # Blank
  PROVE  /\ Parted(Carried(s)) /\ Len(Carried(s)) < MinChars
         /\ CharsOf(Carried(s)) \subseteq CharsOf(s)
<1> DEFINE a == IF Len(s) > OverlapChars THEN Len(s) - OverlapChars + 1 ELSE 1
           b == Len(s)
<1>1. block \in Chunk /\ Len(block) \in Nat BY ChunkFacts DEF Parted
<1>2. /\ Len(s) = e - q + 1 /\ q \in 1 .. e /\ e \in 1 .. Len(block) BY DEF Slice
<1>3. Len(s) \in Nat /\ Len(s) >= 1 BY <1>1, <1>2
<1>4. a \in 1 .. b /\ b \in 1 .. Len(s) /\ b - a + 1 <= OverlapChars
  BY <1>3, Sizes
<1> HIDE DEF a
<1>5. Carried(s) = SubSeq(s, a, b) BY DEF Carried, a
<1>6. Slice(Carried(s), s, a, b) BY <1>4, <1>5, SubSeqSlice
<1>7. Slice(Carried(s), block, q + a - 1, q + b - 1) BY <1>1, <1>6, SliceOfSlice
<1>8. q + b - 1 = e BY <1>1, <1>2
<1>9. Parted(Carried(s)) BY <1>7, <1>8, SliceParted
<1>10. Len(Carried(s)) = b - a + 1 BY <1>6 DEF Slice
<1>11. Len(Carried(s)) < MinChars BY <1>3, <1>4, <1>10, Sizes
<1>12. CharsOf(Carried(s)) = {s[i] : i \in a .. b} BY <1>6, SliceChars
<1>13. \A i \in a .. b : s[i] \in CharsOf(s)
  <2>1. \A i \in a .. b : i \in DOMAIN s BY <1>3, <1>4, ChunkFacts
  <2> QED BY <2>1 DEF CharsOf
<1> QED BY <1>9, <1>11, <1>12, <1>13

\* What is carried and the section behind it, as one block: z of its places are those
\* of what is carried.
BlockOf(carry, section) ==
  IF carry = <<>> THEN section ELSE Strip(carry \o <<Blank>> \o section)

LEMMA BlockParts ==
  ASSUME NEW carry \in Chunk, carry = <<>> \/ Parted(carry),
         NEW section \in Chunk, section # <<>>, Blank \notin CharsOf(section)
  PROVE  LET block == BlockOf(carry, section) IN
         /\ Parted(block) /\ block[1] # Blank
         /\ carry # <<>> => block[1] = carry[Lead(carry)]
         /\ \E z \in 0 .. Len(carry) + 1 :
              /\ Len(block) = z + Len(section)
              /\ \A i \in 1 .. Len(section) : block[z + i] = section[i]
              /\ \A i \in 1 .. z : block[i] = Blank \/ block[i] \in CharsOf(carry)
              /\ \A c \in CharsOf(carry) : c = Blank \/ \E i \in 1 .. z : block[i] = c
<1> DEFINE lc == Len(carry)
           ls == Len(section)
<1>1. lc \in Nat /\ ls \in Nat /\ ls >= 1 /\ DOMAIN carry = 1 .. lc /\ DOMAIN section = 1 .. ls
  <2>1. ls \in Nat /\ ls # 0 BY ChunkFacts
  <2>2. ls >= 1 BY <2>1
  <2> QED BY <2>1, <2>2, ChunkFacts
<1>2. \A i \in 1 .. ls : section[i] # Blank BY <1>1 DEF CharsOf
<1>3. CASE carry = <<>>
  <2>1. BlockOf(carry, section) = section BY <1>3 DEF BlockOf
  <2>2. Parted(section)
    <3>1. ls \in 1 .. ls BY <1>1
    <3>2. \A i \in 1 .. ls - 1 : i \in 1 .. ls BY <1>1
    <3> QED BY <1>2, <3>1, <3>2 DEF Parted
  <2>3. section[1] # Blank
    <3>1. 1 \in 1 .. ls BY <1>1
    <3> QED BY <1>2, <3>1
  <2>4. lc = 0 /\ CharsOf(carry) = {}
    <3>1. lc = 0 BY <1>3, ChunkFacts
    <3> QED BY <1>1, <3>1 DEF CharsOf
  <2> DEFINE z == 0
  <2>5. z \in 0 .. lc + 1 /\ ls = z + ls /\ \A i \in 1 .. ls : z + i = i BY <1>1
  <2> HIDE DEF z
  <2>6. \A i \in 1 .. z : FALSE BY DEF z
  <2> QED BY <1>3, <2>1, <2>2, <2>3, <2>4, <2>5, <2>6
<1>4. CASE carry # <<>>
  <2> DEFINE t == carry \o <<Blank>> \o section
             lead == Lead(carry)
             z == lc + 2 - lead
             block == Strip(t)
  <2>1. Parted(carry) BY <1>4
  <2>2. /\ t \in Chunk /\ Len(t) = lc + 1 + ls
        /\ \A i \in 1 .. lc : t[i] = carry[i]
        /\ t[lc + 1] = Blank
        /\ \A i \in 1 .. ls : t[lc + 1 + i] = section[i]
    <3> DEFINE u == carry \o <<Blank>>
    <3>1. Blank \in Char BY DEF Blank, Char
    <3>2. <<Blank>> \in Seq(Char) /\ Len(<<Blank>>) = 1 /\ <<Blank>>[1] = Blank BY <3>1
    <3>3. carry \in Seq(Char) /\ section \in Seq(Char) BY DEF Chunk
    <3>4. /\ u \in Seq(Char) /\ Len(u) = lc + 1
          /\ \A i \in 1 .. lc + 1 : u[i] = IF i <= lc THEN carry[i] ELSE <<Blank>>[i - lc]
      <4>1. /\ u \in Seq(Char) /\ Len(u) = lc + Len(<<Blank>>)
            /\ \A i \in 1 .. lc + Len(<<Blank>>) :
                 u[i] = IF i <= lc THEN carry[i] ELSE <<Blank>>[i - lc]
        BY <3>2, <3>3, ConcatProperties
      <4> QED BY <3>2, <4>1
    <3>5. u[lc + 1] = Blank
      <4>1. lc + 1 \in 1 .. lc + 1 /\ ~ (lc + 1 <= lc) /\ (lc + 1) - lc = 1 BY <1>1
      <4> QED BY <3>2, <3>4, <4>1
    <3>6. \A i \in 1 .. lc : u[i] = carry[i] BY <1>1, <3>4
    <3> HIDE DEF u
    <3>7. t = u \o section BY DEF u
    <3>8. /\ t \in Seq(Char) /\ Len(t) = Len(u) + ls
          /\ \A i \in 1 .. Len(u) + ls : t[i] = IF i <= Len(u) THEN u[i] ELSE section[i - Len(u)]
      BY <3>3, <3>4, <3>7, ConcatProperties
    <3> HIDE DEF t
    <3>9. \A i \in 1 .. lc : t[i] = carry[i] BY <1>1, <3>4, <3>6, <3>8
    <3>10. t[lc + 1] = Blank BY <1>1, <3>4, <3>5, <3>8
    <3>11. \A i \in 1 .. ls : t[lc + 1 + i] = section[i]
      <4> TAKE i \in 1 .. ls
      <4>1. /\ lc + 1 + i \in 1 .. Len(u) + ls /\ ~ (lc + 1 + i <= Len(u))
            /\ (lc + 1 + i) - Len(u) = i
        BY <1>1, <3>4
      <4> QED BY <3>8, <4>1
    <3> QED BY <3>4, <3>8, <3>9, <3>10, <3>11 DEF Chunk
  <2>3. /\ lead \in 1 .. lc /\ carry[lead] # Blank
        /\ \A i \in 1 .. lc : carry[i] # Blank => lead <= i
    BY <2>1, LeadIn
  <2>4. carry[lc] # Blank BY <2>1 DEF Parted
  <2> HIDE DEF t
  <2>5. Parted(t)
    <3>1. t # <<>> BY <1>1, <2>2, ChunkFacts
    <3>2. t[Len(t)] # Blank
      <4>1. ls \in 1 .. ls BY <1>1
      <4> QED BY <1>2, <2>2, <4>1
    <3>3. ASSUME NEW i \in 1 .. Len(t) - 1, t[i] = Blank PROVE t[i + 1] # Blank
      <4>1. i \in Nat /\ i >= 1 /\ i <= lc + ls BY <1>1, <2>2
      <4>2. CASE i <= lc
        <5>1. lc \in Nat BY <1>1
        <5>2. i \in 1 .. lc BY <4>1, <4>2, <5>1
        <5>3. carry[i] = Blank BY <2>2, <3>3, <5>2
        <5>4. i # lc BY <2>4, <5>3
        <5>5. i \in 1 .. lc - 1 /\ i + 1 \in 1 .. lc BY <4>1, <4>2, <5>1, <5>4
        <5>6. carry[i] = Blank => carry[i + 1] # Blank BY <2>1, <5>5 DEF Parted
        <5> QED BY <2>2, <5>3, <5>5, <5>6
      <4>3. CASE i = lc + 1
        <5>1. 1 \in 1 .. ls /\ lc + 1 + 1 = i + 1 BY <1>1, <4>3
        <5> QED BY <1>2, <2>2, <5>1
      <4>4. CASE i > lc + 1
        <5>1. i - (lc + 1) \in 1 .. ls /\ lc + 1 + (i - (lc + 1)) = i BY <1>1, <4>1, <4>4
        <5>2. t[i] = section[i - (lc + 1)] BY <2>2, <5>1
        <5> QED BY <1>2, <3>3, <5>1, <5>2
      <4> QED BY <1>1, <4>1, <4>2, <4>3, <4>4
    <3> QED BY <2>2, <3>1, <3>2, <3>3 DEF Parted
  <2>6. t[1] = carry[1] BY <1>1, <2>2, <2>3
  <2>7. Lead(t) = lead BY <2>6 DEF Lead
  <2>8. Slice(block, t, lead, Len(t)) BY <2>5, <2>7, StripSlice
  <2>9. BlockOf(carry, section) = block BY <1>4 DEF BlockOf, t
  <2> HIDE DEF block, lead
  <2>10. t[Len(t)] # Blank BY <2>5 DEF Parted
  <2>11. Parted(block) BY <2>5, <2>8, <2>10, SliceParted
  <2>12. /\ Len(block) = Len(t) - lead + 1
         /\ \A i \in 1 .. Len(t) - lead + 1 : block[i] = t[lead + i - 1]
    BY <2>8 DEF Slice
  <2>13. z \in 0 .. lc + 1 /\ Len(block) = z + ls BY <1>1, <2>2, <2>3, <2>12
  <2>14. \A i \in 1 .. ls : block[z + i] = section[i]
    <3> TAKE i \in 1 .. ls
    <3>1. z + i \in 1 .. Len(t) - lead + 1 /\ lead + (z + i) - 1 = lc + 1 + i
      BY <1>1, <2>2, <2>3
    <3> QED BY <2>2, <2>12, <3>1
  <2>15. \A i \in 1 .. z : block[i] = Blank \/ block[i] \in CharsOf(carry)
    <3> TAKE i \in 1 .. z
    <3> DEFINE j == lead + i - 1
    <3>1. i \in 1 .. Len(t) - lead + 1 /\ j \in 1 .. lc + 1 BY <1>1, <2>2, <2>3
    <3>2. block[i] = t[j] BY <2>12, <3>1
    <3> HIDE DEF j
    <3>3. CASE j = lc + 1 BY <2>2, <3>2, <3>3
    <3>4. CASE j # lc + 1
      <4>1. j \in 1 .. lc BY <1>1, <3>1, <3>4
      <4>2. block[i] = carry[j] /\ j \in DOMAIN carry BY <1>1, <2>2, <3>2, <4>1
      <4> QED BY <4>2 DEF CharsOf
    <3> QED BY <3>3, <3>4
  <2>16. ASSUME NEW c \in CharsOf(carry), c # Blank PROVE \E i \in 1 .. z : block[i] = c
    <3>1. PICK j \in 1 .. lc : c = carry[j] BY <1>1 DEF CharsOf
    <3>2. lead <= j BY <2>3, <2>16, <3>1
    <3>3. /\ j - lead + 1 \in 1 .. z /\ j - lead + 1 \in 1 .. Len(t) - lead + 1
          /\ lead + (j - lead + 1) - 1 = j
      BY <1>1, <2>2, <2>3, <3>1, <3>2
    <3>4. block[j - lead + 1] = c BY <2>2, <2>12, <3>1, <3>3
    <3> QED BY <3>3, <3>4
  <2>17. block[1] = carry[lead]
    <3>1. 1 \in 1 .. Len(t) - lead + 1 /\ lead + 1 - 1 = lead BY <1>1, <2>2, <2>3
    <3> QED BY <2>2, <2>3, <2>12, <3>1
  <2> HIDE DEF z
  <2> QED BY <2>3, <2>9, <2>11, <2>13, <2>14, <2>15, <2>16, <2>17 DEF lead
<1> QED BY <1>3, <1>4
-----------------------------------------------------------------------------
(* What is kept of the sections that were read.                            *)

\* The characters of the chunks.
KeptOf(chunks) == UNION {CharsOf(chunks[k]) : k \in DOMAIN chunks}

\* Of a section that was cut only a short end is lost.
Shortened(text, k, kept) ==
  \E c \in 0 .. Len(text[k]) :
    /\ Len(text[k]) - c < MinChars
    /\ c = 0 => text[k] = <<>>
    /\ \A i \in 1 .. Len(text[k]) : text[k][i] \in kept <=> i <= c

\* A section that is carried and not in a chunk yet.
Waits(text, k, done) ==
  /\ text[k] # <<>>
  /\ \A c \in CharsOf(text[k]) : c \notin KeptOf(done.chunks) /\ c \in CharsOf(done.carry)

\* What the chunker has when it has read m sections.
ReadTo(text, m, done) ==
  /\ done \in Cutting
  /\ Len(done.carry) < MinChars
  /\ done.carry = <<>> \/ Parted(done.carry)
  /\ \A c \in KeptOf(done.chunks) : c = Blank \/ c[1] \in 1 .. m
  /\ \A c \in CharsOf(done.carry) :
       \/ c = Blank
       \/ c[1] \in 1 .. m /\ (c \in KeptOf(done.chunks) \/ Waits(text, c[1], done))
  /\ \A k \in 2 .. Len(done.chunks) : done.chunks[k][1] \in CharsOf(done.chunks[k - 1])
  /\ done.chunks # <<>> =>
       done.carry # <<>> /\ done.carry[Lead(done.carry)] \in CharsOf(Last(done.chunks))
  /\ \A k \in 1 .. m : Shortened(text, k, KeptOf(done.chunks)) \/ Waits(text, k, done)
  /\ \A k, l \in 1 .. m : k < l /\ Waits(text, k, done) => text[l] = <<>> \/ Waits(text, l, done)

\* A character of a text knows its section.
Located(text, k) ==
  /\ text[k] \in Chunk /\ Len(text[k]) \in Nat
  /\ \A c \in CharsOf(text[k]) :
       c[1] = k /\ c # Blank /\ \E i \in 1 .. Len(text[k]) : c = text[k][i]
  /\ \A i \in 1 .. Len(text[k]) :
       text[k][i] \in CharsOf(text[k]) /\ text[k][i][1] = k /\ text[k][i] # Blank
  /\ \A i, j \in 1 .. Len(text[k]) : text[k][i] = text[k][j] => i = j
  /\ text[k] # <<>> => Len(text[k]) >= 1

LEMMA TextFacts ==
  ASSUME NEW text, IsText(text)
  PROVE  Len(text) \in Nat /\ \A k \in 1 .. Len(text) : Located(text, k)
<1>1. Len(text) \in Nat BY LenProperties DEF IsText
<1> SUFFICES ASSUME NEW k \in 1 .. Len(text) PROVE Located(text, k) BY <1>1
<1>2. text \in Seq(Seq(Char)) BY DEF IsText
<1>3. DOMAIN text = 1 .. Len(text) /\ Len(text) \in Nat BY <1>2, LenProperties
<1>4. text[k] \in Chunk BY <1>2, ElementOfSeq DEF Chunk
<1>5. DOMAIN text[k] = 1 .. Len(text[k]) /\ Len(text[k]) \in Nat BY <1>4, ChunkFacts
<1>6. \A i \in 1 .. Len(text[k]) : text[k][i] = <<k, i>> BY <1>3, <1>5 DEF IsText
<1>7. k # 0 BY <1>3
<1>8. text[k] # <<>> => Len(text[k]) >= 1
  <2>1. text[k] # <<>> => Len(text[k]) # 0 BY <1>4, ChunkFacts
  <2> QED BY <1>5, <2>1
<1>9. \A i \in 1 .. Len(text[k]) : text[k][i][1] = k /\ text[k][i] # Blank
  BY <1>6, <1>7 DEF Blank
<1>10. \A i, j \in 1 .. Len(text[k]) : text[k][i] = text[k][j] => i = j BY <1>6
<1>11. \A i \in 1 .. Len(text[k]) : text[k][i] \in CharsOf(text[k]) BY <1>5 DEF CharsOf
<1>12. ASSUME NEW c \in CharsOf(text[k])
       PROVE  c[1] = k /\ c # Blank /\ \E i \in 1 .. Len(text[k]) : c = text[k][i]
  <2>1. PICK i \in 1 .. Len(text[k]) : c = text[k][i] BY <1>5 DEF CharsOf
  <2> QED BY <1>9, <2>1
<1> QED BY <1>4, <1>5, <1>8, <1>9, <1>10, <1>11, <1>12, Zenon DEF Located

LEMMA NotBoth ==
  ASSUME NEW text, IsText(text), NEW k \in 1 .. Len(text), NEW done,
         Shortened(text, k, KeptOf(done.chunks)), Waits(text, k, done)
  PROVE  FALSE
<1>1. PICK c \in 0 .. Len(text[k]) :
        /\ c = 0 => text[k] = <<>>
        /\ \A i \in 1 .. Len(text[k]) : text[k][i] \in KeptOf(done.chunks) <=> i <= c
  BY DEF Shortened
<1>2. text[k] # <<>> BY DEF Waits
<1>3. Located(text, k) BY TextFacts
<1>4. 1 \in 1 .. Len(text[k]) /\ 1 <= c BY <1>1, <1>2, <1>3 DEF Located
<1>5. text[k][1] \in KeptOf(done.chunks) BY <1>1, <1>4
<1>6. text[k][1] \in CharsOf(text[k]) BY <1>4, <1>3 DEF Located
<1> QED BY <1>5, <1>6 DEF Waits

LEMMA KeptOfConcat ==
  ASSUME NEW s \in Seq(Long), NEW t \in Seq(Long)
  PROVE  KeptOf(s \o t) = KeptOf(s) \cup KeptOf(t)
<1> DEFINE u == s \o t
<1>1. /\ Len(s) \in Nat /\ DOMAIN s = 1 .. Len(s)
      /\ Len(t) \in Nat /\ DOMAIN t = 1 .. Len(t)
  BY LenProperties
<1>2. /\ u \in Seq(Long) /\ Len(u) = Len(s) + Len(t)
      /\ \A i \in 1 .. Len(s) + Len(t) : u[i] = IF i <= Len(s) THEN s[i] ELSE t[i - Len(s)]
  BY ConcatProperties
<1>3. DOMAIN u = 1 .. Len(s) + Len(t)
  <2> HIDE DEF u
  <2> QED BY <1>2, LenProperties
<1> HIDE DEF u
<1>4. ASSUME NEW i \in DOMAIN s PROVE i \in DOMAIN u /\ u[i] = s[i] BY <1>1, <1>2, <1>3
<1>5. ASSUME NEW i \in DOMAIN t PROVE Len(s) + i \in DOMAIN u /\ u[Len(s) + i] = t[i]
  <2>1. Len(s) + i \in 1 .. Len(s) + Len(t) /\ ~ (Len(s) + i <= Len(s)) /\ (Len(s) + i) - Len(s) = i
    BY <1>1
  <2> QED BY <1>2, <1>3, <2>1
<1>6. ASSUME NEW i \in DOMAIN u
      PROVE  (\E j \in DOMAIN s : u[i] = s[j]) \/ (\E j \in DOMAIN t : u[i] = t[j])
  <2>1. CASE i <= Len(s) BY <1>1, <1>2, <1>3, <2>1
  <2>2. CASE ~ (i <= Len(s))
    <3>1. i - Len(s) \in DOMAIN t /\ u[i] = t[i - Len(s)] BY <1>1, <1>2, <1>3, <2>2
    <3> QED BY <3>1
  <2> QED BY <2>1, <2>2
<1>7. \A x : x \in KeptOf(u) <=> \E i \in DOMAIN u : x \in CharsOf(u[i]) BY DEF KeptOf
<1>8. \A x : x \in KeptOf(s) <=> \E i \in DOMAIN s : x \in CharsOf(s[i]) BY DEF KeptOf
<1>9. \A x : x \in KeptOf(t) <=> \E i \in DOMAIN t : x \in CharsOf(t[i]) BY DEF KeptOf
<1>10. \A x : x \in KeptOf(u) <=> x \in KeptOf(s) \/ x \in KeptOf(t)
  BY <1>4, <1>5, <1>6, <1>7, <1>8, <1>9
<1>11. KeptOf(u) = KeptOf(s) \cup KeptOf(t) BY <1>10
<1> QED BY <1>11 DEF u

LEMMA KeptOfCover ==
  ASSUME NEW block, NEW t, NEW e, Covers(t, block, 1, e)
  PROVE  KeptOf(t) = {block[i] : i \in 1 .. e}
<1>1. \A x \in KeptOf(t) : x \in {block[i] : i \in 1 .. e} BY DEF KeptOf, Covers
<1>2. \A i \in 1 .. e : block[i] \in KeptOf(t) BY DEF KeptOf, Covers
<1> QED BY <1>1, <1>2

\* Chunks that follow chunks.
LEMMA ChainOfConcat ==
  ASSUME NEW s \in Seq(Long), NEW t \in Seq(Long), t # <<>>,
         \A k \in 2 .. Len(s) : s[k][1] \in CharsOf(s[k - 1]),
         \A k \in 2 .. Len(t) : t[k][1] \in CharsOf(t[k - 1]),
         s # <<>> => t[1][1] \in CharsOf(Last(s))
  PROVE  /\ s \o t \in Seq(Long) /\ s \o t # <<>> /\ Last(s \o t) = Last(t)
         /\ \A k \in 2 .. Len(s \o t) : (s \o t)[k][1] \in CharsOf((s \o t)[k - 1])
<1> DEFINE u == s \o t
           n == Len(s)
<1>1. n \in Nat /\ Len(t) \in Nat /\ Len(t) # 0 /\ (s # <<>> => n # 0)
  <2>1. n \in Nat /\ Len(t) \in Nat BY LenProperties
  <2>2. Len(t) \in Nat \ {0} /\ (s # <<>> => n \in Nat \ {0}) BY EmptySeq
  <2> QED BY <2>1, <2>2
<1>2. s = <<>> => n = 0 BY EmptySeq
<1>3. /\ u \in Seq(Long) /\ Len(u) = n + Len(t)
      /\ \A i \in 1 .. n + Len(t) : u[i] = IF i <= n THEN s[i] ELSE t[i - n]
  BY ConcatProperties
<1> HIDE DEF u, n
<1>4. u # <<>>
  <2>1. Len(u) # 0 BY <1>1, <1>3
  <2> QED BY <1>3, <2>1, EmptySeq
<1>5. Last(u) = Last(t)
  <2>1. n + Len(t) \in 1 .. n + Len(t) /\ ~ (n + Len(t) <= n) /\ (n + Len(t)) - n = Len(t)
    BY <1>1
  <2> QED BY <1>3, <2>1 DEF Last
<1>6. ASSUME NEW k \in 2 .. Len(u) PROVE u[k][1] \in CharsOf(u[k - 1])
  <2>1. k \in 1 .. n + Len(t) /\ k - 1 \in 1 .. n + Len(t) BY <1>1, <1>3
  <2>2. CASE k <= n
    <3>1. u[k] = s[k] /\ u[k - 1] = s[k - 1] /\ k \in 2 .. Len(s)
      BY <1>1, <1>3, <2>1, <2>2 DEF n
    <3> QED BY <3>1
  <2>3. CASE k = n + 1
    <3>1. ~ (k <= n) /\ k - n = 1 /\ k - 1 = n /\ k - 1 <= n /\ n # 0 BY <1>1, <2>1, <2>3
    <3>2. u[k] = t[1] BY <1>3, <2>1, <3>1
    <3>3. u[k - 1] = s[n] BY <1>3, <2>1, <3>1
    <3>4. s # <<>> BY <1>2, <3>1
    <3> QED BY <3>2, <3>3, <3>4 DEF Last, n
  <2>4. CASE k > n + 1
    <3>1. /\ k - n \in 2 .. Len(t) /\ ~ (k <= n) /\ ~ (k - 1 <= n)
          /\ (k - 1) - n = (k - n) - 1
      BY <1>1, <1>3, <2>4
    <3>2. u[k] = t[k - n] BY <1>3, <2>1, <3>1
    <3>3. u[k - 1] = t[(k - n) - 1] BY <1>3, <2>1, <3>1
    <3> QED BY <3>1, <3>2, <3>3
  <2> QED BY <1>1, <2>1, <2>2, <2>3, <2>4
<1> QED BY <1>3, <1>4, <1>5, <1>6 DEF u

LEMMA NothingRead ==
  ASSUME NEW text PROVE ReadTo(text, 0, [chunks |-> <<>>, carry |-> <<>>])
<1> DEFINE done == [chunks |-> <<>>, carry |-> <<>>]
<1>1. <<>> \in Seq(Long) /\ <<>> \in Chunk /\ Len(<<>>) = 0 BY EmptySeq DEF Chunk
<1>2. done \in Cutting BY <1>1 DEF Cutting
<1>3. done.chunks = <<>> /\ done.carry = <<>> OBVIOUS
<1> HIDE DEF done
<1>4. KeptOf(done.chunks) = {} /\ CharsOf(done.carry) = {} BY <1>3 DEF KeptOf, CharsOf
<1>5. Len(done.carry) < MinChars BY <1>1, <1>3, Sizes
<1>6. \A k \in 2 .. Len(done.chunks) : FALSE BY <1>1, <1>3
<1>7. \A k \in 1 .. 0 : FALSE OBVIOUS
<1>8. ReadTo(text, 0, done) BY <1>2, <1>3, <1>4, <1>5, <1>6, <1>7 DEF ReadTo
<1> QED BY <1>8 DEF done

\* A section without text changes nothing.
LEMMA EmptySection ==
  ASSUME NEW text, IsText(text), NEW n \in 1 .. Len(text), NEW done,
         ReadTo(text, n - 1, done), text[n] = <<>>
  PROVE  ReadTo(text, n, done)
<1>1. \A k \in 1 .. n : k \in 1 .. n - 1 \/ k = n OBVIOUS
<1>2. \A k \in 1 .. n - 1 : k \in 1 .. n OBVIOUS
<1>3. Len(text[n]) = 0 BY EmptySeq
<1>4. Shortened(text, n, KeptOf(done.chunks))
  <2>1. 0 \in 0 .. Len(text[n]) /\ Len(text[n]) - 0 < MinChars BY <1>3, Sizes
  <2>2. \A i \in 1 .. Len(text[n]) : FALSE BY <1>3
  <2> QED BY <2>1, <2>2 DEF Shortened
<1>5. \A k \in 1 .. n : Shortened(text, k, KeptOf(done.chunks)) \/ Waits(text, k, done)
  BY <1>1, <1>4 DEF ReadTo
<1>6. ~ Waits(text, n, done) BY DEF Waits
<1>7. \A k, l \in 1 .. n :
        k < l /\ Waits(text, k, done) => text[l] = <<>> \/ Waits(text, l, done)
  BY <1>1, <1>6 DEF ReadTo
<1>8. \A c \in KeptOf(done.chunks) : c = Blank \/ c[1] \in 1 .. n BY <1>2 DEF ReadTo
<1>9. \A c \in CharsOf(done.carry) :
        \/ c = Blank
        \/ c[1] \in 1 .. n /\ (c \in KeptOf(done.chunks) \/ Waits(text, c[1], done))
  BY <1>2 DEF ReadTo
<1> QED BY <1>5, <1>7, <1>8, <1>9 DEF ReadTo

\* What the block of the section behind others is made of: z places of what is carried,
\* then the section.
MadeOf(block, text, n, done) ==
  /\ Parted(block) /\ block \in Chunk /\ Len(block) \in Nat /\ block[1] # Blank
  /\ done.chunks # <<>> => block[1] \in CharsOf(Last(done.chunks))
  /\ \E z \in 0 .. MinChars :
       /\ Len(block) = z + Len(text[n])
       /\ \A i \in 1 .. Len(text[n]) : block[z + i] = text[n][i]
       /\ \A i \in 1 .. z : block[i] = Blank \/ block[i] \in CharsOf(done.carry)
       /\ \A c \in CharsOf(done.carry) : c = Blank \/ \E i \in 1 .. z : block[i] = c

LEMMA BlockOfSection ==
  ASSUME NEW text, IsText(text), NEW n \in 1 .. Len(text), NEW done,
         ReadTo(text, n - 1, done), text[n] # <<>>
  PROVE  MadeOf(BlockOf(done.carry, text[n]), text, n, done)
<1> DEFINE section == text[n]
           carry == done.carry
           block == BlockOf(carry, section)
<1>1. Located(text, n) BY TextFacts
<1>2. section \in Chunk /\ Blank \notin CharsOf(section) BY <1>1 DEF Located
<1>3. carry \in Chunk /\ (carry = <<>> \/ Parted(carry)) /\ Len(carry) < MinChars
  BY DEF ReadTo, Cutting
<1>4. Len(carry) \in Nat BY <1>3, ChunkFacts
<1>5. /\ Parted(block) /\ block[1] # Blank
      /\ carry # <<>> => block[1] = carry[Lead(carry)]
      /\ \E z \in 0 .. Len(carry) + 1 :
           /\ Len(block) = z + Len(section)
           /\ \A i \in 1 .. Len(section) : block[z + i] = section[i]
           /\ \A i \in 1 .. z : block[i] = Blank \/ block[i] \in CharsOf(carry)
           /\ \A c \in CharsOf(carry) : c = Blank \/ \E i \in 1 .. z : block[i] = c
  BY <1>2, <1>3, BlockParts
<1> HIDE DEF block
<1>6. \A z \in 0 .. Len(carry) + 1 : z \in 0 .. MinChars BY <1>3, <1>4, Sizes
<1>7. done.chunks # <<>> => block[1] \in CharsOf(Last(done.chunks)) BY <1>5 DEF ReadTo
<1>8. block \in Chunk /\ Len(block) \in Nat BY <1>5, ChunkFacts DEF Parted
<1> QED BY <1>5, <1>6, <1>7, <1>8 DEF block, MadeOf

\* A block that is too short is carried whole: the new section waits with those before it.
LEMMA ShortSection ==
  ASSUME NEW text, IsText(text), NEW n \in 1 .. Len(text), NEW done,
         ReadTo(text, n - 1, done), text[n] # <<>>,
         Len(BlockOf(done.carry, text[n])) < MinChars
  PROVE  ReadTo(text, n, [done EXCEPT !.carry = BlockOf(done.carry, text[n])])
<1> DEFINE section == text[n]
           block == BlockOf(done.carry, section)
           next == [done EXCEPT !.carry = block]
           kept == KeptOf(done.chunks)
<1>1. MadeOf(block, text, n, done) BY BlockOfSection
<1>2. Len(block) < MinChars OBVIOUS
<1> HIDE DEF block
<1>3. /\ Parted(block) /\ block \in Chunk /\ Len(block) \in Nat /\ block[1] # Blank
      /\ done.chunks # <<>> => block[1] \in CharsOf(Last(done.chunks))
  BY <1>1 DEF MadeOf
<1>4. PICK z \in 0 .. MinChars :
        /\ Len(block) = z + Len(section)
        /\ \A i \in 1 .. Len(section) : block[z + i] = section[i]
        /\ \A i \in 1 .. z : block[i] = Blank \/ block[i] \in CharsOf(done.carry)
        /\ \A c \in CharsOf(done.carry) : c = Blank \/ \E i \in 1 .. z : block[i] = c
  BY <1>1 DEF MadeOf
<1>5. done \in Cutting BY DEF ReadTo
<1>6. next \in Cutting /\ next.chunks = done.chunks /\ next.carry = block
  BY <1>3, <1>5 DEF Cutting
<1> HIDE DEF next
<1>7. n \in Nat /\ Len(text) \in Nat /\ \A k \in 1 .. Len(text) : Located(text, k)
  BY TextFacts
<1>8. Len(section) \in Nat /\ DOMAIN block = 1 .. Len(block)
  BY <1>3, <1>7, ChunkFacts DEF Located
<1>9. \A c \in CharsOf(done.carry) : c = Blank \/ c \in CharsOf(block)
  <2>1. \A i \in 1 .. z : i \in DOMAIN block BY <1>4, <1>8
  <2>2. \A i \in 1 .. z : block[i] \in CharsOf(block) BY <2>1 DEF CharsOf
  <2> QED BY <1>4, <2>2
<1>10. \A c \in CharsOf(section) : c \in CharsOf(block)
  <2>1. \A i \in 1 .. Len(section) : z + i \in DOMAIN block BY <1>4, <1>8
  <2>2. \A i \in 1 .. Len(section) : block[z + i] \in CharsOf(block) BY <2>1 DEF CharsOf
  <2>3. ASSUME NEW c \in CharsOf(section) PROVE c \in CharsOf(block)
    <3>1. Located(text, n) BY <1>7
    <3>2. \E i \in 1 .. Len(section) : c = section[i] BY <3>1, Zenon DEF Located
    <3>3. PICK i \in 1 .. Len(section) : c = section[i] BY <3>2
    <3>4. block[z + i] = c BY <1>4, <3>3
    <3> QED BY <2>2, <3>4
  <2> QED BY <2>3
<1>11. \A c \in CharsOf(block) :
         c \in CharsOf(section) \/ c = Blank \/ c \in CharsOf(done.carry)
  <2> SUFFICES ASSUME NEW j \in 1 .. Len(block)
               PROVE  \/ block[j] \in CharsOf(section)
                      \/ block[j] = Blank \/ block[j] \in CharsOf(done.carry)
    BY <1>8 DEF CharsOf
  <2>1. CASE j <= z BY <1>4, <2>1
  <2>2. CASE ~ (j <= z)
    <3>1. j - z \in 1 .. Len(section) /\ z + (j - z) = j BY <1>3, <1>4, <1>8, <2>2
    <3>2. block[j] = section[j - z] BY <1>4, <3>1
    <3> QED BY <1>7, <3>1, <3>2 DEF Located
  <2> QED BY <2>1, <2>2
<1>12. \A c \in CharsOf(section) : c[1] = n /\ c # Blank BY <1>7 DEF Located
<1>13. Waits(text, n, next)
  <2>1. ASSUME NEW c \in CharsOf(section) PROVE c \notin kept
    <3>1. c # Blank /\ c[1] \notin 1 .. n - 1 BY <1>12
    <3> QED BY <3>1 DEF ReadTo
  <2> QED BY <1>6, <1>10, <2>1 DEF Waits
<1>14. ASSUME NEW k \in 1 .. n - 1, Waits(text, k, done) PROVE Waits(text, k, next)
  <2>1. k \in 1 .. Len(text) BY <1>7
  <2>2. \A c \in CharsOf(text[k]) : c # Blank BY <1>7, <2>1 DEF Located
  <2> QED BY <1>6, <1>9, <1>14, <2>2 DEF Waits
<1>15. \A k \in 1 .. n : k \in 1 .. n - 1 \/ k = n OBVIOUS
<1>16. ASSUME NEW k \in 1 .. n PROVE Shortened(text, k, kept) \/ Waits(text, k, next)
  BY <1>13, <1>14, <1>15 DEF ReadTo
<1>17. ASSUME NEW k \in 1 .. n, NEW l \in 1 .. n, k < l, Waits(text, k, next)
       PROVE  text[l] = <<>> \/ Waits(text, l, next)
  <2>1. CASE l = n BY <1>13, <2>1
  <2>2. CASE l # n
    <3>1. k \in 1 .. n - 1 /\ l \in 1 .. n - 1 /\ k \in 1 .. Len(text) BY <1>7, <1>17, <2>2
    <3>2. ~ Shortened(text, k, kept) BY <1>6, <1>17, <3>1, NotBoth
    <3>3. Waits(text, k, done) BY <3>1, <3>2 DEF ReadTo
    <3>4. text[l] = <<>> \/ Waits(text, l, done) BY <1>17, <3>1, <3>3 DEF ReadTo
    <3> QED BY <1>14, <3>1, <3>4
  <2> QED BY <2>1, <2>2
<1>18. \A k \in 1 .. n - 1 : k \in 1 .. n OBVIOUS
<1>19. \A c \in kept : c = Blank \/ c[1] \in 1 .. n BY <1>18 DEF ReadTo
<1>20. ASSUME NEW c \in CharsOf(block)
       PROVE  \/ c = Blank
              \/ c[1] \in 1 .. n /\ (c \in kept \/ Waits(text, c[1], next))
  <2>1. CASE c \in CharsOf(section) BY <1>12, <1>13, <2>1
  <2>2. CASE c \in CharsOf(done.carry)
    <3>1. c = Blank \/ (c[1] \in 1 .. n - 1 /\ (c \in kept \/ Waits(text, c[1], done)))
      BY <2>2 DEF ReadTo
    <3> QED BY <1>14, <1>18, <3>1
  <2> QED BY <1>11, <2>1, <2>2
<1>21. block # <<>> /\ Lead(block) = 1 BY <1>3 DEF Parted, Lead
<1>22. ReadTo(text, n, next)
  BY <1>3, <1>2, <1>6, <1>16, <1>17, <1>19, <1>20, <1>21 DEF ReadTo
<1> QED BY <1>22 DEF next, block

\* A block that is cut: the sections that waited are kept whole, the new one but for a
\* short end.
LEMMA CutSection ==
  ASSUME NEW text, IsText(text), NEW n \in 1 .. Len(text), NEW done,
         ReadTo(text, n - 1, done), text[n] # <<>>, NEW fragments, NEW e,
         e \in 1 .. Len(BlockOf(done.carry, text[n])),
         Len(BlockOf(done.carry, text[n])) - e < MinChars,
         e > MinChars \/ e = Len(BlockOf(done.carry, text[n])),
         Covers(fragments, BlockOf(done.carry, text[n]), 1, e)
  PROVE  ReadTo(text, n, [chunks |-> done.chunks \o fragments,
                          carry |-> Carried(Last(fragments))])
<1> DEFINE section == text[n]
           block == BlockOf(done.carry, section)
           chunks == done.chunks \o fragments
           carry == Carried(Last(fragments))
           next == [chunks |-> chunks, carry |-> carry]
           kept == KeptOf(done.chunks)
           new == KeptOf(chunks)
<1>1. MadeOf(block, text, n, done) BY BlockOfSection
<1>2. /\ e \in 1 .. Len(block) /\ Len(block) - e < MinChars
      /\ e > MinChars \/ e = Len(block)
      /\ Covers(fragments, block, 1, e)
  OBVIOUS
<1> HIDE DEF block
<1>3. /\ Parted(block) /\ block \in Chunk /\ Len(block) \in Nat
      /\ done.chunks # <<>> => block[1] \in CharsOf(Last(done.chunks))
  BY <1>1 DEF MadeOf
<1>4. PICK z \in 0 .. MinChars :
        /\ Len(block) = z + Len(section)
        /\ \A i \in 1 .. Len(section) : block[z + i] = section[i]
        /\ \A i \in 1 .. z : block[i] = Blank \/ block[i] \in CharsOf(done.carry)
        /\ \A c \in CharsOf(done.carry) : c = Blank \/ \E i \in 1 .. z : block[i] = c
  BY <1>1 DEF MadeOf
<1>5. n \in Nat /\ Len(text) \in Nat /\ \A k \in 1 .. Len(text) : Located(text, k)
  BY TextFacts
<1>6. Len(section) \in Nat /\ Len(section) >= 1 BY <1>5 DEF Located
<1>7. done \in Cutting /\ done.chunks \in Seq(Long) BY DEF ReadTo, Cutting
<1>8. /\ fragments \in Seq(Long) /\ fragments # <<>> /\ fragments[1][1] = block[1]
      /\ \A k \in 2 .. Len(fragments) : fragments[k][1] \in CharsOf(fragments[k - 1])
  BY <1>2 DEF Covers
<1>9. /\ chunks \in Seq(Long) /\ chunks # <<>> /\ Last(chunks) = Last(fragments)
      /\ \A k \in 2 .. Len(chunks) : chunks[k][1] \in CharsOf(chunks[k - 1])
  <2>1. \A k \in 2 .. Len(done.chunks) : done.chunks[k][1] \in CharsOf(done.chunks[k - 1])
    BY DEF ReadTo
  <2> QED BY <1>3, <1>7, <1>8, <2>1, ChainOfConcat
<1>10. new = kept \cup {block[i] : i \in 1 .. e} BY <1>2, <1>7, <1>8, KeptOfConcat, KeptOfCover
<1> HIDE DEF chunks, kept, new
\* Where a character of the block comes from.
<1>11. e > z
  <2>1. CASE e > MinChars BY <1>2, <1>3, <2>1, Sizes
  <2>2. CASE e = Len(block) BY <1>4, <1>6, <2>2
  <2> QED BY <1>2, <2>1, <2>2
<1>12. \A i \in z + 1 .. e : i - z \in 1 .. Len(section) /\ block[i] = section[i - z]
  <2> TAKE i \in z + 1 .. e
  <2>1. i - z \in 1 .. Len(section) /\ z + (i - z) = i BY <1>2, <1>3, <1>4, <1>6
  <2> QED BY <1>4, <2>1
<1>13. \A c \in CharsOf(done.carry) :
         \/ c = Blank
         \/ c[1] \in 1 .. n - 1 /\ (c \in kept \/ Waits(text, c[1], done))
  BY DEF ReadTo, kept
<1>14. \A c \in kept : c = Blank \/ c[1] \in 1 .. n - 1 BY DEF ReadTo, kept
<1>15. \A i \in 1 .. e : i \in 1 .. z \/ i \in z + 1 .. e BY <1>2, <1>3
<1>16. \A i \in 1 .. z : i \in 1 .. e BY <1>2, <1>3, <1>11
<1>17. Located(text, n) BY <1>5
<1>18. \A i \in 1 .. Len(section) : section[i][1] = n /\ section[i] # Blank
  BY <1>17 DEF Located
\* The sections before.
<1>19. ASSUME NEW k \in 1 .. n - 1, Shortened(text, k, kept) PROVE Shortened(text, k, new)
  <2>1. PICK c \in 0 .. Len(text[k]) :
          /\ Len(text[k]) - c < MinChars
          /\ c = 0 => text[k] = <<>>
          /\ \A i \in 1 .. Len(text[k]) : text[k][i] \in kept <=> i <= c
    BY <1>19 DEF Shortened
  <2>2. k \in 1 .. Len(text) BY <1>5
  <2>3. Located(text, k) BY <1>5, <2>2
  <2>4. ~ Waits(text, k, done) BY <1>19, <2>2, NotBoth DEF kept
  <2>5. ASSUME NEW i \in 1 .. Len(text[k]), text[k][i] \in new PROVE text[k][i] \in kept
    <3> DEFINE x == text[k][i]
    <3>1. x[1] = k /\ x # Blank BY <2>3 DEF Located
    <3> HIDE DEF x
    <3>2. CASE x \in kept BY <3>2 DEF x
    <3>3. CASE x \notin kept
      <4>1. PICK j \in 1 .. e : x = block[j] BY <1>10, <2>5, <3>3 DEF x
      <4>2. j \in 1 .. z
        <5>1. n # k BY <1>5
        <5> QED BY <1>12, <1>15, <1>18, <3>1, <4>1, <5>1
      <4>3. x \in CharsOf(done.carry) BY <1>4, <3>1, <4>1, <4>2
      <4> QED BY <1>13, <2>4, <3>1, <3>3, <4>3
    <3> QED BY <3>2, <3>3
  <2>6. \A i \in 1 .. Len(text[k]) : text[k][i] \in new <=> i <= c BY <1>10, <2>1, <2>5
  <2> QED BY <2>1, <2>6 DEF Shortened
<1>20. ASSUME NEW k \in 1 .. n - 1, Waits(text, k, done) PROVE Shortened(text, k, new)
  <2>1. k \in 1 .. Len(text) BY <1>5
  <2>2. Located(text, k) /\ Len(text[k]) \in Nat BY <1>5, <2>1 DEF Located
  <2>3. text[k] # <<>> /\ Len(text[k]) >= 1 BY <1>20, <2>2 DEF Waits, Located
  <2>4. ASSUME NEW i \in 1 .. Len(text[k]) PROVE text[k][i] \in new
    <3>1. text[k][i] \in CharsOf(text[k]) /\ text[k][i] # Blank BY <2>2 DEF Located
    <3>2. text[k][i] \in CharsOf(done.carry) BY <1>20, <3>1 DEF Waits
    <3>3. PICK j \in 1 .. z : block[j] = text[k][i] BY <1>4, <3>1, <3>2
    <3> QED BY <1>10, <1>16, <3>3
  <2> DEFINE c == Len(text[k])
  <2>5. c \in 0 .. Len(text[k]) /\ Len(text[k]) - c < MinChars /\ c # 0
    BY <2>2, <2>3, Sizes
  <2>6. \A i \in 1 .. Len(text[k]) : text[k][i] \in new <=> i <= c BY <2>2, <2>4
  <2> HIDE DEF c
  <2> QED BY <2>5, <2>6 DEF Shortened
\* The new section.
<1>21. Shortened(text, n, new)
  <2> DEFINE c == e - z
  <2>1. c \in 0 .. Len(section) /\ c # 0 /\ Len(section) - c < MinChars
    BY <1>2, <1>3, <1>4, <1>6, <1>11
  <2>2. ASSUME NEW i \in 1 .. Len(section), i <= c PROVE section[i] \in new
    <3>1. z + i \in 1 .. e BY <1>2, <1>3, <1>6, <2>2
    <3> QED BY <1>4, <1>10, <3>1
  <2>3. ASSUME NEW i \in 1 .. Len(section), section[i] \in new PROVE i <= c
    <3>1. section[i][1] = n /\ section[i] # Blank /\ n \notin 1 .. n - 1 BY <1>5, <1>18
    <3>2. section[i] \notin kept BY <1>14, <3>1
    <3>3. PICK j \in 1 .. e : section[i] = block[j] BY <1>10, <2>3, <3>2
    <3>4. j \notin 1 .. z BY <1>4, <1>13, <3>1, <3>3
    <3>5. j - z \in 1 .. Len(section) /\ section[i] = section[j - z] BY <1>12, <1>15, <3>3, <3>4
    <3>6. i = j - z BY <1>17, <3>5 DEF Located
    <3>7. j <= e BY <1>2, <1>3
    <3> QED BY <1>2, <1>3, <3>6, <3>7
  <2>4. \A i \in 1 .. Len(text[n]) : text[n][i] \in new <=> i <= c BY <2>2, <2>3
  <2> HIDE DEF c
  <2> QED BY <2>1, <2>4 DEF Shortened
<1>22. \A k \in 1 .. n : k \in 1 .. n - 1 \/ k = n BY <1>5
<1>23. \A k \in 1 .. n : Shortened(text, k, new)
  <2> TAKE k \in 1 .. n
  <2>1. CASE k \in 1 .. n - 1
    <3>1. Shortened(text, k, kept) \/ Waits(text, k, done) BY <2>1 DEF ReadTo, kept
    <3> QED BY <1>19, <1>20, <2>1, <3>1
  <2>2. CASE k = n BY <1>21, <2>2
  <2> QED BY <1>22, <2>1, <2>2
<1>24. \A k \in 1 .. n : ~ Waits(text, k, next)
  <2>1. \A k \in 1 .. n : k \in 1 .. Len(text) BY <1>5
  <2>2. next.chunks = chunks OBVIOUS
  <2> HIDE DEF next
  <2> QED BY <1>23, <2>1, <2>2, NotBoth DEF new
\* What is carried.
<1>25. /\ Parted(carry) /\ Len(carry) < MinChars
       /\ CharsOf(carry) \subseteq CharsOf(Last(fragments))
  <2>1. PICK q \in Nat : Slice(Last(fragments), block, q, e) BY <1>2 DEF Covers
  <2>2. Last(fragments) \in Chunk BY <2>1 DEF Slice
  <2>3. block[e] # Blank
    <3>1. e \in z + 1 .. e BY <1>2, <1>3, <1>11
    <3> QED BY <1>12, <1>18, <3>1
  <2> QED BY <1>3, <2>1, <2>2, <2>3, CarriedPart
<1> HIDE DEF carry
<1>26. carry \in Chunk /\ carry # <<>> BY <1>25 DEF Parted
<1>27. carry[Lead(carry)] \in CharsOf(Last(chunks))
  <2>1. Lead(carry) \in 1 .. Len(carry) BY <1>25, LeadIn
  <2>2. Lead(carry) \in DOMAIN carry BY <1>26, <2>1, ChunkFacts
  <2>3. carry[Lead(carry)] \in CharsOf(carry) BY <2>2 DEF CharsOf
  <2> QED BY <1>9, <1>25, <2>3
<1>28. \A c \in new : c = Blank \/ c[1] \in 1 .. n
  <2>1. \A k \in 1 .. n - 1 : k \in 1 .. n BY <1>5
  <2>2. n \in 1 .. n BY <1>5
  <2>3. \A c \in kept : c = Blank \/ c[1] \in 1 .. n BY <1>14, <2>1
  <2>4. ASSUME NEW i \in 1 .. e PROVE block[i] = Blank \/ block[i][1] \in 1 .. n
    <3>1. CASE i \in 1 .. z BY <1>4, <1>13, <2>1, <3>1
    <3>2. CASE i \in z + 1 .. e BY <1>12, <1>18, <2>2, <3>2
    <3> QED BY <1>15, <3>1, <3>2
  <2> QED BY <1>10, <2>3, <2>4
<1>29. \A c \in CharsOf(Last(chunks)) : c \in new
  <2>1. Len(chunks) \in DOMAIN chunks
    <3>1. Len(chunks) \in Nat /\ DOMAIN chunks = 1 .. Len(chunks) BY <1>9, LenProperties
    <3>2. Len(chunks) \in Nat \ {0} BY <1>9, EmptySeq
    <3>3. Len(chunks) # 0 BY <3>2
    <3> QED BY <3>1, <3>3
  <2> QED BY <2>1 DEF Last, KeptOf, new
<1>30. \A c \in CharsOf(carry) : c = Blank \/ (c[1] \in 1 .. n /\ c \in new)
  BY <1>9, <1>25, <1>28, <1>29
<1>31. next \in Cutting /\ next.chunks = chunks /\ next.carry = carry
  BY <1>9, <1>26 DEF Cutting
<1> HIDE DEF next
<1>32. ReadTo(text, n, next)
  BY <1>9, <1>23, <1>24, <1>25, <1>26, <1>27, <1>28, <1>30, <1>31 DEF ReadTo, new
<1> QED BY <1>32 DEF next, chunks, carry

\* One more section, of any length.
LEMMA SectionIsRead ==
  ASSUME NEW text, IsText(text), NEW n \in 1 .. Len(text), NEW done, ReadTo(text, n - 1, done)
  PROVE  ReadTo(text, n, AddSection(done, text[n]))
<1> DEFINE section == text[n]
           block == BlockOf(done.carry, section)
           fragments == Fragments(block)
<1>1. CASE section = <<>>
  <2>1. AddSection(done, section) = done BY <1>1 DEF AddSection
  <2> QED BY <1>1, <2>1, EmptySection
<1>2. CASE section # <<>>
  <2>1. MadeOf(block, text, n, done) BY <1>2, BlockOfSection
  <2>2. /\ Parted(block) /\ block \in Chunk /\ Len(block) \in Nat /\ block[1] # Blank
        /\ \E z \in 0 .. MinChars :
             /\ Len(block) = z + Len(section)
             /\ \A i \in 1 .. Len(section) : block[z + i] = section[i]
    BY <2>1 DEF MadeOf
  <2>3. done.chunks \in Seq(Long) BY DEF ReadTo, Cutting
  <2>4. CASE Len(block) <= MaxChars
    <3>1. AddSection(done, section) = AddBlock(done, block)
      <4>1. block = IF done.carry = <<>> THEN section
                    ELSE Strip(done.carry \o <<Blank>> \o section)
        BY DEF BlockOf
      <4>2. ~ (Len(block) > MaxChars) BY <2>2, <2>4, Sizes
      <4> HIDE DEF block, section
      <4> QED BY <1>2, <2>4, <4>1, <4>2, Zenon DEF AddSection
    <3>2. CASE Len(block) < MinChars
      <4>1. AddBlock(done, block) = [done EXCEPT !.carry = block] BY <3>2 DEF AddBlock
      <4> QED BY <1>2, <3>1, <3>2, <4>1, ShortSection
    <3>3. CASE ~ (Len(block) < MinChars)
      <4>1. Len(block) >= MinChars /\ Len(block) >= 1
        <5>1. Len(block) \in Nat BY <2>2
        <5> HIDE DEF block
        <5> QED BY <3>3, <5>1, Sizes
      <4>2. block \in Long BY <2>2, <4>1 DEF Long
      <4>3. Covers(<<block>>, block, 1, Len(block)) BY <4>2, BlockCovers
      <4>4. Append(done.chunks, block) = done.chunks \o <<block>> BY <2>3, <4>2, AppendIsConcat
      <4>5. Last(<<block>>) = block BY DEF Last
      <4>6. AddBlock(done, block) =
              [chunks |-> done.chunks \o <<block>>, carry |-> Carried(Last(<<block>>))]
        BY <3>3, <4>4, <4>5 DEF AddBlock
      <4>7. Len(block) \in 1 .. Len(block) /\ Len(block) - Len(block) < MinChars
        BY <2>2, <4>1, Sizes
      <4> QED BY <1>2, <3>1, <4>3, <4>6, <4>7, CutSection
    <3> QED BY <3>2, <3>3
  <2>5. CASE ~ (Len(block) <= MaxChars)
    <3>1. Len(block) > MaxChars BY <2>2, <2>5, Sizes
    <3>2. \A i \in MinChars + 1 .. Len(block) : block[i] # Blank
      <4>1. PICK z \in 0 .. MinChars :
              /\ Len(block) = z + Len(section)
              /\ \A i \in 1 .. Len(section) : block[z + i] = section[i]
        BY <2>2
      <4>2. Located(text, n) BY TextFacts
      <4> HIDE DEF block
      <4>3. Len(section) \in Nat /\ \A i \in 1 .. Len(section) : section[i] # Blank
        BY <4>2 DEF Located
      <4> TAKE i \in MinChars + 1 .. Len(block)
      <4>4. /\ Len(block) = z + Len(section) /\ Len(section) \in Nat
            /\ MinChars \in Nat
        BY <4>1, <4>3, Sizes
      <4>5. i - z \in 1 .. Len(section) /\ z + (i - z) = i BY <4>4
      <4>6. block[i] = section[i - z] BY <4>1, <4>5
      <4> QED BY <4>3, <4>5, <4>6
    <3>3. PICK e \in MaxChars .. Len(block) :
            Len(block) - e < MinChars /\ Covers(fragments, block, 1, e)
      BY <2>2, <3>1, <3>2, FragmentsCover
    <3>4. fragments # <<>> BY <3>3 DEF Covers
    <3>5. AddSection(done, section) =
            [chunks |-> done.chunks \o fragments, carry |-> Carried(Last(fragments))]
      BY <1>2, <2>5, <3>1, <3>4 DEF AddSection, BlockOf
    <3>6. e \in 1 .. Len(block) /\ e > MinChars BY <2>2, <3>3, Sizes
    <3> QED BY <1>2, <3>3, <3>5, <3>6, CutSection
  <2> QED BY <2>4, <2>5
<1> QED BY <1>1, <1>2

\* At the end of the text no chunk is made of what is carried: it is too short.
LEMMA TextIsRead ==
  ASSUME NEW text, IsText(text)
  PROVE  \E done : ReadTo(text, Len(text), done) /\ ChunkText(text) = done.chunks
<1> DEFINE base == [chunks |-> <<>>, carry |-> <<>>]
           n == Len(text)
           done == FoldLeft(AddSection, base, text)
<1>1. n \in Nat /\ DOMAIN text = 1 .. n BY LenProperties DEF IsText
<1> HIDE DEF base
<1>2. PICK f : /\ f[0] = base
               /\ \A i \in 1 .. n : f[i] = AddSection(f[i - 1], text[i])
               /\ Fold(base, text) = f[n]
  BY <1>1, FoldLeftUnfolds
<1> DEFINE S == {k \in 0 .. n : ReadTo(text, k, f[k])}
<1>3. 0 \in S
  <2>1. ReadTo(text, 0, f[0]) BY <1>2, NothingRead DEF base
  <2>2. 0 \in 0 .. n BY <1>1
  <2> QED BY <2>1, <2>2
<1>4. ASSUME NEW k \in 0 .. n - 1, k \in S PROVE k + 1 \in S
  <2>1. k + 1 \in 1 .. n /\ (k + 1) - 1 = k /\ k + 1 \in 0 .. n BY <1>1
  <2>2. ReadTo(text, (k + 1) - 1, f[k]) BY <1>4, <2>1
  <2>3. f[k + 1] = AddSection(f[k], text[k + 1]) BY <1>2, <2>1
  <2>4. ReadTo(text, k + 1, f[k + 1]) BY <2>1, <2>2, <2>3, SectionIsRead
  <2> QED BY <2>1, <2>4
<1>5. n \in S
  <2> HIDE DEF S, n
  <2> QED BY <1>1, <1>3, <1>4, UpTo
<1>6. ReadTo(text, n, done) BY <1>2, <1>5 DEF Fold
<1>7. Len(done.carry) < MinChars /\ done.carry \in Chunk BY <1>6 DEF ReadTo, Cutting
<1>8. ~ (Len(done.carry) >= MinChars)
  <2> HIDE DEF done
  <2>1. Len(done.carry) \in Nat BY <1>7, ChunkFacts
  <2> QED BY <1>7, <2>1, Sizes
<1>9. ChunkText(text) = done.chunks BY <1>8 DEF ChunkText, base
<1> QED BY <1>6, <1>9

\* Characters at few places are few.
LEMMA FewChars ==
  ASSUME NEW a \in Nat, NEW b \in Nat, a <= b, NEW s, NEW T, T \subseteq {s[i] : i \in a + 1 .. b}
  PROVE  Cardinality(T) \in Nat /\ Cardinality(T) <= b - a
<1> DEFINE S == a + 1 .. b
           f == [i \in S |-> s[i]]
           U == {s[i] : i \in S}
<1>1. f \in Surjection(S, U) BY DEF Surjection
<1>2. IsFiniteSet(S) /\ Cardinality(S) = b - a
  <2>1. a + 1 \in Int /\ b \in Int OBVIOUS
  <2>2. IsFiniteSet(S) /\ Cardinality(S) = IF a + 1 > b THEN 0 ELSE b - (a + 1) + 1
    BY <2>1, FS_Interval
  <2> QED BY <2>2
<1> HIDE DEF f, S, U
<1>3. IsFiniteSet(U) /\ Cardinality(U) <= Cardinality(S) BY <1>1, <1>2, FS_Surjection
<1>4. T \in SUBSET U BY DEF U, S
<1>5. IsFiniteSet(T) /\ Cardinality(T) <= Cardinality(U) BY <1>3, <1>4, FS_Subset
<1>6. Cardinality(T) \in Nat /\ Cardinality(U) \in Nat BY <1>3, <1>5, FS_CardinalityType
<1> QED BY <1>2, <1>3, <1>5, <1>6

\* What the samples of the runs show holds of every text.
LEMMA TextIsKept == ASSUME NEW text, IsText(text) PROVE IsKept(text)
<1> DEFINE n == Len(text)
           chunks == ChunkText(text)
           kept == UNION {CharsOf(chunks[k]) : k \in DOMAIN chunks}
           lost == [k \in DOMAIN text |-> CharsOf(text[k]) \ kept]
           whole == {k \in DOMAIN text : text[k] # <<>> /\ lost[k] = CharsOf(text[k])}
<1>1. n \in Nat /\ DOMAIN text = 1 .. n BY LenProperties DEF IsText
<1>2. PICK done : ReadTo(text, n, done) /\ chunks = done.chunks BY TextIsRead
<1>3. kept = KeptOf(done.chunks) BY <1>2 DEF KeptOf
<1>4. \A k \in 1 .. n : Shortened(text, k, kept) \/ Waits(text, k, done)
  BY <1>2, <1>3 DEF ReadTo
<1>5. \A k \in 1 .. n : Located(text, k) BY TextFacts
<1>6. done.carry \in Chunk /\ Len(done.carry) \in Nat /\ Len(done.carry) < MinChars
  <2>1. done.carry \in Chunk /\ Len(done.carry) < MinChars BY <1>2 DEF ReadTo, Cutting
  <2> QED BY <2>1, ChunkFacts
<1>7. \A k \in 1 .. n : lost[k] = CharsOf(text[k]) \ kept BY <1>1
<1>8. \A k, l \in 1 .. n : k < l /\ Waits(text, k, done) => text[l] = <<>> \/ Waits(text, l, done)
  BY <1>2 DEF ReadTo
<1>9. \A k \in 2 .. Len(chunks) : chunks[k][1] \in CharsOf(chunks[k - 1])
  BY <1>2 DEF ReadTo
<1>10. \A k \in 1 .. n : k \in whole <=> text[k] # <<>> /\ lost[k] = CharsOf(text[k]) BY <1>1
<1> HIDE DEF chunks, kept, lost
<1>11. \A T : T \subseteq CharsOf(done.carry) => Cardinality(T) < MinChars
  <2> TAKE T
  <2> HAVE T \subseteq CharsOf(done.carry)
  <2>1. DOMAIN done.carry = 1 .. Len(done.carry) BY <1>6, ChunkFacts
  <2>2. 0 + 1 = 1 /\ 0 \in Nat /\ 0 <= Len(done.carry) BY <1>6
  <2>3. T \subseteq {done.carry[i] : i \in 0 + 1 .. Len(done.carry)}
    BY <2>1, <2>2 DEF CharsOf
  <2>4. Cardinality(T) \in Nat /\ Cardinality(T) <= Len(done.carry) - 0
    BY <1>6, <2>2, <2>3, FewChars
  <2> QED BY <1>6, <2>4, Sizes
<1>12. ASSUME NEW k \in 1 .. n, Waits(text, k, done)
       PROVE  /\ lost[k] = CharsOf(text[k]) /\ lost[k] \subseteq CharsOf(done.carry)
              /\ k \in whole
  <2>1. \A c \in CharsOf(text[k]) : c \notin kept /\ c \in CharsOf(done.carry)
    BY <1>3, <1>12 DEF Waits
  <2>2. lost[k] = CharsOf(text[k]) BY <1>7, <2>1
  <2>3. text[k] # <<>> BY <1>12 DEF Waits
  <2> QED BY <1>10, <2>1, <2>2, <2>3
<1>13. ASSUME NEW k \in 1 .. n, ~ Waits(text, k, done)
       PROVE  /\ Cardinality(lost[k]) < MinChars /\ k \notin whole
              /\ \A i, j \in 1 .. Len(text[k]) :
                   i < j /\ text[k][i] \in lost[k] => text[k][j] \in lost[k]
  <2>1. PICK c \in 0 .. Len(text[k]) :
          /\ Len(text[k]) - c < MinChars
          /\ c = 0 => text[k] = <<>>
          /\ \A i \in 1 .. Len(text[k]) : text[k][i] \in kept <=> i <= c
    BY <1>4, <1>13 DEF Shortened
  <2>2. /\ text[k] \in Chunk /\ Len(text[k]) \in Nat
        /\ \A i \in 1 .. Len(text[k]) : text[k][i] \in CharsOf(text[k])
        /\ \A x \in CharsOf(text[k]) : \E i \in 1 .. Len(text[k]) : x = text[k][i]
    <3>1. Located(text, k) BY <1>5
    <3>2. text[k] \in Chunk /\ Len(text[k]) \in Nat BY <3>1 DEF Located
    <3>3. \A i \in 1 .. Len(text[k]) : text[k][i] \in CharsOf(text[k])
      BY <3>1 DEF Located
    <3>4. ASSUME NEW x \in CharsOf(text[k]) PROVE \E i \in 1 .. Len(text[k]) : x = text[k][i]
      BY <3>1, Zenon DEF Located
    <3> QED BY <3>2, <3>3, <3>4
  <2>3. \A i \in 1 .. Len(text[k]) : text[k][i] \in lost[k] <=> ~ (i <= c)
    BY <1>7, <2>1, <2>2
  <2>4. Cardinality(lost[k]) < MinChars
    <3>1. \A x \in lost[k] : \E i \in c + 1 .. Len(text[k]) : x = text[k][i]
      <4> TAKE x \in lost[k]
      <4>1. x \in CharsOf(text[k]) BY <1>7
      <4>2. PICK i \in 1 .. Len(text[k]) : x = text[k][i] BY <2>2, <4>1
      <4>3. ~ (i <= c) BY <2>3, <4>2
      <4>4. i \in c + 1 .. Len(text[k]) BY <2>2, <4>3
      <4> QED BY <4>2, <4>4
    <3>2. lost[k] \subseteq {text[k][i] : i \in c + 1 .. Len(text[k])} BY <3>1
    <3>3. c \in Nat /\ c <= Len(text[k]) BY <2>2
    <3>4. Cardinality(lost[k]) \in Nat /\ Cardinality(lost[k]) <= Len(text[k]) - c
      BY <2>2, <3>2, <3>3, FewChars
    <3> QED BY <2>1, <2>2, <3>3, <3>4, Sizes
  <2>5. k \notin whole
    <3>1. CASE text[k] = <<>> BY <1>10, <3>1
    <3>2. CASE text[k] # <<>>
      <4>1. Len(text[k]) >= 1 BY <1>5, <3>2 DEF Located
      <4>2. 1 \in 1 .. Len(text[k]) /\ 1 <= c BY <2>1, <2>2, <3>2, <4>1
      <4>3. text[k][1] \notin lost[k] /\ text[k][1] \in CharsOf(text[k]) BY <2>2, <2>3, <4>2
      <4> QED BY <1>10, <4>3
    <3> QED BY <3>1, <3>2
  <2>6. \A i, j \in 1 .. Len(text[k]) :
          i < j /\ text[k][i] \in lost[k] => text[k][j] \in lost[k]
    BY <2>2, <2>3
  <2> QED BY <2>4, <2>5, <2>6
<1>14. ASSUME NEW k \in DOMAIN text
       PROVE  /\ Cardinality(lost[k]) < MinChars
              /\ \A i, j \in DOMAIN text[k] :
                   i < j /\ text[k][i] \in lost[k] => text[k][j] \in lost[k]
  <2>1. k \in 1 .. n BY <1>1
  <2>2. DOMAIN text[k] = 1 .. Len(text[k]) BY <1>5, <2>1, ChunkFacts DEF Located
  <2>3. CASE Waits(text, k, done)
    <3>1. lost[k] = CharsOf(text[k]) /\ Cardinality(lost[k]) < MinChars
      BY <1>11, <1>12, <2>1, <2>3
    <3>2. \A j \in DOMAIN text[k] : text[k][j] \in lost[k] BY <3>1 DEF CharsOf
    <3> QED BY <3>1, <3>2
  <2>4. CASE ~ Waits(text, k, done) BY <1>13, <2>1, <2>2, <2>4
  <2> QED BY <2>3, <2>4
<1>15. \A k \in whole : k \in 1 .. n /\ Waits(text, k, done)
  <2>1. \A k \in whole : k \in 1 .. n BY <1>1
  <2> HIDE DEF whole
  <2> QED BY <1>13, <2>1
<1> HIDE DEF whole
<1>16. ASSUME NEW k \in whole, NEW l \in k .. Len(text) PROVE l \in whole \/ text[l] = <<>>
  <2>1. k \in 1 .. n /\ l \in 1 .. n /\ (k = l \/ k < l) BY <1>1, <1>15
  <2>2. text[l] = <<>> \/ Waits(text, l, done) BY <1>8, <1>15, <2>1
  <2> QED BY <1>12, <2>1, <2>2
<1>17. Cardinality(UNION {lost[k] : k \in whole}) < MinChars
  <2>1. \A k \in whole : lost[k] \subseteq CharsOf(done.carry) BY <1>12, <1>15
  <2>2. UNION {lost[k] : k \in whole} \subseteq CharsOf(done.carry) BY <2>1
  <2> QED BY <1>11, <2>2
<1> QED BY <1>9, <1>14, <1>16, <1>17 DEF IsKept, chunks, kept, lost, whole
-----------------------------------------------------------------------------
(* Documents, batches and the index.                                       *)

LEMMA NoVectorIsChunk == NoVector \in Chunk BY EmptySeq DEF NoVector, Chunk

\* What the indexer makes of the chunks of a runbook.
LEMMA DocsOfRunbook ==
  ASSUME NEW file \in Runbooks,
         runbook[file] \in Texts[file], runbook[file] \in DOMAIN Chunks
  PROVE  LET docs == DocsOf(file) IN
         /\ docs \in Seq(Docs)
         /\ \A k \in DOMAIN docs :
              Genuine(docs[k]) /\ docs[k].file = file /\ docs[k].id = <<file, k>>
<1> DEFINE chunks == Chunks[runbook[file]]
           docs == DocsOf(file)
<1>1. chunks \in Seq(Chunk) BY ChunksLong DEF ChunksAreLong, Chunk
<1>2. DOMAIN chunks = 1 .. Len(chunks) /\ Len(chunks) \in Nat BY <1>1, LenProperties
<1>3. \A k \in DOMAIN chunks : chunks[k] \in Chunk BY <1>1, <1>2, ElementOfSeq
<1>4. docs = [k \in 1 .. Len(chunks) |-> Doc(file, k, chunks[k])] BY <1>2 DEF DocsOf
<1>5. \E text \in Texts[file] : \A k \in DOMAIN chunks :
        k \in DOMAIN Chunks[text] /\ Chunks[text][k] = chunks[k]
  OBVIOUS
<1> HIDE DEF chunks, docs
<1>6. ASSUME NEW k \in 1 .. Len(chunks)
      PROVE  /\ docs[k] = Doc(file, k, chunks[k]) /\ docs[k] \in Docs
             /\ Genuine(docs[k]) /\ docs[k].file = file /\ docs[k].id = <<file, k>>
  <2>1. docs[k] = Doc(file, k, chunks[k]) BY <1>4
  <2>2. k \in Nat /\ chunks[k] \in Chunk BY <1>2, <1>3
  <2>3. /\ docs[k].id = <<file, k>> /\ docs[k].file = file /\ docs[k].nr = k
        /\ docs[k].content = chunks[k] /\ docs[k].vector = NoVector
    BY <2>1 DEF Doc, DocId
  <2>4. docs[k] \in Docs BY <2>1, <2>2, NoVectorIsChunk DEF Doc, DocId, Docs
  <2>5. \E text \in Texts[file] : k \in DOMAIN Chunks[text] /\ Chunks[text][k] = chunks[k]
    BY <1>2, <1>5
  <2>6. Genuine(docs[k]) BY <2>3, <2>4, <2>5 DEF Genuine
  <2> QED BY <2>1, <2>3, <2>4, <2>6
<1>7. docs \in [1 .. Len(chunks) -> Docs] BY <1>4, <1>6
<1>8. docs \in Seq(Docs) BY <1>2, <1>7, SeqDef
<1>9. DOMAIN docs = 1 .. Len(chunks) BY <1>4
<1> QED BY <1>6, <1>8, <1>9 DEF docs

\* A batch is not empty and stays within the documents.
LEMMA BatchOf ==
  ASSUME NEW s \in Seq(Docs), NEW n \in Nat, n < Len(s)
  PROVE  LET b == Batch(s, n) IN
         /\ b \in Seq(Docs) /\ Len(b) \in Nat \ {0} /\ n + Len(b) <= Len(s)
         /\ DOMAIN b = 1 .. Len(b)
         /\ \A i \in 1 .. Len(b) : b[i] = s[n + i]
<1> DEFINE m == n + 1
           e == IF n + BatchSize < Len(s) THEN n + BatchSize ELSE Len(s)
           b == SubSeq(s, m, e)
<1>1. Len(s) \in Nat /\ DOMAIN s = 1 .. Len(s) BY LenProperties
<1>2. BatchSize \in Nat /\ BatchSize >= 1 BY SearchIndexAssumption
<1>3. m \in Int /\ e \in Int /\ m >= 1 /\ m <= e /\ e <= Len(s) /\ e \in Nat BY <1>1, <1>2
<1>4. \A i \in m .. e : s[i] \in Docs
  <2>1. \A i \in m .. e : i \in 1 .. Len(s) BY <1>1, <1>3
  <2> QED BY <2>1, ElementOfSeq
<1>5. Batch(s, n) = b BY DEF Batch
<1>6. e - m + 1 = e - n /\ \A i \in 1 .. e - n : m + i - 1 = n + i BY <1>1, <1>3
<1> HIDE DEF m, e
<1>7. /\ b \in Seq(Docs) /\ Len(b) = e - m + 1
      /\ \A i \in 1 .. e - m + 1 : b[i] = s[m + i - 1]
  BY <1>3, <1>4, SubSeqProperties
<1> HIDE DEF b
<1>8. DOMAIN b = 1 .. Len(b) BY <1>7, LenProperties
<1>9. Len(b) = e - n /\ \A i \in 1 .. Len(b) : b[i] = s[n + i] BY <1>6, <1>7
<1>10. Len(b) \in Nat \ {0} /\ n + Len(b) <= Len(s) BY <1>1, <1>3, <1>9 DEF m
<1> QED BY <1>5, <1>7, <1>8, <1>9, <1>10

\* The index after an upload, of documents that have different ids.
LEMMA StoredDocuments ==
  ASSUME NEW stored, \A a, b \in stored : a.id = b.id => a = b
  PROVE  LET ix == Stored(stored) IN
         /\ \A doc \in stored : doc.id \in DOMAIN ix /\ ix[doc.id] = doc
         /\ \A id \in DOMAIN index : id \in DOMAIN ix
         /\ \A id \in DOMAIN index : (\A doc \in stored : doc.id # id) => ix[id] = index[id]
         /\ \A id \in DOMAIN ix :
              \/ ix[id] \in stored /\ ix[id].id = id
              \/ id \in DOMAIN index /\ ix[id] = index[id]
<1> DEFINE D == DOMAIN index \cup {doc.id : doc \in stored}
           new(id) == CHOOSE doc \in stored : doc.id = id
           ix == [id \in D |-> IF \E doc \in stored : doc.id = id THEN new(id) ELSE index[id]]
<1>1. Stored(stored) = ix BY DEF Stored
<1>2. \A id \in D : (\E doc \in stored : doc.id = id) => new(id) \in stored /\ new(id).id = id
  OBVIOUS
<1> HIDE DEF new
<1>3. \A id \in D : ix[id] = IF \E doc \in stored : doc.id = id THEN new(id) ELSE index[id]
  OBVIOUS
<1>4. DOMAIN ix = D OBVIOUS
<1> HIDE DEF ix
<1>5. \A doc \in stored : doc.id \in D /\ ix[doc.id] = doc BY <1>2, <1>3
<1>6. \A id \in DOMAIN index : id \in D OBVIOUS
<1>7. \A id \in DOMAIN index : (\A doc \in stored : doc.id # id) => ix[id] = index[id]
  BY <1>3, <1>6
<1>8. \A id \in D : \/ ix[id] \in stored /\ ix[id].id = id
                    \/ id \in DOMAIN index /\ ix[id] = index[id]
  BY <1>2, <1>3
<1> QED BY <1>1, <1>4, <1>5, <1>6, <1>7, <1>8

LEMMA StoredIsHeld ==
  ASSUME Held(index), NEW stored, \A a, b \in stored : a.id = b.id => a = b,
         \A doc \in stored : Genuine(doc)
  PROVE  Held(Stored(stored))
BY StoredDocuments DEF Held
-----------------------------------------------------------------------------
(* A run.                                                                  *)

LEMMA RunFields ==
  ASSUME NEW r \in Run
  PROVE  /\ r.pc \in {"ensure", "scan", "read", "embed", "upload", "raise", "done", "failed"}
         /\ r.source \in Sources /\ r.embed \in BOOLEAN /\ r.left \in SUBSET Runbooks
         /\ r.docs \in Seq(Docs) /\ r.vectors \in Seq(Chunk)
         /\ r.attempt \in Nat /\ r.sent \in Nat /\ r.refused \in SUBSET Docs
         /\ Len(r.docs) \in Nat /\ DOMAIN r.docs = 1 .. Len(r.docs)
         /\ Len(r.vectors) \in Nat /\ DOMAIN r.vectors = 1 .. Len(r.vectors)
<1>1. /\ r.pc \in {"ensure", "scan", "read", "embed", "upload", "raise", "done", "failed"}
      /\ r.source \in Sources /\ r.embed \in BOOLEAN /\ r.left \in SUBSET Runbooks
      /\ r.docs \in Seq(Docs) /\ r.vectors \in Seq(Chunk)
      /\ r.attempt \in Nat /\ r.sent \in Nat /\ r.refused \in SUBSET Docs
  BY DEF Run
<1> QED BY <1>1, LenProperties

LEMMA NothingIndexed == Len(<<>>) = 0 /\ DOMAIN <<>> = {} /\ 1 .. 0 = {}
BY EmptySeq

\* A run that has read nothing has nothing to answer for.
LEMMA EmptyRun ==
  ASSUME NEW r \in Run, NEW ix, r.docs = <<>>, r.vectors = <<>>, r.sent = 0
  PROVE  Progress(r, ix)
<1>1. Embedded(r) BY NothingIndexed DEF Embedded
<1>2. Uploaded(r, ix) BY NothingIndexed DEF Uploaded
<1> QED BY <1>1, <1>2, NothingIndexed DEF Progress, Apart

LEMMA NoRunFields ==
  NoRun \in Run /\ NoRun.docs = <<>> /\ NoRun.vectors = <<>> /\ NoRun.sent = 0
<1>1. <<>> \in Seq(Docs) /\ <<>> \in Seq(Chunk) BY EmptySeq
<1> QED BY <1>1 DEF NoRun, Run, Sources

LEMMA FailedRun == ASSUME NEW ix PROVE Progress(NoRun, ix) BY NoRunFields, EmptyRun

LEMMA IndexFacts ==
  ASSUME IndexInv
  PROVE  /\ run \in Run /\ Held(index) /\ Progress(run, index)
         /\ \A k \in DOMAIN run.docs : Genuine(run.docs[k])
         /\ Apart(run.docs) /\ Embedded(run) /\ Uploaded(run, index)
BY DEF IndexInv, Progress

\* A step of the run alone.
LEMMA RunMove ==
  ASSUME IndexInv, NEW t, run' = t, Progress(t, index), UNCHANGED <<runbook, index>>
  PROVE  IndexInv'
BY DEF IndexInv

LEMMA InitIndex == Init => IndexInv
<1> SUFFICES ASSUME Init PROVE IndexInv OBVIOUS
<1> DEFINE t == [NoRun EXCEPT !.pc = "done"]
<1>1. t \in Run /\ t.docs = <<>> /\ t.vectors = <<>> /\ t.sent = 0
  BY NoRunFields DEF Run
<1> HIDE DEF t
<1>2. Progress(t, index) BY <1>1, EmptyRun
<1>3. run = t BY DEF Init, t
<1>4. Held(index) BY NothingIndexed DEF Init, Held
<1> QED BY <1>2, <1>3, <1>4 DEF Init, IndexInv
-----------------------------------------------------------------------------
(* The steps of the script.                                                *)

LEMMA EditKeepsIndex == ASSUME IndexInv, EditRunbook PROVE IndexInv'
<1>1. PICK file \in Runbooks :
        \E text \in Texts[file] \cup {Gone} : runbook' = [runbook EXCEPT ![file] = text]
  BY DEF EditRunbook
<1>2. PICK text \in Texts[file] \cup {Gone} : runbook' = [runbook EXCEPT ![file] = text]
  BY <1>1
<1>3. text \in DOMAIN Chunks \cup {Gone}
  <2>1. DOMAIN Chunks = UNION {Texts[f] : f \in Runbooks} BY DEF Chunks
  <2> QED BY <2>1
<1>4. runbook \in [Runbooks -> DOMAIN Chunks \cup {Gone}] BY DEF IndexInv
<1>5. runbook' \in [Runbooks -> DOMAIN Chunks \cup {Gone}] BY <1>2, <1>3, <1>4
<1>6. \A f \in Runbooks : runbook'[f] \in Texts[f] \cup {Gone} BY <1>2, <1>4 DEF IndexInv
<1>7. UNCHANGED <<index, run>> BY DEF EditRunbook
<1> QED BY <1>5, <1>6, <1>7 DEF IndexInv

LEMMA StartKeepsIndex == ASSUME IndexInv, Start PROVE IndexInv'
<1>1. PICK source \in Sources, embed \in BOOLEAN :
        run' = [NoRun EXCEPT !.pc = "ensure", !.source = source, !.embed = embed]
  BY DEF Start
<1>2. run' \in Run /\ run'.docs = <<>> /\ run'.vectors = <<>> /\ run'.sent = 0
  BY <1>1, NoRunFields DEF Run
<1>3. Progress(run', index) BY <1>2, EmptyRun
<1> QED BY <1>3, RunMove DEF Start

LEMMA FailKeepsIndex == ASSUME IndexInv, Fails PROVE IndexInv'
BY FailedRun, RunMove DEF Fails, Becomes

LEMMA EnsureKeepsIndex == ASSUME IndexInv, EnsureIndex PROVE IndexInv'
<1>1. CASE Fails BY <1>1, FailKeepsIndex
<1>2. ASSUME NEW pc \in {"scan", "raise"}, run' = [run EXCEPT !.pc = pc] PROVE IndexInv'
  <2>1. run \in Run /\ run.pc = "ensure" BY IndexFacts DEF EnsureIndex
  <2>2. run.docs = <<>> /\ run.vectors = <<>> /\ run.sent = 0
    BY <2>1, IndexFacts DEF Progress, Embedded, Uploaded, IndexInv
  <2>3. /\ run' \in Run /\ run'.docs = run.docs /\ run'.vectors = run.vectors
        /\ run'.sent = run.sent
    BY <1>2, <2>1 DEF Run
  <2>4. Progress(run', index) BY <2>2, <2>3, EmptyRun
  <2>5. UNCHANGED <<runbook, index>> BY DEF EnsureIndex, Fails, Becomes
  <2> QED BY <2>4, <2>5, RunMove
<1> QED BY <1>1, <1>2 DEF EnsureIndex, Becomes

LEMMA ListKeepsIndex == ASSUME IndexInv, ListRunbooks PROVE IndexInv'
<1> DEFINE left == {file \in Runbooks : runbook[file] # Gone}
<1>1. run' = [run EXCEPT !.pc = "read", !.left = left] /\ UNCHANGED <<runbook, index>>
  BY DEF ListRunbooks, Becomes
<1>2. run \in Run /\ run.pc = "scan" BY IndexFacts DEF ListRunbooks
<1>3. run.docs = <<>> /\ run.vectors = <<>> /\ run.sent = 0
  BY <1>2, IndexFacts DEF Progress, Embedded, Uploaded, IndexInv
<1>4. left \in SUBSET Runbooks OBVIOUS
<1> HIDE DEF left
<1>5. /\ run' \in Run /\ run'.docs = run.docs /\ run'.vectors = run.vectors
      /\ run'.sent = run.sent
  BY <1>1, <1>2, <1>4 DEF Run
<1>6. Progress(run', index) BY <1>3, <1>5, EmptyRun
<1> QED BY <1>1, <1>6, RunMove

\* The documents of the next runbook have ids of their own.
LEMMA ReadKeepsIndex == ASSUME IndexInv, IndexRunbook PROVE IndexInv'
<1> DEFINE file == NextFile
           new == DocsOf(file)
           docs == run.docs \o new
           t == [run EXCEPT !.docs = docs, !.left = run.left \ {file}]
<1>1. /\ run.pc = "read" /\ run.left # {} /\ runbook[file] # Gone /\ run' = t
      /\ UNCHANGED <<runbook, index>>
  BY DEF IndexRunbook, Becomes
<1>2. /\ run \in Run /\ Progress(run, index) /\ run.docs \in Seq(Docs)
      /\ run.left \in SUBSET Runbooks
      /\ DOMAIN run.docs = 1 .. Len(run.docs) /\ Len(run.docs) \in Nat
  BY IndexFacts, RunFields
<1>3. file \in run.left /\ file \in Runbooks BY <1>1, <1>2 DEF NextFile
<1>4. runbook[file] \in Texts[file] /\ runbook[file] \in DOMAIN Chunks
  <2>1. runbook[file] \in DOMAIN Chunks \cup {Gone} BY <1>3 DEF IndexInv
  <2>2. runbook[file] \in Texts[file] \cup {Gone} BY <1>3 DEF IndexInv
  <2> QED BY <1>1, <2>1, <2>2
<1> HIDE DEF file
<1>5. /\ new \in Seq(Docs)
      /\ \A k \in DOMAIN new : Genuine(new[k]) /\ new[k].file = file /\ new[k].id = <<file, k>>
  BY <1>3, <1>4, DocsOfRunbook
<1> HIDE DEF new
<1>6. /\ docs \in Seq(Docs) /\ DOMAIN new = 1 .. Len(new) /\ Len(new) \in Nat
      /\ DOMAIN docs = 1 .. Len(run.docs) + Len(new)
      /\ \A k \in DOMAIN docs :
           docs[k] = IF k <= Len(run.docs) THEN run.docs[k] ELSE new[k - Len(run.docs)]
  BY <1>2, <1>5, ConcatProperties, LenProperties
<1> HIDE DEF docs
<1>7. \A k \in DOMAIN docs :
        \/ k \in DOMAIN run.docs /\ docs[k] = run.docs[k]
        \/ /\ k - Len(run.docs) \in DOMAIN new /\ docs[k] = new[k - Len(run.docs)]
           /\ k = (k - Len(run.docs)) + Len(run.docs)
  <2> DEFINE m == Len(run.docs)
             n == Len(new)
  <2>1. /\ m \in Nat /\ n \in Nat /\ DOMAIN run.docs = 1 .. m /\ DOMAIN new = 1 .. n
        /\ DOMAIN docs = 1 .. m + n
    BY <1>2, <1>6
  <2> HIDE DEF m, n
  <2>2. \A k \in 1 .. m + n :
          IF k <= m THEN k \in 1 .. m ELSE k - m \in 1 .. n /\ k = (k - m) + m
    BY <2>1
  <2> QED BY <1>6, <2>1, <2>2 DEF m
<1>8. /\ t \in Run /\ t.docs = docs /\ t.vectors = run.vectors /\ t.sent = run.sent
      /\ t.pc = "read" /\ t.left = run.left \ {file}
  BY <1>1, <1>2, <1>6 DEF Run
<1> HIDE DEF t
<1>9. \A k \in DOMAIN docs : Genuine(docs[k]) BY <1>5, <1>7, IndexFacts
<1>10. Apart(docs)
  <2> SUFFICES ASSUME NEW k \in DOMAIN docs, NEW l \in DOMAIN docs, docs[k].id = docs[l].id
               PROVE  k = l
    BY DEF Apart
  <2>1. \A d \in DOMAIN docs : docs[d].id = <<docs[d].file, docs[d].nr>> BY <1>9 DEF Genuine
  <2>2. docs[k].file = docs[l].file BY <2>1
  <2>3. CASE k \in DOMAIN run.docs /\ docs[k] = run.docs[k]
    <3>1. docs[k].file # file BY <1>1, <1>3, <2>3, IndexFacts DEF Progress, IndexInv
    <3>2. l \in DOMAIN run.docs /\ docs[l] = run.docs[l] BY <1>5, <1>7, <2>2, <3>1
    <3> QED BY <2>3, <3>2, IndexFacts DEF Apart
  <2>4. CASE /\ k - Len(run.docs) \in DOMAIN new /\ docs[k] = new[k - Len(run.docs)]
             /\ k = (k - Len(run.docs)) + Len(run.docs)
    <3>1. docs[k].file = file /\ docs[k].id = <<file, k - Len(run.docs)>> BY <1>5, <2>4
    <3>2. ~ (l \in DOMAIN run.docs /\ docs[l] = run.docs[l])
      BY <1>1, <1>3, <2>2, <3>1, IndexFacts DEF Progress, IndexInv
    <3>3. /\ l - Len(run.docs) \in DOMAIN new /\ docs[l] = new[l - Len(run.docs)]
          /\ l = (l - Len(run.docs)) + Len(run.docs)
      BY <1>7, <3>2
    <3>4. docs[l].id = <<file, l - Len(run.docs)>> BY <1>5, <3>3
    <3>5. \A i, j : <<file, i>> = <<file, j>> => i = j OBVIOUS
    <3>6. <<file, k - Len(run.docs)>> = <<file, l - Len(run.docs)>> BY <3>1, <3>4
    <3>7. k - Len(run.docs) = l - Len(run.docs) BY <3>5, <3>6, Zenon
    <3> QED BY <2>4, <3>3, <3>7
  <2> QED BY <1>7, <2>3, <2>4
<1>11. \A k \in DOMAIN docs : docs[k].file \notin t.left
  BY <1>1, <1>5, <1>7, <1>8, IndexFacts DEF Progress, IndexInv
<1>12. run.vectors = <<>> /\ run.sent = 0
  BY <1>1, IndexFacts DEF Embedded, Uploaded
<1>13. Embedded(t) BY <1>8, <1>12, NothingIndexed DEF Embedded
<1>14. Uploaded(t, index)
  <2>1. Len(docs) \in Nat BY <1>6, LenProperties
  <2>2. t.sent <= Len(t.docs) BY <1>8, <1>12, <2>1
  <2> QED BY <1>8, <1>12, <2>2, NothingIndexed DEF Uploaded
<1>15. Progress(t, index) BY <1>8, <1>9, <1>10, <1>11, <1>13, <1>14 DEF Progress
<1> QED BY <1>1, <1>15, RunMove

\* From the last runbook to the embedding, the upload or the end.
LEMMA RunRunbooksKeepsIndex == ASSUME IndexInv, RunRunbooks PROVE IndexInv'
<1>1. run \in Run /\ run.pc = "read" BY IndexFacts DEF RunRunbooks
<1>2. run.vectors = <<>> /\ run.sent = 0 BY <1>1, IndexFacts DEF Embedded, Uploaded
<1>3. PICK pc \in {"raise", "done", "embed", "upload"} :
        /\ run' = [run EXCEPT !.pc = pc] /\ UNCHANGED <<runbook, index>>
        /\ pc \in {"raise", "done"} => run.docs = <<>>
        /\ pc = "upload" /\ run.docs # <<>> => ~ run.embed
        /\ pc = "upload" => run.docs # <<>>
  BY DEF RunRunbooks, Becomes, AfterRunbooks
<1>4. /\ run' \in Run /\ run'.pc = pc /\ run'.docs = run.docs /\ run'.vectors = run.vectors
      /\ run'.sent = run.sent /\ run'.embed = run.embed
  BY <1>1, <1>3 DEF Run
<1>5. Embedded(run')
  <2>1. pc \in {"raise", "done"} => DOMAIN run'.docs = {} BY <1>3, <1>4, NothingIndexed
  <2> QED BY <1>2, <1>3, <1>4, <2>1, NothingIndexed DEF Embedded
<1>6. Uploaded(run', index)
  <2>1. Len(run.docs) \in Nat BY <1>1, RunFields
  <2>2. pc \in {"raise", "done"} => Len(run'.docs) = 0 BY <1>3, <1>4, NothingIndexed
  <2> QED BY <1>2, <1>3, <1>4, <2>1, <2>2, NothingIndexed DEF Uploaded
<1>7. Progress(run', index) BY <1>3, <1>4, <1>5, <1>6, IndexFacts DEF Progress
<1> QED BY <1>3, <1>7, RunMove

\* A batch of vectors continues those of the documents before it.
LEMMA EmbedKeepsIndex == ASSUME IndexInv, EmbedBatch PROVE IndexInv'
<1> DEFINE n == Len(run.vectors)
           batch == Batch(run.docs, n)
           new == Embedding(batch)
           vectors == run.vectors \o new
           t == [run EXCEPT !.attempt = 0, !.vectors = vectors]
<1>1. /\ run.pc = "embed" /\ n < Len(run.docs) /\ run' = t
      /\ UNCHANGED <<runbook, index>>
  BY DEF EmbedBatch, Becomes, Extended
<1>2. /\ run \in Run /\ run.docs \in Seq(Docs) /\ run.vectors \in Seq(Chunk)
      /\ n \in Nat /\ Len(run.docs) \in Nat /\ DOMAIN run.docs = 1 .. Len(run.docs)
      /\ DOMAIN run.vectors = 1 .. n
  BY IndexFacts, RunFields
<1> HIDE DEF n
<1>3. /\ batch \in Seq(Docs) /\ Len(batch) \in Nat /\ n + Len(batch) <= Len(run.docs)
      /\ DOMAIN batch = 1 .. Len(batch)
      /\ \A i \in 1 .. Len(batch) : batch[i] = run.docs[n + i]
  BY <1>1, <1>2, BatchOf
<1> HIDE DEF batch
<1>4. new = [k \in 1 .. Len(batch) |-> batch[k].content] BY <1>3 DEF Embedding
<1> HIDE DEF new
<1>5. \A k \in 1 .. Len(batch) : batch[k].content \in Chunk
  <2>1. \A k \in 1 .. Len(batch) : batch[k] \in Docs BY <1>3, ElementOfSeq
  <2> QED BY <2>1 DEF Docs
<1>6. new \in [1 .. Len(batch) -> Chunk] BY <1>4, <1>5
<1>7. new \in Seq(Chunk) /\ Len(new) = Len(batch) BY <1>3, <1>6, IsASeq, LenProperties
<1>8. /\ vectors \in Seq(Chunk) /\ DOMAIN vectors = 1 .. n + Len(batch)
      /\ \A k \in 1 .. n + Len(batch) :
           vectors[k] = IF k <= n THEN run.vectors[k] ELSE new[k - n]
  <2>1. Len(run.vectors) = n BY <1>2, LenProperties
  <2>2. /\ vectors \in Seq(Chunk) /\ Len(vectors) = n + Len(batch)
        /\ \A k \in 1 .. n + Len(batch) :
             vectors[k] = IF k <= n THEN run.vectors[k] ELSE new[k - n]
    <3>1. /\ vectors \in Seq(Chunk) /\ Len(vectors) = Len(run.vectors) + Len(new)
          /\ \A k \in 1 .. Len(run.vectors) + Len(new) :
               vectors[k] = IF k <= Len(run.vectors) THEN run.vectors[k]
                            ELSE new[k - Len(run.vectors)]
      BY <1>2, <1>7, ConcatProperties
    <3> HIDE DEF vectors
    <3> QED BY <1>7, <2>1, <3>1
  <2> HIDE DEF vectors
  <2> QED BY <2>2, LenProperties
<1> HIDE DEF vectors
<1>9. /\ t \in Run /\ t.pc = "embed" /\ t.docs = run.docs /\ t.vectors = vectors
      /\ t.sent = run.sent /\ t.embed = run.embed /\ t.refused = run.refused
  BY <1>1, <1>2, <1>8 DEF Run
<1> HIDE DEF t
<1>10. ASSUME NEW k \in 1 .. n + Len(batch)
       PROVE  k \in DOMAIN run.docs /\ vectors[k] = run.docs[k].content
  <2>1. k \in DOMAIN run.docs BY <1>2, <1>3
  <2>2. CASE k <= n
    <3>1. k \in DOMAIN run.vectors BY <1>2, <2>2
    <3>2. vectors[k] = run.vectors[k] BY <1>8, <2>2
    <3> QED BY <2>1, <3>1, <3>2, IndexFacts DEF Embedded
  <2>3. CASE ~ (k <= n)
    <3>1. k - n \in 1 .. Len(batch) /\ n + (k - n) = k BY <1>2, <1>3, <2>3
    <3>2. vectors[k] = new[k - n] BY <1>8, <2>3
    <3>3. new[k - n] = batch[k - n].content BY <1>4, <3>1
    <3>4. batch[k - n] = run.docs[k] BY <1>3, <3>1
    <3> QED BY <2>1, <3>2, <3>3, <3>4
  <2> QED BY <2>2, <2>3
<1>11. Embedded(t) BY <1>8, <1>9, <1>10 DEF Embedded
<1>12. Uploaded(t, index)
  <2>1. run.sent = 0 /\ run.sent <= Len(run.docs) BY <1>1, IndexFacts DEF Uploaded
  <2> QED BY <1>9, <2>1, NothingIndexed DEF Uploaded
<1>13. Progress(t, index) BY <1>9, <1>11, <1>12, IndexFacts DEF Progress
<1> QED BY <1>1, <1>13, RunMove

LEMMA EmbedFailsKeepsIndex == ASSUME IndexInv, EmbedFails PROVE IndexInv'
<1>1. CASE Fails BY <1>1, FailKeepsIndex
<1>2. CASE /\ run' = [run EXCEPT !.attempt = @ + 1] /\ UNCHANGED <<runbook, index>>
  <2>1. run \in Run /\ run.attempt \in Nat BY IndexFacts, RunFields
  <2> DEFINE n == run.attempt + 1
  <2>2. n \in Nat /\ run' = [run EXCEPT !.attempt = n] BY <1>2, <2>1
  <2> HIDE DEF n
  <2>3. /\ run' \in Run /\ run'.pc = run.pc /\ run'.docs = run.docs
        /\ run'.vectors = run.vectors /\ run'.sent = run.sent /\ run'.embed = run.embed
        /\ run'.refused = run.refused /\ run'.left = run.left
    BY <2>1, <2>2 DEF Run
  <2>4. Embedded(run') BY <2>3, IndexFacts DEF Embedded
  <2>5. Uploaded(run', index) BY <2>3, IndexFacts DEF Uploaded, Sent
  <2>6. Progress(run', index) BY <2>3, <2>4, <2>5, IndexFacts DEF Progress
  <2> QED BY <1>2, <2>6, RunMove
<1> QED BY <1>1, <1>2 DEF EmbedFails, Becomes

\* Every document gets the vector of its own content.
LEMMA ZipKeepsIndex == ASSUME IndexInv, ZipVectors PROVE IndexInv'
<1> DEFINE docs == [k \in DOMAIN run.docs |-> [run.docs[k] EXCEPT !.vector = run.vectors[k]]]
           t == [run EXCEPT !.pc = "upload", !.vectors = <<>>, !.docs = docs]
<1>1. /\ run.pc = "embed" /\ Len(run.vectors) = Len(run.docs) /\ run' = t
      /\ UNCHANGED <<runbook, index>>
  BY DEF ZipVectors, Becomes
<1>2. /\ run \in Run /\ run.docs \in Seq(Docs) /\ run.vectors \in Seq(Chunk)
      /\ Len(run.docs) \in Nat /\ DOMAIN run.docs = 1 .. Len(run.docs)
      /\ DOMAIN run.vectors = 1 .. Len(run.docs)
  BY <1>1, IndexFacts, RunFields
<1>3. ASSUME NEW k \in DOMAIN run.docs
      PROVE  /\ docs[k] \in Docs /\ Genuine(docs[k])
             /\ docs[k].id = run.docs[k].id /\ docs[k].vector = docs[k].content
  <2>1. /\ docs[k] = [run.docs[k] EXCEPT !.vector = run.vectors[k]]
        /\ run.docs[k] \in Docs /\ Genuine(run.docs[k])
    BY <1>2, IndexFacts, ElementOfSeq
  <2>2. run.vectors[k] = run.docs[k].content BY <1>2, IndexFacts DEF Embedded
  <2>3. run.docs[k].content \in Chunk BY <2>1 DEF Docs
  <2> HIDE DEF docs
  <2>4. /\ docs[k] \in Docs /\ docs[k].id = run.docs[k].id /\ docs[k].file = run.docs[k].file
        /\ docs[k].nr = run.docs[k].nr /\ docs[k].content = run.docs[k].content
        /\ docs[k].vector = run.docs[k].content
    BY <2>1, <2>2, <2>3 DEF Docs
  <2>5. Genuine(docs[k]) BY <2>1, <2>4 DEF Genuine
  <2> QED BY <2>4, <2>5
<1>4. DOMAIN docs = 1 .. Len(run.docs) BY <1>2
<1>5. docs \in [1 .. Len(run.docs) -> Docs] BY <1>2, <1>3
<1> HIDE DEF docs
<1>6. docs \in Seq(Docs) /\ Len(docs) = Len(run.docs)
  BY <1>2, <1>5, <1>4, IsASeq, LenProperties
<1>7. <<>> \in Seq(Chunk) BY EmptySeq
<1>8. /\ t \in Run /\ t.pc = "upload" /\ t.docs = docs /\ t.vectors = <<>>
      /\ t.sent = run.sent /\ t.embed = run.embed /\ t.refused = run.refused
  BY <1>2, <1>6, <1>7 DEF Run
<1> HIDE DEF t
<1>9. Apart(docs) BY <1>2, <1>3, <1>4, IndexFacts DEF Apart
<1>10. Embedded(t) BY <1>2, <1>3, <1>4, <1>8, NothingIndexed DEF Embedded
<1>11. Uploaded(t, index)
  <2>1. run.sent = 0 BY <1>1, IndexFacts DEF Uploaded
  <2>2. 0 <= Len(docs) BY <1>2, <1>6
  <2> QED BY <1>8, <2>1, <2>2, NothingIndexed DEF Uploaded
<1>12. Progress(t, index) BY <1>2, <1>3, <1>4, <1>8, <1>9, <1>10, <1>11 DEF Progress
<1> QED BY <1>1, <1>12, RunMove

\* The documents of a batch are those of the run, with ids of their own.
LEMMA BatchToUpload ==
  ASSUME IndexInv, run.sent < Len(run.docs)
  PROVE  LET batch == Batch(run.docs, run.sent) IN
         /\ Len(batch) \in Nat /\ run.sent + Len(batch) <= Len(run.docs)
         /\ \A doc \in ToSet(batch) :
              Genuine(doc) /\ \E k \in DOMAIN run.docs : k > run.sent /\ doc = run.docs[k]
         /\ \A a, b \in ToSet(batch) : a.id = b.id => a = b
         /\ \A k \in run.sent + 1 .. run.sent + Len(batch) : run.docs[k] \in ToSet(batch)
<1> DEFINE batch == Batch(run.docs, run.sent)
<1>1. /\ run \in Run /\ run.docs \in Seq(Docs) /\ run.sent \in Nat
      /\ Len(run.docs) \in Nat /\ DOMAIN run.docs = 1 .. Len(run.docs)
  BY IndexFacts, RunFields
<1>2. /\ Len(batch) \in Nat /\ run.sent + Len(batch) <= Len(run.docs)
      /\ DOMAIN batch = 1 .. Len(batch)
      /\ \A i \in 1 .. Len(batch) : batch[i] = run.docs[run.sent + i]
  BY <1>1, BatchOf
<1> HIDE DEF batch
<1>3. ASSUME NEW doc \in ToSet(batch)
      PROVE  Genuine(doc) /\ \E k \in DOMAIN run.docs : k > run.sent /\ doc = run.docs[k]
  <2>1. PICK i \in 1 .. Len(batch) : doc = batch[i] BY <1>2 DEF ToSet
  <2>2. run.sent + i \in DOMAIN run.docs /\ run.sent + i > run.sent BY <1>1, <1>2
  <2> QED BY <1>2, <2>1, <2>2, IndexFacts
<1>4. \A a, b \in ToSet(batch) : a.id = b.id => a = b BY <1>3, IndexFacts DEF Apart
<1>5. ASSUME NEW k \in run.sent + 1 .. run.sent + Len(batch) PROVE run.docs[k] \in ToSet(batch)
  <2>1. k - run.sent \in 1 .. Len(batch) /\ run.sent + (k - run.sent) = k BY <1>1, <1>2
  <2>2. batch[k - run.sent] = run.docs[k] BY <1>2, <2>1
  <2> QED BY <1>2, <2>1, <2>2 DEF ToSet
<1> QED BY <1>2, <1>3, <1>4, <1>5 DEF batch

\* What was sent before stays, what is sent now is there or refused.
LEMMA UploadKeepsIndex == ASSUME IndexInv, UploadBatch PROVE IndexInv'
<1> DEFINE batch == Batch(run.docs, run.sent)
           B == ToSet(batch)
<1>1. run.pc = "upload" /\ run.sent < Len(run.docs) /\ runbook' = runbook
  BY DEF UploadBatch, BatchesLeft
<1>2. PICK stored \in SUBSET B :
        /\ index' = Stored(stored)
        /\ run' = [run EXCEPT !.sent = run.sent + Len(batch),
                              !.refused = run.refused \cup (B \ stored)]
  BY DEF UploadBatch
<1>3. /\ Len(batch) \in Nat /\ run.sent + Len(batch) <= Len(run.docs)
      /\ \A doc \in B :
           Genuine(doc) /\ \E k \in DOMAIN run.docs : k > run.sent /\ doc = run.docs[k]
      /\ \A a, b \in B : a.id = b.id => a = b
      /\ \A k \in run.sent + 1 .. run.sent + Len(batch) : run.docs[k] \in B
  BY <1>1, BatchToUpload
<1>4. /\ run \in Run /\ run.sent \in Nat /\ run.refused \in SUBSET Docs
      /\ Len(run.docs) \in Nat /\ DOMAIN run.docs = 1 .. Len(run.docs)
  BY IndexFacts, RunFields
<1>5. B \in SUBSET Docs BY <1>3 DEF Genuine
<1> HIDE DEF batch, B
<1>6. /\ run' \in Run /\ run'.pc = "upload" /\ run'.docs = run.docs
      /\ run'.vectors = run.vectors /\ run'.embed = run.embed
      /\ run'.sent = run.sent + Len(batch) /\ run'.refused = run.refused \cup (B \ stored)
  <2>1. run.sent + Len(batch) \in Nat /\ run.refused \cup (B \ stored) \in SUBSET Docs
    BY <1>3, <1>4, <1>5
  <2> QED BY <1>1, <1>2, <1>4, <2>1 DEF Run
<1>7. \A a, b \in stored : a.id = b.id => a = b BY <1>3
<1>8. /\ \A doc \in stored : doc.id \in DOMAIN index' /\ index'[doc.id] = doc
      /\ \A id \in DOMAIN index : id \in DOMAIN index'
      /\ \A id \in DOMAIN index : (\A doc \in stored : doc.id # id) => index'[id] = index[id]
  BY <1>2, <1>7, StoredDocuments
<1>9. Held(index') BY <1>2, <1>3, <1>7, IndexFacts, StoredIsHeld
<1>10. ASSUME NEW k \in 1 .. run.sent + Len(batch) PROVE Sent(run.docs[k], run', index')
  <2> DEFINE doc == run.docs[k]
  <2>1. CASE k <= run.sent
    <3>1. k \in 1 .. run.sent /\ k \in DOMAIN run.docs BY <1>3, <1>4, <2>1
    <3>2. doc \notin run.refused => doc.id \in DOMAIN index /\ index[doc.id] = doc
      BY <3>1, IndexFacts DEF Uploaded, Sent
    <3>3. ASSUME NEW other \in stored PROVE other.id # doc.id
      <4>1. PICK l \in DOMAIN run.docs : l > run.sent /\ other = run.docs[l] BY <1>3
      <4>2. l # k BY <1>4, <2>1, <4>1
      <4> QED BY <3>1, <4>1, <4>2, IndexFacts DEF Apart
    <3> QED BY <1>6, <1>8, <3>2, <3>3 DEF Sent
  <2>2. CASE ~ (k <= run.sent)
    <3>1. k \in run.sent + 1 .. run.sent + Len(batch) BY <1>3, <1>4, <2>2
    <3>2. doc \in B BY <1>3, <3>1
    <3> QED BY <1>6, <1>8, <3>2 DEF Sent
  <2> QED BY <2>1, <2>2
<1>11. Uploaded(run', index') BY <1>3, <1>6, <1>10 DEF Uploaded
<1>12. Embedded(run') BY <1>1, <1>6, IndexFacts DEF Embedded
<1>13. Progress(run', index') BY <1>6, <1>11, <1>12, IndexFacts DEF Progress
<1> QED BY <1>1, <1>9, <1>13 DEF IndexInv

LEMMA UploadFailsKeepsIndex == ASSUME IndexInv, UploadFails PROVE IndexInv'
<1> DEFINE B == ToSet(Batch(run.docs, run.sent))
<1>1. run.sent < Len(run.docs) /\ run' = NoRun /\ runbook' = runbook
  BY DEF UploadFails, BatchesLeft
<1>2. PICK stored \in {{}, B} : index' = Stored(stored) BY DEF UploadFails
<1>3. (\A doc \in B : Genuine(doc)) /\ \A a, b \in B : a.id = b.id => a = b
  BY <1>1, BatchToUpload
<1> HIDE DEF B
<1>4. (\A doc \in stored : Genuine(doc)) /\ \A a, b \in stored : a.id = b.id => a = b BY <1>3
<1>5. Held(index') BY <1>2, <1>4, IndexFacts, StoredIsHeld
<1>6. Progress(run', index') BY <1>1, FailedRun
<1> QED BY <1>1, <1>5, <1>6 DEF IndexInv

LEMMA CompleteKeepsIndex == ASSUME IndexInv, UploadComplete PROVE IndexInv'
<1>1. PICK pc \in {"raise", "done"} :
        run' = [run EXCEPT !.pc = pc] /\ UNCHANGED <<runbook, index>>
  BY DEF UploadComplete, Becomes, AfterRunbooks
<1>2. /\ run \in Run /\ run.pc = "upload" /\ ~ (run.sent < Len(run.docs))
      /\ run.sent \in Nat /\ Len(run.docs) \in Nat
  BY IndexFacts, RunFields DEF UploadComplete, BatchesLeft
<1>3. /\ run' \in Run /\ run'.pc = pc /\ run'.docs = run.docs /\ run'.vectors = run.vectors
      /\ run'.sent = run.sent /\ run'.embed = run.embed /\ run'.refused = run.refused
  BY <1>1, <1>2 DEF Run
<1>4. run.sent = Len(run.docs)
  <2>1. run.sent <= Len(run.docs) BY IndexFacts DEF Uploaded
  <2> QED BY <1>2, <2>1
<1>5. Embedded(run') BY <1>2, <1>3, IndexFacts DEF Embedded
<1>6. Uploaded(run', index) BY <1>2, <1>3, <1>4, IndexFacts DEF Uploaded, Sent
<1>7. Progress(run', index) BY <1>3, <1>5, <1>6, IndexFacts DEF Progress
<1> QED BY <1>1, <1>7, RunMove

LEMMA NextKeepsIndex == IndexInv /\ [Next]_vars => IndexInv'
<1> SUFFICES ASSUME IndexInv, [Next]_vars PROVE IndexInv' OBVIOUS
<1>1. CASE EditRunbook \/ Start \/ EnsureIndex \/ ListRunbooks \/ IndexRunbook \/ RunRunbooks
  BY <1>1, EditKeepsIndex, StartKeepsIndex, EnsureKeepsIndex, ListKeepsIndex, ReadKeepsIndex,
     RunRunbooksKeepsIndex
<1>2. CASE EmbedBatch \/ EmbedFails \/ ZipVectors
  BY <1>2, EmbedKeepsIndex, EmbedFailsKeepsIndex, ZipKeepsIndex
<1>3. CASE UploadBatch \/ UploadFails \/ UploadComplete
  BY <1>3, UploadKeepsIndex, UploadFailsKeepsIndex, CompleteKeepsIndex
<1>4. CASE ReadFails \/ RunOther BY <1>4, FailKeepsIndex DEF ReadFails, RunOther
<1>5. CASE UNCHANGED vars BY <1>5 DEF vars, IndexInv
<1> QED BY <1>1, <1>2, <1>3, <1>4, <1>5 DEF Next

LEMMA IndexInvariant == Spec => []IndexInv
BY InitIndex, NextKeepsIndex, PTL DEF Spec
-----------------------------------------------------------------------------
(* The invariants.                                                         *)

\* However runs fail, are repeated without vectors or meet runbooks that are edited between
\* two reads, a document is the chunk its id says and has no vector but its own.
THEOREM IndexIsGenuine == Spec => []IndexHoldsChunks
<1>1. IndexInv => IndexHoldsChunks
  <2> SUFFICES ASSUME IndexInv, NEW id \in DOMAIN index
               PROVE  LET doc == index[id] IN
                      /\ \E text \in Texts[doc.file] :
                           id[2] \in DOMAIN Chunks[text] /\ Chunks[text][id[2]] = doc.content
                      /\ doc.vector \in {NoVector, doc.content}
    BY DEF IndexHoldsChunks
  <2>1. Genuine(index[id]) /\ index[id].id = id BY IndexFacts DEF Held
  <2>2. id[2] = index[id].nr BY <2>1 DEF Genuine
  <2> QED BY <2>1, <2>2 DEF Genuine
<1> QED BY <1>1, IndexInvariant, PTL

\* A run that ends well has stored every document it made, as it made it, with its vector
\* if it embeds, unless the service refused it.
THEOREM CompletedIsIndexed == Spec => []CompletedRunIsIndexed
<1>1. IndexInv => CompletedRunIsIndexed
  <2> SUFFICES ASSUME IndexInv, run.pc = "done", NEW k \in DOMAIN run.docs,
                      run.docs[k] \notin run.refused
               PROVE  LET id == run.docs[k].id IN
                      /\ id \in DOMAIN index /\ index[id] = run.docs[k]
                      /\ run.embed => index[id].vector # NoVector
    BY DEF CompletedRunIsIndexed
  <2> DEFINE doc == run.docs[k]
  <2>1. run.sent = Len(run.docs) /\ k \in 1 .. run.sent
    BY IndexFacts, RunFields DEF Uploaded
  <2>2. doc.id \in DOMAIN index /\ index[doc.id] = doc
    BY <2>1, IndexFacts DEF Uploaded, Sent
  <2>3. run.embed => doc.vector = doc.content BY IndexFacts DEF Embedded
  <2>4. doc.content # NoVector
    <3>1. Genuine(doc) BY IndexFacts
    <3>2. PICK text \in Texts[doc.file] :
            doc.nr \in DOMAIN Chunks[text] /\ Chunks[text][doc.nr] = doc.content
      BY <3>1 DEF Genuine
    <3>3. text \in DOMAIN Chunks
      <4>1. doc.file \in Runbooks BY <3>1 DEF Genuine, Docs
      <4>2. DOMAIN Chunks = UNION {Texts[f] : f \in Runbooks} BY DEF Chunks
      <4> QED BY <3>2, <4>1, <4>2
    <3>4. Len(doc.content) >= MinChars BY <3>2, <3>3, ChunksLong DEF ChunksAreLong
    <3>5. MinChars \in Nat /\ MinChars > 0 BY SearchIndexAssumption
    <3>6. Len(NoVector) = 0 BY NothingIndexed DEF NoVector
    <3> QED BY <3>4, <3>5, <3>6
  <2> QED BY <2>2, <2>3, <2>4
<1> QED BY <1>1, IndexInvariant, PTL

\* Whatever the runbooks say and however they are edited, cutting one loses less than a
\* smallest chunk at the end of a section, whole sections only at the end of the text and
\* together less than that, and every chunk begins inside the one before it.
THEOREM NoTextIsLost == Spec => []ChunksKeepText
<1>1. IndexInv => ChunksKeepText
  <2> SUFFICES ASSUME IndexInv PROVE ChunksKeepText OBVIOUS
  <2>1. SamplesAreKept BY SearchIndexAssumption, TextIsKept DEF SamplesAreKept
  <2>2. ASSUME NEW file \in Runbooks PROVE runbook[file] = Gone \/ IsKept(runbook[file])
    <3>1. runbook[file] \in Texts[file] \cup {Gone} BY DEF IndexInv
    <3>2. \A text \in Texts[file] : IsText(text) BY SearchIndexAssumption
    <3> QED BY <3>1, <3>2, TextIsKept
  <2> QED BY <2>1, <2>2, ChunksLong DEF ChunksKeepText
<1> QED BY <1>1, IndexInvariant, PTL
=============================================================================
