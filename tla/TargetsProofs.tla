--------------------------- MODULE TargetsProofs ---------------------------
(***************************************************************************)
(* Proofs about Targets, for every set of keys, any number of operators    *)
(* and every bound.                                                        *)
(***************************************************************************)
EXTENDS Targets, SequenceTheorems, TLAPS

-----------------------------------------------------------------------------
(* The inductive invariant.                                                *)

\* No statement for the key is due.
Settled(s, k) == s.pending = "none" \/ KeyNow(s) # k

\* The object of a key has the value of the last entry for it that was looked up.
Latest(s) ==
  /\ \A j \in 1 .. s.next - 1 : s.object[s.payload[j].key] # NoRow
  /\ \A k \in Keys : s.object[k] # NoRow =>
       \E j \in 1 .. s.next - 1 :
         /\ s.payload[j].key = k /\ s.payload[j].enabled = s.object[k]
         /\ \A l \in 1 .. s.next - 1 : l > j => s.payload[l].key # k

\* What is written is what the object says, and what is not written was so when loaded.
Written(s) ==
  /\ \A k \in s.mine : s.object[k] # NoRow
  /\ \A k \in Keys : s.out[k] # NoRow => k \in s.mine
  /\ \A k \in Keys : Settled(s, k) /\ s.object[k] # NoRow =>
       IF s.out[k] # NoRow THEN s.out[k] = s.object[k] ELSE s.loaded[k] = s.object[k]

\* What was read is still in the row, or another request wrote the row meanwhile.
Fresh(s, rows, others) ==
  /\ \A k \in Keys : s.loaded[k] # NoRow =>
       rows[k] # NoRow /\ (rows[k] = s.loaded[k] \/ k \in others)
  /\ s.pending = "insert" =>
       KeyNow(s) \notin s.mine /\ (rows[KeyNow(s)] = NoRow \/ KeyNow(s) \in others)

Sound(s, rows, others) == Latest(s) /\ Written(s) /\ Fresh(s, rows, others)

Closed(s) == ~ s.open => s = NoSession

\* The types of TypeOK.
Typed ==
  /\ registry \in [Keys -> Column]
  /\ session \in [Operators -> Session]
  /\ \A o \in Operators : session[o].next \in 1 .. Len(session[o].payload) + 1
  /\ \A o \in Operators : session[o].pending # "none" => session[o].next > 1
  /\ answer \in [Operators -> {"none", "ok", "error", "lost"}]
  /\ overlap \in [Operators -> SUBSET Keys]
  /\ asked \subseteq Keys \X BOOLEAN
  /\ puts \in 0 .. MaxPuts /\ cuts \in 0 .. MaxCuts

TargetsInv ==
  /\ Typed /\ ValueWasAsked
  /\ \A o \in Operators :
       /\ Closed(session[o]) /\ Sound(session[o], registry, overlap[o])
       /\ session[o].open => answer[o] = "none"
-----------------------------------------------------------------------------
(* Records and sequences.                                                  *)

LEMMA PayloadIsSeq ==
  ASSUME NEW payload \in Payloads
  PROVE  /\ payload \in Seq(Item) /\ Len(payload) \in Nat
         /\ DOMAIN payload = 1 .. Len(payload)
         /\ \A j \in 1 .. Len(payload) :
              payload[j] \in Item /\ payload[j].key \in Keys /\ payload[j].enabled \in BOOLEAN
<1>1. payload \in Seq(Item)
  BY TargetsAssumption, SeqDef DEF Payloads
<1>2. \A j \in 1 .. Len(payload) : payload[j] \in Item BY <1>1
<1> QED BY <1>1, <1>2 DEF Item

LEMMA SessionFields ==
  ASSUME NEW s \in Session
  PROVE  /\ s.open \in BOOLEAN /\ s.payload \in Payloads /\ s.next \in Nat
         /\ s.pending \in {"none", "insert", "update"}
         /\ s.loaded \in [Keys -> Column] /\ s.object \in [Keys -> Column]
         /\ s.mine \subseteq Keys /\ s.out \in [Keys -> Column]
BY DEF Session

LEMMA EmptyPayload == <<>> \in Payloads /\ Len(<<>>) = 0
<1>1. 0 \in 0 .. MaxItems BY TargetsAssumption
<1>2. <<>> \in [1 .. 0 -> Item] OBVIOUS
<1> QED BY <1>1, <1>2 DEF Payloads

\* A session whose transaction has not begun.
Begun(open, payload) == [NoSession EXCEPT !.open = open, !.payload = payload]

LEMMA NothingRead ==
  ASSUME NEW s \in Session, s.next = 1, s.pending = "none", s.mine = {},
         \A k \in Keys : s.loaded[k] = NoRow /\ s.object[k] = NoRow /\ s.out[k] = NoRow,
         NEW rows, NEW others
  PROVE  Sound(s, rows, others) /\ s.next \in 1 .. Len(s.payload) + 1
<1>1. s.next \in 1 .. Len(s.payload) + 1 BY PayloadIsSeq, SessionFields
<1>2. Latest(s) BY DEF Latest
<1>3. Written(s) BY DEF Written
<1>4. Fresh(s, rows, others) BY DEF Fresh
<1> QED BY <1>1, <1>2, <1>3, <1>4 DEF Sound

LEMMA NewSession ==
  ASSUME NEW payload \in Payloads, NEW rows, NEW others
  PROVE  LET s == Begun(TRUE, payload) IN
         /\ s \in Session /\ s.next \in 1 .. Len(s.payload) + 1 /\ s.pending = "none"
         /\ Sound(s, rows, others) /\ s.open
<1> DEFINE s == Begun(TRUE, payload)
<1>1. /\ s.open /\ s.payload = payload /\ s.next = 1 /\ s.pending = "none"
      /\ s.loaded = [k \in Keys |-> NoRow] /\ s.object = [k \in Keys |-> NoRow]
      /\ s.mine = {} /\ s.out = [k \in Keys |-> NoRow]
  BY DEF Begun, NoSession
<1>2. s \in Session BY <1>1 DEF Begun, Session, NoSession, Column
<1> HIDE DEF s
<1>3. Sound(s, rows, others) /\ s.next \in 1 .. Len(s.payload) + 1
  BY <1>1, <1>2, NothingRead
<1> QED BY <1>1, <1>2, <1>3 DEF s

LEMMA NoSessionIsSound ==
  ASSUME NEW rows, NEW others
  PROVE  /\ NoSession \in Session /\ NoSession.next \in 1 .. Len(NoSession.payload) + 1
         /\ NoSession.pending = "none" /\ Sound(NoSession, rows, others) /\ ~ NoSession.open
<1>1. NoSession \in Session BY EmptyPayload DEF NoSession, Session, Column
<1>2. /\ NoSession.next = 1 /\ NoSession.pending = "none" /\ NoSession.mine = {}
      /\ ~ NoSession.open
      /\ \A k \in Keys : /\ NoSession.loaded[k] = NoRow /\ NoSession.object[k] = NoRow
                         /\ NoSession.out[k] = NoRow
  BY DEF NoSession
<1> QED BY <1>1, <1>2, NothingRead

LEMMA InitTargets == Init => TargetsInv
<1> SUFFICES ASSUME Init PROVE TargetsInv OBVIOUS
<1>1. \A o \in Operators : session[o] = NoSession BY DEF Init
<1>2. \A o \in Operators : /\ Closed(session[o]) /\ Sound(session[o], registry, overlap[o])
                           /\ ~ session[o].open
  BY <1>1, NoSessionIsSound DEF Closed
<1>3. Typed
  <2>1. session \in [Operators -> Session] BY NoSessionIsSound DEF Init
  <2>2. \A o \in Operators : session[o].next \in 1 .. Len(session[o].payload) + 1
                             /\ session[o].pending = "none"
    BY <1>1, NoSessionIsSound
  <2> QED BY <2>1, <2>2, TargetsAssumption DEF Init, Typed, Column
<1>4. ValueWasAsked BY DEF Init, ValueWasAsked
<1> QED BY <1>2, <1>3, <1>4 DEF TargetsInv

\* The key whose statement is due is one of the payload.
LEMMA KeyOfPending ==
  ASSUME NEW s \in Session, s.next \in 1 .. Len(s.payload) + 1, s.next > 1
  PROVE  /\ s.next - 1 \in 1 .. Len(s.payload) /\ KeyNow(s) \in Keys
         /\ KeyNow(s) \in KeysOf(s.payload)
<1>1. s.next - 1 \in 1 .. Len(s.payload) BY SessionFields, PayloadIsSeq
<1>2. s.next - 1 \in DOMAIN s.payload BY <1>1, SessionFields, PayloadIsSeq
<1> QED BY <1>1, <1>2, SessionFields, PayloadIsSeq DEF KeyNow, KeysOf
-----------------------------------------------------------------------------
(* Steps of one request that commit nothing.                               *)

LEMMA OwnStep ==
  ASSUME TargetsInv, NEW o \in Operators, NEW s \in Session,
         session' = [session EXCEPT ![o] = s], s.open,
         s.next \in 1 .. Len(s.payload) + 1, s.pending # "none" => s.next > 1,
         Sound(s, registry, overlap[o]), answer'[o] = "none",
         answer' = answer \/ answer' = [answer EXCEPT ![o] = "none"],
         UNCHANGED <<registry, overlap, asked>>, puts' \in 0 .. MaxPuts, cuts' \in 0 .. MaxCuts
  PROVE  TargetsInv'
<1>1. session'[o] = s /\ \A p \in Operators \ {o} : session'[p] = session[p]
  BY DEF TargetsInv, Typed
<1>2. \A p \in Operators \ {o} : answer'[p] = answer[p] BY DEF TargetsInv, Typed
<1>3. Typed' BY <1>1 DEF TargetsInv, Typed
<1>4. ValueWasAsked' BY DEF TargetsInv, ValueWasAsked
<1>5. \A p \in Operators :
        /\ Closed(session'[p]) /\ Sound(session'[p], registry, overlap[p])
        /\ session'[p].open => answer'[p] = "none"
  BY <1>1, <1>2 DEF TargetsInv, Closed
<1> QED BY <1>3, <1>4, <1>5 DEF TargetsInv

LEMMA PutSound == ASSUME TargetsInv, NEW o \in Operators, Put(o) PROVE TargetsInv'
<1>1. PICK payload \in Payloads : session' = [session EXCEPT ![o] = Begun(TRUE, payload)]
  BY DEF Put, Begun
<1> DEFINE s == Begun(TRUE, payload)
<1>2. /\ s \in Session /\ s.next \in 1 .. Len(s.payload) + 1 /\ s.pending = "none"
      /\ Sound(s, registry, overlap[o]) /\ s.open
  BY NewSession
<1>3. answer' = [answer EXCEPT ![o] = "none"] /\ answer'[o] = "none"
  BY DEF Put, TargetsInv, Typed
<1>4. puts' \in 0 .. MaxPuts /\ cuts' \in 0 .. MaxCuts
  BY TargetsAssumption DEF Put, TargetsInv, Typed
<1>5. UNCHANGED <<registry, overlap, asked>> BY DEF Put
<1>6. session' = [session EXCEPT ![o] = s] BY <1>1
<1> HIDE DEF s
<1> QED BY <1>2, <1>3, <1>4, <1>5, <1>6, OwnStep

LEMMA LookupSound == ASSUME TargetsInv, NEW o \in Operators, Lookup(o) PROVE TargetsInv'
<1> DEFINE s == session[o]
           item == s.payload[s.next]
           k == item.key
           found == Existing(s, k)
           t == [s EXCEPT !.next = @ + 1,
                          !.pending = IF found = NoRow THEN "insert" ELSE "update",
                          !.loaded[k] = IF s.object[k] = NoRow THEN found ELSE @,
                          !.object[k] = Assigned(found, item)]
<1>1. /\ s \in Session /\ s.open /\ s.pending = "none" /\ answer[o] = "none"
      /\ Sound(s, registry, overlap[o])
  BY DEF Lookup, TargetsInv, Typed
<1>2. /\ s.next \in 1 .. Len(s.payload) /\ item \in Item /\ k \in Keys /\ item.enabled \in BOOLEAN
      /\ Len(s.payload) \in Nat
  BY <1>1, SessionFields, PayloadIsSeq DEF Lookup
<1>3. session' = [session EXCEPT ![o] = t] BY DEF Lookup
<1> HIDE DEF item, k, found
<1>4. /\ t.open /\ t.payload = s.payload /\ t.next = s.next + 1
      /\ t.pending = (IF found = NoRow THEN "insert" ELSE "update")
      /\ t.loaded = [s.loaded EXCEPT ![k] = IF s.object[k] = NoRow THEN found ELSE @]
      /\ t.object = [s.object EXCEPT ![k] = item.enabled]
      /\ t.mine = s.mine /\ t.out = s.out
  BY <1>1 DEF Session, Assigned
<1>5. registry \in [Keys -> Column] BY DEF TargetsInv, Typed
<1>6. found \in Column
  BY <1>1, <1>2, <1>5, SessionFields DEF found, Existing
<1>7. t \in Session
  <2>a. s.loaded \in [Keys -> Column] /\ s.object \in [Keys -> Column] BY <1>1, SessionFields
  <2>b. item.enabled \in Column BY <1>2 DEF Column
  <2>c. (IF s.object[k] = NoRow THEN found ELSE s.loaded[k]) \in Column BY <1>2, <1>6, <2>a
  <2> HIDE DEF t
  <2>d. t.loaded \in [Keys -> Column] BY <1>4, <2>a, <2>c
  <2>e. t.object \in [Keys -> Column] BY <1>4, <2>a, <2>b
  <2>1. t.loaded \in [Keys -> Column] /\ t.object \in [Keys -> Column] BY <2>d, <2>e
  <2>2. t = [s EXCEPT !.next = t.next, !.pending = t.pending, !.loaded = t.loaded,
                      !.object = t.object]
    BY <1>1 DEF Session, t
  <2>3. t.next \in Nat /\ t.pending \in {"none", "insert", "update"} BY <1>1, <1>4, SessionFields
  <2> HIDE DEF s
  <2> QED BY <1>1, <2>1, <2>2, <2>3 DEF Session
<1> HIDE DEF s, t
<1>8. KeyNow(t) = k BY <1>2, <1>4 DEF KeyNow, item, k
<1>9. /\ t.object[k] = item.enabled /\ item.enabled # NoRow
      /\ \A m \in Keys \ {k} : t.object[m] = s.object[m] /\ t.loaded[m] = s.loaded[m]
  BY <1>1, <1>2, <1>4, SessionFields, TargetsAssumption
<1>10. Latest(t)
  <2>1. \A j \in 1 .. t.next - 1 : j \in 1 .. s.next - 1 \/ j = s.next BY <1>2, <1>4
  <2>2. \A j \in 1 .. s.next - 1 : s.payload[j].key \in Keys
    BY <1>1, <1>2, SessionFields, PayloadIsSeq
  <2>3. \A j \in 1 .. t.next - 1 : t.object[t.payload[j].key] # NoRow
    <3>1. t.object[t.payload[s.next].key] # NoRow BY <1>4, <1>9 DEF k, item
    <3>2. \A j \in 1 .. s.next - 1 : s.object[s.payload[j].key] # NoRow
      BY <1>1 DEF Sound, Latest
    <3>3. \A j \in 1 .. s.next - 1 : t.object[t.payload[j].key] # NoRow
      BY <1>4, <1>9, <2>2, <3>2
    <3> QED BY <2>1, <3>1, <3>3
  <2>4. ASSUME NEW m \in Keys, t.object[m] # NoRow
        PROVE  \E j \in 1 .. t.next - 1 :
                 /\ t.payload[j].key = m /\ t.payload[j].enabled = t.object[m]
                 /\ \A l \in 1 .. t.next - 1 : l > j => t.payload[l].key # m
    <3>1. CASE m = k
      <4>1. s.next \in 1 .. t.next - 1 /\ \A l \in 1 .. t.next - 1 : ~ l > s.next
        BY <1>2, <1>4
      <4>2. t.payload[s.next].key = m /\ t.payload[s.next].enabled = t.object[m]
        BY <1>4, <1>9, <3>1 DEF k, item
      <4> QED BY <4>1, <4>2
    <3>2. CASE m # k
      <4>1. PICK j \in 1 .. s.next - 1 :
              /\ s.payload[j].key = m /\ s.payload[j].enabled = s.object[m]
              /\ \A l \in 1 .. s.next - 1 : l > j => s.payload[l].key # m
        BY <1>1, <1>9, <2>4, <3>2 DEF Sound, Latest
      <4>2. j \in 1 .. t.next - 1 BY <1>2, <1>4
      <4>3. t.payload[j].key = m /\ t.payload[j].enabled = t.object[m]
        BY <1>4, <1>9, <3>2, <4>1
      <4>4. \A l \in 1 .. t.next - 1 : l > j => t.payload[l].key # m
        BY <1>4, <2>1, <3>2, <4>1 DEF k, item
      <4> QED BY <4>2, <4>3, <4>4
    <3> QED BY <3>1, <3>2
  <2> QED BY <2>3, <2>4 DEF Latest
<1>11. Written(t)
  <2>1. \A m \in Keys : Settled(t, m) => m # k BY <1>4, <1>8 DEF Settled
  <2>2. \A m \in Keys : Settled(s, m) BY <1>1 DEF Settled
  <2>3. \A m \in t.mine : t.object[m] # NoRow
    BY <1>1, <1>4, <1>9, SessionFields DEF Sound, Written
  <2>4. \A m \in Keys : t.out[m] # NoRow => m \in t.mine
    BY <1>1, <1>4 DEF Sound, Written
  <2>5. \A m \in Keys : Settled(t, m) /\ t.object[m] # NoRow =>
          IF t.out[m] # NoRow THEN t.out[m] = t.object[m] ELSE t.loaded[m] = t.object[m]
    BY <1>1, <1>4, <1>9, <2>1, <2>2 DEF Sound, Written
  <2> QED BY <2>3, <2>4, <2>5 DEF Written
<1>12. Fresh(t, registry, overlap[o])
  <2>1. t.loaded[k] = s.loaded[k] \/ t.loaded[k] = registry[k] \/ t.loaded[k] = NoRow
    BY <1>1, <1>2, <1>4, SessionFields DEF found, Existing
  <2>2. \A m \in Keys : t.loaded[m] # NoRow =>
          registry[m] # NoRow /\ (registry[m] = t.loaded[m] \/ m \in overlap[o])
    BY <1>1, <1>9, <2>1 DEF Sound, Fresh
  <2>3. ASSUME t.pending = "insert"
        PROVE  k \notin t.mine /\ registry[k] = NoRow
    <3>1. found = NoRow BY <1>4, <2>3
    <3>2. k \notin s.mine
      BY <1>1, <3>1 DEF Sound, Written, found, Existing
    <3> QED BY <1>4, <3>1, <3>2 DEF found, Existing
  <2> QED BY <1>8, <2>2, <2>3 DEF Fresh
<1>13. t.next \in 1 .. Len(t.payload) + 1 /\ t.next > 1 BY <1>2, <1>4
<1>14. /\ UNCHANGED <<registry, overlap, asked, answer, puts, cuts>>
       /\ puts' \in 0 .. MaxPuts /\ cuts' \in 0 .. MaxCuts
  BY DEF Lookup, TargetsInv, Typed
<1> QED BY <1>1, <1>3, <1>4, <1>7, <1>10, <1>11, <1>12, <1>13, <1>14, OwnStep DEF Sound

LEMMA FlushSound == ASSUME TargetsInv, NEW o \in Operators, Flush(o) PROVE TargetsInv'
<1> DEFINE s == session[o]
           k == KeyNow(s)
           t == [s EXCEPT !.pending = "none",
                          !.mine = @ \cup {k},
                          !.out[k] = IF s.object[k] # Base(s, k) THEN s.object[k] ELSE @]
<1>1. /\ s \in Session /\ s.pending # "none" /\ s.next \in 1 .. Len(s.payload) + 1 /\ s.next > 1
      /\ Sound(s, registry, overlap[o]) /\ Closed(s) /\ (s.open => answer[o] = "none")
  BY DEF Flush, TargetsInv, Typed
<1>2. s.open /\ answer[o] = "none" BY <1>1, NoSessionIsSound DEF Closed
<1>3. session' = [session EXCEPT ![o] = t] BY DEF Flush
<1>4. /\ t.open /\ t.payload = s.payload /\ t.next = s.next /\ t.pending = "none"
      /\ t.loaded = s.loaded /\ t.object = s.object /\ t.mine = s.mine \cup {k}
      /\ t.out = [s.out EXCEPT ![k] = IF s.object[k] # Base(s, k) THEN s.object[k] ELSE @]
  BY <1>1, <1>2 DEF Session
<1>5. t = [s EXCEPT !.pending = "none", !.mine = t.mine, !.out = t.out]
  BY <1>1 DEF Session
<1> HIDE DEF s, t
<1>6. /\ k \in Keys /\ s.next - 1 \in 1 .. s.next - 1
  BY <1>1, KeyOfPending, SessionFields
<1> HIDE DEF k
<1>7. s.object[k] # NoRow
  BY <1>1, <1>6 DEF Sound, Latest, KeyNow, k
<1>8. t \in Session
  <2>1. t.out \in [Keys -> Column] /\ t.mine \subseteq Keys
    BY <1>1, <1>4, <1>6, SessionFields
  <2> QED BY <1>1, <1>5, <2>1 DEF Session
<1>9. Latest(t) BY <1>1, <1>4 DEF Sound, Latest
<1>10. Written(t)
  <2>1. \A m \in Keys \ {k} : Settled(s, m) /\ t.out[m] = s.out[m]
    BY <1>1, <1>4, SessionFields DEF Settled, k
  <2>2. t.out[k] = (IF s.object[k] # Base(s, k) THEN s.object[k] ELSE s.out[k])
    BY <1>1, <1>4, <1>6, SessionFields
  <2>3. IF t.out[k] # NoRow THEN t.out[k] = t.object[k] ELSE t.loaded[k] = t.object[k]
    BY <1>4, <1>7, <2>2 DEF Base
  <2>4. \A m \in t.mine : t.object[m] # NoRow
    BY <1>1, <1>4, <1>7 DEF Sound, Written
  <2>5. \A m \in Keys : t.out[m] # NoRow => m \in t.mine
    BY <1>1, <1>4, <2>1 DEF Sound, Written
  <2>6. \A m \in Keys : Settled(t, m) /\ t.object[m] # NoRow =>
          IF t.out[m] # NoRow THEN t.out[m] = t.object[m] ELSE t.loaded[m] = t.object[m]
    BY <1>1, <1>4, <2>1, <2>3 DEF Sound, Written
  <2> QED BY <2>4, <2>5, <2>6 DEF Written
<1>11. Fresh(t, registry, overlap[o]) BY <1>1, <1>4 DEF Sound, Fresh
<1>12. /\ UNCHANGED <<registry, overlap, asked, answer, puts, cuts>>
       /\ puts' \in 0 .. MaxPuts /\ cuts' \in 0 .. MaxCuts
  BY DEF Flush, TargetsInv, Typed
<1> QED BY <1>1, <1>2, <1>3, <1>4, <1>8, <1>9, <1>10, <1>11, <1>12, OwnStep DEF Sound
-----------------------------------------------------------------------------
(* The end of a request.                                                   *)

\* What the others read stays fresh: what o wrote has become known to them.
LEMMA CloseSound ==
  ASSUME TargetsInv, NEW o \in Operators, NEW status \in {"ok", "error", "lost"},
         Close(o, status), registry' \in [Keys -> Column], asked \subseteq asked',
         asked' \subseteq Keys \X BOOLEAN, ValueWasAsked',
         \A k \in Keys : registry'[k] # registry[k] =>
           /\ status = "ok" /\ session[o].open /\ k \in session[o].mine
           /\ registry'[k] # NoRow,
         puts' \in 0 .. MaxPuts, cuts' \in 0 .. MaxCuts
  PROVE  TargetsInv'
<1>1. session'[o] = NoSession /\ \A p \in Operators \ {o} : session'[p] = session[p]
  BY DEF Close, TargetsInv, Typed
<1>2. \A p \in Operators \ {o} : answer'[p] = answer[p]
  BY DEF Close, TargetsInv, Typed
<1>3. overlap' \in [Operators -> SUBSET Keys]
  <2>1. \A p \in Operators : session[p].mine \subseteq Keys /\ overlap[p] \subseteq Keys
    BY SessionFields DEF TargetsInv, Typed
  <2>2. \A p \in Operators : overlap'[p] \subseteq Keys
    BY <2>1 DEF Close, Overlapping
  <2> QED BY <2>2 DEF Close, Overlapping
<1>4. ASSUME NEW p \in Operators \ {o}
      PROVE  /\ session[p].open /\ status = "ok" => overlap'[p] = overlap[p] \cup session[o].mine
             /\ ~ (session[p].open /\ status = "ok") => overlap'[p] = overlap[p]
  BY <1>4 DEF Close, Overlapping
<1>5. ASSUME NEW p \in Operators \ {o}
      PROVE  Sound(session[p], registry', overlap'[p])
  <2>1. CASE ~ session[p].open
    BY <2>1, NoSessionIsSound DEF TargetsInv, Closed
  <2>2. CASE session[p].open
    <3>1. overlap[p] \subseteq overlap'[p] BY <1>4
    <3>2. \A k \in Keys : registry'[k] = registry[k] \/ (registry'[k] # NoRow /\ k \in overlap'[p])
      BY <1>4, <2>2
    <3>3. Sound(session[p], registry, overlap[p]) BY DEF TargetsInv
    <3>4. session[p].pending = "insert" => KeyNow(session[p]) \in Keys
      BY KeyOfPending DEF TargetsInv, Typed
    <3>5. Fresh(session[p], registry', overlap'[p])
      BY <3>1, <3>2, <3>3, <3>4 DEF Sound, Fresh
    <3> QED BY <3>3, <3>5 DEF Sound
  <2> QED BY <2>1, <2>2
<1>6. \A p \in Operators :
        /\ Closed(session'[p]) /\ Sound(session'[p], registry', overlap'[p])
        /\ session'[p].open => answer'[p] = "none"
  BY <1>1, <1>2, <1>5, NoSessionIsSound DEF TargetsInv, Closed
<1>7. Typed'
  <2>1. answer' \in [Operators -> {"none", "ok", "error", "lost"}]
    BY DEF Close, TargetsInv, Typed
  <2>2. session' \in [Operators -> Session] BY NoSessionIsSound DEF Close, TargetsInv, Typed
  <2>3. \A p \in Operators : /\ session'[p].next \in 1 .. Len(session'[p].payload) + 1
                             /\ session'[p].pending # "none" => session'[p].next > 1
    BY <1>1, NoSessionIsSound DEF TargetsInv, Typed
  <2> QED BY <1>3, <2>1, <2>2, <2>3 DEF Typed
<1> QED BY <1>6, <1>7 DEF TargetsInv

LEMMA FailureSound ==
  ASSUME TargetsInv, NEW o \in Operators, InsertFails(o) \/ DeadlockVictim(o) \/ CutOff(o)
  PROVE  TargetsInv'
<1>1. PICK status \in {"error", "lost"} : Close(o, status)
  BY DEF InsertFails, DeadlockVictim, CutOff
<1>2. registry' = registry /\ asked' = asked BY DEF InsertFails, DeadlockVictim, CutOff
<1>3. puts' \in 0 .. MaxPuts /\ cuts' \in 0 .. MaxCuts
  BY TargetsAssumption DEF InsertFails, DeadlockVictim, CutOff, TargetsInv, Typed
<1>4. registry' \in [Keys -> Column] /\ asked' \subseteq Keys \X BOOLEAN
  BY <1>2 DEF TargetsInv, Typed
<1>5. ValueWasAsked' BY <1>2 DEF TargetsInv, ValueWasAsked
<1> QED BY <1>1, <1>2, <1>3, <1>4, <1>5, CloseSound

\* What a request writes is what the last entry for the key asked for.
LEMMA WrittenWasAsked ==
  ASSUME TargetsInv, NEW o \in Operators, Commit(o), NEW k \in Keys, session[o].object[k] # NoRow
  PROVE  \E j \in Effective(session[o].payload) :
           /\ session[o].payload[j].key = k
           /\ session[o].payload[j].enabled = session[o].object[k]
<1> DEFINE s == session[o]
<1>1. /\ s \in Session /\ s.next \in 1 .. Len(s.payload) + 1 /\ s.next > Len(s.payload)
      /\ Latest(s)
  BY DEF Commit, TargetsInv, Typed, Sound
<1> HIDE DEF s
<1>2. DOMAIN s.payload = 1 .. s.next - 1 BY <1>1, SessionFields, PayloadIsSeq
<1>3. PICK j \in 1 .. s.next - 1 :
        /\ s.payload[j].key = k /\ s.payload[j].enabled = s.object[k]
        /\ \A l \in 1 .. s.next - 1 : l > j => s.payload[l].key # k
  BY <1>1 DEF Latest, s
<1>4. j \in Effective(s.payload) BY <1>2, <1>3 DEF Effective
<1> QED BY <1>3, <1>4 DEF s

\* What a commit does to a row.
LEMMA CommitWrites ==
  ASSUME TargetsInv, NEW o \in Operators, Commit(o), NEW k \in Keys
  PROVE  LET s == session[o] IN
         \/ registry'[k] = registry[k] /\ s.out[k] = NoRow
         \/ /\ registry'[k] = s.object[k] /\ s.object[k] # NoRow
            /\ s.out[k] # NoRow /\ k \in s.mine
<1>1. Written(session[o]) /\ session[o].pending = "none" BY DEF Commit, TargetsInv, Sound
<1>2. registry'[k] = IF session[o].out[k] # NoRow THEN session[o].out[k] ELSE registry[k]
  BY DEF Commit
<1> QED BY <1>1, <1>2 DEF Written, Settled

LEMMA CommitSound == ASSUME TargetsInv, NEW o \in Operators, Commit(o) PROVE TargetsInv'
<1> DEFINE s == session[o]
<1>1. /\ s \in Session /\ s.open /\ s.payload \in Payloads BY SessionFields DEF Commit, TargetsInv, Typed
<1>2. Close(o, "ok") BY DEF Commit
<1>3. registry' \in [Keys -> Column]
  <2>1. s.out \in [Keys -> Column] /\ registry \in [Keys -> Column]
    BY <1>1, SessionFields DEF TargetsInv, Typed
  <2> QED BY <2>1 DEF Commit
<1>4. asked' = asked \cup {<<s.payload[j].key, s.payload[j].enabled>> : j \in Effective(s.payload)}
  BY DEF Commit
<1>5. asked' \subseteq Keys \X BOOLEAN
  <2>1. \A j \in Effective(s.payload) :
          s.payload[j].key \in Keys /\ s.payload[j].enabled \in BOOLEAN
    BY <1>1, PayloadIsSeq DEF Effective
  <2>2. asked \subseteq Keys \X BOOLEAN BY DEF TargetsInv, Typed
  <2> QED BY <1>4, <2>1, <2>2
<1>6. ValueWasAsked'
  <2> SUFFICES ASSUME NEW k \in Keys, registry'[k] # NoRow PROVE <<k, registry'[k]>> \in asked'
    BY DEF ValueWasAsked
  <2>1. CASE registry'[k] = registry[k] BY <1>4, <2>1 DEF TargetsInv, ValueWasAsked
  <2>2. CASE registry'[k] = s.object[k] /\ s.object[k] # NoRow
    <3>1. PICK j \in Effective(s.payload) : s.payload[j].key = k /\ s.payload[j].enabled = s.object[k]
      BY <2>2, WrittenWasAsked
    <3> QED BY <1>4, <2>2, <3>1
  <2> QED BY <2>1, <2>2, CommitWrites
<1>7. \A k \in Keys : registry'[k] # registry[k] =>
        s.open /\ k \in s.mine /\ registry'[k] # NoRow
  BY <1>1, CommitWrites
<1>8. puts' \in 0 .. MaxPuts /\ cuts' \in 0 .. MaxCuts
  BY DEF Commit, TargetsInv, Typed
<1> QED BY <1>2, <1>3, <1>4, <1>5, <1>6, <1>7, <1>8, CloseSound

LEMMA NextKeepsTargets == TargetsInv /\ [Next]_vars => TargetsInv'
<1> SUFFICES ASSUME TargetsInv, [Next]_vars PROVE TargetsInv' OBVIOUS
<1>1. ASSUME NEW o \in Operators, Put(o) \/ Step(o) \/ CutOff(o) PROVE TargetsInv'
  BY <1>1, PutSound, LookupSound, FlushSound, CommitSound, FailureSound DEF Step
<1>2. CASE UNCHANGED vars
  BY <1>2 DEF vars, TargetsInv, Typed, ValueWasAsked, Sound, Closed
<1> QED BY <1>1, <1>2 DEF Next

LEMMA TargetsInvariant == Spec => []TargetsInv
BY InitTargets, NextKeepsTargets, PTL DEF Spec
-----------------------------------------------------------------------------
(* The properties.                                                         *)

\* The registry, its sessions and its answers are well-typed in every reachable state.
THEOREM TypeCorrect == Spec => []TypeOK
<1>1. TargetsInv => TypeOK
  BY DEF TargetsInv, TypeOK, Typed, Closed, Sound, Written, Fresh
<1> QED BY <1>1, TargetsInvariant, PTL

\* However many requests write the same rows column by column, a row says only what the last
\* entry for its key in some committed PUT asked for.
THEOREM RowsWereAsked == Spec => []ValueWasAsked
<1>1. TargetsInv => ValueWasAsked BY DEF TargetsInv
<1> QED BY <1>1, TargetsInvariant, PTL

\* The answer of an open request is not there, so a step that gives one is its end.
LEMMA WhoAnswers ==
  ASSUME TargetsInv, [Next]_vars, NEW o \in Operators, session[o].open,
         answer'[o] \in {"ok", "error"}
  PROVE  IF answer'[o] = "ok" THEN Commit(o) ELSE InsertFails(o) \/ DeadlockVictim(o)
<1>1. answer \in [Operators -> {"none", "ok", "error", "lost"}] /\ answer[o] = "none"
  BY DEF TargetsInv, Typed
<1>2. answer' # answer BY <1>1
<1>3. PICK p \in Operators : Put(p) \/ Step(p) \/ CutOff(p) BY <1>2 DEF Next, vars
<1>4. CASE Put(p) BY <1>1, <1>4 DEF Put
<1>5. CASE Lookup(p) \/ Flush(p) BY <1>2, <1>5 DEF Lookup, Flush
<1>6. CASE CutOff(p) BY <1>1, <1>6 DEF CutOff, Close
<1>7. CASE Commit(p) BY <1>1, <1>7 DEF Commit, Close
<1>8. CASE InsertFails(p) \/ DeadlockVictim(p)
  <2>1. answer' = [answer EXCEPT ![p] = "error"] BY <1>8 DEF InsertFails, DeadlockVictim, Close
  <2> QED BY <1>1, <1>8, <2>1
<1> QED BY <1>3, <1>4, <1>5, <1>6, <1>7, <1>8 DEF Step

LEMMA SavedByCommit ==
  ASSUME TargetsInv, NEW o \in Operators, Commit(o)
  PROVE  /\ \A j \in Effective(session[o].payload) :
              LET item == session[o].payload[j] IN
              \/ registry'[item.key] = item.enabled
              \/ registry'[item.key] # NoRow /\ item.key \in overlap[o]
         /\ \A k \in Keys \ KeysOf(session[o].payload) : registry'[k] = registry[k]
<1> DEFINE s == session[o]
<1>a. s.open /\ s.pending = "none" /\ s.next > Len(s.payload) BY DEF Commit
<1>b. s \in Session /\ Sound(s, registry, overlap[o]) /\ s.next \in 1 .. Len(s.payload) + 1
  BY DEF TargetsInv, Typed
<1>1. /\ s \in Session /\ s.payload \in Payloads /\ s.pending = "none"
      /\ Latest(s) /\ Written(s) /\ Fresh(s, registry, overlap[o])
      /\ s.next \in 1 .. Len(s.payload) + 1 /\ s.next > Len(s.payload)
  BY <1>a, <1>b, SessionFields DEF Sound
<1>2. DOMAIN s.payload = 1 .. s.next - 1 /\ \A j \in DOMAIN s.payload : s.payload[j].key \in Keys
  BY <1>1, PayloadIsSeq
<1>3. ASSUME NEW j \in Effective(s.payload)
      PROVE  \/ registry'[s.payload[j].key] = s.payload[j].enabled
             \/ registry'[s.payload[j].key] # NoRow /\ s.payload[j].key \in overlap[o]
  <2> DEFINE k == s.payload[j].key
  <2>1. j \in 1 .. s.next - 1 /\ k \in Keys BY <1>2 DEF Effective
  <2>2. s.object[k] # NoRow BY <1>1, <2>1 DEF Latest
  <2>3. PICK l \in Effective(s.payload) : s.payload[l].key = k /\ s.payload[l].enabled = s.object[k]
    BY <2>1, <2>2, WrittenWasAsked
  <2>4. l = j
    <3>1. l \in 1 .. s.next - 1 BY <1>2 DEF Effective
    <3>2. ~ l > j /\ ~ j > l BY <1>2, <2>1, <2>3, <3>1 DEF Effective
    <3> QED BY <1>1, <2>1, <3>1, <3>2, SessionFields
  <2>5. CASE registry'[k] = s.object[k] BY <2>3, <2>4, <2>5
  <2>6. CASE registry'[k] = registry[k] /\ s.out[k] = NoRow
    <3>1. s.loaded[k] = s.object[k] BY <1>1, <2>1, <2>2, <2>6 DEF Written, Settled
    <3>2. registry[k] # NoRow /\ (registry[k] = s.loaded[k] \/ k \in overlap[o])
      BY <1>1, <2>1, <2>2, <3>1 DEF Fresh
    <3> QED BY <2>3, <2>4, <2>6, <3>1, <3>2
  <2> QED BY <2>1, <2>5, <2>6, CommitWrites
<1>4. ASSUME NEW k \in Keys \ KeysOf(s.payload)
      PROVE  registry'[k] = registry[k]
  <2>1. ASSUME s.object[k] # NoRow PROVE FALSE
    <3>1. PICK j \in 1 .. s.next - 1 : s.payload[j].key = k BY <1>1, <2>1 DEF Latest
    <3>2. j \in DOMAIN s.payload BY <1>1, <1>2
    <3> QED BY <1>4, <3>1, <3>2 DEF KeysOf
  <2> QED BY <2>1, CommitWrites
<1> QED BY <1>3, <1>4


\* What the two action properties say of a step.
AllSaved ==
  \A o \in Operators :
    /\ session[o].open /\ answer'[o] = "ok" =>
         /\ \A j \in Effective(session[o].payload) :
              LET item == session[o].payload[j] IN
              \/ registry'[item.key] = item.enabled
              \/ registry'[item.key] # NoRow /\ item.key \in overlap[o]
         /\ \A k \in Keys \ KeysOf(session[o].payload) : registry'[k] = registry[k]
    /\ registry' # registry => \E p \in Operators : session[p].open /\ answer'[p] = "ok"

Excused(o) ==
  \/ KeysOf(session[o].payload) \cap overlap[o] # {}
  \/ \E p \in Operators \ {o} : KeysOf(session[o].payload) \cap session[p].mine # {}

FailuresExcused ==
  \A o \in Operators : session[o].open /\ answer'[o] = "error" => Excused(o)

LEMMA StepSaves == TargetsInv /\ [Next]_vars => AllSaved
<1> SUFFICES ASSUME TargetsInv, [Next]_vars PROVE AllSaved OBVIOUS
<1>1. \A o \in Operators : session[o].open /\ answer'[o] = "ok" => Commit(o) BY WhoAnswers
<1>2. ASSUME registry' # registry
      PROVE  \E p \in Operators : session[p].open /\ answer'[p] = "ok"
  <2>1. PICK p \in Operators : Put(p) \/ Step(p) \/ CutOff(p) BY <1>2 DEF Next, vars
  <2>2. Commit(p)
    BY <1>2, <2>1 DEF Put, Step, Lookup, Flush, InsertFails, DeadlockVictim, CutOff
  <2>3. session[p].open /\ answer'[p] = "ok"
    BY <2>2 DEF Commit, Close, TargetsInv, Typed
  <2> QED BY <2>3
<1> QED BY <1>1, <1>2, SavedByCommit DEF AllSaved

LEMMA StepExcuses == TargetsInv /\ [Next]_vars => FailuresExcused
<1> SUFFICES ASSUME TargetsInv, [Next]_vars, NEW o \in Operators,
                    session[o].open, answer'[o] = "error"
             PROVE  Excused(o)
  BY DEF FailuresExcused
<1>1. InsertFails(o) \/ DeadlockVictim(o) BY WhoAnswers
<1>2. session[o].pending # "none" => KeyNow(session[o]) \in KeysOf(session[o].payload)
  BY KeyOfPending DEF TargetsInv, Typed
<1>3. CASE InsertFails(o)
  <2>1. KeyNow(session[o]) \in overlap[o]
    BY <1>3 DEF InsertFails, UniqueViolation, TargetsInv, Sound, Fresh
  <2> QED BY <1>2, <1>3, <2>1 DEF InsertFails, Excused
<1>4. CASE DeadlockVictim(o)
  <2>1. PICK p \in Operators \ {o} : WaitsFor(o, p)
    BY <1>4 DEF DeadlockVictim, Stuck
  <2> QED BY <1>2, <2>1 DEF WaitsFor, Excused
<1> QED BY <1>1, <1>3, <1>4

\* A request that is told its targets are saved finds each of them in the registry as it
\* asked, or as a request that overlapped it did, and no other target has changed.
THEOREM SavedAsAnswered == Spec => AnswerMeansSaved
<1>1. TargetsInv /\ [Next]_vars => [AllSaved]_vars BY StepSaves
<1>2. Spec => [][AllSaved]_vars BY TargetsInvariant, <1>1, PTL DEF Spec
<1>3. Spec => AnswerMeansSaved BY <1>2 DEF AllSaved, AnswerMeansSaved
<1> QED BY <1>3

\* A list of targets is refused only if another request wrote one of its keys meanwhile
\* or holds its row: neither what is stored nor its own duplicates make it fail.
THEOREM FailureHasOverlap == Spec => FailsOnlyByOverlap
<1>1. TargetsInv /\ [Next]_vars => [FailuresExcused]_vars BY StepExcuses
<1>2. Spec => [][FailuresExcused]_vars BY TargetsInvariant, <1>1, PTL DEF Spec
<1>3. Spec => FailsOnlyByOverlap BY <1>2 DEF FailuresExcused, Excused, FailsOnlyByOverlap
<1> QED BY <1>3
=============================================================================
