------------------------------ MODULE Targets ------------------------------
(***************************************************************************)
(* The target registry behind PUT /api/v1/targets (targets.py).  A PUT is  *)
(* one transaction: for each entry of its payload a SELECT by key, then an *)
(* object added to the session or the columns of the one found assigned.   *)
(* The session flushes before every SELECT and at the commit, keeps one    *)
(* object per row, and writes only the columns that differ from what it    *)
(* loaded; updated_at always differs, so every entry takes the row lock.   *)
(* Several operators save at once.                                         *)
(***************************************************************************)
EXTENDS Naturals, Sequences, FiniteSets

CONSTANTS
  Keys,       \* (environment, target_type, target_key)
  Operators,  \* callers of the endpoint
  NoRow,      \* no row, no object, or a column that is not written
  MaxItems,   \* bound: entries of a payload
  MaxPuts,    \* bound: requests sent
  MaxCuts     \* bound: requests cut off by the death of an API process

ASSUME TargetsAssumption ==
  /\ NoRow \notin BOOLEAN
  /\ MaxItems \in Nat /\ MaxPuts \in Nat /\ MaxCuts \in Nat

VARIABLES
  registry,  \* the committed enabled column of each key
  session,   \* per operator, the transaction of its request
  answer,    \* per operator, the outcome of its last request
  overlap,   \* history: keys others committed while the request was open
  asked,     \* history: what the committed requests asked for
  puts, cuts \* requests sent and cut off (bounded)

vars == <<registry, session, answer, overlap, asked, puts, cuts>>
-----------------------------------------------------------------------------
Column == BOOLEAN \cup {NoRow}

Item == [key : Keys, enabled : BOOLEAN]
Payloads == UNION {[1 .. n -> Item] : n \in 0 .. MaxItems}

\* next: first entry not looked up; pending: statement the entry before it needs;
\* loaded, object: per key, the value read and the value assigned;
\* mine: rows written and not committed; out: the values written to them.
Session == [open : BOOLEAN, payload : Payloads, next : Nat,
            pending : {"none", "insert", "update"},
            loaded : [Keys -> Column], object : [Keys -> Column],
            mine : SUBSET Keys, out : [Keys -> Column]]

NoSession == [open |-> FALSE, payload |-> <<>>, next |-> 1, pending |-> "none",
              loaded |-> [k \in Keys |-> NoRow], object |-> [k \in Keys |-> NoRow],
              mine |-> {}, out |-> [k \in Keys |-> NoRow]]

Init ==
  /\ registry = [k \in Keys |-> NoRow]
  /\ session = [o \in Operators |-> NoSession]
  /\ answer = [o \in Operators |-> "none"]
  /\ overlap = [o \in Operators |-> {}]
  /\ asked = {}
  /\ puts = 0
  /\ cuts = 0

KeysOf(payload) == {payload[j].key : j \in DOMAIN payload}

\* The entries no later entry of the payload overrides.
Effective(payload) ==
  {j \in DOMAIN payload : \A l \in DOMAIN payload : l > j => payload[l].key # payload[j].key}

\* The key of the entry that was looked up last.
KeyNow(s) == s.payload[s.next - 1].key
-----------------------------------------------------------------------------
(* The database.                                                           *)

\* A statement on key k waits for another open transaction that wrote it.
Blocked(o, k) == \E p \in Operators \ {o} : k \in session[p].mine

WaitsFor(o, p) == session[o].pending # "none" /\ KeyNow(session[o]) \in session[p].mine

\* Everybody in S waits for somebody in S.
Stuck(S) == S # {} /\ \A o \in S : \E p \in S \ {o} : WaitsFor(o, p)

\* An INSERT of a key that has a row.
UniqueViolation(o, k) ==
  session[o].pending = "insert" /\ (registry[k] # NoRow \/ k \in session[o].mine)

\* What o writes is news to the requests still open.
Overlapping(o, status) ==
  [p \in Operators |->
     CASE p = o -> {}
       [] p # o /\ session[p].open /\ status = "ok" -> overlap[p] \cup session[o].mine
       [] OTHER -> overlap[p]]

\* Variant: a request that fails is not rolled back.
CloseKeepsLocks(o, status) ==
  /\ session' = IF status = "ok" THEN [session EXCEPT ![o] = NoSession] ELSE session
  /\ answer' = [answer EXCEPT ![o] = status]
  /\ overlap' = Overlapping(o, status)

\* The transaction ends and its locks are released.
Close(o, status) ==
  /\ session' = [session EXCEPT ![o] = NoSession]
  /\ answer' = [answer EXCEPT ![o] = status]
  /\ overlap' = Overlapping(o, status)
-----------------------------------------------------------------------------
(* A request: PUT /api/v1/targets.                                         *)

Put(o) ==
  /\ ~ session[o].open
  /\ puts < MaxPuts
  /\ \E payload \in Payloads :
       session' = [session EXCEPT ![o] = [NoSession EXCEPT !.open = TRUE, !.payload = payload]]
  /\ answer' = [answer EXCEPT ![o] = "none"]
  /\ puts' = puts + 1
  /\ UNCHANGED <<registry, overlap, asked, cuts>>

\* Variant: the session does not flush before a SELECT.
ExistingCommitted(s, k) == registry[k]

\* What the SELECT returns: the object the session already has for the row, which is
\* not refreshed, or one loaded from the committed row.
Existing(s, k) ==
  IF k \in s.mine \/ registry[k] # NoRow
  THEN IF s.object[k] # NoRow THEN s.object[k] ELSE registry[k]
  ELSE NoRow

\* Variant: an existing row keeps the enabled flag it has.
AssignedOnce(found, item) == IF found = NoRow THEN item.enabled ELSE found

\* The enabled flag of the object: of a new one and of an existing one alike.
Assigned(found, item) == item.enabled

Lookup(o) ==
  LET s == session[o]
      item == s.payload[s.next]
      found == Existing(s, item.key) IN
  /\ s.open /\ s.pending = "none" /\ s.next \in DOMAIN s.payload
  /\ session' = [session EXCEPT ![o] =
       [s EXCEPT !.next = @ + 1,
                 !.pending = IF found = NoRow THEN "insert" ELSE "update",
                 !.loaded[item.key] = IF s.object[item.key] = NoRow THEN found ELSE @,
                 !.object[item.key] = Assigned(found, item)]]
  /\ UNCHANGED <<registry, answer, overlap, asked, puts, cuts>>

\* Variant: what the request wrote itself is forgotten.
BaseLoaded(s, k) == s.loaded[k]

\* The value the row has for the session: what it wrote to it, or what it loaded.
Base(s, k) == IF s.out[k] # NoRow THEN s.out[k] ELSE s.loaded[k]

\* The INSERT or UPDATE of the last entry.
Flush(o) ==
  LET s == session[o]  k == KeyNow(s) IN
  /\ s.pending # "none"
  /\ ~ Blocked(o, k) /\ ~ UniqueViolation(o, k)
  /\ session' = [session EXCEPT ![o] =
       [s EXCEPT !.pending = "none",
                 !.mine = @ \cup {k},
                 !.out[k] = IF s.object[k] # Base(s, k) THEN s.object[k] ELSE @]]
  /\ UNCHANGED <<registry, answer, overlap, asked, puts, cuts>>

\* The commit of get_db_session, before the answer is sent.
Commit(o) ==
  LET s == session[o] IN
  /\ s.open /\ s.pending = "none" /\ s.next > Len(s.payload)
  /\ registry' = [k \in Keys |-> IF s.out[k] # NoRow THEN s.out[k] ELSE registry[k]]
  /\ Close(o, "ok")
  /\ asked' = asked \cup {<<s.payload[j].key, s.payload[j].enabled>> : j \in Effective(s.payload)}
  /\ UNCHANGED <<puts, cuts>>

\* The unique index refuses the row: the whole request is rolled back.
InsertFails(o) ==
  /\ session[o].pending = "insert"
  /\ ~ Blocked(o, KeyNow(session[o])) /\ UniqueViolation(o, KeyNow(session[o]))
  /\ Close(o, "error")
  /\ UNCHANGED <<registry, asked, puts, cuts>>

\* PostgreSQL aborts one transaction of a smallest set that waits for itself.
DeadlockVictim(o) ==
  /\ \E S \in SUBSET Operators :
       /\ o \in S /\ Stuck(S)
       /\ \A T \in SUBSET S : Stuck(T) => T = S
  /\ Close(o, "error")
  /\ UNCHANGED <<registry, asked, puts, cuts>>

CutOff(o) ==
  /\ session[o].open
  /\ cuts < MaxCuts
  /\ cuts' = cuts + 1
  /\ Close(o, "lost")
  /\ UNCHANGED <<registry, asked, puts>>

Step(o) == Lookup(o) \/ Flush(o) \/ Commit(o) \/ InsertFails(o) \/ DeadlockVictim(o)

Next == \E o \in Operators : Put(o) \/ Step(o) \/ CutOff(o)

\* An open request is never left alone by the event loop or by PostgreSQL.
Fairness == \A o \in Operators : WF_vars(Step(o))

Spec == Init /\ [][Next]_vars /\ Fairness
-----------------------------------------------------------------------------
\* Besides the types: a session that ended holds nothing, a row written by a request has
\* its one object there, and the request does not insert that row again.
TypeOK ==
  /\ registry \in [Keys -> Column]
  /\ session \in [Operators -> Session]
  /\ \A o \in Operators : LET s == session[o] IN
       /\ s.open \/ s = NoSession
       /\ s.next \in 1 .. Len(s.payload) + 1
       /\ s.pending # "none" => s.next > 1
       /\ s.pending = "insert" => KeyNow(s) \notin s.mine
       /\ \A k \in Keys : s.out[k] # NoRow => k \in s.mine
       /\ \A k \in s.mine : s.object[k] # NoRow
  /\ answer \in [Operators -> {"none", "ok", "error", "lost"}]
  /\ overlap \in [Operators -> SUBSET Keys]
  /\ asked \subseteq Keys \X BOOLEAN
  /\ puts \in 0 .. MaxPuts /\ cuts \in 0 .. MaxCuts

\* Collection is opt-in: a row says only what the last entry for its key in some
\* committed request asked for, never what an overridden entry, an unfinished or a
\* failed request asked for, whichever columns the requests wrote.
ValueWasAsked == \A k \in Keys : registry[k] # NoRow => <<k, registry[k]>> \in asked

\* A positive answer means that each key of the request has a row, with the value its
\* last entry asked for unless another request that committed meanwhile wrote that key too,
\* and that no other row changed; without a positive answer none did.
AnswerMeansSaved ==
  [][\A o \in Operators :
       /\ session[o].open /\ answer'[o] = "ok" =>
            /\ \A j \in Effective(session[o].payload) :
                 LET item == session[o].payload[j] IN
                 \/ registry'[item.key] = item.enabled
                 \/ registry'[item.key] # NoRow /\ item.key \in overlap[o]
            /\ \A k \in Keys \ KeysOf(session[o].payload) : registry'[k] = registry[k]
       /\ registry' # registry => \E p \in Operators : session[p].open /\ answer'[p] = "ok"]_vars

\* The upsert is idempotent: a request fails only because another one wrote one of its
\* keys meanwhile or still does, never by what is stored or by its own duplicates.
FailsOnlyByOverlap ==
  [][\A o \in Operators : session[o].open /\ answer'[o] = "error" =>
       \/ KeysOf(session[o].payload) \cap overlap[o] # {}
       \/ \E p \in Operators \ {o} : KeysOf(session[o].payload) \cap session[p].mine # {}]_vars

\* Every request is answered, whatever the order of the keys in the payloads of those
\* that overlap it.
EveryPutEnds == \A o \in Operators : session[o].open ~> ~ session[o].open
=============================================================================
