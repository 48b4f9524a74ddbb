------------------------------- MODULE Intake -------------------------------
(***************************************************************************)
(* Exceptions becoming incident rows: the ingestion cycles of the worker   *)
(* (scheduler.py, connector.py) and the intake endpoints of the API        *)
(* (exceptions.py, local_logs.py), racing for the unique index on          *)
(* incidents.fingerprint.  Everybody looks the fingerprint up first and    *)
(* inserts later.                                                          *)
(*                                                                         *)
(* A cycle is one transaction.  Its session flushes before every SELECT,   *)
(* so the rows it adds are inserted one by one as it scans the batch, each *)
(* visible to its own later lookups and to nobody else until the commit.   *)
(* An INSERT waits for another open transaction that inserted the same     *)
(* fingerprint, then fails if that one committed.                          *)
(***************************************************************************)
EXTENDS Naturals, Sequences, FiniteSets

CONSTANTS
  Fingerprints,  \* fingerprints of the exceptions that occur
  Refused,       \* those whose row PostgreSQL refuses (a value too long for its column)
  Schedulers,    \* worker replicas running IngestionScheduler
  Clients,       \* callers of the intake endpoints
  MaxRows,       \* bound: rows a query of the monitor returns
  MaxCrashes     \* bound: worker processes killed, and requests cut off

ASSUME IntakeAssumption ==
  /\ Refused \subseteq Fingerprints
  /\ MaxRows \in Nat /\ MaxCrashes \in Nat

VARIABLES
  window,   \* fingerprints of the exceptions inside the lookback window
  rows,     \* committed rows of each fingerprint
  cycle,    \* per scheduler, the ingestion cycle it runs
  request,  \* per client, the request it sends
  answer,   \* per client, the last answer it got
  crashes   \* transactions cut off so far (bounded)

vars == <<window, rows, cycle, request, answer, crashes>>
-----------------------------------------------------------------------------
NoFp == "none"

ASSUME NoFpAssumption == NoFp \notin Fingerprints /\ NoFp \notin Schedulers

\* todo: rows not scanned; adding: added to the session, not flushed;
\* mine: inserted and not committed; fetched: all the batch (history).
Cycle == [running : BOOLEAN, todo : Seq(Fingerprints), adding : Fingerprints \cup {NoFp},
          mine : SUBSET Fingerprints, fetched : SUBSET Fingerprints]
NoCycle == [running |-> FALSE, todo |-> <<>>, adding |-> NoFp, mine |-> {}, fetched |-> {}]

Request == [pc : {"idle", "lookup", "insert"}, fp : Fingerprints \cup {NoFp}]
NoRequest == [pc |-> "idle", fp |-> NoFp]

Answer == [fp : Fingerprints \cup {NoFp}, status : {"none", "created", "duplicate", "error"}]

Init ==
  /\ window = {}
  /\ rows = [f \in Fingerprints |-> 0]
  /\ cycle = [s \in Schedulers |-> NoCycle]
  /\ request = [c \in Clients |-> NoRequest]
  /\ answer = [c \in Clients |-> [fp |-> NoFp, status |-> "none"]]
  /\ crashes = 0

Stored(f) == rows[f] > 0
-----------------------------------------------------------------------------
(* Application Insights.                                                   *)

Occur(f) ==
  /\ f \notin window
  /\ window' = window \cup {f}
  /\ UNCHANGED <<rows, cycle, request, answer, crashes>>

Expire(f) ==
  /\ f \in window
  /\ window' = window \ {f}
  /\ UNCHANGED <<rows, cycle, request, answer, crashes>>
-----------------------------------------------------------------------------
(* The unique index on fingerprint.                                        *)

\* Another open transaction has inserted the fingerprint.
Blocks(s, f) == \E t \in Schedulers \ {s} : f \in cycle[t].mine

\* Variant: there is no unique index.
RefusesNoIndex(f) == f \in Refused

\* The INSERT raises: a unique violation, or a value the column cannot hold.
Refuses(f) == Stored(f) \/ f \in Refused
-----------------------------------------------------------------------------
(* A cycle of IngestionScheduler.run_once.                                 *)

Batches == UNION {[1 .. n -> window] : n \in 0 .. MaxRows}
RowsOf(b) == {b[k] : k \in DOMAIN b}

\* Rows of the window, in any order, an exception that occurred twice being there
\* twice.  Any may be missing: beyond the query's limit, or from a partial result, or
\* all of them, when the result has no table or is of no known type; each counts as a
\* success.  A query that raises ends the cycle with nothing done.
Fetch(s) ==
  /\ ~ cycle[s].running
  /\ \E b \in Batches :
       cycle' = [cycle EXCEPT ![s] = [NoCycle EXCEPT !.running = TRUE, !.todo = b,
                                                     !.fetched = RowsOf(b)]]
  /\ UNCHANGED <<window, rows, request, answer, crashes>>

\* Variant: the lookup also counts rows other transactions have not committed.
SeesUncommitted(s, f) == Stored(f) \/ \E t \in Schedulers : f \in cycle[t].mine

\* What the SELECT by fingerprint finds: committed rows and the session's own.
Sees(s, f) == Stored(f) \/ f \in cycle[s].mine

Lookup(s) ==
  LET c == cycle[s] IN
  /\ c.running /\ c.adding = NoFp /\ c.todo # <<>>
  /\ cycle' = [cycle EXCEPT ![s] =
                 [c EXCEPT !.todo = Tail(c.todo),
                           !.adding = IF Sees(s, Head(c.todo)) THEN NoFp ELSE Head(c.todo)]]
  /\ UNCHANGED <<window, rows, request, answer, crashes>>

\* The flush of the added row, before the next SELECT or at the end of the batch.
Insert(s) ==
  LET c == cycle[s] IN
  /\ c.running /\ c.adding # NoFp
  /\ ~ Blocks(s, c.adding) /\ ~ Refuses(c.adding)
  /\ cycle' = [cycle EXCEPT ![s] = [c EXCEPT !.mine = @ \cup {c.adding}, !.adding = NoFp]]
  /\ UNCHANGED <<window, rows, request, answer, crashes>>

\* Variant: the exception leaves run_forever.
InsertFailsForever(s) ==
  LET c == cycle[s] IN
  /\ c.running /\ c.adding # NoFp
  /\ ~ Blocks(s, c.adding) /\ Refuses(c.adding)
  /\ UNCHANGED vars

\* The flush raises: the whole cycle is rolled back, run_forever logs and goes on.
InsertFails(s) ==
  LET c == cycle[s] IN
  /\ c.running /\ c.adding # NoFp
  /\ ~ Blocks(s, c.adding) /\ Refuses(c.adding)
  /\ cycle' = [cycle EXCEPT ![s] = NoCycle]
  /\ UNCHANGED <<window, rows, request, answer, crashes>>

WaitsFor(s, t) == cycle[s].adding # NoFp /\ cycle[s].adding \in cycle[t].mine

\* Two cycles wait for each other: PostgreSQL aborts one of them.
DeadlockVictim(s) ==
  /\ \E t \in Schedulers \ {s} : WaitsFor(s, t) /\ WaitsFor(t, s)
  /\ cycle' = [cycle EXCEPT ![s] = NoCycle]
  /\ UNCHANGED <<window, rows, request, answer, crashes>>

Commit(s) ==
  LET c == cycle[s] IN
  /\ c.running /\ c.adding = NoFp /\ c.todo = <<>>
  /\ rows' = [f \in Fingerprints |-> IF f \in c.mine THEN rows[f] + 1 ELSE rows[f]]
  /\ cycle' = [cycle EXCEPT ![s] = NoCycle]
  /\ UNCHANGED <<window, request, answer, crashes>>

Killed(s) ==
  /\ cycle[s].running /\ crashes < MaxCrashes
  /\ crashes' = crashes + 1
  /\ cycle' = [cycle EXCEPT ![s] = NoCycle]
  /\ UNCHANGED <<window, rows, request, answer>>
-----------------------------------------------------------------------------
(* _create_incident and ingest_local_exception.                            *)

\* Variant: the fingerprint is left at its default.
PostNoFingerprint(c, f) ==
  /\ request[c].pc = "idle"
  /\ request' = [request EXCEPT ![c] = [pc |-> "lookup", fp |-> NoFp]]
  /\ UNCHANGED <<window, rows, cycle, answer, crashes>>

Post(c, f) ==
  /\ request[c].pc = "idle"
  /\ request' = [request EXCEPT ![c] = [pc |-> "lookup", fp |-> f]]
  /\ UNCHANGED <<window, rows, cycle, answer, crashes>>

Reply(c, status) ==
  /\ answer' = [answer EXCEPT ![c] = [fp |-> request[c].fp, status |-> status]]
  /\ request' = [request EXCEPT ![c] = NoRequest]

AlreadyThere(c) ==
  /\ request[c].pc = "lookup" /\ Stored(request[c].fp)
  /\ Reply(c, "duplicate")
  /\ UNCHANGED <<window, rows, cycle, crashes>>

NotThere(c) ==
  /\ request[c].pc = "lookup" /\ ~ Stored(request[c].fp)
  /\ request' = [request EXCEPT ![c].pc = "insert"]
  /\ UNCHANGED <<window, rows, cycle, answer, crashes>>

\* Variant: the reply does not wait for the commit.
CreateUncommitted(c) ==
  LET f == request[c].fp IN
  /\ request[c].pc = "insert" /\ ~ Refuses(f)
  /\ Reply(c, "created")
  /\ UNCHANGED <<window, rows, cycle, crashes>>

\* The INSERT and the COMMIT, in one call.
Create(c) ==
  LET f == request[c].fp IN
  /\ request[c].pc = "insert" /\ ~ Blocks(NoFp, f) /\ ~ Refuses(f)
  /\ rows' = [rows EXCEPT ![f] = @ + 1]
  /\ Reply(c, "created")
  /\ UNCHANGED <<window, cycle, crashes>>

\* The commit raises, nothing catches it, the caller gets a 500.
CreateFails(c) ==
  LET f == request[c].fp IN
  /\ request[c].pc = "insert" /\ ~ Blocks(NoFp, f) /\ Refuses(f)
  /\ Reply(c, "error")
  /\ UNCHANGED <<window, rows, cycle, crashes>>

CutOff(c) ==
  /\ request[c].pc # "idle" /\ crashes < MaxCrashes
  /\ crashes' = crashes + 1
  /\ request' = [request EXCEPT ![c] = NoRequest]
  /\ UNCHANGED <<window, rows, cycle, answer>>
-----------------------------------------------------------------------------
Ingest(s) ==
  Fetch(s) \/ Lookup(s) \/ Insert(s) \/ InsertFails(s) \/ DeadlockVictim(s) \/ Commit(s)

Serve(c) == AlreadyThere(c) \/ NotThere(c) \/ Create(c) \/ CreateFails(c)

Next ==
  \/ \E f \in Fingerprints : Occur(f) \/ Expire(f)
  \/ \E s \in Schedulers : Ingest(s) \/ Killed(s)
  \/ \E c \in Clients : Serve(c) \/ CutOff(c) \/ \E f \in Fingerprints : Post(c, f)

Spec == Init /\ [][Next]_vars

\* run_forever polls again after every cycle, failed or not; the queries and
\* transactions of a cycle and of a request end.
FairSpec ==
  /\ Spec
  /\ \A s \in Schedulers : WF_vars(Ingest(s))
  /\ \A c \in Clients : WF_vars(Serve(c))
-----------------------------------------------------------------------------
(* Correctness.                                                            *)

\* Every variable has the type its table, session or request gives it.
TypeOK ==
  /\ window \subseteq Fingerprints
  /\ rows \in [Fingerprints -> Nat]
  /\ cycle \in [Schedulers -> Cycle]
  /\ request \in [Clients -> Request]
  /\ \A c \in Clients : request[c].pc # "idle" => request[c].fp \in Fingerprints
  /\ answer \in [Clients -> Answer]
  /\ crashes \in 0 .. MaxCrashes

\* However cycles and requests race between lookup and insert, a fingerprint
\* has one row, and no two transactions are about to give it one.
OneRowPerFingerprint ==
  \A f \in Fingerprints :
    Cardinality({s \in Schedulers : f \in cycle[s].mine}) + rows[f] <= 1

\* What a caller was told stays true: "created" and "duplicate" mean the
\* incident is in the table, not in a transaction that may still roll back.
AnswerMeansStored ==
  \A c \in Clients : answer[c].status \in {"created", "duplicate"} => Stored(answer[c].fp)

\* A cycle that commits leaves an incident for every exception it fetched, even
\* those it skipped as already known; a cycle that ends otherwise leaves none.
CycleIsAtomic ==
  [][\A s \in Schedulers :
       cycle[s].running /\ ~ cycle'[s].running =>
         IF Commit(s) THEN \A f \in cycle[s].fetched : rows'[f] > 0
         ELSE rows' = rows]_vars

\* A cycle has the exception, and no row the database refuses: one takes the whole
\* batch down with it.
Scanned(f) ==
  \E s \in Schedulers : f \in cycle[s].fetched /\ cycle[s].fetched \cap Refused = {}

\* With one scheduler, an exception that queries keep returning becomes an incident,
\* whatever else they return or leave out and whatever the callers of the endpoints
\* store between a lookup and its insert, unless each time a refused row comes with it.
EventuallyStored ==
  \A f \in Fingerprints \ Refused : []<>Scanned(f) => <>Stored(f)
=============================================================================
