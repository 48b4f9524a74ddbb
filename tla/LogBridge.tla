----------------------------- MODULE LogBridge -----------------------------
(***************************************************************************)
(* The local log bridge (apps/log_bridge): one tailer thread per watched   *)
(* container feeds the lines of a log to the parser of that container; a   *)
(* detected exception is posted to the API if the container is in the      *)
(* allowlist, and every line is pushed onto a capped Redis list.           *)
(*                                                                         *)
(* The threads share the allowlist, the clock of its refresh and the list, *)
(* without a lock.  A line is the kinds of what the regular expressions    *)
(* see in it; a JSON line is unwrapped into several.                       *)
(***************************************************************************)
EXTENDS Naturals, Sequences, FiniteSets, SequencesExt

CONSTANTS
  Services,         \* the watched containers
  Lines,            \* log lines that occur
  TracebackCap,     \* _MAX_TRACEBACK_LINES
  MaxStored,        \* _REDIS_MAX_LINES
  MaxRedisFailures  \* bound: Redis calls that fail

\* start: a Traceback header;  error: "ValueError: ..." at the start of a line;
\* neterror: the same with a System. or Microsoft. name;  netinner: such a name
\* later in the line;  frame: "at ..." or "---";  http: an access line with 5xx.
Kinds == {"start", "error", "neterror", "netinner", "frame", "http", "plain"}
Line == [json : BOOLEAN, body : Seq(Kinds)]

ASSUME LogBridgeAssumption ==
  /\ \A ln \in Lines :
       ln \in Line /\ ln.body # <<>> /\ (ln.json \/ Len(ln.body) = 1)
  /\ TracebackCap \in Nat \ {0} /\ MaxStored \in Nat /\ MaxRedisFailures \in Nat

VARIABLES
  pc,            \* per service, what its tailer thread does next
  parser,        \* per service, the ExceptionParser
  answer,        \* per service, the targets a refresh has fetched, until it stores them
  allow,         \* TargetFilter._enabled_containers
  due,           \* _TARGET_REFRESH_SECONDS have passed since the last refresh
  stored,        \* length of the Redis list
  stopping,      \* a signal has arrived
  enabled,       \* the enabled local containers of monitor_targets
  ever,          \* containers that were enabled at some time (history)
  redisFailures  \* Redis calls that failed (bounded)

vars == <<pc, parser, answer, allow, due, stored, stopping, enabled, ever, redisFailures>>
-----------------------------------------------------------------------------
(* The parser.  done lists the exceptions that are complete after a line,  *)
(* out the one that feed() returns, if any.                                *)

Parser == [mode : {"none", "python", "net"}, lines : UNION {[1 .. n -> Kinds] : n \in 0 .. TracebackCap}]
Fresh == [mode |-> "none", lines |-> <<>>]

Quiet(p) == [parser |-> p, done |-> <<>>]
Found(kind, trace) == [parser |-> Fresh, done |-> <<[kind |-> kind, trace |-> trace]>>]

\* Variants: the cap is forgotten; it empties the lines and not the mode.
LongerForever(p, k) == [p EXCEPT !.lines = Append(@, k)]
LongerKeepsMode(p, k) ==
  IF Len(p.lines) + 1 > TracebackCap THEN [p EXCEPT !.lines = <<>>]
                                     ELSE [p EXCEPT !.lines = Append(@, k)]

\* A runaway traceback is given up.
Longer(p, k) ==
  IF Len(p.lines) + 1 > TracebackCap THEN Fresh ELSE [p EXCEPT !.lines = Append(@, k)]

ReadOutside(k) ==
  CASE k = "start" -> Quiet([mode |-> "python", lines |-> <<k>>])
    [] k = "error" -> Found("single", <<>>)
    [] k \in {"neterror", "netinner"} -> Quiet([mode |-> "net", lines |-> <<k>>])
    [] k = "http" -> Found("http", <<>>)
    [] OTHER -> Quiet(Fresh)

ReadInPython(p, k) ==
  IF k \in {"error", "neterror"} THEN Found("python", Append(p.lines, k))
                                 ELSE Quiet(Longer(p, k))

\* A line that is not a frame ends a .NET trace and is then read afresh.
ReadInNet(p, k) ==
  IF k = "frame" THEN Quiet(Longer(p, k))
  ELSE LET next == ReadOutside(k)
       IN [next EXCEPT !.done = <<[kind |-> "net", trace |-> p.lines]>> \o @]

ProcessLine(so, k) ==
  LET r == CASE so.parser.mode = "net" -> ReadInNet(so.parser, k)
             [] so.parser.mode = "python" -> ReadInPython(so.parser, k)
             [] OTHER -> ReadOutside(k)
  IN [parser |-> r.parser, done |-> so.done \o r.done,
      out |-> IF r.done = <<>> THEN so.out ELSE <<r.done[1]>>]

FlushNet(so) ==
  IF so.parser.mode # "net" THEN so
  ELSE LET exc == [kind |-> "net", trace |-> so.parser.lines]
       IN [parser |-> Fresh, done |-> Append(so.done, exc),
           out |-> IF so.out = <<>> THEN <<exc>> ELSE so.out]

Feed(p, ln) ==
  LET read == FoldLeft(ProcessLine, [parser |-> p, done |-> <<>>, out |-> <<>>], ln.body)
  IN IF ln.json /\ (Len(ln.body) > 1 \/ read.out = <<>>) THEN FlushNet(read) ELSE read
-----------------------------------------------------------------------------
Init ==
  /\ pc = [s \in Services |-> "connect"]
  /\ parser = [s \in Services |-> Fresh]
  /\ answer = [s \in Services |-> {}]
  /\ allow = {}
  /\ due \in BOOLEAN     \* the monotonic clock may be younger than the interval
  /\ stored = 0
  /\ stopping = FALSE
  /\ enabled \in SUBSET Services
  /\ ever = enabled
  /\ redisFailures = 0

Goto(s, label) == pc' = [pc EXCEPT ![s] = label]
At(s, label) == pc[s] = label
-----------------------------------------------------------------------------
(* A tailer thread.                                                        *)

\* The container is found and its log is followed, from some earlier line on;
\* the parser keeps what it had read.
Connect(s) ==
  /\ At(s, "connect") /\ ~ stopping
  /\ Goto(s, "read")
  /\ UNCHANGED <<parser, answer, allow, due, stored, stopping, enabled, ever, redisFailures>>

StreamEnds(s) ==
  /\ At(s, "read")
  /\ Goto(s, "connect")
  /\ UNCHANGED <<parser, answer, allow, due, stored, stopping, enabled, ever, redisFailures>>

\* The stop flag is seen when the next chunk arrives, or between two streams.
Leave(s) ==
  /\ pc[s] \in {"connect", "read"} /\ stopping
  /\ Goto(s, "ended")
  /\ UNCHANGED <<parser, answer, allow, due, stored, stopping, enabled, ever, redisFailures>>

HandleLine(s, ln) ==
  /\ At(s, "read") /\ ~ stopping
  /\ LET fed == Feed(parser[s], ln)
     IN /\ parser' = [parser EXCEPT ![s] = fed.parser]
        /\ Goto(s, IF fed.out = <<>> THEN "push" ELSE "refresh")
  /\ UNCHANGED <<answer, allow, due, stored, stopping, enabled, ever, redisFailures>>

SkipRefresh(s) ==
  /\ At(s, "refresh") /\ ~ due
  /\ Goto(s, "check")
  /\ UNCHANGED <<parser, answer, allow, due, stored, stopping, enabled, ever, redisFailures>>

FetchTargets(s) ==
  /\ At(s, "refresh") /\ due
  /\ answer' = [answer EXCEPT ![s] = enabled]
  /\ Goto(s, "store")
  /\ UNCHANGED <<parser, allow, due, stored, stopping, enabled, ever, redisFailures>>

\* A failed refresh keeps the allowlist, and counts as a refresh for the clock.
FetchFails(s) ==
  /\ At(s, "refresh") /\ due
  /\ due' = FALSE
  /\ Goto(s, "check")
  /\ UNCHANGED <<parser, answer, allow, stored, stopping, enabled, ever, redisFailures>>

StoreTargets(s) ==
  /\ At(s, "store")
  /\ allow' = answer[s]
  /\ answer' = [answer EXCEPT ![s] = {}]
  /\ due' = FALSE
  /\ Goto(s, "check")
  /\ UNCHANGED <<parser, stored, stopping, enabled, ever, redisFailures>>

\* Variant: no known target means no restriction.
IsEnabledByDefault(s) == s \in allow \/ allow = {}

IsEnabled(s) == s \in allow

CheckTarget(s) ==
  /\ At(s, "check")
  /\ Goto(s, IF IsEnabled(s) THEN "post" ELSE "push")
  /\ UNCHANGED <<parser, answer, allow, due, stored, stopping, enabled, ever, redisFailures>>

\* The bridge goes on alike whether the call succeeds or fails (see Intake).
IngestException(s) ==
  /\ At(s, "post")
  /\ Goto(s, "push")
  /\ UNCHANGED <<parser, answer, allow, due, stored, stopping, enabled, ever, redisFailures>>

Push(s) ==
  /\ At(s, "push")
  /\ stored' = stored + 1
  /\ Goto(s, "trim")
  /\ UNCHANGED <<parser, answer, allow, due, stopping, enabled, ever, redisFailures>>

\* Variant: LTRIM's inclusive end is taken for an exclusive one.
TrimmedOffByOne(n) == IF n > MaxStored + 1 THEN MaxStored + 1 ELSE n

Trimmed(n) == IF n > MaxStored THEN MaxStored ELSE n

Trim(s) ==
  /\ At(s, "trim")
  /\ stored' = Trimmed(stored)
  /\ Goto(s, "read")
  /\ UNCHANGED <<parser, answer, allow, due, stopping, enabled, ever, redisFailures>>

\* The exception ends the stream; the tailer connects again.
RedisFails(s) ==
  /\ pc[s] \in {"push", "trim"} /\ redisFailures < MaxRedisFailures
  /\ redisFailures' = redisFailures + 1
  /\ Goto(s, "connect")
  /\ UNCHANGED <<parser, answer, allow, due, stored, stopping, enabled, ever>>
-----------------------------------------------------------------------------
(* Around the threads.                                                     *)

UpsertTargets(selection) ==
  /\ selection # enabled
  /\ enabled' = selection
  /\ ever' = ever \cup selection
  /\ UNCHANGED <<pc, parser, answer, allow, due, stored, stopping, redisFailures>>

RefreshDue ==
  /\ ~ due
  /\ due' = TRUE
  /\ UNCHANGED <<pc, parser, answer, allow, stored, stopping, enabled, ever, redisFailures>>

Shutdown ==
  /\ ~ stopping
  /\ stopping' = TRUE
  /\ UNCHANGED <<pc, parser, answer, allow, due, stored, enabled, ever, redisFailures>>

Next ==
  \/ \E s \in Services :
       \/ Connect(s) \/ StreamEnds(s) \/ Leave(s)
       \/ \E ln \in Lines : HandleLine(s, ln)
       \/ SkipRefresh(s) \/ FetchTargets(s) \/ FetchFails(s) \/ StoreTargets(s)
       \/ CheckTarget(s) \/ IngestException(s)
       \/ Push(s) \/ Trim(s) \/ RedisFails(s)
  \/ \E selection \in SUBSET Services : UpsertTargets(selection)
  \/ RefreshDue
  \/ Shutdown

Spec == Init /\ [][Next]_vars
-----------------------------------------------------------------------------
(* Properties.                                                             *)

\* The variables stay in their ranges; a traceback that never ends is given up
\* before the parser holds more than TracebackCap lines of it.
TypeOK ==
  /\ pc \in [Services -> {"connect", "read", "refresh", "store", "check", "post",
                          "push", "trim", "ended"}]
  /\ parser \in [Services -> Parser]
  /\ answer \in [Services -> SUBSET Services]
  /\ allow \in SUBSET Services /\ enabled \in SUBSET Services /\ ever \in SUBSET Services
  /\ due \in BOOLEAN /\ stopping \in BOOLEAN
  /\ stored \in Nat
  /\ redisFailures \in 0 .. MaxRedisFailures

Whole(exc) ==
  LET n == Len(exc.trace)
  IN CASE exc.kind = "python" ->
            /\ n \in 2 .. TracebackCap + 1
            /\ exc.trace[1] = "start" /\ exc.trace[n] \in {"error", "neterror"}
            /\ \A k \in 2 .. n - 1 : exc.trace[k] \notin {"error", "neterror"}
       [] exc.kind = "net" ->
            /\ n \in 1 .. TracebackCap
            /\ exc.trace[1] \in {"neterror", "netinner"}
            /\ \A k \in 2 .. n : exc.trace[k] = "frame"
       [] OTHER -> n = 0

\* Whatever came before (given-up tracebacks, one format interrupted by another,
\* a JSON line in the middle), the next line completes only exceptions whose
\* trace begins with a header, ends where it should and holds nothing else.
DetectionsAreWhole ==
  \A s \in Services, ln \in Lines :
    LET done == Feed(parser[s], ln).done
    IN \A k \in DOMAIN done : Whole(done[k])

\* An exception is posted only for a container that somebody enabled: neither an
\* empty allowlist, nor a failed refresh, nor another thread's lets one through.
OnlyEverEnabled == \A s \in Services : At(s, "post") => s \in ever

\* The threads push and trim without a transaction: the list exceeds its size by
\* no more than the pushes whose trim is still to come, or was lost.
StoreIsBounded ==
  stored <= MaxStored + Cardinality({s \in Services : At(s, "trim")}) + redisFailures
=============================================================================
