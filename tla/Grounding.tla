----------------------------- MODULE Grounding -----------------------------
(***************************************************************************)
(* From the stack trace of an incident to the source the later agents see: *)
(* language detection, the triage table it selects, the stack parser, the  *)
(* frame filter and the snippets of the code context agent.                *)
(*                                                                         *)
(* A line of a trace is what the regular expressions find in it: the       *)
(* runtime that wrote it, whose code it names (a framework is what the     *)
(* prefix registry recognises, a library any other foreign code), and the  *)
(* file and line number, if it has them.                                   *)
(***************************************************************************)
EXTENDS Naturals, Sequences, FiniteSets, FiniteSetsExt

CONSTANTS
  Files,          \* files of the repository, as a cleaned path names them
  Preferred,      \* those under ado_source_path_prefix
  Foreign,        \* a path of a library, which the repository does not have
  NoFile,         \* no path
  Length,         \* lines of each file at the head of the branch
  Numbers,        \* bound: line numbers a trace names
  MaxLines,       \* bound: lines of a trace
  MaxFrames,      \* max_frames, _MAX_APP_FRAMES and _MAX_SNIPPETS (5)
  FallbackFrames, \* _FALLBACK_FRAMES (3)
  ContextLines    \* _CONTEXT_LINES (20)

ASSUME GroundingAssumption ==
  /\ Preferred \subseteq Files /\ Foreign \notin Files
  /\ NoFile \notin Files \cup {Foreign}
  /\ Length \in [Files -> Nat] /\ Numbers \subseteq Nat \ {0}
  /\ MaxLines \in Nat /\ MaxFrames \in Nat \ {0}
  /\ FallbackFrames \in Nat /\ ContextLines \in Nat

VARIABLES
  trace,    \* the stack trace
  type,     \* what the patterns make of the exception type
  pc,       \* the agent that runs
  priority, \* set by triage
  todo,     \* frames whose file is not fetched yet
  snippets, \* code_snippets
  unread    \* history: files whose content could not be had

vars == <<trace, type, pc, priority, todo, snippets, unread>>
-----------------------------------------------------------------------------
Line(form, origin, files, numbers) ==
  [form : {form}, origin : {origin}, file : files, number : numbers]

\* The lines each runtime writes; a .NET line names no file without debug symbols.
Lines ==
  Line("dotnet", "app", Files, Numbers) \cup Line("python", "app", Files, Numbers)
    \cup Line("nodejs", "app", Preferred, {1}) \cup Line("java", "app", Preferred, {1})
    \cup (UNION {Line("dotnet", origin, {NoFile}, {1}) : origin \in {"library", "framework"}})
    \cup (UNION {Line("python", origin, {Foreign}, {1}) : origin \in {"library", "framework"}})
    \cup Line("text", "app", {NoFile}, {1})

Traces == UNION {[1 .. n -> Lines] : n \in 0 .. MaxLines}

\* The language a well-known or well-formed type name belongs to.
Types == {"java", "dotnet", "python", "unknown"}

Init ==
  /\ trace \in Traces
  /\ type \in Types
  /\ pc = "triage"
  /\ priority = "none"
  /\ todo = <<>>
  /\ snippets = <<>>
  /\ unread = {}

Take(s, n) == IF Len(s) <= n THEN s ELSE SubSeq(s, 1, n)

\* The items of s at the places of K, in their order.
Kept(s, K) ==
  [i \in 1 .. Cardinality(K) |-> s[CHOOSE k \in K : Cardinality({j \in K : j <= k}) = i]]
-----------------------------------------------------------------------------
(* Language detection.                                                     *)

Shows(form) == \E k \in DOMAIN trace : trace[k].form = form /\ trace[k].file # NoFile

\* The lines of the trace decide before the name of the type does.
Language ==
  LET order == <<"python", "dotnet", "java", "nodejs">>
      shown == {k \in DOMAIN order : Shows(order[k])}
  IN IF shown # {} THEN order[Min(shown)] ELSE type
-----------------------------------------------------------------------------
(* Triage.                                                                 *)

\* The priorities of the rules of each table, in their order.
Rules ==
  [dotnet |-> <<"critical", "critical", "high", "high", "high", "high",
                "medium", "medium", "medium", "medium", "medium", "medium", "low">>,
   python |-> <<"critical", "critical", "high", "high", "high", "high",
                "medium", "medium", "medium", "low">>,
   nodejs |-> <<"critical", "critical", "high", "high", "high", "high", "medium", "medium">>,
   java   |-> <<"critical", "high", "high", "high", "medium", "medium", "low">>]

Severity == [critical |-> 4, high |-> 3, medium |-> 2, low |-> 1]

\* An unknown language gets the .NET table.
Table(language) == IF language \in DOMAIN Rules THEN Rules[language] ELSE Rules.dotnet

\* Variant: the last rule that matches wins.
ApplyRulesLast(table, hits) == table[Max(hits)]

\* The first rule that has a pattern in the type; hits are all that have one.
ApplyRules(table, hits) == table[Min(hits)]

\* A rule, or the language model, or the default when that fails.
Triage ==
  /\ pc = "triage"
  /\ \/ \E k \in DOMAIN Table(Language) : priority' = ApplyRules(Table(Language), {k})
     \/ priority' \in DOMAIN Severity
  /\ pc' = "code_context"
  /\ UNCHANGED <<trace, type, todo, snippets, unread>>
-----------------------------------------------------------------------------
(* The stack parser.                                                       *)

NoFrame == [language |-> "none"]

Frame(language, line, file, user) ==
  [language |-> language, file |-> file, number |-> line.number, user |-> user]

\* Matches every line that begins with "at", and locates its own only.
TryDotnet(line) ==
  IF line.form \notin {"dotnet", "nodejs", "java"} THEN NoFrame
  ELSE Frame("dotnet", line, IF line.form = "dotnet" THEN line.file ELSE NoFile,
             ~ (line.form = "dotnet" /\ line.origin = "framework"))

TryPython(line) ==
  IF line.form # "python" THEN NoFrame
  ELSE Frame("python", line, line.file, line.origin # "framework")

TryNodejs(line) ==
  IF line.form # "nodejs" THEN NoFrame
  ELSE Frame("nodejs", line, line.file, line.origin # "framework")

TryJava(line) ==
  IF line.form # "java" THEN NoFrame
  ELSE Frame("java", line, line.file, line.origin # "framework")

\* The first parser that matches.
ParseLine(line) ==
  LET tries == <<TryDotnet(line), TryPython(line), TryNodejs(line), TryJava(line)>>
      hits == {k \in DOMAIN tries : tries[k] # NoFrame}
  IN IF hits = {} THEN NoFrame ELSE tries[Min(hits)]

\* The frames of the lines that some parser matches.
ParsedFrames(lines) ==
  LET parsed == [k \in DOMAIN lines |-> ParseLine(lines[k])]
  IN Kept(parsed, {k \in DOMAIN lines : parsed[k] # NoFrame})

UserFrames(frames) == Kept(frames, {k \in DOMAIN frames : frames[k].user})

\* Variant: the list is cut before the internal frames are removed.
ParseStackFramesCutFirst(lines) ==
  LET frames == Take(ParsedFrames(lines), MaxFrames)
      user == UserFrames(frames)
  IN IF user # <<>> THEN user ELSE frames

\* The user frames, or all frames if there are none; the first few of them.
ParseStackFrames(lines) ==
  LET frames == ParsedFrames(lines)
      user == UserFrames(frames)
  IN Take(IF user # <<>> THEN user ELSE frames, MaxFrames)

\* The filter asks the prefix registry again, with the answer the parser had.
IsInternal(frame) == ~ frame.user

FilterFrames(frames) ==
  LET qualifying == Kept(frames, {k \in DOMAIN frames : frames[k].user /\ frames[k].file # NoFile})
      allowed == Kept(qualifying, {k \in DOMAIN qualifying : ~ IsInternal(qualifying[k])})
      preferred == {k \in DOMAIN allowed : allowed[k].file \in Preferred}
      first == Kept(allowed, preferred)
      rest == Kept(allowed, DOMAIN allowed \ preferred)
  IN IF allowed = <<>> /\ qualifying # <<>>
     THEN Take(qualifying, FallbackFrames)
     ELSE Take(first \o rest, MaxFrames)
-----------------------------------------------------------------------------
(* The code context agent.                                                 *)

\* The lines around the one the frame names, cut at the ends of the file as it is
\* now; none are left if the file has shrunk.
Snippet(frame) ==
  LET before == frame.number - 1
      total == Length[frame.file]
      end == frame.number + ContextLines
  IN [file |-> frame.file, about |-> frame.number,
      startLine |-> (IF before <= ContextLines THEN 0 ELSE before - ContextLines) + 1,
      endLine |-> IF end <= total THEN end ELSE total]

\* The parser and the filter; without a source provider nothing is fetched.
FindFrames ==
  /\ pc = "code_context"
  /\ \/ todo' = FilterFrames(ParseStackFrames(trace)) /\ pc' = "fetch"
     \/ todo' = <<>> /\ pc' = "skipped"
  /\ UNCHANGED <<trace, type, priority, snippets, unread>>

FetchFile ==
  /\ pc = "fetch" /\ todo # <<>>
  /\ Head(todo).file \in Files
  /\ snippets' = Append(snippets, Snippet(Head(todo)))
  /\ todo' = Tail(todo)
  /\ UNCHANGED <<trace, type, pc, priority, unread>>

\* No such file, or the service fails: the client returns None for both.
FileNotFound ==
  /\ pc = "fetch" /\ todo # <<>>
  /\ unread' = unread \cup {Head(todo).file}
  /\ todo' = Tail(todo)
  /\ UNCHANGED <<trace, type, pc, priority, snippets>>

Finish ==
  /\ pc = "fetch" /\ todo = <<>>
  /\ pc' = "done"
  /\ UNCHANGED <<trace, type, priority, todo, snippets, unread>>

\* Any other exception ends the agent with the snippets it has.
ContextFails ==
  /\ pc = "fetch" /\ todo # <<>>
  /\ todo' = <<>>
  /\ pc' = "failed"
  /\ UNCHANGED <<trace, type, priority, snippets, unread>>

Next == Triage \/ FindFrames \/ FetchFile \/ FileNotFound \/ Finish \/ ContextFails

Spec == Init /\ [][Next]_vars
-----------------------------------------------------------------------------
\* The lines that stand for user code as the parser sees it: everything it matches but
\* what the prefix registry knows of .NET and Python.
LooksLikeUser(line) ==
  /\ line.form # "text"
  /\ line.form \in {"dotnet", "python"} => line.origin # "framework"

\* The located lines near enough to the top: only MaxFrames lines of user code count,
\* located or not.
NearLines ==
  {k \in DOMAIN trace :
     /\ LooksLikeUser(trace[k])
     /\ trace[k].form \in {"dotnet", "python"} /\ trace[k].file # NoFile
     /\ Cardinality({j \in 1 .. k - 1 : LooksLikeUser(trace[j])}) < MaxFrames}

\* The agents that write code see the lines of the trace and no others: every snippet is
\* about a near line, every near line has its snippet unless its file could not be read,
\* and the snippet holds the line unless the file became too short for it.
SnippetsMatchTrace ==
  /\ \A k \in DOMAIN snippets :
       /\ \E l \in NearLines : <<trace[l].file, trace[l].number>> = <<snippets[k].file, snippets[k].about>>
       /\ snippets[k].about <= Length[snippets[k].file] =>
            snippets[k].about \in snippets[k].startLine .. snippets[k].endLine
       /\ snippets[k].endLine <= Length[snippets[k].file]
       /\ snippets[k].startLine + 2 * ContextLines >= snippets[k].endLine
  /\ pc = "done" =>
       \A l \in NearLines :
         \/ trace[l].file \in unread
         \/ \E k \in DOMAIN snippets : <<snippets[k].file, snippets[k].about>> = <<trace[l].file, trace[l].number>>

\* A type that several rules of its table match gets the most severe of their priorities.
TriageNeverDowngrades ==
  LET table == Table(Language) IN
  \A k, l \in DOMAIN table :
    Severity[ApplyRules(table, {k, l})] >= Severity[table[k]]
=============================================================================
