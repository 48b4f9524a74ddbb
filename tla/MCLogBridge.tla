---------------------------- MODULE MCLogBridge ----------------------------
(* Model-checking instances of LogBridge. *)
EXTENDS LogBridge, TLC

Text(k) == [json |-> FALSE, body |-> <<k>>]
Json(body) == [json |-> TRUE, body |-> body]

\* Every kind occurs.  As text of its own, "plain" acts as "http" does without
\* the exception, and "netinner" as "neterror" except inside a Python traceback:
\* both come in JSON lines only.
SomeLines ==
  {Text(k) : k \in Kinds \ {"plain", "netinner"}}
    \cup {Json(<<k>>) : k \in {"neterror", "plain"}}
    \cup {Json(b) : b \in {<<"neterror", "frame">>, <<"start", "netinner", "error">>,
                           <<"plain", "netinner">>}}

ServiceSymmetry == Permutations(Services)
=============================================================================
