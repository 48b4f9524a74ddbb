---------------------------- MODULE MCSearchIndex ----------------------------
(* Model-checking instance of SearchIndex. *)
EXTENDS SearchIndex

\* Sections that are too short, that fit and that are cut, alone and before and after
\* each other; of some the end is dropped.
MCTexts ==
  [retry |-> {TextOf(lengths) :
                lengths \in {<<1>>, <<2, 6>>, <<1, 9>>, <<6, 1>>, <<6, 6>>, <<11, 2, 6>>}},
   keda |-> {TextOf(<<2, 2, 3>>)}]

\* Up to three sections, empty or up to what is cut twice.
MCSamples ==
  {TextOf(lengths) : lengths \in UNION {[1 .. n -> 0 .. 17] : n \in 0 .. 3}}
=============================================================================
