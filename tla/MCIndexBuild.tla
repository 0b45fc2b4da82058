---------------------------- MODULE MCIndexBuild ----------------------------
(***************************************************************************)
(* TLC instances of IndexBuild: the workload.                              *)
(***************************************************************************)
EXTENDS IndexBuild

Op(id, kind) == [id |-> id, kind |-> kind]

\* A document that gains a vector and is deleted, perhaps to gain another one, alone
\* or next to a document with a text.
LostVector == {Op("a", "vec"), Op("a", "del"), Op("b", "txt")}

\* A document that gains a vector, loses it and is deleted, next to one with a
\* vector.
TwoDocuments == {Op("a", "vec"), Op("a", "txt"), Op("a", "del"), Op("b", "vec")}

\* A node, and commands that run between and next to its queries.
NodeAndCommands ==
  {<<"node", "vector">>, <<"node", "filtered">>, <<"node", "text">>,
   <<"cli", "hybrid">>, <<"cli", "info">>}
=============================================================================
