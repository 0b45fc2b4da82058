------------------------------ MODULE MCBranch ------------------------------
(***************************************************************************)
(* TLC instances of Branch.  Documents are interchangeable, and so are the *)
(* names that can be created and those that can only be forked.            *)
(***************************************************************************)
EXTENDS Branch, TLC

Symmetry == Permutations(Roots) \cup Permutations(Names \ Roots)
              \cup Permutations(Ids) \cup Permutations(Readers)
              \cup Permutations(Builders)
=============================================================================
