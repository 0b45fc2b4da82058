---------------------------- MODULE MCNvmeCache ----------------------------
(***************************************************************************)
(* TLC instances of NvmeCache.  Keys, and readers, are interchangeable.    *)
(***************************************************************************)
EXTENDS NvmeCache, TLC

Symmetry == Permutations(Keys) \cup Permutations(Readers)
=============================================================================
