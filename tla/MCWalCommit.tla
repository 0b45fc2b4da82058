---------------------------- MODULE MCWalCommit ----------------------------
(***************************************************************************)
(* TLC instance of WalCommit.  Writers are interchangeable; every property *)
(* of the run is one of safety and tells them apart no more than the       *)
(* specification does.                                                     *)
(***************************************************************************)
EXTENDS WalCommit, TLC

\* liveDelta of a batch with one insert, and of one with one tombstone.
InsertsAndDeletes == {-1, 1}

WriterSymmetry == Permutations(Writers)
=============================================================================
