----------------------------- MODULE MCJobQueue -----------------------------
(***************************************************************************)
(* TLC instances of JobQueue.  Workers, and notifiers, are interchangeable *)
(* in the runs of safety properties only.                                  *)
(***************************************************************************)
EXTENDS JobQueue, TLC

Symmetry == Permutations(Workers) \cup Permutations(Notifiers)
=============================================================================
