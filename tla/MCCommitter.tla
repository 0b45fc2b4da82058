---------------------------- MODULE MCCommitter ----------------------------
(***************************************************************************)
(* TLC instance of Committer.  A segment that is stored although its batch *)
(* is answered with an error comes about by StoredUnseen and "fail"; with  *)
(* "lost" as well the state space is four times as large.                  *)
(***************************************************************************)
EXTENDS Committer
=============================================================================
