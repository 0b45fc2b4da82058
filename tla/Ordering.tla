------------------------------ MODULE Ordering ------------------------------
(***************************************************************************)
(* Sorting, which the engine does with sort.Slice, sort.Strings and        *)
(* sort.Ints before it writes an object or ranks the hits of a query.      *)
(* The place of an element is the number of the elements before it, so     *)
(* that what sorting does can be stated, and proved, without recursion.    *)
(***************************************************************************)
EXTENDS Integers, Sequences, FiniteSets

(* The elements of a finite set that Before orders totally.                *)
Ordered(S, Before(_, _)) ==
  [n \in 1..Cardinality(S) |-> CHOOSE x \in S : Cardinality({y \in S : Before(y, x)}) = n - 1]

Ascending(S) == Ordered(S, <)

(* The elements of a sequence at some of its indices, in their order.      *)
Picked(s, order) == [n \in DOMAIN order |-> s[order[n]]]

Selected(s, I) == Picked(s, Ascending(I))

(* A sequence, sorted.  Where Before does not tell two elements apart the  *)
(* earlier one stays first; the orders of the code tell all elements apart *)
(* but for inner nodes of the centroid tree at the same distance.          *)
Sorted(s, Before(_, _)) ==
  Picked(s, Ordered(DOMAIN s, LAMBDA i, j : \/ Before(s[i], s[j])
                                            \/ i < j /\ ~ Before(s[j], s[i])))
=============================================================================
