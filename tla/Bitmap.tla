------------------------------- MODULE Bitmap -------------------------------
(***************************************************************************)
(* The compressed set of ordinals of bitmap.go.  A bitmap is a function    *)
(* from chunk keys (the high bits) to containers [dense, low, card]: low   *)
(* is the set of low bits, dense tells a bitset from a sorted array, card  *)
(* is the cached number of elements.  The words of a bitset and the        *)
(* binary searches of an array are abstracted to the set they stand for;   *)
(* which form a container has, and what the cache holds, is kept.          *)
(***************************************************************************)
EXTENDS Integers, FiniteSets, FiniteSetsExt

CONSTANTS ChunkSize,  \* 65536 in the code
          ArrayMax    \* arrayMax, 4096 in the code

ASSUME BitmapAssumption == ChunkSize \in Nat \ {0} /\ ArrayMax \in Nat \ {0}

NewBitmap == [key \in {} |-> {}]

NewContainer == [dense |-> FALSE, low |-> {}, card |-> 0]

(* An array that grows past ArrayMax becomes a bitset.                     *)
ContainerAdd(c, lo) ==
  IF lo \in c.low THEN c
  ELSE [dense |-> c.dense \/ c.card + 1 > ArrayMax, low |-> c.low \cup {lo}, card |-> c.card + 1]

BitmapAdd(b, id) ==
  LET hi == id \div ChunkSize
      c  == IF hi \in DOMAIN b THEN b[hi] ELSE NewContainer
  IN  [key \in DOMAIN b \cup {hi} |->
         IF key = hi THEN ContainerAdd(c, id % ChunkSize) ELSE b[key]]

(* Two bitsets give a bitset, however few elements are left; an array and  *)
(* anything give an array.                                                 *)
ContainerAnd(c, d) ==
  [dense |-> c.dense /\ d.dense, low |-> c.low \cap d.low, card |-> Cardinality(c.low \cap d.low)]

BitmapAnd(a, b) ==
  LET common == {key \in DOMAIN a \cap DOMAIN b : ContainerAnd(a[key], b[key]).card > 0}
  IN  [key \in common |-> ContainerAnd(a[key], b[key])]

(* A union is a bitset and turned back into an array when it is small.     *)
ContainerOr(c, d) ==
  LET low == c.low \cup d.low
  IN  [dense |-> Cardinality(low) > ArrayMax, low |-> low, card |-> Cardinality(low)]

BitmapOr(a, b) ==
  [key \in DOMAIN a \cup DOMAIN b |->
     CASE key \notin DOMAIN b -> a[key]
       [] key \notin DOMAIN a -> b[key]
       [] OTHER -> ContainerOr(a[key], b[key])]

BitmapLen(b) == MapThenSumSet(LAMBDA key : b[key].card, DOMAIN b)

(* The elements, by each and by toSorted.                                  *)
Elements(b) == UNION {{key * ChunkSize + lo : lo \in b[key].low} : key \in DOMAIN b}

BitmapFrom(ids) == FoldSet(LAMBDA id, b : BitmapAdd(b, id), NewBitmap, ids)
=============================================================================
