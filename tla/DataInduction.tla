--------------------------- MODULE DataInduction ---------------------------
(***************************************************************************)
(* Induction over data, in a form the provers can instantiate, and what it *)
(* gives for the operators the models are built from: FlattenSeq, by which *)
(* the segments of a Committer are read as one log of writes; folds and    *)
(* sums over finite sets; and sorting (Ordering).  Before that, two        *)
(* operators on sequences.                                                 *)
(*                                                                         *)
(* The library proves that the order of the naturals is well founded, and  *)
(* that a non-empty subset of a well-founded set has a minimal element.    *)
(* Both speak of sets, not of operators; induction over a set of naturals  *)
(* follows, by the least number that is not in it.                         *)
(***************************************************************************)
EXTENDS Ordering, FiniteSetsExt, SequencesExt, FiniteSetTheorems, WellFoundedInduction, TLAPS

\* The order of the naturals as a relation.
Less == OpToRel(<, Nat)

\* The order of the naturals, as a set of pairs, has no infinite descent.
LEMMA LessWF == IsWellFoundedOn(Less, Nat)
  BY NatLessThanWellFounded DEF Less

\* Membership in that set of pairs is the order itself.
LEMMA LessDef == \A x, y \in Nat : <<x, y>> \in Less <=> x < y
  BY DEF Less, OpToRel

\* Every non-empty set of naturals has a least element.
LEMMA Least ==
  ASSUME NEW T, T \subseteq Nat, T # {}
  PROVE \E x \in T : \A y \in T : x <= y
<1>1. \E x \in T : \A y \in T : ~ (<<y, x>> \in Less)
  BY LessWF, WFMin
<1>2. PICK x \in T : \A y \in T : ~ (<<y, x>> \in Less)
  BY <1>1
<1>3. ASSUME NEW y \in T PROVE x <= y
  <2>1. x \in Nat /\ y \in Nat
    OBVIOUS
  <2>2. <<y, x>> \in Less <=> y < x
    BY <2>1, LessDef
  <2>3. ~ (y < x)
    BY <1>2, <2>2
  <2> QED BY <2>1, <2>3
<1> QED BY <1>3

(***************************************************************************)
(* Induction over a set of naturals.  The induction theorems of the        *)
(* library take an operator; this one takes the set of the numbers for     *)
(* which the claim holds, so it can be cited in any proof.                 *)
(***************************************************************************)
LEMMA NatSetInduction ==
  ASSUME NEW T, 0 \in T, \A n \in Nat : n \in T => n+1 \in T
  PROVE \A n \in Nat : n \in T
<1> SUFFICES ASSUME \E n \in Nat : n \notin T PROVE FALSE
  OBVIOUS
<1> DEFINE U == {n \in Nat : n \notin T}
<1>1. PICK x \in U : \A y \in U : x <= y
  BY Least
<1>2. x # 0 /\ x - 1 \in Nat /\ x - 1 \notin U
  BY <1>1
<1> QED BY <1>2
\* The members of a concatenation.
LEMMA ConcatParts ==
  ASSUME NEW X, NEW s \in Seq(X), NEW t \in Seq(X)
  PROVE /\ s \o t \in Seq(X) /\ Len(s \o t) = Len(s) + Len(t)
        /\ Len(s) \in Nat /\ Len(t) \in Nat
        /\ \A i \in 1..Len(s) : (s \o t)[i] = s[i]
        /\ \A i \in 1..Len(t) : (s \o t)[Len(s) + i] = t[i]
        /\ \A i \in 1..Len(s) + Len(t) : i \notin 1..Len(s) =>
              i - Len(s) \in 1..Len(t) /\ (s \o t)[i] = t[i - Len(s)]
  OBVIOUS

\* One member is gone, and the others keep their order.
LEMMA RemoveAtIs ==
  ASSUME NEW T, NEW s \in Seq(T), NEW n \in 1..Len(s)
  PROVE /\ RemoveAt(s, n) \in Seq(T) /\ Len(RemoveAt(s, n)) = Len(s) - 1
        /\ \A i \in 1..Len(s) - 1 : RemoveAt(s, n)[i] = IF i < n THEN s[i] ELSE s[i+1]
<1> DEFINE p == SubSeq(s, 1, n-1)
           q == SubSeq(s, n+1, Len(s))
<1>1. p \in Seq(T) /\ Len(p) = n-1 /\ \A i \in 1..n-1 : p[i] = s[i]
  OBVIOUS
<1>2. q \in Seq(T) /\ Len(q) = Len(s)-n /\ \A i \in 1..Len(s)-n : q[i] = s[n+i]
  OBVIOUS
<1>3. RemoveAt(s, n) = p \o q
  BY DEF RemoveAt
<1> HIDE DEF p, q
<1>4. /\ p \o q \in Seq(T) /\ Len(p \o q) = Len(p) + Len(q)
      /\ \A i \in 1..Len(p) : (p \o q)[i] = p[i]
      /\ \A i \in 1..Len(q) : (p \o q)[Len(p) + i] = q[i]
  <2>1. p \in Seq(T) /\ q \in Seq(T)
    BY <1>1, <1>2
  <2>2. \A s1, s2 \in Seq(T) :
          /\ s1 \o s2 \in Seq(T) /\ Len(s1 \o s2) = Len(s1) + Len(s2)
          /\ \A i \in 1..Len(s1) : (s1 \o s2)[i] = s1[i]
          /\ \A i \in 1..Len(s2) : (s1 \o s2)[Len(s1) + i] = s2[i]
    BY ConcatParts
  <2> QED BY <2>1, <2>2
<1>5. Len(s) \in Nat /\ n \in Nat
  OBVIOUS
<1>6. ASSUME NEW i \in 1..Len(s) - 1 PROVE (p \o q)[i] = IF i < n THEN s[i] ELSE s[i+1]
  <2>2. CASE i < n
    BY <1>1, <1>4, <1>5, <2>2
  <2>3. CASE ~(i < n)
    <3>1. i - (n-1) \in 1..Len(s)-n /\ n + (i - (n-1)) = i+1 /\ n-1 + (i - (n-1)) = i
      BY <1>5, <2>3
    <3> DEFINE k == i - (n-1)
    <3>2. k \in 1..Len(q) /\ Len(p) + k = i /\ n + k = i + 1
      BY <1>1, <1>2, <1>5, <3>1
    <3>3. q[k] = s[n+k]
      BY <1>2, <3>1
    <3>4. (p \o q)[Len(p)+k] = q[k]
      BY <1>4, <3>2
    <3> HIDE DEF k
    <3> QED BY <2>3, <3>2, <3>3, <3>4
  <2> QED BY <2>2, <2>3
<1> QED BY <1>1, <1>2, <1>3, <1>4, <1>5, <1>6
-----------------------------------------------------------------------------
\* f is a solution of the recursion of FlattenSeq over the first n of s.
UpTo(f, s, n) ==
  f = [i \in 1..n |-> IF i = 1 THEN s[i] ELSE f[i-1] \o s[i]]

\* FlattenSeq of a non-empty sequence is the last value of its recursion.
LEMMA FlattenDef ==
  ASSUME NEW s, Len(s) # 0
  PROVE FlattenSeq(s) = (CHOOSE f : UpTo(f, s, Len(s)))[Len(s)]
  BY DEF FlattenSeq, UpTo

\* The recursion of FlattenSeq has a solution for every length.
LEMMA UpToExists ==
  ASSUME NEW s
  PROVE \A n \in Nat : \E f : UpTo(f, s, n)
<1> DEFINE T == {n \in Nat : \E f : UpTo(f, s, n)}
<1>1. 0 \in T
  <2> DEFINE g == [i \in 1..0 |-> s[i]]
  <2>1. UpTo(g, s, 0)
    BY DEF UpTo
  <2> QED BY <2>1
<1>2. ASSUME NEW n \in Nat, n \in T PROVE n+1 \in T
  <2>1. PICK f : UpTo(f, s, n)
    BY <1>2
  <2> DEFINE g == [i \in 1..n+1 |-> IF i = n+1 THEN (IF i = 1 THEN s[i] ELSE f[n] \o s[i]) ELSE f[i]]
  <2>2. \A i \in 1..n+1 : g[i] = IF i = 1 THEN s[i] ELSE g[i-1] \o s[i]
    <3> SUFFICES ASSUME NEW i \in 1..n+1 PROVE g[i] = IF i = 1 THEN s[i] ELSE g[i-1] \o s[i]
      OBVIOUS
    <3>1. CASE i = n+1
      BY <3>1
    <3>2. CASE i # n+1
      <4>1. i \in 1..n /\ (i # 1 => i-1 \in 1..n)
        BY <3>2
      <4>2. f[i] = IF i = 1 THEN s[i] ELSE f[i-1] \o s[i]
        BY <4>1, <2>1 DEF UpTo
      <4> QED BY <4>1, <4>2, <3>2
    <3> QED BY <3>1, <3>2
  <2>3. UpTo(g, s, n+1)
    <3> DEFINE h == [i \in 1..n+1 |-> IF i = 1 THEN s[i] ELSE g[i-1] \o s[i]]
    <3>1. \A i \in 1..n+1 : g[i] = h[i]
      BY <2>2
    <3>2. g = h
      <4> HIDE DEF UpTo
      <4> QED BY <3>1
    <3> QED BY <3>2 DEF UpTo
  <2> QED BY <2>3
<1> HIDE DEF T
<1>3. \A n \in Nat : n \in T
  BY <1>1, <1>2, NatSetInduction
<1> QED BY <1>3 DEF T

\* The values of a solution obey the recursion.
LEMMA UpToValue ==
  ASSUME NEW s, NEW n, NEW f, UpTo(f, s, n), NEW i \in 1..n
  PROVE f[i] = IF i = 1 THEN s[i] ELSE f[i-1] \o s[i]
<1> DEFINE h == [j \in 1..n |-> IF j = 1 THEN s[j] ELSE f[j-1] \o s[j]]
<1>1. f = h
  BY DEF UpTo
<1>2. h[i] = IF i = 1 THEN s[i] ELSE f[i-1] \o s[i]
  OBVIOUS
<1> HIDE DEF h
<1> QED BY <1>1, <1>2

\* Solutions for two sequences agree where the sequences do.
LEMMA UpToUnique ==
  ASSUME NEW s, NEW t, NEW m \in Nat, NEW f, NEW g,
         UpTo(f, s, m), UpTo(g, t, m+1), \A i \in 1..m : s[i] = t[i]
  PROVE \A i \in 1..m : f[i] = g[i]
<1> DEFINE T == {k \in Nat : k \in 1..m => f[k] = g[k]}
<1>1. 0 \in T
  OBVIOUS
<1>2. ASSUME NEW k \in Nat, k \in T PROVE k+1 \in T
  <2> SUFFICES ASSUME k+1 \in 1..m PROVE f[k+1] = g[k+1]
    OBVIOUS
  <2>1. f[k+1] = IF k+1 = 1 THEN s[k+1] ELSE f[k+1-1] \o s[k+1]
    BY UpToValue
  <2>2. g[k+1] = IF k+1 = 1 THEN t[k+1] ELSE g[k+1-1] \o t[k+1]
    <3>1. k+1 \in 1..m+1
      OBVIOUS
    <3> QED BY <3>1, UpToValue
  <2>3. k+1-1 = k /\ (k+1 # 1 => f[k] = g[k])
    BY <1>2
  <2> QED BY <2>1, <2>2, <2>3
<1> HIDE DEF T
<1>3. \A k \in Nat : k \in T
  BY <1>1, <1>2, NatSetInduction
<1> QED BY <1>3 DEF T

\* What FlattenSeq computes is the last value of some solution.
LEMMA FlattenIs ==
  ASSUME NEW s, Len(s) \in Nat
  PROVE \E f : UpTo(f, s, Len(s)) /\ (Len(s) # 0 => FlattenSeq(s) = f[Len(s)])
<1> DEFINE f == CHOOSE f : UpTo(f, s, Len(s))
<1>1. UpTo(f, s, Len(s))
  BY UpToExists
<1>2. Len(s) # 0 => FlattenSeq(s) = f[Len(s)]
  BY FlattenDef DEF UpTo
<1> QED BY <1>1, <1>2

\* Nothing flattens to nothing.
LEMMA FlattenEmpty == FlattenSeq(<<>>) = <<>>
  BY DEF FlattenSeq

\* One sequence flattens to itself.
LEMMA FlattenSingle ==
  ASSUME NEW u, Len(u) = 1
  PROVE FlattenSeq(u) = u[1]
<1>0. Len(u) \in Nat /\ Len(u) # 0
  OBVIOUS
<1>1. PICK g : UpTo(g, u, Len(u)) /\ FlattenSeq(u) = g[Len(u)]
  BY <1>0, FlattenIs
<1>2. UpTo(g, u, 1) /\ FlattenSeq(u) = g[1] /\ 1 \in 1..1
  BY <1>1
<1> QED BY <1>2, UpToValue

\* One more sequence at the end is concatenated, whatever its type.
LEMMA FlattenLast ==
  ASSUME NEW s, NEW u, NEW n \in Nat \ {0}, Len(s) = n, Len(u) = n+1,
         \A i \in 1..n : s[i] = u[i]
  PROVE FlattenSeq(u) = FlattenSeq(s) \o u[n+1]
<1>1. PICK f : UpTo(f, s, n) /\ FlattenSeq(s) = f[n]
  BY FlattenIs
<1>2. PICK g : UpTo(g, u, n+1) /\ FlattenSeq(u) = g[n+1]
  BY FlattenIs
<1>3. f[n] = g[n]
  BY <1>1, <1>2, UpToUnique
<1>4. g[n+1] = IF n+1 = 1 THEN u[n+1] ELSE g[n+1-1] \o u[n+1]
  BY <1>2, UpToValue
<1>5. n+1 # 1 /\ n+1-1 = n
  OBVIOUS
<1> QED BY <1>1, <1>2, <1>3, <1>4, <1>5

(***************************************************************************)
(* A segment appended to the log is appended, batch by batch, to the       *)
(* flattened log: what commitBatch does to the log of a Committer.         *)
(***************************************************************************)
LEMMA FlattenAppend ==
  ASSUME NEW X, NEW s \in Seq(Seq(X)), NEW t \in Seq(X)
  PROVE FlattenSeq(Append(s, t)) = FlattenSeq(s) \o t
<1> DEFINE u == Append(s, t)
           n == Len(s)
<1>1. n \in Nat /\ Len(u) = n+1 /\ u[n+1] = t /\ \A i \in 1..n : s[i] = u[i]
  OBVIOUS
<1>2. CASE n = 0
  <2>1. s = <<>>
    BY <1>2
  <2>2. FlattenSeq(s) = <<>>
    BY <2>1, FlattenEmpty
  <2>3. FlattenSeq(u) = u[1]
    BY <1>1, <1>2, FlattenSingle
  <2>4. <<>> \o t = t
    OBVIOUS
  <2> HIDE DEF u
  <2> QED BY <1>1, <1>2, <2>2, <2>3, <2>4 DEF u
<1>3. CASE n # 0
  <2> HIDE DEF u
  <2>1. FlattenSeq(u) = FlattenSeq(s) \o u[n+1]
    BY <1>1, <1>3, FlattenLast
  <2> QED BY <1>1, <2>1 DEF u
<1> QED BY <1>2, <1>3

\* Sequences over a set flatten to a sequence over that set.
LEMMA FlattenType ==
  ASSUME NEW X, NEW s \in Seq(Seq(X))
  PROVE FlattenSeq(s) \in Seq(X)
<1> DEFINE n == Len(s)
<1>1. n \in Nat /\ \A i \in 1..n : s[i] \in Seq(X)
  OBVIOUS
<1>2. PICK f : UpTo(f, s, n) /\ (n # 0 => FlattenSeq(s) = f[n])
  BY <1>1, FlattenIs
<1> DEFINE T == {k \in Nat : k \in 1..n => f[k] \in Seq(X)}
<1>3. 0 \in T
  OBVIOUS
<1>4. ASSUME NEW k \in Nat, k \in T PROVE k+1 \in T
  <2> SUFFICES ASSUME k+1 \in 1..n PROVE f[k+1] \in Seq(X)
    OBVIOUS
  <2>1. f[k+1] = IF k+1 = 1 THEN s[k+1] ELSE f[k+1-1] \o s[k+1]
    BY <1>2, UpToValue
  <2>3. k+1-1 = k /\ (k+1 # 1 => f[k] \in Seq(X)) /\ s[k+1] \in Seq(X)
    BY <1>4, <1>1
  <2> QED BY <2>1, <2>3
<1> HIDE DEF T
<1>5. \A k \in Nat : k \in T
  BY <1>3, <1>4, NatSetInduction
<1>6. CASE n = 0
  <2>1. s = <<>>
    BY <1>6
  <2>2. FlattenSeq(s) = <<>>
    BY <2>1, FlattenEmpty
  <2> QED BY <2>2
<1>7. CASE n # 0
  BY <1>5, <1>7, <1>1, <1>2 DEF T
<1> QED BY <1>6, <1>7

-----------------------------------------------------------------------------
(***************************************************************************)
(* Strict total orders, as sets of pairs, on finite sets: the number of    *)
(* the elements below an element tells where sorting puts it.              *)
(***************************************************************************)

\* The elements of S before x.
Below(R, S, x) == {y \in S : <<y, x>> \in R}

\* R orders the elements of S, each before each other one or behind it.
TotalOrder(R, S) ==
  /\ \A x \in S : <<x, x>> \notin R
  /\ \A x, y, z \in S : <<x, y>> \in R /\ <<y, z>> \in R => <<x, z>> \in R
  /\ \A x, y \in S : x = y \/ <<x, y>> \in R \/ <<y, x>> \in R

\* The elements below x are fewer than those of the set.
LEMMA BelowType ==
  ASSUME NEW S, NEW R, IsFiniteSet(S), TotalOrder(R, S), NEW x \in S
  PROVE  Cardinality(Below(R, S, x)) \in 0..Cardinality(S) - 1
<1>1. Below(R, S, x) \in SUBSET S /\ x \notin Below(R, S, x)
  BY DEF Below, TotalOrder
<1>2. /\ IsFiniteSet(Below(R, S, x))
      /\ Cardinality(Below(R, S, x)) <= Cardinality(S)
      /\ Cardinality(S) = Cardinality(Below(R, S, x)) => S = Below(R, S, x)
  BY <1>1, FS_Subset
<1>3. Cardinality(Below(R, S, x)) \in Nat /\ Cardinality(S) \in Nat
  BY <1>2, FS_CardinalityType
<1> QED BY <1>1, <1>2, <1>3

\* Of two elements the first has fewer elements below it.
LEMMA BelowLess ==
  ASSUME NEW S, NEW R, IsFiniteSet(S), TotalOrder(R, S), NEW x \in S, NEW y \in S, <<x, y>> \in R
  PROVE  Cardinality(Below(R, S, x)) < Cardinality(Below(R, S, y))
<1>1. Below(R, S, x) \in SUBSET Below(R, S, y)
  BY DEF Below, TotalOrder
<1>2. x \in Below(R, S, y) /\ x \notin Below(R, S, x)
  BY DEF Below, TotalOrder
<1>3. Below(R, S, y) \in SUBSET S
  BY DEF Below
<1>4. IsFiniteSet(Below(R, S, y))
  BY <1>3, FS_Subset
<1>5. /\ IsFiniteSet(Below(R, S, x))
      /\ Cardinality(Below(R, S, x)) <= Cardinality(Below(R, S, y))
      /\ Cardinality(Below(R, S, y)) = Cardinality(Below(R, S, x)) => Below(R, S, y) = Below(R, S, x)
  BY <1>1, <1>4, FS_Subset
<1>6. Cardinality(Below(R, S, x)) \in Nat /\ Cardinality(Below(R, S, y)) \in Nat
  BY <1>4, <1>5, FS_CardinalityType
<1> QED BY <1>2, <1>5, <1>6

\* Every place is that of exactly one element.
LEMMA PlaceTaken ==
  ASSUME NEW S, NEW R, IsFiniteSet(S), TotalOrder(R, S), NEW n \in 1..Cardinality(S)
  PROVE  \E x \in S : Cardinality(Below(R, S, x)) = n - 1
<1> DEFINE N == Cardinality(S)
           T == 0..N - 1
           f == [x \in S |-> Cardinality(Below(R, S, x))]
<1>1. N \in Nat
  BY FS_CardinalityType
<1>2. IsFiniteSet(T) /\ Cardinality(T) = N
  <2>1. 0 \in Int /\ N - 1 \in Int
    BY <1>1
  <2>2. IsFiniteSet(T) /\ Cardinality(T) = IF 0 > N - 1 THEN 0 ELSE N - 1 - 0 + 1
    BY <2>1, FS_Interval
  <2> QED BY <1>1, <2>2
<1>3. f \in [S -> T]
  BY BelowType
<1>4. \A x, y \in S : f[x] = f[y] => x = y
  <2> SUFFICES ASSUME NEW x \in S, NEW y \in S, f[x] = f[y], x # y PROVE FALSE
    OBVIOUS
  <2>1. f[x] = Cardinality(Below(R, S, x)) /\ f[y] = Cardinality(Below(R, S, y))
    OBVIOUS
  <2>2. f[x] \in Int /\ f[y] \in Int
    BY <1>3, <1>1
  <2>3. CASE <<x, y>> \in R
    <3>1. Cardinality(Below(R, S, x)) < Cardinality(Below(R, S, y))
      BY <2>3, BelowLess
    <3> QED BY <2>1, <2>2, <3>1
  <2>4. CASE <<y, x>> \in R
    <3>1. Cardinality(Below(R, S, y)) < Cardinality(Below(R, S, x))
      BY <2>4, BelowLess
    <3> QED BY <2>1, <2>2, <3>1
  <2> QED BY <2>3, <2>4 DEF TotalOrder
<1>5. f \in Injection(S, T)
  BY <1>3, <1>4 DEF Injection, IsInjective
<1>6. f \in Surjection(S, T)
  BY <1>2, <1>5, FS_Injection
<1>7. n - 1 \in T
  BY <1>1
<1>8. \E x \in S : f[x] = n - 1
  BY <1>6, <1>7 DEF Surjection
<1> QED BY <1>8

\* What puts each element in its place.
InOrder(r, R, S) ==
  /\ DOMAIN r = 1..Cardinality(S)
  /\ \A n \in 1..Cardinality(S) : r[n] \in S /\ Cardinality(Below(R, S, r[n])) = n - 1

(***************************************************************************)
(* A finite set in order: every element stands once, and stands before     *)
(* exactly the elements it is before in the order.                         *)
(***************************************************************************)
LEMMA InOrderFacts ==
  ASSUME NEW S, NEW R, IsFiniteSet(S), TotalOrder(R, S), NEW r, InOrder(r, R, S)
  PROVE  /\ Cardinality(S) \in Nat
         /\ \A m, n \in 1..Cardinality(S) : r[m] = r[n] => m = n
         /\ \A x \in S : \E n \in 1..Cardinality(S) : r[n] = x
         /\ \A m, n \in 1..Cardinality(S) : m < n <=> <<r[m], r[n]>> \in R
<1> DEFINE N == Cardinality(S)
<1>1. N \in Nat
  BY FS_CardinalityType
<1>2. \A m, n \in 1..N : r[m] = r[n] => m = n
  BY <1>1 DEF InOrder
<1>3. ASSUME NEW m \in 1..N, NEW n \in 1..N, <<r[m], r[n]>> \in R PROVE m < n
  <2>1. r[m] \in S /\ r[n] \in S
    BY DEF InOrder
  <2>2. Cardinality(Below(R, S, r[m])) < Cardinality(Below(R, S, r[n]))
    BY <1>3, <2>1, BelowLess
  <2> QED BY <1>1, <2>2 DEF InOrder
<1>4. ASSUME NEW m \in 1..N, NEW n \in 1..N, m < n PROVE <<r[m], r[n]>> \in R
  <2>1. r[m] \in S /\ r[n] \in S /\ m # n
    BY <1>4, <1>1 DEF InOrder
  <2>2. r[m] # r[n]
    BY <1>2, <2>1
  <2>3. <<r[n], r[m]>> \in R => n < m
    BY <1>3
  <2>4. ~ (n < m)
    BY <1>4, <1>1
  <2> QED BY <2>1, <2>2, <2>3, <2>4 DEF TotalOrder
<1>5. ASSUME NEW x \in S PROVE \E n \in 1..N : r[n] = x
  <2> DEFINE n == Cardinality(Below(R, S, x)) + 1
  <2>1. n \in 1..N /\ n - 1 = Cardinality(Below(R, S, x)) /\ n - 1 \in Int
    <3>1. Cardinality(Below(R, S, x)) \in 0..N - 1
      BY BelowType
    <3> HIDE DEF N
    <3> QED BY <1>1, <3>1
  <2>2. r[n] \in S /\ Cardinality(Below(R, S, r[n])) = n - 1
    BY <2>1 DEF InOrder
  <2>3. <<x, r[n]>> \in R => Cardinality(Below(R, S, x)) < Cardinality(Below(R, S, r[n]))
    BY <2>2, BelowLess
  <2>4. <<r[n], x>> \in R => Cardinality(Below(R, S, r[n])) < Cardinality(Below(R, S, x))
    BY <2>2, BelowLess
  <2> HIDE DEF n
  <2>5. r[n] = x
    BY <2>1, <2>2, <2>3, <2>4 DEF TotalOrder
  <2> QED BY <2>1, <2>5
<1> QED BY <1>1, <1>2, <1>3, <1>4, <1>5
-----------------------------------------------------------------------------
\* The largest of some of the first n numbers.
LEMMA MaxIs ==
  ASSUME NEW n \in Nat, NEW s \in SUBSET (1..n), s # {}
  PROVE  Max(s) \in s /\ \A y \in s : Max(s) >= y
<1> DEFINE U == {n - x : x \in s}
<1>1. U \subseteq Nat /\ U # {}
  OBVIOUS
<1>2. PICK u \in U : \A v \in U : u <= v
  BY <1>1, Least
<1>3. PICK x \in s : u = n - x
  BY <1>2
<1>4. ASSUME NEW y \in s PROVE x >= y
  <2>1. n - y \in U
    OBVIOUS
  <2>2. n - x <= n - y
    BY <1>2, <1>3, <2>1
  <2>3. x \in 1..n /\ y \in 1..n
    OBVIOUS
  <2> QED BY <2>2, <2>3
<1>5. \E z \in s : \A y \in s : z >= y
  BY <1>4
<1> QED BY <1>5 DEF Max

\* The smallest of some natural numbers.
LEMMA MinIs ==
  ASSUME NEW s \in SUBSET Nat, s # {}
  PROVE  Min(s) \in s /\ \A y \in s : Min(s) <= y
<1>1. \E z \in s : \A y \in s : z <= y
  BY Least
<1> QED BY <1>1 DEF Min

\* The first k+1 numbers, as a fold takes them apart.
LEMMA Prefixed ==
  ASSUME NEW k \in Nat
  PROVE  /\ 1..0 = {} /\ 1..k+1 # {}
         /\ Max(1..k+1) = k+1 /\ (1..k+1) \ {k+1} = 1..k
<1>1. 1..k+1 # {} /\ k+1 \in 1..k+1
  OBVIOUS
<1>2. Max(1..k+1) \in 1..k+1 /\ \A y \in 1..k+1 : Max(1..k+1) >= y
  <2>1. k+1 \in Nat /\ 1..k+1 \in SUBSET (1..k+1)
    OBVIOUS
  <2> QED BY <1>1, <2>1, MaxIs
<1>3. Max(1..k+1) = k+1
  BY <1>1, <1>2
<1> QED BY <1>1, <1>3

\* The value after the steps at each set of indices below n, in the order of the indices.
Folds(iter, V, n, base, step) ==
  /\ iter \in [SUBSET (1..n) -> V]
  /\ \A s \in SUBSET (1..n) :
       iter[s] = IF s = {} THEN base ELSE step[<<iter[s \ {Max(s)}], Max(s)>>]

(***************************************************************************)
(* The table by which FoldLeft is defined exists: for every set of indices *)
(* the value after the steps at these indices, in their order.             *)
(***************************************************************************)
LEMMA FoldTable ==
  ASSUME NEW V, NEW n \in Nat, NEW base \in V, NEW step \in [V \X (1..n) -> V]
  PROVE  \E iter : Folds(iter, V, n, base, step)
<1> DEFINE Solves(iter, k) ==
             \A s \in SUBSET (1..k) :
               iter[s] = IF s = {} THEN base ELSE step[<<iter[s \ {Max(s)}], Max(s)>>]
           Has(k) == \E iter \in [SUBSET (1..k) -> V] : Solves(iter, k)
           T == {k \in Nat : k <= n => Has(k)}
<1>1. 0 \in T
  <2> DEFINE g == [s \in SUBSET (1..0) |-> base]
  <2>1. g \in [SUBSET (1..0) -> V]
    OBVIOUS
  <2>2. Solves(g, 0)
    <3>1. \A s \in SUBSET (1..0) : s = {}
      OBVIOUS
    <3>2. \A s \in SUBSET (1..0) : g[s] = base
      OBVIOUS
    <3> QED BY <3>1, <3>2
  <2> HIDE DEF g, Solves
  <2>3. Has(0)
    BY <2>1, <2>2
  <2> HIDE DEF Has
  <2> QED BY <2>3
<1>2. ASSUME NEW k \in Nat, k \in T PROVE k+1 \in T
  <2> SUFFICES ASSUME k+1 <= n PROVE Has(k+1)
    <3> HIDE DEF Has
    <3> QED OBVIOUS
  <2>0. Has(k)
    <3> HIDE DEF Has
    <3> QED BY <1>2
  <2>1. PICK f \in [SUBSET (1..k) -> V] : Solves(f, k)
    BY <2>0
  <2> DEFINE g == [s \in SUBSET (1..k+1) |->
                     IF k+1 \in s THEN step[<<f[s \ {k+1}], k+1>>] ELSE f[s]]
  <2>2. ASSUME NEW s \in SUBSET (1..k+1)
        PROVE  /\ s \ {k+1} \in SUBSET (1..k)
               /\ k+1 \notin s => s \in SUBSET (1..k)
    OBVIOUS
  <2>3. k+1 \in 1..n
    OBVIOUS
  <2>4. g \in [SUBSET (1..k+1) -> V]
    <3>1. ASSUME NEW s \in SUBSET (1..k+1) PROVE (IF k+1 \in s THEN step[<<f[s \ {k+1}], k+1>>] ELSE f[s]) \in V
      <4>1. CASE k+1 \in s
        <5>1. f[s \ {k+1}] \in V
          BY <2>1, <2>2
        <5>2. <<f[s \ {k+1}], k+1>> \in V \X (1..n)
          BY <5>1, <2>3
        <5> QED BY <4>1, <5>2
      <4>2. CASE k+1 \notin s
        BY <2>1, <2>2, <4>2
      <4> QED BY <4>1, <4>2
    <3> QED BY <3>1
  <2>5. ASSUME NEW s \in SUBSET (1..k+1)
        PROVE  g[s] = IF s = {} THEN base ELSE step[<<g[s \ {Max(s)}], Max(s)>>]
    <3>1. CASE k+1 \in s
      <4>1. Max(s) \in s /\ \A y \in s : Max(s) >= y
        <5>1. s # {} /\ k+1 \in Nat
          BY <3>1
        <5> QED BY <5>1, MaxIs
      <4>2. Max(s) = k+1
        <5>1. Max(s) \in 1..k+1 /\ Max(s) >= k+1
          BY <3>1, <4>1
        <5> QED BY <5>1
      <4>3. s \ {k+1} \in SUBSET (1..k+1) /\ k+1 \notin s \ {k+1}
        OBVIOUS
      <4>4. g[s \ {k+1}] = f[s \ {k+1}]
        BY <4>3
      <4>5. g[s] = step[<<f[s \ {k+1}], k+1>>]
        BY <3>1
      <4> HIDE DEF g
      <4> QED BY <3>1, <4>2, <4>4, <4>5
    <3>2. CASE k+1 \notin s
      <4>1. g[s] = f[s] /\ s \in SUBSET (1..k)
        BY <2>2, <3>2
      <4>2. CASE s = {}
        BY <2>1, <4>1, <4>2
      <4>3. CASE s # {}
        <5>1. s \ {Max(s)} \in SUBSET (1..k+1) /\ k+1 \notin s \ {Max(s)}
          BY <3>2
        <5>2. g[s \ {Max(s)}] = f[s \ {Max(s)}]
          BY <5>1
        <5>3. f[s] = step[<<f[s \ {Max(s)}], Max(s)>>]
          BY <2>1, <4>1, <4>3
        <5> HIDE DEF g
        <5> QED BY <4>1, <4>3, <5>2, <5>3
      <4> QED BY <4>2, <4>3
    <3> QED BY <3>1, <3>2
  <2> HIDE DEF g
  <2> QED BY <2>4, <2>5
<1> HIDE DEF T
<1>3. \A k \in Nat : k \in T
  BY <1>1, <1>2, NatSetInduction
<1>4. n \in T
  BY <1>3
<1>5. Has(n)
  <2> HIDE DEF Has
  <2> QED BY <1>4 DEF T
<1> QED BY <1>5 DEF Folds

\* The values after the first steps.
States(f, iter, V, n, base, step) ==
  /\ f[0] = base /\ f[n] = iter[1..n]
  /\ \A k \in 0..n : f[k] \in V
  /\ \A k \in Nat : k < n => f[k+1] = step[<<f[k], k+1>>]

\* A table goes through them, if it makes a step wherever the value before it is of the type.
LEMMA FoldStates ==
  ASSUME NEW V, NEW n \in Nat, NEW base \in V, NEW step \in [V \X (1..n) -> V], NEW iter,
         iter[{}] = base,
         \A u \in SUBSET (1..n) : u # {} /\ iter[u \ {Max(u)}] \in V =>
           iter[u] = step[<<iter[u \ {Max(u)}], Max(u)>>]
  PROVE  \E f : States(f, iter, V, n, base, step)
<1> DEFINE f == [k \in 0..n |-> iter[1..k]]
           T == {k \in Nat : k <= n => f[k] \in V}
<1>1. f[0] = base
  <2>1. 1..0 = {} /\ 0 \in 0..n
    BY Prefixed
  <2> QED BY <2>1
<1>2. ASSUME NEW k \in Nat, k < n, f[k] \in V
      PROVE  f[k+1] = step[<<f[k], k+1>>] /\ f[k+1] \in V
  <2>1. k \in 0..n /\ k+1 \in 0..n /\ k+1 \in 1..n /\ 1..k+1 \in SUBSET (1..n)
    BY <1>2
  <2>2. 1..k+1 # {} /\ Max(1..k+1) = k+1 /\ (1..k+1) \ {k+1} = 1..k
    BY Prefixed
  <2>3. f[k+1] = iter[1..k+1] /\ f[k] = iter[1..k]
    BY <2>1
  <2> HIDE DEF f
  <2>4. iter[1..k+1] = step[<<iter[1..k], k+1>>]
    BY <1>2, <2>1, <2>2, <2>3
  <2>5. <<f[k], k+1>> \in V \X (1..n)
    BY <1>2, <2>1
  <2> QED BY <2>3, <2>4, <2>5
<1> HIDE DEF f
<1>3. 0 \in T
  BY <1>1
<1>4. ASSUME NEW k \in Nat, k \in T PROVE k+1 \in T
  <2> SUFFICES ASSUME k+1 <= n PROVE f[k+1] \in V
    OBVIOUS
  <2>1. k < n /\ f[k] \in V
    BY <1>4
  <2> QED BY <1>2, <2>1
<1> HIDE DEF T
<1>5. \A k \in Nat : k \in T
  BY <1>3, <1>4, NatSetInduction
<1>6. \A k \in 0..n : f[k] \in V
  BY <1>5 DEF T
<1>7. \A k \in Nat : k < n => f[k+1] = step[<<f[k], k+1>>]
  BY <1>2, <1>6
<1>8. f[n] = iter[1..n]
  BY DEF f
<1> QED BY <1>1, <1>6, <1>7, <1>8 DEF States
-----------------------------------------------------------------------------
\* The member of a set that a sum takes first.
Some(s) == CHOOSE x \in s : TRUE

\* The table by which a sum over the subsets of S is defined.
SumsUp(iter, f, D) == \A s \in D : iter[s] = IF s = {} THEN 0 ELSE f[Some(s)] + iter[s \ {Some(s)}]

\* The subsets of S with at most k members.
UpToSize(S, k) == {s \in SUBSET S : Cardinality(s) <= k}

\* A non-empty set loses a member, and is smaller.
LEMMA DropOne ==
  ASSUME NEW S, IsFiniteSet(S), NEW k \in Nat, NEW s \in UpToSize(S, k+1)
  PROVE  /\ Cardinality(s) = 0 <=> s = {}
         /\ s # {} => Some(s) \in S /\ Some(s) \in s /\ s \ {Some(s)} \in UpToSize(S, k)
<1>1. s \in SUBSET S /\ Cardinality(s) <= k+1
  BY DEF UpToSize
<1>2. IsFiniteSet(s)
  BY <1>1, FS_Subset
<1>3. Cardinality(s) = 0 <=> s = {}
  BY <1>2, FS_EmptySet
<1>4. ASSUME s # {} PROVE Some(s) \in s /\ s \ {Some(s)} \in UpToSize(S, k)
  <2>1. Some(s) \in s
    BY <1>4 DEF Some
  <2>2. Cardinality(s \ {Some(s)}) = Cardinality(s) - 1
    BY <1>2, <2>1, FS_RemoveElement
  <2>3. Cardinality(s) \in Nat
    BY <1>2, FS_CardinalityType
  <2>4. Cardinality(s \ {Some(s)}) <= k
    BY <1>1, <2>2, <2>3
  <2> QED BY <1>1, <2>1, <2>4 DEF UpToSize
<1> QED BY <1>1, <1>3, <1>4

\* The table exists and its values are of the type of the summands.
LEMMA SumTable ==
  ASSUME NEW S, IsFiniteSet(S), NEW V, 0 \in V, \A x, y \in V : x + y \in V, NEW f \in [S -> V]
  PROVE  \E iter \in [SUBSET S -> V] : SumsUp(iter, f, SUBSET S)
<1> DEFINE Has(k) == \E iter \in [UpToSize(S, k) -> V] : SumsUp(iter, f, UpToSize(S, k))
           T == {k \in Nat : Has(k)}
<1>1. 0 \in T
  <2> DEFINE g == [s \in UpToSize(S, 0) |-> 0]
  <2>1. g \in [UpToSize(S, 0) -> V]
    OBVIOUS
  <2>2. ASSUME NEW s \in UpToSize(S, 0) PROVE s = {}
    <3>1. s \in SUBSET S /\ Cardinality(s) <= 0
      BY DEF UpToSize
    <3>2. IsFiniteSet(s)
      BY <3>1, FS_Subset
    <3>3. Cardinality(s) \in Nat
      BY <3>2, FS_CardinalityType
    <3>4. Cardinality(s) = 0
      BY <3>1, <3>3
    <3> QED BY <3>2, <3>4, FS_EmptySet
  <2>3. SumsUp(g, f, UpToSize(S, 0))
    BY <2>2 DEF SumsUp
  <2> HIDE DEF g
  <2>4. Has(0)
    BY <2>1, <2>3
  <2> HIDE DEF Has
  <2> QED BY <2>4
<1>2. ASSUME NEW k \in Nat, k \in T PROVE k+1 \in T
  <2>0. Has(k)
    <3> HIDE DEF Has
    <3> QED BY <1>2
  <2>1. PICK h \in [UpToSize(S, k) -> V] : SumsUp(h, f, UpToSize(S, k))
    BY <2>0
  <2> DEFINE g == [s \in UpToSize(S, k+1) |-> IF s = {} THEN 0 ELSE f[Some(s)] + h[s \ {Some(s)}]]
  <2>2. g \in [UpToSize(S, k+1) -> V]
    <3>1. ASSUME NEW s \in UpToSize(S, k+1), s # {} PROVE f[Some(s)] + h[s \ {Some(s)}] \in V
      <4>1. Some(s) \in S /\ s \ {Some(s)} \in UpToSize(S, k)
        BY <3>1, DropOne
      <4>2. f[Some(s)] \in V /\ h[s \ {Some(s)}] \in V
        BY <4>1
      <4> QED BY <4>2
    <3> QED BY <3>1
  <2>3. ASSUME NEW s \in UpToSize(S, k) PROVE s \in UpToSize(S, k+1) /\ g[s] = h[s]
    <3>1. s \in UpToSize(S, k+1)
      <4>1. s \in SUBSET S /\ Cardinality(s) <= k
        BY DEF UpToSize
      <4>2. IsFiniteSet(s)
        BY <4>1, FS_Subset
      <4>3. Cardinality(s) \in Nat
        BY <4>2, FS_CardinalityType
      <4> QED BY <4>1, <4>3 DEF UpToSize
    <3>2. h[s] = IF s = {} THEN 0 ELSE f[Some(s)] + h[s \ {Some(s)}]
      BY <2>1 DEF SumsUp
    <3> QED BY <3>1, <3>2
  <2>4. SumsUp(g, f, UpToSize(S, k+1))
    <3> SUFFICES ASSUME NEW s \in UpToSize(S, k+1)
                 PROVE  g[s] = IF s = {} THEN 0 ELSE f[Some(s)] + g[s \ {Some(s)}]
      BY DEF SumsUp
    <3>1. CASE s = {}
      BY <3>1
    <3>2. CASE s # {}
      <4>1. s \ {Some(s)} \in UpToSize(S, k)
        BY <3>2, DropOne
      <4>2. g[s \ {Some(s)}] = h[s \ {Some(s)}]
        BY <2>3, <4>1
      <4>3. g[s] = f[Some(s)] + h[s \ {Some(s)}]
        BY <3>2
      <4> HIDE DEF g
      <4> QED BY <3>2, <4>2, <4>3
    <3> QED BY <3>1, <3>2
  <2> HIDE DEF g
  <2>5. Has(k+1)
    BY <2>2, <2>4
  <2> HIDE DEF Has
  <2> QED BY <2>5
<1>3. \A k \in Nat : k \in T
  <2> HIDE DEF T
  <2> QED BY <1>1, <1>2, NatSetInduction
<1>4. Has(Cardinality(S))
  <2>1. Cardinality(S) \in Nat
    BY FS_CardinalityType
  <2> HIDE DEF Has
  <2> QED BY <1>3, <2>1
<1>5. UpToSize(S, Cardinality(S)) = SUBSET S
  <2>1. ASSUME NEW s \in SUBSET S PROVE Cardinality(s) <= Cardinality(S)
    BY FS_Subset
  <2> QED BY <2>1 DEF UpToSize
<1> QED BY <1>4, <1>5

\* The values of any such table are of the type of the summands.
LEMMA SumType ==
  ASSUME NEW S, IsFiniteSet(S), NEW V, 0 \in V, \A x, y \in V : x + y \in V, NEW f \in [S -> V],
         NEW iter, SumsUp(iter, f, SUBSET S)
  PROVE  iter[S] \in V
<1> DEFINE T == {k \in Nat : \A s \in UpToSize(S, k) : iter[s] \in V}
<1>0. \A k \in Nat : \A s \in UpToSize(S, k) : s \in SUBSET S
  BY DEF UpToSize
<1>1. 0 \in T
  <2> SUFFICES ASSUME NEW s \in UpToSize(S, 0) PROVE iter[s] \in V
    OBVIOUS
  <2>1. s \in SUBSET S /\ Cardinality(s) <= 0
    BY DEF UpToSize
  <2>2. IsFiniteSet(s)
    BY <2>1, FS_Subset
  <2>3. Cardinality(s) \in Nat
    BY <2>2, FS_CardinalityType
  <2>4. s = {}
    <3>1. Cardinality(s) = 0
      BY <2>1, <2>3
    <3> QED BY <2>2, <3>1, FS_EmptySet
  <2> QED BY <2>1, <2>4 DEF SumsUp
<1>2. ASSUME NEW k \in Nat, k \in T PROVE k+1 \in T
  <2> SUFFICES ASSUME NEW s \in UpToSize(S, k+1) PROVE iter[s] \in V
    OBVIOUS
  <2>1. iter[s] = IF s = {} THEN 0 ELSE f[Some(s)] + iter[s \ {Some(s)}]
    <3>1. s \in SUBSET S
      BY DEF UpToSize
    <3> QED BY <3>1 DEF SumsUp
  <2>2. CASE s = {}
    BY <2>1, <2>2
  <2>3. CASE s # {}
    <3>1. Some(s) \in S /\ s \ {Some(s)} \in UpToSize(S, k)
      BY <2>3, DropOne
    <3>2. f[Some(s)] \in V /\ iter[s \ {Some(s)}] \in V
      BY <1>2, <3>1
    <3> QED BY <2>1, <2>3, <3>2
  <2> QED BY <2>2, <2>3
<1>3. \A k \in Nat : k \in T
  <2> HIDE DEF T
  <2> QED BY <1>1, <1>2, NatSetInduction
<1>4. Cardinality(S) \in Nat /\ S \in UpToSize(S, Cardinality(S))
  BY FS_CardinalityType DEF UpToSize
<1> QED BY <1>3, <1>4


\* A sum is taken from such a table.
LEMMA SumHasTable ==
  ASSUME NEW S, IsFiniteSet(S), NEW V, 0 \in V, \A x, y \in V : x + y \in V,
         NEW f, \A x \in S : f[x] \in V
  PROVE  \E iter : SumsUp(iter, f, SUBSET S) /\ SumFunctionOnSet(f, S) = iter[S]
<1> DEFINE g == [x \in S |-> f[x]]
           Is(iter) == iter = [s \in SUBSET S |->
                                IF s = {} THEN 0
                                ELSE LET x == CHOOSE x \in s : TRUE IN f[x] + iter[s \ {x}]]
           it == CHOOSE iter : Is(iter)
<1>1. g \in [S -> V]
  OBVIOUS
<1>2. PICK h \in [SUBSET S -> V] : SumsUp(h, g, SUBSET S)
  <2> HIDE DEF g
  <2> QED BY <1>1, SumTable
<1>3. \A s \in SUBSET S : s # {} => Some(s) \in S /\ g[Some(s)] = f[Some(s)]
  BY DEF Some
<1>4. Is(h)
  <2>1. \A s \in SUBSET S : h[s] = IF s = {} THEN 0 ELSE f[Some(s)] + h[s \ {Some(s)}]
    BY <1>2, <1>3 DEF SumsUp
  <2>2. h = [s \in SUBSET S |-> IF s = {} THEN 0 ELSE f[Some(s)] + h[s \ {Some(s)}]]
    BY <2>1
  <2> QED BY <2>2 DEF Some
<1>5. Is(it)
  <2> HIDE DEF Is
  <2> QED BY <1>4
<1>6. \A s \in SUBSET S : it[s] = IF s = {} THEN 0 ELSE f[Some(s)] + it[s \ {Some(s)}]
  <2> HIDE DEF it
  <2> QED BY <1>5 DEF Some
<1>7. SumFunctionOnSet(f, S) = it[S]
  BY DEF SumFunctionOnSet, FoldFunctionOnSet, MapThenFoldSet
<1> HIDE DEF it
<1> QED BY <1>6, <1>7 DEF SumsUp

\* A sum is of the type of the summands, when that type is closed under addition.
LEMMA SumIs ==
  ASSUME NEW S, IsFiniteSet(S), NEW V, 0 \in V, \A x, y \in V : x + y \in V,
         NEW f, \A x \in S : f[x] \in V
  PROVE  SumFunctionOnSet(f, S) \in V
<1> DEFINE g == [x \in S |-> f[x]]
<1>1. PICK it : SumsUp(it, f, SUBSET S) /\ SumFunctionOnSet(f, S) = it[S]
  BY SumHasTable
<1>2. g \in [S -> V] /\ \A s \in SUBSET S : s # {} => g[Some(s)] = f[Some(s)]
  BY DEF Some
<1> HIDE DEF g
<1>3. SumsUp(it, g, SUBSET S)
  BY <1>1, <1>2 DEF SumsUp
<1> QED BY <1>1, <1>2, <1>3, SumType

\* A sum of naturals is no less than any of them.
LEMMA SumAtLeast ==
  ASSUME NEW S, IsFiniteSet(S), NEW f, \A y \in S : f[y] \in Nat, NEW x \in S
  PROVE  SumFunctionOnSet(f, S) \in Nat /\ SumFunctionOnSet(f, S) >= f[x]
<1>1. PICK it : SumsUp(it, f, SUBSET S) /\ SumFunctionOnSet(f, S) = it[S]
  <2>1. 0 \in Nat /\ \A m, n \in Nat : m + n \in Nat
    OBVIOUS
  <2> QED BY <2>1, SumHasTable
<1> DEFINE Enough(s) == it[s] \in Nat /\ (x \in s => it[s] >= f[x])
           T == {k \in Nat : \A s \in UpToSize(S, k) : Enough(s)}
<1>2. \A s \in SUBSET S : it[s] = IF s = {} THEN 0 ELSE f[Some(s)] + it[s \ {Some(s)}]
  BY <1>1 DEF SumsUp
<1>3. Enough({})
  BY <1>2
<1>4. ASSUME NEW k \in Nat, \A s \in UpToSize(S, k) : Enough(s), NEW s \in UpToSize(S, k+1), s # {}
      PROVE  Enough(s)
  <2>1. Some(s) \in S /\ Some(s) \in s /\ s \ {Some(s)} \in UpToSize(S, k)
    BY <1>4, DropOne
  <2>2. Enough(s \ {Some(s)})
    BY <1>4, <2>1
  <2>3. it[s] = f[Some(s)] + it[s \ {Some(s)}]
    <3>1. s \in SUBSET S
      BY DEF UpToSize
    <3> QED BY <1>2, <1>4, <3>1
  <2>4. f[Some(s)] \in Nat /\ f[x] \in Nat
    BY <2>1
  <2>5. x \in s => x = Some(s) \/ x \in s \ {Some(s)}
    OBVIOUS
  <2> QED BY <2>2, <2>3, <2>4, <2>5
<1> HIDE DEF Enough
<1>5. 0 \in T
  <2>1. ASSUME NEW s \in UpToSize(S, 0) PROVE s = {}
    <3>1. s \in SUBSET S /\ Cardinality(s) <= 0
      BY DEF UpToSize
    <3>2. IsFiniteSet(s)
      BY <3>1, FS_Subset
    <3>3. Cardinality(s) \in Nat
      BY <3>2, FS_CardinalityType
    <3>4. Cardinality(s) = 0
      BY <3>1, <3>3
    <3> QED BY <3>2, <3>4, FS_EmptySet
  <2> QED BY <1>3, <2>1
<1>6. ASSUME NEW k \in Nat, k \in T PROVE k+1 \in T
  <2>1. \A s \in UpToSize(S, k) : Enough(s)
    BY <1>6
  <2>2. \A s \in UpToSize(S, k+1) : Enough(s)
    BY <1>3, <1>4, <2>1
  <2> QED BY <2>2
<1>7. \A k \in Nat : k \in T
  <2> HIDE DEF T
  <2> QED BY <1>5, <1>6, NatSetInduction
<1>8. Cardinality(S) \in Nat /\ S \in UpToSize(S, Cardinality(S))
  BY FS_CardinalityType DEF UpToSize
<1>9. Enough(S)
  BY <1>7, <1>8
<1> QED BY <1>1, <1>9 DEF Enough

\* A sum of one number is that number.
LEMMA SumOfOne ==
  ASSUME NEW x, NEW f, f[x] \in Nat
  PROVE  SumFunctionOnSet(f, {x}) = f[x]
<1>1. IsFiniteSet({x})
  BY FS_Singleton
<1>2. PICK it : SumsUp(it, f, SUBSET {x}) /\ SumFunctionOnSet(f, {x}) = it[{x}]
  <2>1. 0 \in Nat /\ \A m, n \in Nat : m + n \in Nat
    OBVIOUS
  <2> QED BY <1>1, <2>1, SumHasTable
<1>3. Some({x}) = x /\ {x} \ {x} = {}
  BY DEF Some
<1>4. it[{}] = 0 /\ it[{x}] = f[x] + it[{}]
  BY <1>2, <1>3 DEF SumsUp
<1> QED BY <1>2, <1>4

(***************************************************************************)
(* A finite set of integers in ascending order.                            *)
(***************************************************************************)
LEMMA AscendingIs ==
  ASSUME NEW S, IsFiniteSet(S), S \subseteq Int
  PROVE  /\ Cardinality(S) \in Nat /\ DOMAIN Ascending(S) = 1..Cardinality(S)
         /\ \A n \in 1..Cardinality(S) : Ascending(S)[n] \in S
         /\ \A m, n \in 1..Cardinality(S) : Ascending(S)[m] = Ascending(S)[n] => m = n
         /\ \A x \in S : \E n \in 1..Cardinality(S) : Ascending(S)[n] = x
         /\ \A m, n \in 1..Cardinality(S) : m < n <=> Ascending(S)[m] < Ascending(S)[n]
<1> DEFINE R == {p \in S \X S : p[1] < p[2]}
           r == Ascending(S)
<1>1. TotalOrder(R, S)
  <2>1. \A x, y \in S : <<x, y>> \in R <=> x < y
    OBVIOUS
  <2>2. \A x, y, z \in S : (x < y /\ y < z => x < z) /\ ~ (x < x) /\ (x = y \/ x < y \/ y < x)
    OBVIOUS
  <2> HIDE DEF R
  <2> QED BY <2>1, <2>2 DEF TotalOrder
<1>2. \A x \in S : {y \in S : y < x} = Below(R, S, x)
  BY DEF Below
<1>3. InOrder(r, R, S)
  <2>1. r = [n \in 1..Cardinality(S) |-> CHOOSE x \in S : Cardinality({y \in S : y < x}) = n - 1]
    BY DEF Ascending, Ordered
  <2>2. ASSUME NEW n \in 1..Cardinality(S)
        PROVE  r[n] \in S /\ Cardinality(Below(R, S, r[n])) = n - 1
    <3>1. \E x \in S : Cardinality(Below(R, S, x)) = n - 1
      <4> HIDE DEF R, r
      <4> QED BY <1>1, PlaceTaken
    <3>2. \E x \in S : Cardinality({y \in S : y < x}) = n - 1
      BY <1>2, <3>1
    <3>3. r[n] = CHOOSE x \in S : Cardinality({y \in S : y < x}) = n - 1
      BY <2>1
    <3> HIDE DEF r, R
    <3>4. r[n] \in S /\ Cardinality({y \in S : y < r[n]}) = n - 1
      BY <3>2, <3>3
    <3> QED BY <1>2, <3>4
  <2> HIDE DEF R
  <2> QED BY <2>1, <2>2 DEF InOrder
<1>4. \A x, y \in S : <<x, y>> \in R <=> x < y
  OBVIOUS
<1> HIDE DEF R
<1>5. /\ Cardinality(S) \in Nat
      /\ \A m, n \in 1..Cardinality(S) : r[m] = r[n] => m = n
      /\ \A x \in S : \E n \in 1..Cardinality(S) : r[n] = x
      /\ \A m, n \in 1..Cardinality(S) : m < n <=> <<r[m], r[n]>> \in R
  BY <1>1, <1>3, InOrderFacts
<1> QED BY <1>3, <1>4, <1>5 DEF InOrder

(***************************************************************************)
(* A sequence that lists S in the order R.                                 *)
(***************************************************************************)
Ranking(r, R, S) ==
  /\ Cardinality(S) \in Nat /\ DOMAIN r = 1..Cardinality(S)
  /\ \A n \in 1..Cardinality(S) : r[n] \in S
  /\ \A m, n \in 1..Cardinality(S) : r[m] = r[n] => m = n
  /\ \A x \in S : \E n \in 1..Cardinality(S) : r[n] = x
  /\ \A m, n \in 1..Cardinality(S) : m < n <=> <<r[m], r[n]>> \in R

\* SetToSeq lists every element once.
LEMMA SetToSeqIs ==
  ASSUME NEW S, IsFiniteSet(S)
  PROVE  /\ Cardinality(S) \in Nat /\ DOMAIN SetToSeq(S) = 1..Cardinality(S)
         /\ SetToSeq(S) \in [1..Cardinality(S) -> S]
         /\ \A m, n \in 1..Cardinality(S) : SetToSeq(S)[m] = SetToSeq(S)[n] => m = n
         /\ \A x \in S : \E n \in 1..Cardinality(S) : SetToSeq(S)[n] = x
<1> DEFINE N == Cardinality(S)
           s == SetToSeq(S)
<1>1. N \in Nat /\ \E f \in Bijection(1..N, S) : TRUE
  BY FS_CardinalityType DEF ExistsBijection
<1>2. PICK f \in Bijection(1..N, S) : TRUE
  BY <1>1
<1>3. f \in [1..N -> S] /\ IsInjective(f)
  BY <1>2 DEF Bijection, Injection
<1>4. s = CHOOSE g \in [1..N -> S] : IsInjective(g)
  BY DEF SetToSeq
<1> HIDE DEF s, N
<1>5. s \in [1..N -> S] /\ IsInjective(s)
  BY <1>3, <1>4
<1>6. IsFiniteSet(1..N) /\ Cardinality(1..N) = N
  <2>1. N \in Int /\ 1 \in Int
    BY <1>1
  <2>2. IsFiniteSet(1..N) /\ Cardinality(1..N) = IF 1 > N THEN 0 ELSE N - 1 + 1
    BY ONLY <2>1, FS_Interval
  <2> QED BY <1>1, <2>2
<1>7. s \in Surjection(1..N, S)
  <2>1. s \in Injection(1..N, S)
    BY <1>5 DEF Injection
  <2>2. Cardinality(1..N) = Cardinality(S)
    BY <1>6 DEF N
  <2> QED BY <2>1, <2>2, FS_Injection
<1>8. \A x \in S : \E n \in 1..N : s[n] = x
  BY <1>7 DEF Surjection
<1> QED BY <1>1, <1>5, <1>8 DEF IsInjective, s, N

\* o has the places 1..N of s in the order R of what stands there, and r what stands there.
Placed(r, o, s, R, N) ==
  /\ o = [n \in 1..N |-> CHOOSE x \in 1..N : Cardinality({y \in 1..N : <<s[y], s[x]>> \in R}) = n - 1]
  /\ r = [n \in 1..N |-> s[o[n]]]

\* The places of a listed set, in the order of the elements that stand there.
LEMMA ListedInOrder ==
  ASSUME NEW S, NEW R, IsFiniteSet(S), TotalOrder(R, S), NEW s, s = SetToSeq(S), NEW o,
         NEW N, N = Cardinality(S), NEW r, Placed(r, o, s, R, N)
  PROVE  Ranking(r, R, S)
<1> DEFINE D == 1..N
           Q == {p \in D \X D : <<s[p[1]], s[p[2]]>> \in R}
<1>1. /\ N \in Nat /\ \A n \in D : s[n] \in S
      /\ \A m, n \in D : s[m] = s[n] => m = n
      /\ \A x \in S : \E n \in D : s[n] = x
  BY SetToSeqIs
<1>2. IsFiniteSet(D) /\ Cardinality(D) = N
  <2>1. N \in Int /\ 1 \in Int
    BY <1>1
  <2>2. IsFiniteSet(1..N) /\ Cardinality(1..N) = IF 1 > N THEN 0 ELSE N - 1 + 1
    BY ONLY <2>1, FS_Interval
  <2> QED BY <1>1, <2>2
<1>3. \A x, y \in D : <<x, y>> \in Q <=> <<s[x], s[y]>> \in R
  OBVIOUS
<1>4. o = [n \in D |-> CHOOSE x \in D : Cardinality({y \in D : <<s[y], s[x]>> \in R}) = n - 1]
      /\ r = [n \in D |-> s[o[n]]]
  BY DEF Placed
<1> HIDE DEF Q, D
<1>5. TotalOrder(Q, D)
  <2>1. \A x \in D : <<x, x>> \notin Q
    BY <1>1, <1>3 DEF TotalOrder
  <2>2. ASSUME NEW x \in D, NEW y \in D, NEW z \in D, <<x, y>> \in Q, <<y, z>> \in Q
        PROVE  <<x, z>> \in Q
    <3>1. <<s[x], s[y]>> \in R /\ <<s[y], s[z]>> \in R
      BY <1>3, <2>2
    <3>2. <<s[x], s[z]>> \in R
      BY <1>1, <3>1 DEF TotalOrder
    <3> QED BY <1>3, <3>2
  <2>3. ASSUME NEW x \in D, NEW y \in D PROVE x = y \/ <<x, y>> \in Q \/ <<y, x>> \in Q
    <3>1. s[x] = s[y] \/ <<s[x], s[y]>> \in R \/ <<s[y], s[x]>> \in R
      BY <1>1 DEF TotalOrder
    <3> QED BY <1>1, <1>3, <3>1
  <2> QED BY <2>1, <2>2, <2>3 DEF TotalOrder
<1>6. \A x \in D : {y \in D : <<s[y], s[x]>> \in R} = Below(Q, D, x)
  BY <1>3 DEF Below
<1>7. InOrder(o, Q, D)
  <2>1. ASSUME NEW n \in D PROVE o[n] \in D /\ Cardinality(Below(Q, D, o[n])) = n - 1
    <3>1. n \in 1..Cardinality(D)
      BY <1>2 DEF D
    <3>2. \E x \in D : Cardinality(Below(Q, D, x)) = n - 1
      BY <1>2, <1>5, <3>1, PlaceTaken
    <3>3. \E x \in D : Cardinality({y \in D : <<s[y], s[x]>> \in R}) = n - 1
      BY <1>6, <3>2
    <3>4. o[n] = CHOOSE x \in D : Cardinality({y \in D : <<s[y], s[x]>> \in R}) = n - 1
      BY <1>4
    <3>5. o[n] \in D /\ Cardinality({y \in D : <<s[y], s[o[n]]>> \in R}) = n - 1
      BY <3>3, <3>4
    <3> QED BY <1>6, <3>5
  <2>2. DOMAIN o = 1..Cardinality(D)
    BY <1>2, <1>4 DEF D
  <2>3. 1..Cardinality(D) = D
    BY <1>2 DEF D
  <2> QED BY <2>1, <2>2, <2>3 DEF InOrder
<1>8. /\ \A n \in D : o[n] \in D
      /\ \A m, n \in D : o[m] = o[n] => m = n
      /\ \A x \in D : \E n \in D : o[n] = x
      /\ \A m, n \in D : m < n <=> <<o[m], o[n]>> \in Q
  <2>1. 1..Cardinality(D) = D
    BY <1>2 DEF D
  <2>2. /\ \A m, n \in 1..Cardinality(D) : o[m] = o[n] => m = n
        /\ \A x \in D : \E n \in 1..Cardinality(D) : o[n] = x
        /\ \A m, n \in 1..Cardinality(D) : m < n <=> <<o[m], o[n]>> \in Q
    BY <1>2, <1>5, <1>7, InOrderFacts
  <2> QED BY <1>7, <2>1, <2>2 DEF InOrder
<1>9. DOMAIN r = D /\ \A n \in D : r[n] = s[o[n]] /\ r[n] \in S
  BY <1>1, <1>4, <1>8
<1>10. /\ \A m, n \in D : s[m] = s[n] => m = n
       /\ \A x \in S : \E n \in D : s[n] = x
  BY <1>1
<1>11. ASSUME NEW m \in D, NEW n \in D
       PROVE  /\ r[m] = r[n] => m = n
              /\ m < n <=> <<r[m], r[n]>> \in R
  <2>1. o[m] \in D /\ o[n] \in D /\ r[m] = s[o[m]] /\ r[n] = s[o[n]]
    BY <1>8, <1>9
  <2>2. r[m] = r[n] => o[m] = o[n]
    <3> SUFFICES ASSUME r[m] = r[n] PROVE o[m] = o[n]
      OBVIOUS
    <3>1. s[o[m]] = s[o[n]]
      BY ONLY <2>1, r[m] = r[n]
    <3>2. \A x, y \in D : s[x] = s[y] => x = y
      BY ONLY <1>10
    <3> QED BY ONLY <2>1, <3>1, <3>2
  <2>3. m < n <=> <<o[m], o[n]>> \in Q
    BY <1>8
  <2>4. o[m] = o[n] => m = n
    BY ONLY <1>8, m \in D, n \in D
  <2>5. <<o[m], o[n]>> \in Q <=> <<r[m], r[n]>> \in R
    BY <1>3, <2>1
  <2> QED BY ONLY <2>2, <2>3, <2>4, <2>5
<1>12. ASSUME NEW x \in S PROVE \E n \in D : r[n] = x
  <2>1. PICK j \in D : s[j] = x
    BY <1>10
  <2>2. PICK n \in D : o[n] = j
    BY <1>8
  <2> QED BY <1>9, <2>1, <2>2
<1>13. /\ N \in Nat /\ DOMAIN r = D /\ \A n \in D : r[n] \in S
       /\ \A m, n \in D : r[m] = r[n] => m = n
       /\ \A x \in S : \E n \in D : r[n] = x
       /\ \A m, n \in D : m < n <=> <<r[m], r[n]>> \in R
  BY ONLY <1>1, <1>9, <1>11, <1>12
<1>14. D = 1..Cardinality(S) /\ N = Cardinality(S)
  BY DEF D
<1> QED BY ONLY <1>13, <1>14 DEF Ranking

(***************************************************************************)
(* Where there are more elements to choose from, what stands in a place is *)
(* no later in the order.                                                  *)
(***************************************************************************)
LEMMA RankAgainst ==
  ASSUME NEW R, NEW O, IsFiniteSet(O), TotalOrder(R, O), NEW F \in SUBSET O,
         NEW f, Ranking(f, R, F), NEW a, Ranking(a, R, O)
  PROVE  /\ Cardinality(F) <= Cardinality(O)
         /\ \A i \in 1..Cardinality(F) : a[i] = f[i] \/ <<a[i], f[i]>> \in R
<1>1. Cardinality(F) <= Cardinality(O) /\ Cardinality(F) \in Nat /\ Cardinality(O) \in Nat
  BY FS_Subset DEF Ranking
<1>2. ASSUME NEW i \in 1..Cardinality(F), <<f[i], a[i]>> \in R PROVE FALSE
  <2> DEFINE p == [j \in 1..i |-> CHOOSE n \in 1..Cardinality(O) : a[n] = f[j]]
  <2>1. i \in Nat \ {0} /\ i \in 1..Cardinality(O)
    BY <1>1
  <2>2. ASSUME NEW j \in 1..i PROVE f[j] \in F /\ p[j] \in 1..Cardinality(O) /\ a[p[j]] = f[j]
    <3>1. j \in 1..Cardinality(F)
      BY <1>1
    <3>2. f[j] \in F
      BY <3>1 DEF Ranking
    <3>3. \E n \in 1..Cardinality(O) : a[n] = f[j]
      BY <3>2 DEF Ranking
    <3> QED BY <3>2, <3>3
  <2>3. ASSUME NEW j \in 1..i PROVE p[j] \in 1..(i - 1)
    <3>1. j \in 1..Cardinality(F)
      BY <1>1
    <3>2. j = i \/ <<f[j], f[i]>> \in R
      BY <1>1, <3>1 DEF Ranking
    <3>3. f[j] \in O /\ f[i] \in O /\ a[i] \in O
      BY <2>1, <2>2, <3>1 DEF Ranking
    <3>4. <<f[j], a[i]>> \in R
      BY <1>2, <3>2, <3>3 DEF TotalOrder
    <3>5. <<a[p[j]], a[i]>> \in R
      BY <2>2, <3>4
    <3>6. p[j] < i
      BY <2>1, <2>2, <3>5 DEF Ranking
    <3> QED BY <2>1, <2>2, <3>6
  <2>4. p \in [1..i -> 1..(i - 1)]
    BY <2>3
  <2>5. \A j, l \in 1..i : j # l => p[j] # p[l]
    <3> SUFFICES ASSUME NEW j \in 1..i, NEW l \in 1..i, p[j] = p[l] PROVE j = l
      OBVIOUS
    <3>1. f[j] = f[l]
      BY <2>2
    <3>2. j \in 1..Cardinality(F) /\ l \in 1..Cardinality(F)
      BY <1>1
    <3> QED BY <3>1, <3>2 DEF Ranking
  <2> HIDE DEF p
  <2>6. IsFiniteSet(1..i) /\ Cardinality(1..i) = i /\ IsFiniteSet(1..(i - 1)) /\ Cardinality(1..(i - 1)) = i - 1
    <3>1. i \in Int /\ 1 \in Int /\ i - 1 \in Int
      BY <2>1
    <3>2. IsFiniteSet(1..i) /\ Cardinality(1..i) = IF 1 > i THEN 0 ELSE i - 1 + 1
      BY ONLY <3>1, FS_Interval
    <3>3. IsFiniteSet(1..(i - 1)) /\ Cardinality(1..(i - 1)) = IF 1 > i - 1 THEN 0 ELSE i - 1 - 1 + 1
      BY ONLY <3>1, FS_Interval
    <3> QED BY <2>1, <3>2, <3>3
  <2>7. Cardinality(1..(i - 1)) < Cardinality(1..i)
    BY <2>1, <2>6
  <2>8. \E x, y \in 1..i : x # y /\ p[x] = p[y]
    BY ONLY <2>4, <2>6, <2>7, FS_PigeonHole
  <2> QED BY <2>5, <2>8
<1>3. ASSUME NEW i \in 1..Cardinality(F) PROVE a[i] = f[i] \/ <<a[i], f[i]>> \in R
  <2>1. f[i] \in O /\ a[i] \in O
    BY <1>1 DEF Ranking
  <2> QED BY <1>2, <2>1 DEF TotalOrder
<1> QED BY <1>1, <1>3
=============================================================================
