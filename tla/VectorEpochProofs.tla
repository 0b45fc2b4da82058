------------------------- MODULE VectorEpochProofs --------------------------
(***************************************************************************)
(* What is proved of VectorEpoch, for every set of batches and queries and *)
(* every setting of the code's constants (but for AnswersCorrect, which    *)
(* takes the code's leaf capacity): the clusters of the live epoch         *)
(* partition the documents that had a vector when it was built, whatever   *)
(* the builds split, merge, reassign and carry forward (EpochPartitioned); *)
(* no answer of a vector query is about the past (PartialSound); plans     *)
(* lose nothing (PlanSound); fusion respects its legs (FusionSound); and   *)
(* text queries, queries whose filter is resolved first and queries that   *)
(* probe all clusters are exact (TextExact, FilteredExact,                 *)
(* AnswersCorrect).                                                        *)
(*                                                                         *)
(* The proof goes up the calls of a build.  Clustering puts every point    *)
(* into one cluster and leaves none empty, reseeding the empty ones.  Each *)
(* step of Lire takes a working set that partitions some ids to one that   *)
(* partitions the ids it should: refreshing drops those that are gone,     *)
(* insertion adds one, a split and a merge move the members of one         *)
(* posting, a reassignment moves many at once.  The fold of such steps     *)
(* keeps what each of them keeps (FoldTable of DataInduction).  Then the   *)
(* invariant IInv of the specification follows: a write is in the tail     *)
(* until a build has placed it.  SnapshotInv adds what the other indexes   *)
(* were built over.                                                        *)
(*                                                                         *)
(* An answer is the beginning of the live candidates in the order of their *)
(* distance (RankedIs); the candidates have the fresh ones among them, so  *)
(* that the n-th of the answer is no farther than the n-th of the fresh    *)
(* ones (RankAgainst of DataInduction).  The postings of a document give   *)
(* the score that its text gives.  A filter that compiles gives the        *)
(* documents it matches, by induction on its parts (CompileExact), so the  *)
(* plan wants every one of them (PlanIs).  The nodes of a level of the     *)
(* centroid tree share out the clusters, each level has smaller buckets,   *)
(* and a beam as wide as the index cuts none (DescendIs, ProbeIs).         *)
(***************************************************************************)
EXTENDS VectorEpoch, DataInduction

-----------------------------------------------------------------------------
(***************************************************************************)
(* Clustering: k-means on whole numbers puts every point into one of at    *)
(* most the wanted number of clusters, none of them empty.                 *)
(***************************************************************************)

\* A function on the first numbers is a sequence.
LEMMA FunctionIsSeq ==
  ASSUME NEW X, NEW k \in Nat, NEW f \in [1..k -> X]
  PROVE  f \in Seq(X) /\ Len(f) = k /\ DOMAIN f = 1..k
  OBVIOUS

\* The larger and the smaller of two numbers.
LEMMA OfTwo ==
  ASSUME NEW a \in Int, NEW b \in Int
  PROVE  /\ Max({a, b}) = IF a >= b THEN a ELSE b
         /\ Min({a, b}) = IF a <= b THEN a ELSE b
<1>1. \E x \in {a, b} : \A y \in {a, b} : x >= y
  OBVIOUS
<1>2. \E x \in {a, b} : \A y \in {a, b} : x <= y
  OBVIOUS
<1>3. Max({a, b}) \in {a, b} /\ \A y \in {a, b} : Max({a, b}) >= y
  BY <1>1 DEF Max
<1>4. Min({a, b}) \in {a, b} /\ \A y \in {a, b} : Min({a, b}) <= y
  BY <1>2 DEF Min
<1> QED BY <1>3, <1>4

\* The first of the elements at the least distance.
LEMMA FirstNearest ==
  ASSUME NEW S, S \subseteq Nat, S # {}, NEW d, \A x \in S : d[x] \in Nat
  PROVE  \E c \in S : \A e \in S : d[c] < d[e] \/ (d[c] = d[e] /\ c <= e)
<1> DEFINE D == {d[x] : x \in S}
<1>1. D \subseteq Nat /\ D # {}
  OBVIOUS
<1>2. PICK m \in D : \A e \in D : m <= e
  BY <1>1, Least
<1> DEFINE C == {x \in S : d[x] = m}
<1>3. C \subseteq Nat /\ C # {}
  BY <1>2
<1>4. PICK c \in C : \A e \in C : c <= e
  BY <1>3, Least
<1>5. c \in S /\ d[c] = m /\ m \in Nat
  BY <1>1, <1>4
<1>6. ASSUME NEW e \in S PROVE d[c] < d[e] \/ (d[c] = d[e] /\ c <= e)
  <2>1. m <= d[e] /\ d[e] \in Nat
    BY <1>2
  <2>2. d[e] = m => c <= e
    BY <1>4
  <2> QED BY <1>5, <2>1, <2>2
<1> QED BY <1>5, <1>6

\* The first of the indices at the greatest distance.
LEMMA FirstFarthest ==
  ASSUME NEW n \in Nat, NEW S \in SUBSET (1..n), S # {}, NEW d, \A x \in S : d[x] \in Nat
  PROVE  \E c \in S : \A e \in S : d[e] < d[c] \/ (d[e] = d[c] /\ c <= e)
<1> DEFINE Far(s) == \E c \in s : \A e \in s : d[e] < d[c] \/ (d[e] = d[c] /\ c <= e)
           T == {k \in Nat : \A s \in SUBSET (1..k) : s \subseteq S /\ s # {} => Far(s)}
<1>1. 0 \in T
  <2>1. 1..0 = {}
    OBVIOUS
  <2>2. \A s \in SUBSET (1..0) : s = {}
    BY <2>1
  <2> HIDE DEF Far
  <2> QED BY <2>2
<1>2. ASSUME NEW k \in Nat, k \in T PROVE k+1 \in T
  <2> SUFFICES ASSUME NEW s \in SUBSET (1..k+1), s \subseteq S, s # {} PROVE Far(s)
    OBVIOUS
  <2> DEFINE r == s \ {k+1}
  <2>1. r \in SUBSET (1..k) /\ r \subseteq S
    OBVIOUS
  <2>2. CASE k+1 \notin s
    <3>1. s = r
      BY <2>2
    <3> HIDE DEF Far
    <3> QED BY <1>2, <2>1, <3>1
  <2>3. CASE k+1 \in s /\ r = {}
    <3>1. s = {k+1} /\ d[k+1] \in Nat
      BY <2>3
    <3> QED BY <3>1
  <2>4. CASE k+1 \in s /\ r # {}
    <3>1. Far(r)
      <4> HIDE DEF Far
      <4> QED BY <1>2, <2>1, <2>4
    <3>2. PICK c \in r : \A e \in r : d[e] < d[c] \/ (d[e] = d[c] /\ c <= e)
      BY <3>1
    <3>3. \A e \in s : e \in r \/ e = k+1
      OBVIOUS
    <3>4. \A e \in s : d[e] \in Nat /\ e \in Nat /\ e <= k+1
      OBVIOUS
    <3>5. c \in s /\ k+1 \in s
      BY <2>4
    <3> HIDE DEF r
    <3>6. CASE d[k+1] <= d[c]
      <4>1. \A e \in s : d[e] < d[c] \/ (d[e] = d[c] /\ c <= e)
        BY <3>2, <3>3, <3>4, <3>5, <3>6
      <4> QED BY <3>5, <4>1
    <3>7. CASE ~ (d[k+1] <= d[c])
      <4>1. \A e \in s : d[e] < d[k+1] \/ (d[e] = d[k+1] /\ k+1 <= e)
        BY <3>2, <3>3, <3>4, <3>5, <3>7
      <4> QED BY <3>5, <4>1
    <3> QED BY <3>6, <3>7
  <2> HIDE DEF Far
  <2> QED BY <2>2, <2>3, <2>4
<1>3. \A k \in Nat : k \in T
  <2> HIDE DEF T
  <2> QED BY <1>1, <1>2, NatSetInduction
<1> QED BY <1>3
\* A distance is a natural number.
LEMMA DistanceNat ==
  ASSUME NEW a \in Int, NEW b \in Int
  PROVE  Distance(a, b) \in Nat
  BY DEF Distance

\* The mean of some integers is an integer.
LEMMA MeanInt ==
  ASSUME NEW I, IsFiniteSet(I), I # {}, NEW p, \A i \in I : p[i] \in Int
  PROVE  MeanOf(p, I) \in Int
<1>1. SumFunctionOnSet(p, I) \in Int
  <2>1. 0 \in Int /\ \A x, y \in Int : x + y \in Int
    OBVIOUS
  <2> QED BY <2>1, SumIs
<1>2. Cardinality(I) \in Nat /\ Cardinality(I) # 0
  BY FS_CardinalityType, FS_EmptySet
<1> QED BY <1>1, <1>2 DEF MeanOf

\* The states of a k-means over n points with k centroids.
KState(n, k) == [centroids : [1..k -> Int], assign : [1..n -> 1..k], done : BOOLEAN]

\* The points assigned to a centroid are a finite set of points.
LEMMA InClusterIs ==
  ASSUME NEW n \in Nat, NEW k \in Nat, NEW a \in [1..n -> 1..k], NEW c
  PROVE  InCluster(a, c) \in SUBSET (1..n) /\ IsFiniteSet(InCluster(a, c))
<1>1. InCluster(a, c) \in SUBSET (1..n)
  BY DEF InCluster
<1>2. IsFiniteSet(1..n)
  BY FS_Interval
<1> QED BY <1>1, <1>2, FS_Subset

\* Each point is assigned to one of the centroids.
LEMMA AssignPointsType ==
  ASSUME NEW n \in Nat, NEW k \in Nat \ {0}, NEW p \in [1..n -> Int], NEW z \in [1..k -> Int]
  PROVE  AssignPoints(p, z) \in [1..n -> 1..k]
<1> DEFINE Is(i, c) ==
             \A d \in DOMAIN z :
               LET dc == Distance(p[i], z[c])
                   dd == Distance(p[i], z[d])
               IN  dc < dd \/ (dc = dd /\ c <= d)
<1>1. AssignPoints(p, z) = [i \in DOMAIN p |-> CHOOSE c \in DOMAIN z : Is(i, c)]
  BY DEF AssignPoints
<1>2. ASSUME NEW i \in 1..n PROVE \E c \in 1..k : Is(i, c)
  <2> DEFINE d == [c \in 1..k |-> Distance(p[i], z[c])]
  <2>1. \A c \in 1..k : d[c] \in Nat
    BY DistanceNat
  <2>2. 1..k \subseteq Nat /\ 1 \in 1..k
    OBVIOUS
  <2>3. \E c \in 1..k : \A e \in 1..k : d[c] < d[e] \/ (d[c] = d[e] /\ c <= e)
    <3> HIDE DEF d
    <3> QED BY <2>1, <2>2, FirstNearest
  <2> QED BY <2>3
<1> HIDE DEF Is
<1> QED BY <1>1, <1>2

\* Recomputed centroids are numbers: the means of their points, or what they were.
LEMMA RecomputeType ==
  ASSUME NEW n \in Nat, NEW k \in Nat, NEW p \in [1..n -> Int], NEW a \in [1..n -> 1..k],
         NEW z \in [1..k -> Int]
  PROVE  RecomputeCentroids(p, a, z) \in [1..k -> Int]
<1>1. ASSUME NEW c \in 1..k PROVE (IF InCluster(a, c) = {} THEN z[c] ELSE MeanOf(p, InCluster(a, c))) \in Int
  <2>1. CASE InCluster(a, c) # {}
    <3>1. IsFiniteSet(InCluster(a, c)) /\ \A i \in InCluster(a, c) : p[i] \in Int
      BY InClusterIs
    <3>2. MeanOf(p, InCluster(a, c)) \in Int
      BY <2>1, <3>1, MeanInt
    <3> QED BY <2>1, <3>2
  <2> QED BY <2>1
<1> QED BY <1>1 DEF RecomputeCentroids
\* A set has more than one member when two of them differ, and then always.
LEMMA MoreThanOne ==
  ASSUME NEW S, IsFiniteSet(S), NEW x \in S
  PROVE  Cardinality(S) > 1 <=> \E y \in S : y # x
<1>1. IsFiniteSet(S \ {x}) /\ Cardinality(S \ {x}) = Cardinality(S) - 1
  BY FS_RemoveElement
<1>2. Cardinality(S \ {x}) = 0 <=> S \ {x} = {}
  BY <1>1, FS_EmptySet
<1>3. Cardinality(S) \in Nat /\ Cardinality(S \ {x}) \in Nat
  BY <1>1, FS_CardinalityType
<1>4. Cardinality(S) > 1 <=> S \ {x} # {}
  BY <1>1, <1>2, <1>3
<1> QED BY <1>4

(***************************************************************************)
(* With no more clusters than points an empty cluster always finds a point *)
(* that its own cluster can spare; no cluster loses its last point.        *)
(***************************************************************************)
LEMMA SpareExists ==
  ASSUME NEW n \in Nat, NEW k \in Nat, k <= n, NEW a \in [1..n -> 1..k], NEW c \in 1..k,
         InCluster(a, c) = {}
  PROVE  \E x \in 1..n : Cardinality(InCluster(a, a[x])) > 1
<1> DEFINE T == (1..k) \ {c}
<1>1. IsFiniteSet(1..n) /\ Cardinality(1..n) = n
  <2>1. 1 \in Int /\ n \in Int
    OBVIOUS
  <2>2. IsFiniteSet(1..n) /\ Cardinality(1..n) = IF 1 > n THEN 0 ELSE n - 1 + 1
    BY <2>1, FS_Interval
  <2> QED BY <2>2
<1>2. IsFiniteSet(T) /\ Cardinality(T) = k - 1
  <2>1. 1 \in Int /\ k \in Int
    OBVIOUS
  <2>2. IsFiniteSet(1..k) /\ Cardinality(1..k) = IF 1 > k THEN 0 ELSE k - 1 + 1
    BY <2>1, FS_Interval
  <2>3. IsFiniteSet(T) /\ Cardinality(T) = Cardinality(1..k) - 1
    BY <2>2, FS_RemoveElement
  <2> QED BY <2>2, <2>3
<1>3. a \in [1..n -> T]
  BY DEF InCluster
<1>4. Cardinality(T) < Cardinality(1..n)
  BY <1>1, <1>2
<1> HIDE DEF T
<1>5. PICK x \in 1..n, y \in 1..n : x # y /\ a[x] = a[y]
  BY <1>1, <1>2, <1>3, <1>4, FS_PigeonHole
<1>6. x \in InCluster(a, a[x]) /\ y \in InCluster(a, a[x])
  BY <1>5 DEF InCluster
<1>7. IsFiniteSet(InCluster(a, a[x]))
  BY InClusterIs
<1>8. Cardinality(InCluster(a, a[x])) > 1
  BY <1>5, <1>6, <1>7, MoreThanOne
<1> QED BY <1>8

\* Reseeding fills its cluster and empties none.
LEMMA ReseededIs ==
  ASSUME NEW n \in Nat, NEW k \in Nat, k <= n, NEW p \in [1..n -> Int],
         NEW s \in KState(n, k), NEW c \in 1..k
  PROVE  /\ Reseeded(p, s, c) \in KState(n, k)
         /\ InCluster(Reseeded(p, s, c).assign, c) # {}
         /\ \A d \in 1..k : InCluster(s.assign, d) # {} =>
              InCluster(Reseeded(p, s, c).assign, d) # {}
<1> DEFINE a == s.assign
           spare == {i \in DOMAIN p : Cardinality(InCluster(a, a[i])) > 1}
           Own(i) == Distance(p[i], s.centroids[a[i]])
           far == CHOOSE i \in spare :
                    \A j \in spare : Own(j) < Own(i) \/ (Own(j) = Own(i) /\ i <= j)
           t == [centroids |-> [s.centroids EXCEPT ![c] = p[far]],
                 assign |-> [s.assign EXCEPT ![far] = c], done |-> s.done]
<1>1. Reseeded(p, s, c) = IF InCluster(a, c) # {} THEN s ELSE t
  BY DEF Reseeded
<1>2. a \in [1..n -> 1..k] /\ s.centroids \in [1..k -> Int] /\ s.done \in BOOLEAN
  BY DEF KState
<1>3. CASE InCluster(a, c) # {}
  BY <1>1, <1>3
<1>4. CASE InCluster(a, c) = {}
  <2>1. spare \in SUBSET (1..n) /\ spare # {}
    <3>1. \E x \in 1..n : Cardinality(InCluster(a, a[x])) > 1
      <4> HIDE DEF a
      <4> QED BY <1>2, <1>4, SpareExists
    <3> QED BY <3>1
  <2>2. \E i \in spare : \A j \in spare : Own(j) < Own(i) \/ (Own(j) = Own(i) /\ i <= j)
    <3> DEFINE d == [i \in 1..n |-> Own(i)]
    <3>1. ASSUME NEW i \in spare PROVE d[i] = Own(i) /\ d[i] \in Nat
      <4>1. i \in 1..n
        BY <2>1
      <4>2. p[i] \in Int /\ s.centroids[a[i]] \in Int
        BY <4>1, <1>2
      <4> QED BY <4>1, <4>2, DistanceNat
    <3> HIDE DEF d, spare
    <3>2. \E i \in spare : \A j \in spare : d[j] < d[i] \/ (d[j] = d[i] /\ i <= j)
      BY <2>1, <3>1, FirstFarthest
    <3> QED BY <3>1, <3>2
  <2>3. far \in spare
    <3> HIDE DEF spare, Own
    <3> QED BY <2>2
  <2>4. far \in 1..n /\ Cardinality(InCluster(a, a[far])) > 1
    BY <2>1, <2>3
  <2> HIDE DEF spare, far
  <2>5. /\ t.centroids = [s.centroids EXCEPT ![c] = p[far]]
        /\ t.assign = [a EXCEPT ![far] = c]
        /\ t.done = s.done
        /\ t = [centroids |-> t.centroids, assign |-> t.assign, done |-> t.done]
    OBVIOUS
  <2>6. p[far] \in Int
    BY <2>4
  <2>7. t \in KState(n, k)
    <3>1. t.centroids \in [1..k -> Int]
      BY <2>5, <2>6, <1>2
    <3>2. t.assign \in [1..n -> 1..k]
      BY <2>5, <1>2
    <3>3. t.done \in BOOLEAN
      BY <2>5, <1>2
    <3> HIDE DEF t
    <3> QED BY <2>5, <3>1, <3>2, <3>3 DEF KState
  <2>8. \A i \in 1..n : t.assign[i] = IF i = far THEN c ELSE a[i]
    BY <1>2, <2>5
  <2>9. DOMAIN t.assign = 1..n
    BY <1>2, <2>5
  <2>10. far \in InCluster(t.assign, c)
    BY <2>4, <2>8, <2>9 DEF InCluster
  <2>11. ASSUME NEW d \in 1..k, InCluster(a, d) # {} PROVE InCluster(t.assign, d) # {}
    <3>1. PICK i \in 1..n : a[i] = d
      BY <2>11, <1>2 DEF InCluster
    <3>2. CASE i # far
      <4>1. i \in InCluster(t.assign, d)
        BY <2>8, <2>9, <3>1, <3>2 DEF InCluster
      <4> QED BY <4>1
    <3>3. CASE i = far
      <4>1. far \in InCluster(a, d) /\ IsFiniteSet(InCluster(a, d)) /\ Cardinality(InCluster(a, d)) > 1
        <5>1. IsFiniteSet(InCluster(a, d))
          <6> HIDE DEF a
          <6> QED BY <1>2, InClusterIs
        <5> QED BY <1>2, <2>4, <3>1, <3>3, <5>1 DEF InCluster
      <4>2. PICK y \in InCluster(a, d) : y # far
        BY <4>1, MoreThanOne
      <4>3. y \in 1..n /\ a[y] = d
        BY <1>2, <4>2 DEF InCluster
      <4>4. y \in InCluster(t.assign, d)
        BY <2>8, <2>9, <4>2, <4>3 DEF InCluster
      <4> QED BY <4>4
    <3> QED BY <3>2, <3>3
  <2> HIDE DEF t
  <2> QED BY <1>1, <1>4, <2>7, <2>10, <2>11
<1> QED BY <1>3, <1>4

\* The states that ReseedEmpty goes through, one for each cluster.
Reseeding(f, n, k0, p, s) ==
  /\ f[0] = s
  /\ ReseedEmpty(p, s) = f[k0]
  /\ \A k \in 0..k0 : f[k] \in KState(n, k0)
  /\ \A k \in Nat : k < k0 => f[k+1] = Reseeded(p, f[k], k+1)

\* There are such states.
LEMMA ReseedFold ==
  ASSUME NEW n \in Nat, NEW k0 \in Nat, k0 <= n, NEW p \in [1..n -> Int], NEW s \in KState(n, k0)
  PROVE  \E f : Reseeding(f, n, k0, p, s)
<1> DEFINE N == k0
           sq == Numbers(k0)
           W == KState(n, k0)
           base == s
           step == [q \in W \X (1..N) |-> Reseeded(p, q[1], q[2])]
           Is(iter) == iter = [u \in SUBSET DOMAIN sq |->
                                IF u = {} THEN base
                                ELSE LET m == Max(u) IN Reseeded(p, iter[u \ {m}], sq[m])]
           it == CHOOSE iter : Is(iter)
<1>1. N \in Nat /\ base \in W /\ DOMAIN sq = 1..N /\ \A i \in 1..N : sq[i] = i
  BY DEF Numbers
<1>2. ASSUME NEW x \in W, NEW i \in 1..N PROVE Reseeded(p, x, i) \in W
  BY ReseededIs
<1>3. step \in [W \X (1..N) -> W]
  <2> HIDE DEF W, N, base, sq
  <2> QED BY <1>2
<1> HIDE DEF W, N, base, sq
<1>4. PICK h : Folds(h, W, N, base, step)
  <2> HIDE DEF step
  <2> QED BY <1>1, <1>3, FoldTable
<1>5. ASSUME NEW u \in SUBSET (1..N), u # {} PROVE Max(u) \in 1..N /\ u \ {Max(u)} \in SUBSET (1..N)
  BY <1>1, <1>5, MaxIs
<1>6. Is(h)
  <2>1. ASSUME NEW u \in SUBSET (1..N), u # {} PROVE h[u] = Reseeded(p, h[u \ {Max(u)}], sq[Max(u)])
    <3>1. h[u \ {Max(u)}] \in W
      BY <1>4, <1>5, <2>1 DEF Folds
    <3>2. h[u] = step[<<h[u \ {Max(u)}], Max(u)>>]
      BY <1>4, <2>1 DEF Folds
    <3> QED BY <1>1, <1>5, <2>1, <3>1, <3>2
  <2>2. h = [u \in SUBSET (1..N) |-> h[u]] /\ h[{}] = base
    BY <1>4 DEF Folds
  <2> HIDE DEF step
  <2>3. \A u \in SUBSET (1..N) : h[u] = IF u = {} THEN base ELSE LET m == Max(u) IN Reseeded(p, h[u \ {m}], sq[m])
    BY <2>1, <2>2
  <2> QED BY <1>1, <2>2, <2>3
<1>7. Is(it)
  <2> HIDE DEF Is
  <2> QED BY <1>6
<1>8. ReseedEmpty(p, s) = it[1..N]
  <2>1. ReseedEmpty(p, s) = it[DOMAIN sq]
    <3>1. s.centroids \in [1..k0 -> Int]
      BY DEF KState
    <3>2. Len(s.centroids) = k0
      BY <3>1, FunctionIsSeq
    <3>3. ReseedEmpty(p, s) = FoldLeft(LAMBDA acc, c : Reseeded(p, acc, c), s, sq)
      BY <3>2 DEF ReseedEmpty, sq
    <3> QED BY <3>3 DEF FoldLeft, MapThenFoldSet, base
  <2> HIDE DEF it
  <2> QED BY <1>1, <2>1
<1> HIDE DEF it
<1>9. it[{}] = base /\ \A u \in SUBSET (1..N) : u # {} => it[u] = Reseeded(p, it[u \ {Max(u)}], sq[Max(u)])
  <2>1. \A u \in SUBSET (1..N) :
          it[u] = IF u = {} THEN base ELSE LET m == Max(u) IN Reseeded(p, it[u \ {m}], sq[m])
    BY <1>1, <1>7
  <2> HIDE DEF Is
  <2> QED BY <2>1
<1>10. ASSUME NEW u \in SUBSET (1..N), u # {}, it[u \ {Max(u)}] \in W
       PROVE  it[u] = step[<<it[u \ {Max(u)}], Max(u)>>]
  BY <1>1, <1>5, <1>9, <1>10
<1>11. PICK f : States(f, it, W, N, base, step)
  <2> HIDE DEF step, Is
  <2> QED BY <1>1, <1>3, <1>9, <1>10, FoldStates
<1>12. ASSUME NEW k \in Nat, k < N PROVE f[k+1] = Reseeded(p, f[k], k+1)
  <2>1. f[k] \in W /\ k+1 \in 1..N
    BY <1>1, <1>11, <1>12 DEF States
  <2>2. f[k+1] = step[<<f[k], k+1>>]
    BY <1>11, <1>12 DEF States
  <2> QED BY <2>1, <2>2
<1> QED BY <1>8, <1>11, <1>12 DEF States, Reseeding, N, W, base

\* Every cluster has a point.
Full(a, k) == \A c \in 1..k : InCluster(a, c) # {}

\* After the reseeding no cluster is empty.
LEMMA ReseedEmptyIs ==
  ASSUME NEW n \in Nat, NEW k \in Nat, k <= n, NEW p \in [1..n -> Int], NEW s \in KState(n, k)
  PROVE  ReseedEmpty(p, s) \in KState(n, k) /\ Full(ReseedEmpty(p, s).assign, k)
<1>0. PICK f : Reseeding(f, n, k, p, s)
  BY ReseedFold
<1>1. /\ f[0] = s
      /\ ReseedEmpty(p, s) = f[k]
      /\ \A j \in 0..k : f[j] \in KState(n, k)
      /\ \A j \in Nat : j < k => f[j+1] = Reseeded(p, f[j], j+1)
  BY <1>0 DEF Reseeding
<1> DEFINE T == {j \in Nat : j <= k => Full(f[j].assign, j)}
<1>2. 0 \in T
  BY DEF Full
<1>3. ASSUME NEW j \in Nat, j \in T PROVE j+1 \in T
  <2> SUFFICES ASSUME j+1 <= k PROVE Full(f[j+1].assign, j+1)
    OBVIOUS
  <2>1. Full(f[j].assign, j) /\ f[j] \in KState(n, k) /\ j+1 \in 1..k
    BY <1>1, <1>3
  <2>2. f[j+1] = Reseeded(p, f[j], j+1)
    BY <1>1
  <2>3. /\ InCluster(f[j+1].assign, j+1) # {}
        /\ \A d \in 1..k : InCluster(f[j].assign, d) # {} => InCluster(f[j+1].assign, d) # {}
    BY <2>1, <2>2, ReseededIs
  <2>4. \A d \in 1..j+1 : d \in 1..k /\ (d = j+1 \/ d \in 1..j)
    OBVIOUS
  <2> QED BY <2>1, <2>3, <2>4 DEF Full
<1> HIDE DEF T
<1>4. \A j \in Nat : j \in T
  BY <1>2, <1>3, NatSetInduction
<1>5. Full(f[k].assign, k) /\ f[k] \in KState(n, k)
  BY <1>1, <1>4 DEF T
<1> QED BY <1>1, <1>5

\* A pass of Lloyd's algorithm leaves no cluster empty, unless the loop has ended.
LEMMA PassIs ==
  ASSUME NEW n \in Nat, NEW k \in Nat \ {0}, k <= n, NEW p \in [1..n -> Int], NEW s \in KState(n, k),
         NEW iter \in Nat
  PROVE  /\ Pass(p, s, iter) \in KState(n, k)
         /\ ~ s.done \/ Full(s.assign, k) => Full(Pass(p, s, iter).assign, k)
<1>1. CASE s.done
  BY <1>1 DEF Pass
<1>2. CASE ~ s.done
  <2> DEFINE a == AssignPoints(p, s.centroids)
             m == Moved(p, a, s, iter)
  <2>1. s.centroids \in [1..k -> Int]
    BY DEF KState
  <2>2. a \in [1..n -> 1..k]
    BY <2>1, AssignPointsType
  <2>3. RecomputeCentroids(p, a, s.centroids) \in [1..k -> Int]
    <3> HIDE DEF a
    <3> QED BY <2>1, <2>2, RecomputeType
  <2>4. m \in KState(n, k)
    <3> HIDE DEF a
    <3> QED BY <2>2, <2>3 DEF Moved, KState
  <2> HIDE DEF m
  <2>5. ReseedEmpty(p, m) \in KState(n, k) /\ Full(ReseedEmpty(p, m).assign, k)
    BY <2>4, ReseedEmptyIs
  <2> QED BY <1>2, <2>5 DEF Pass, m
<1> QED BY <1>1, <1>2

\* The states that KMeans goes through, one for each pass.
LEMMA KMeansFold ==
  ASSUME NEW n \in Nat, NEW k0 \in Nat \ {0}, k0 <= n, NEW p \in [1..n -> Int], NEW s \in KState(n, k0)
  PROVE  \E f : /\ f[0] = s
                /\ Lloyd(p, s) = f[KMeansIters]
                /\ \A k \in 0..KMeansIters : f[k] \in KState(n, k0)
                /\ \A k \in Nat : k < KMeansIters => f[k+1] = Pass(p, f[k], k+1)
<1> DEFINE N == KMeansIters
           sq == Numbers(KMeansIters)
           W == KState(n, k0)
           base == s
           step == [q \in W \X (1..N) |-> Pass(p, q[1], q[2])]
           Is(iter) == iter = [u \in SUBSET DOMAIN sq |->
                                IF u = {} THEN base
                                ELSE LET m == Max(u) IN Pass(p, iter[u \ {m}], sq[m])]
           it == CHOOSE iter : Is(iter)
<1>1. N \in Nat /\ base \in W /\ DOMAIN sq = 1..N /\ \A i \in 1..N : sq[i] = i
  BY KMeansItersAssumption DEF Numbers
<1>2. ASSUME NEW x \in W, NEW i \in 1..N PROVE Pass(p, x, i) \in W
  BY PassIs
<1>3. step \in [W \X (1..N) -> W]
  <2> HIDE DEF W, N, base, sq
  <2> QED BY <1>2
<1> HIDE DEF W, N, base, sq
<1>4. PICK h : Folds(h, W, N, base, step)
  <2> HIDE DEF step
  <2> QED BY <1>1, <1>3, FoldTable
<1>5. ASSUME NEW u \in SUBSET (1..N), u # {} PROVE Max(u) \in 1..N /\ u \ {Max(u)} \in SUBSET (1..N)
  BY <1>1, <1>5, MaxIs
<1>6. Is(h)
  <2>1. ASSUME NEW u \in SUBSET (1..N), u # {} PROVE h[u] = Pass(p, h[u \ {Max(u)}], sq[Max(u)])
    <3>1. h[u \ {Max(u)}] \in W
      BY <1>4, <1>5, <2>1 DEF Folds
    <3>2. h[u] = step[<<h[u \ {Max(u)}], Max(u)>>]
      BY <1>4, <2>1 DEF Folds
    <3> QED BY <1>1, <1>5, <2>1, <3>1, <3>2
  <2>2. h = [u \in SUBSET (1..N) |-> h[u]] /\ h[{}] = base
    BY <1>4 DEF Folds
  <2> HIDE DEF step
  <2>3. \A u \in SUBSET (1..N) : h[u] = IF u = {} THEN base ELSE LET m == Max(u) IN Pass(p, h[u \ {m}], sq[m])
    BY <2>1, <2>2
  <2> QED BY <1>1, <2>2, <2>3
<1>7. Is(it)
  <2> HIDE DEF Is
  <2> QED BY <1>6
<1>8. Lloyd(p, s) = it[1..N]
  <2>1. Lloyd(p, s) = it[DOMAIN sq]
    BY DEF Lloyd, FoldLeft, MapThenFoldSet, base, sq
  <2> HIDE DEF it
  <2> QED BY <1>1, <2>1
<1> HIDE DEF it
<1>9. it[{}] = base /\ \A u \in SUBSET (1..N) : u # {} => it[u] = Pass(p, it[u \ {Max(u)}], sq[Max(u)])
  <2>1. \A u \in SUBSET (1..N) :
          it[u] = IF u = {} THEN base ELSE LET m == Max(u) IN Pass(p, it[u \ {m}], sq[m])
    BY <1>1, <1>7
  <2> HIDE DEF Is
  <2> QED BY <2>1
<1>10. ASSUME NEW u \in SUBSET (1..N), u # {}, it[u \ {Max(u)}] \in W
       PROVE  it[u] = step[<<it[u \ {Max(u)}], Max(u)>>]
  BY <1>1, <1>5, <1>9, <1>10
<1>11. PICK f : States(f, it, W, N, base, step)
  <2> HIDE DEF step, Is
  <2> QED BY <1>1, <1>3, <1>9, <1>10, FoldStates
<1>12. ASSUME NEW k \in Nat, k < N PROVE f[k+1] = Pass(p, f[k], k+1)
  <2>1. f[k] \in W /\ k+1 \in 1..N
    BY <1>1, <1>11, <1>12 DEF States
  <2>2. f[k+1] = step[<<f[k], k+1>>]
    BY <1>11, <1>12 DEF States
  <2> QED BY <2>1, <2>2
<1> QED BY <1>8, <1>11, <1>12 DEF States, N, W, base


(***************************************************************************)
(* k-means gives each point to one of at most as many clusters as there    *)
(* are points, and leaves none of them empty.                              *)
(***************************************************************************)
LEMMA KMeansIs ==
  ASSUME NEW n \in Nat \ {0}, NEW want \in Nat, NEW p \in [1..n -> Int]
  PROVE  \E k \in 1..n : /\ k <= want \/ k = 1
                         /\ k >= want \/ k = n
                         /\ KMeans(p, want) \in KState(n, k) /\ Full(KMeans(p, want).assign, k)
<1> DEFINE k == Min({Max({want, 1}), Len(p)})
           seeds == SubSeq(p, 1, k)
           start == [centroids |-> seeds, assign |-> [i \in DOMAIN p |-> 1], done |-> FALSE]
           final == Lloyd(p, start)
<1>1. Len(p) = n /\ DOMAIN p = 1..n /\ p \in Seq(Int)
  BY FunctionIsSeq
<1>2. k \in 1..n /\ (k <= want \/ k = 1) /\ (k >= want \/ k = n)
  <2>1. Max({want, 1}) = IF want >= 1 THEN want ELSE 1
    BY OfTwo
  <2>2. Max({want, 1}) \in Nat \ {0}
    BY <2>1
  <2> DEFINE m == Max({want, 1})
  <2> HIDE DEF m
  <2>3. m \in Nat \ {0}
    BY <2>2 DEF m
  <2>4. Min({m, n}) = IF m <= n THEN m ELSE n
    <3>1. m \in Int /\ n \in Int
      BY <2>3
    <3> QED BY <3>1, OfTwo
  <2>5. Min({m, n}) \in 1..n /\ Min({m, n}) <= m /\ (Min({m, n}) = m \/ Min({m, n}) = n)
    BY <2>3, <2>4
  <2>6. (m <= want \/ m = 1) /\ m >= want
    BY <2>1 DEF m
  <2> QED BY <1>1, <2>3, <2>5, <2>6 DEF m
<1>3. KMeans(p, want) = final
  BY DEF KMeans
<1> HIDE DEF k
<1>4. seeds \in [1..k -> Int]
  <2>1. seeds \in Seq(Int) /\ Len(seeds) = k
    BY <1>1, <1>2
  <2> HIDE DEF seeds
  <2> QED BY <1>2, <2>1
<1>5. start \in KState(n, k) /\ ~ start.done
  <2> HIDE DEF seeds
  <2>1. [i \in DOMAIN p |-> 1] \in [1..n -> 1..k]
    BY <1>1, <1>2
  <2> QED BY <1>4, <2>1 DEF KState
<1> HIDE DEF start
<1>6. PICK f : /\ f[0] = start
               /\ final = f[KMeansIters]
               /\ \A j \in 0..KMeansIters : f[j] \in KState(n, k)
               /\ \A j \in Nat : j < KMeansIters => f[j+1] = Pass(p, f[j], j+1)
  <2>1. k \in Nat \ {0} /\ k <= n
    BY <1>2
  <2> QED BY <1>5, <2>1, KMeansFold
<1> HIDE DEF final
<1> DEFINE T == {j \in Nat : j+1 <= KMeansIters => Full(f[j+1].assign, k)}
<1>7. ASSUME NEW j \in Nat, j < KMeansIters, ~ f[j].done \/ Full(f[j].assign, k)
      PROVE  Full(f[j+1].assign, k)
  <2>1. f[j] \in KState(n, k) /\ f[j+1] = Pass(p, f[j], j+1) /\ j+1 \in Nat
    BY <1>6, <1>7, KMeansItersAssumption
  <2>2. k \in Nat \ {0} /\ k <= n
    BY <1>2
  <2> QED BY <1>7, <2>1, <2>2, PassIs
<1>8. 0 \in T
  BY <1>5, <1>6, <1>7, KMeansItersAssumption
<1>9. ASSUME NEW j \in Nat, j \in T PROVE j+1 \in T
  <2> SUFFICES ASSUME j+1+1 <= KMeansIters PROVE Full(f[j+1+1].assign, k)
    OBVIOUS
  <2>1. j+1 \in Nat /\ j+1 < KMeansIters /\ Full(f[j+1].assign, k)
    BY <1>9, KMeansItersAssumption
  <2> QED BY <1>7, <2>1
<1> HIDE DEF T
<1>10. \A j \in Nat : j \in T
  BY <1>8, <1>9, NatSetInduction
<1>11. KMeansIters - 1 \in Nat /\ KMeansIters - 1 + 1 = KMeansIters
  BY KMeansItersAssumption
<1>12. Full(f[KMeansIters].assign, k)
  BY <1>10, <1>11 DEF T
<1>13. f[KMeansIters] \in KState(n, k)
  BY <1>6, KMeansItersAssumption
<1> QED BY <1>2, <1>3, <1>6, <1>12, <1>13

-----------------------------------------------------------------------------
(***************************************************************************)
(* Lire: postings, what sorting, selecting and joining them keeps, and     *)
(* partitions of a set of ids into clusters.                               *)
(***************************************************************************)

\* A number of clusters is chosen for any number of points.
LEMMA ChooseKType ==
  ASSUME NEW n \in Nat
  PROVE  ChooseK(n) \in Nat
<1>1. CASE n = 0
  BY <1>1 DEF ChooseK
<1>2. CASE n # 0
  <2> DEFINE U == {k \in Nat : 4 * n < (2 * k + 1) * (2 * k + 1)}
  <2>1. n \in U
    <3>1. (2 * n + 1) * (2 * n + 1) = 4 * (n * n) + 4 * n + 1 /\ n * n \in Nat
      OBVIOUS
    <3> QED BY <3>1
  <2>2. PICK k \in U : \A j \in U : k <= j
    BY <2>1, Least
  <2>3. k # 0
    BY <1>2, <2>2
  <2>4. k - 1 \in Nat /\ k - 1 \notin U
    BY <2>2, <2>3
  <2>5. (2 * (k - 1) + 1) = 2 * k - 1
    BY <2>3
  <2>6. (2 * k - 1) * (2 * k - 1) <= 4 * n
    <3>1. ~ (4 * n < (2 * (k - 1) + 1) * (2 * (k - 1) + 1))
      BY <2>4
    <3>2. (2 * k - 1) * (2 * k - 1) \in Int
      OBVIOUS
    <3> QED BY <2>5, <3>1, <3>2
  <2>7. k \in 1..n
    BY <2>1, <2>2, <2>3
  <2>8. \E j \in 1..n : (2 * j - 1) * (2 * j - 1) <= 4 * n /\ 4 * n < (2 * j + 1) * (2 * j + 1)
    BY <2>2, <2>6, <2>7
  <2>9. ChooseK(n) \in 1..n
    BY <1>2, <2>8 DEF ChooseK
  <2> QED BY <2>9
<1> QED BY <1>1, <1>2
-----------------------------------------------------------------------------
\* The entries of a working set, and its postings.
Entry == [id : Int, vec : Int, version : Nat]
Posting == [centroid : Int, members : Seq(Entry)]

\* The ids in a list of members, and that each stands in it once.
Names(m) == {m[i].id : i \in DOMAIN m}
Distinct(m) == \A i, j \in DOMAIN m : m[i].id = m[j].id => i = j

\* r names the indices in I, each once, and t has what m has there.
Picks(t, m, r, I) ==
  /\ DOMAIN t = DOMAIN r
  /\ \A n \in DOMAIN r : r[n] \in I /\ t[n] = m[r[n]]
  /\ \A n, j \in DOMAIN r : r[n] = r[j] => n = j
  /\ \A i \in I : \E n \in DOMAIN r : r[n] = i

\* What a sequence picks at some of its indices.
LEMMA SelectedIs ==
  ASSUME NEW X, NEW m \in Seq(X), NEW I \in SUBSET DOMAIN m
  PROVE  /\ Selected(m, I) \in Seq(X)
         /\ \E r : Picks(Selected(m, I), m, r, I)
<1> DEFINE r == Ascending(I)
           N == Cardinality(I)
<1>1. IsFiniteSet(I) /\ I \subseteq Int
  <2>1. DOMAIN m = 1..Len(m) /\ Len(m) \in Nat
    OBVIOUS
  <2>2. IsFiniteSet(1..Len(m))
    BY <2>1, FS_Interval
  <2> QED BY <2>1, <2>2, FS_Subset
<1>2. /\ N \in Nat /\ DOMAIN r = 1..N
      /\ \A n \in 1..N : r[n] \in I
      /\ \A n, j \in 1..N : r[n] = r[j] => n = j
      /\ \A x \in I : \E n \in 1..N : r[n] = x
  BY <1>1, AscendingIs
<1> HIDE DEF r, N
<1>3. Selected(m, I) = [n \in DOMAIN r |-> m[r[n]]]
  BY DEF Selected, Picked, r
<1>4. \A n \in 1..N : m[r[n]] \in X
  BY <1>2
<1>5. Selected(m, I) \in [1..N -> X]
  BY <1>2, <1>3, <1>4
<1>6. Selected(m, I) \in Seq(X)
  BY <1>2, <1>5, FunctionIsSeq
<1>7. Picks(Selected(m, I), m, r, I)
  BY <1>2, <1>3 DEF Picks
<1> QED BY <1>6, <1>7

\* Picking keeps members apart.
LEMMA SelectedEntries ==
  ASSUME NEW m \in Seq(Entry), NEW I \in SUBSET DOMAIN m
  PROVE  /\ Selected(m, I) \in Seq(Entry)
         /\ Distinct(m) => Distinct(Selected(m, I))
         /\ Names(Selected(m, I)) = {m[i].id : i \in I}
<1>1. Selected(m, I) \in Seq(Entry)
  BY SelectedIs
<1>0. PICK r : Picks(Selected(m, I), m, r, I)
  BY SelectedIs
<1>2. /\ DOMAIN Selected(m, I) = DOMAIN r
      /\ \A n \in DOMAIN r : r[n] \in I /\ Selected(m, I)[n] = m[r[n]]
      /\ \A n, j \in DOMAIN r : r[n] = r[j] => n = j
      /\ \A i \in I : \E n \in DOMAIN r : r[n] = i
  BY <1>0 DEF Picks
<1>3. Distinct(m) => Distinct(Selected(m, I))
  BY <1>2 DEF Distinct
<1>4. \A x \in Names(Selected(m, I)) : x \in {m[i].id : i \in I}
  BY <1>2 DEF Names
<1>5. ASSUME NEW i \in I PROVE m[i].id \in Names(Selected(m, I))
  BY <1>2 DEF Names
<1> QED BY <1>1, <1>3, <1>4, <1>5

\* One more member at the end.
LEMMA AppendEntries ==
  ASSUME NEW m \in Seq(Entry), NEW e \in Entry
  PROVE  /\ Append(m, e) \in Seq(Entry)
         /\ Distinct(m) /\ e.id \notin Names(m) => Distinct(Append(m, e))
         /\ Names(Append(m, e)) = Names(m) \cup {e.id}
<1> DEFINE n == Len(m)
           t == Append(m, e)
<1>1. /\ n \in Nat /\ DOMAIN m = 1..n /\ DOMAIN t = 1..n+1 /\ t \in Seq(Entry)
      /\ \A i \in 1..n : t[i] = m[i]
      /\ t[n+1] = e
  OBVIOUS
<1>2. \A i \in 1..n+1 : i \in 1..n \/ i = n+1
  BY <1>1
<1> HIDE DEF t, n
<1>3. Names(t) = Names(m) \cup {e.id}
  <2>1. \A i \in DOMAIN t : t[i].id \in Names(m) \cup {e.id}
    BY <1>1, <1>2 DEF Names
  <2>2. \A i \in DOMAIN m : i \in DOMAIN t /\ t[i].id = m[i].id
    BY <1>1
  <2>3. e.id \in Names(t)
    <3>1. n+1 \in DOMAIN t
      BY <1>1
    <3> QED BY <1>1, <3>1 DEF Names
  <2> QED BY <2>1, <2>2, <2>3 DEF Names
<1>4. ASSUME Distinct(m), e.id \notin Names(m), NEW i \in DOMAIN t, NEW j \in DOMAIN t, t[i].id = t[j].id
      PROVE  i = j
  BY <1>1, <1>2, <1>4 DEF Distinct, Names
<1>5. Distinct(m) /\ e.id \notin Names(m) => Distinct(t)
  BY <1>4 DEF Distinct
<1> QED BY <1>1, <1>3, <1>5 DEF t

\* Two lists that have no id in common, one after the other.
LEMMA ConcatEntries ==
  ASSUME NEW m \in Seq(Entry), NEW l \in Seq(Entry)
  PROVE  /\ m \o l \in Seq(Entry)
         /\ Distinct(m) /\ Distinct(l) /\ Names(m) \cap Names(l) = {} => Distinct(m \o l)
         /\ Names(m \o l) = Names(m) \cup Names(l)
<1> DEFINE a == Len(m)
           b == Len(l)
           t == m \o l
<1>1. /\ a \in Nat /\ b \in Nat /\ DOMAIN m = 1..a /\ DOMAIN l = 1..b /\ t \in Seq(Entry)
      /\ DOMAIN t = 1..a+b
      /\ \A i \in 1..a : t[i] = m[i]
      /\ \A i \in 1..b : t[a+i] = l[i]
      /\ \A i \in 1..a+b : i \notin 1..a => i - a \in 1..b /\ t[i] = l[i - a]
  <2>1. t \in Seq(Entry) /\ Len(t) = a + b /\ a \in Nat /\ b \in Nat
    BY ConcatParts
  <2> QED BY <2>1, ConcatParts
<1> HIDE DEF t, a, b
<1>2. Names(t) = Names(m) \cup Names(l)
  <2>1. \A i \in DOMAIN t : t[i].id \in Names(m) \cup Names(l)
    BY <1>1 DEF Names
  <2>2. \A i \in DOMAIN m : i \in DOMAIN t /\ t[i].id = m[i].id
    BY <1>1
  <2>3. \A i \in DOMAIN l : a+i \in DOMAIN t /\ t[a+i].id = l[i].id
    BY <1>1
  <2> QED BY <2>1, <2>2, <2>3 DEF Names
<1>3. ASSUME Distinct(m), Distinct(l), Names(m) \cap Names(l) = {},
             NEW i \in DOMAIN t, NEW j \in DOMAIN t, t[i].id = t[j].id
      PROVE  i = j
  <2>0. i \in Int /\ j \in Int /\ a \in Int
    BY <1>1
  <2>1. CASE i \in 1..a /\ j \in 1..a
    BY <1>1, <1>3, <2>1 DEF Distinct
  <2>2. CASE i \notin 1..a /\ j \notin 1..a
    <3>0. \A n \in DOMAIN t : n \notin 1..a => n - a \in DOMAIN l /\ t[n] = l[n - a]
      BY ONLY <1>1
    <3>1. i - a \in DOMAIN l /\ t[i] = l[i - a]
      BY ONLY <2>2, <3>0, i \in DOMAIN t
    <3>2. j - a \in DOMAIN l /\ t[j] = l[j - a]
      BY ONLY <2>2, <3>0, j \in DOMAIN t
    <3>3. i - a = j - a
      BY <1>3, <3>1, <3>2 DEF Distinct
    <3> QED BY <2>0, <3>3
  <2>3. ASSUME NEW x \in DOMAIN t, NEW y \in DOMAIN t, x \in 1..a, y \notin 1..a, t[x].id = t[y].id PROVE FALSE
    <3>1. t[x].id \in Names(m)
      BY <1>1, <2>3 DEF Names
    <3>2. y - a \in DOMAIN l /\ t[y] = l[y - a]
      BY <1>1, <2>3
    <3>3. t[y].id \in Names(l)
      BY <3>2 DEF Names
    <3> QED BY <1>3, <2>3, <3>1, <3>3
  <2> QED BY <1>3, <2>1, <2>2, <2>3
<1>4. Distinct(m) /\ Distinct(l) /\ Names(m) \cap Names(l) = {} => Distinct(t)
  BY <1>3 DEF Distinct
<1> QED BY <1>1, <1>2, <1>4 DEF t
\* Sorting by id rearranges the members.
LEMMA SortedEntries ==
  ASSUME NEW m \in Seq(Entry)
  PROVE  /\ SortedById(m) \in Seq(Entry)
         /\ Distinct(m) => Distinct(SortedById(m))
         /\ Names(SortedById(m)) = Names(m)
<1> DEFINE S == DOMAIN m
           Before(i, j) == \/ m[i].id < m[j].id
                           \/ i < j /\ ~ (m[j].id < m[i].id)
           R == {p \in S \X S : Before(p[1], p[2])}
           r == Ordered(S, Before)
           N == Cardinality(S)
<1>1. /\ IsFiniteSet(S) /\ S \subseteq Int
      /\ \A i \in S : m[i] \in Entry /\ m[i].id \in Int
  <2>1. S = 1..Len(m) /\ Len(m) \in Nat
    OBVIOUS
  <2>2. IsFiniteSet(1..Len(m))
    BY <2>1, FS_Interval
  <2>3. \A i \in S : m[i] \in Entry
    OBVIOUS
  <2> QED BY <2>1, <2>2, <2>3 DEF Entry
<1>2. SortedById(m) = [n \in DOMAIN r |-> m[r[n]]]
  BY DEF SortedById, Sorted, Picked
<1>3. r = [n \in 1..N |-> CHOOSE x \in S : Cardinality({y \in S : Before(y, x)}) = n - 1]
  BY DEF Ordered
<1> HIDE DEF S, r
<1>4. \A x, y \in S : <<x, y>> \in R <=> Before(x, y)
  OBVIOUS
<1>5. TotalOrder(R, S)
  <2>1. ASSUME NEW x \in S PROVE ~ Before(x, x)
    <3>1. m[x].id \in Int /\ x \in Int
      BY <1>1
    <3> QED BY <3>1
  <2>2. ASSUME NEW x \in S, NEW y \in S, NEW z \in S, Before(x, y), Before(y, z) PROVE Before(x, z)
    <3>1. m[x].id \in Int /\ m[y].id \in Int /\ m[z].id \in Int /\ x \in Int /\ y \in Int /\ z \in Int
      BY <1>1
    <3> QED BY <2>2, <3>1
  <2>3. ASSUME NEW x \in S, NEW y \in S PROVE x = y \/ Before(x, y) \/ Before(y, x)
    <3>1. m[x].id \in Int /\ m[y].id \in Int /\ x \in Int /\ y \in Int
      BY <1>1
    <3> QED BY <3>1
  <2> HIDE DEF R, Before
  <2> QED BY <1>4, <2>1, <2>2, <2>3 DEF TotalOrder
<1> HIDE DEF R, Before
<1>6. \A x \in S : {y \in S : Before(y, x)} = Below(R, S, x)
  BY <1>4 DEF Below
<1>7. InOrder(r, R, S)
  <2>1. ASSUME NEW n \in 1..N PROVE r[n] \in S /\ Cardinality(Below(R, S, r[n])) = n - 1
    <3>1. \E x \in S : Cardinality(Below(R, S, x)) = n - 1
      BY <1>1, <1>5, PlaceTaken
    <3>2. \E x \in S : Cardinality({y \in S : Before(y, x)}) = n - 1
      BY <1>6, <3>1
    <3>3. r[n] = CHOOSE x \in S : Cardinality({y \in S : Before(y, x)}) = n - 1
      BY <1>3
    <3>4. r[n] \in S /\ Cardinality({y \in S : Before(y, r[n])}) = n - 1
      BY <3>2, <3>3
    <3> QED BY <1>6, <3>4
  <2>2. DOMAIN r = 1..N
    BY <1>3
  <2> QED BY <2>1, <2>2 DEF InOrder
<1>8. /\ N \in Nat /\ DOMAIN r = 1..N
      /\ \A n \in 1..N : r[n] \in S
      /\ \A j, n \in 1..N : r[j] = r[n] => j = n
      /\ \A x \in S : \E n \in 1..N : r[n] = x
  <2>1. /\ N \in Nat
        /\ \A j, n \in 1..N : r[j] = r[n] => j = n
        /\ \A x \in S : \E n \in 1..N : r[n] = x
    BY <1>1, <1>5, <1>7, InOrderFacts
  <2> QED BY <1>7, <2>1 DEF InOrder
<1> HIDE DEF N
<1>9. SortedById(m) \in Seq(Entry)
  <2>0. \A n \in 1..N : m[r[n]] \in Entry
    BY <1>1, <1>8
  <2>1. SortedById(m) \in [1..N -> Entry]
    BY <1>2, <1>8, <2>0
  <2> QED BY <1>8, <2>1, FunctionIsSeq
<1>10. /\ DOMAIN SortedById(m) = 1..N
       /\ \A n \in 1..N : SortedById(m)[n] = m[r[n]]
  BY <1>2, <1>8
<1>11. Distinct(m) => Distinct(SortedById(m))
  BY <1>8, <1>10 DEF Distinct, S
<1>12. Names(SortedById(m)) = Names(m)
  <2>1. \A n \in 1..N : SortedById(m)[n].id \in Names(m)
    BY <1>8, <1>10 DEF Names, S
  <2>2. \A i \in S : m[i].id \in Names(SortedById(m))
    BY <1>8, <1>10 DEF Names
  <2> QED BY <1>10, <2>1, <2>2 DEF Names, S
<1> QED BY <1>9, <1>11, <1>12

\* The sets of postings LIRE works on: a finite number of them, by their ids.
Clusters == UNION {[D -> Posting] : D \in {d \in SUBSET (Nat \ {0}) : IsFiniteSet(d)}}

\* What it is to be such a set of postings.
LEMMA ClustersDef ==
  ASSUME NEW cl
  PROVE  cl \in Clusters <=> /\ cl \in [DOMAIN cl -> Posting]
                             /\ DOMAIN cl \subseteq Nat \ {0} /\ IsFiniteSet(DOMAIN cl)
<1>1. ASSUME cl \in Clusters
      PROVE  cl \in [DOMAIN cl -> Posting] /\ DOMAIN cl \subseteq Nat \ {0} /\ IsFiniteSet(DOMAIN cl)
  <2>1. PICK D \in {d \in SUBSET (Nat \ {0}) : IsFiniteSet(d)} : cl \in [D -> Posting]
    BY <1>1 DEF Clusters
  <2>2. DOMAIN cl = D
    BY <2>1
  <2> QED BY <2>1, <2>2
<1>2. ASSUME cl \in [DOMAIN cl -> Posting], DOMAIN cl \subseteq Nat \ {0}, IsFiniteSet(DOMAIN cl)
      PROVE  cl \in Clusters
  <2>1. DOMAIN cl \in {d \in SUBSET (Nat \ {0}) : IsFiniteSet(d)}
    BY <1>2
  <2> QED BY <1>2, <2>1 DEF Clusters
<1> QED BY <1>1, <1>2

\* The postings share out the ids in S, each to one place.
Partition(cl, S) ==
  /\ \A i \in DOMAIN cl : Distinct(cl[i].members)
  /\ \A i, j \in DOMAIN cl : i # j => Names(cl[i].members) \cap Names(cl[j].members) = {}
  /\ \A x : x \in S <=> \E i \in DOMAIN cl : x \in Names(cl[i].members)

\* The fields of a posting.
LEMMA PostingFields ==
  ASSUME NEW p \in Posting
  PROVE  /\ p.centroid \in Int /\ p.members \in Seq(Entry)
         /\ \A m \in Seq(Entry) : /\ [p EXCEPT !.members = m] \in Posting
                                  /\ [p EXCEPT !.members = m].members = m
                                  /\ [p EXCEPT !.members = m].centroid = p.centroid
         /\ \A c \in Int : /\ [p EXCEPT !.centroid = c] \in Posting
                           /\ [p EXCEPT !.centroid = c].members = p.members
                           /\ [p EXCEPT !.centroid = c].centroid = c
  BY DEF Posting

\* A recentered posting has the members it had.
LEMMA RecenterIs ==
  ASSUME NEW p \in Posting
  PROVE  Recenter(p) \in Posting /\ Recenter(p).members = p.members
<1>1. CASE p.members = <<>>
  BY <1>1 DEF Recenter
<1>2. CASE p.members # <<>>
  <2> DEFINE m == p.members
             v == [i \in DOMAIN m |-> m[i].vec]
  <2>1. m \in Seq(Entry)
    BY PostingFields
  <2>2. DOMAIN m = 1..Len(m) /\ Len(m) \in Nat /\ Len(m) # 0 /\ \A i \in DOMAIN m : m[i] \in Entry
    <3> HIDE DEF m
    <3> QED BY <1>2, <2>1 DEF m
  <2>3. IsFiniteSet(DOMAIN m) /\ DOMAIN m # {}
    <3>1. IsFiniteSet(1..Len(m)) /\ 1 \in 1..Len(m)
      BY <2>2, FS_Interval
    <3> QED BY <2>2, <3>1
  <2>4. DOMAIN v = DOMAIN m /\ \A i \in DOMAIN m : v[i] \in Int
    BY <2>2 DEF Entry
  <2> HIDE DEF v, m
  <2>5. MeanVec(v) \in Int
    BY <2>3, <2>4, MeanInt DEF MeanVec
  <2>6. Recenter(p) = [p EXCEPT !.centroid = MeanVec(v)]
    BY <1>2 DEF Recenter, v, m
  <2> QED BY <2>5, <2>6, PostingFields
<1> QED BY <1>1, <1>2

\* Working sets with the same members.
Same(cl, dl) == DOMAIN dl = DOMAIN cl /\ \A i \in DOMAIN cl : dl[i].members = cl[i].members

\* What the working set shares out depends on the members alone.
LEMMA SamePartition ==
  ASSUME NEW cl, NEW dl, NEW S, Same(cl, dl), Partition(cl, S)
  PROVE  Partition(dl, S)
  BY DEF Same, Partition

\* New centroids leave the members where they are.
LEMMA RecenteredIs ==
  ASSUME NEW cl \in Clusters, NEW ids
  PROVE  Recentered(cl, ids) \in Clusters /\ Same(cl, Recentered(cl, ids))
<1> DEFINE dl == Recentered(cl, ids)
<1>1. cl \in [DOMAIN cl -> Posting] /\ DOMAIN cl \subseteq Nat \ {0} /\ IsFiniteSet(DOMAIN cl)
  BY ClustersDef
<1>2. dl = [i \in DOMAIN cl |-> IF i \in ids THEN Recenter(cl[i]) ELSE cl[i]]
  BY DEF Recentered
<1>3. ASSUME NEW i \in DOMAIN cl PROVE dl[i] \in Posting /\ dl[i].members = cl[i].members
  <2>1. cl[i] \in Posting
    BY <1>1
  <2>2. Recenter(cl[i]) \in Posting /\ Recenter(cl[i]).members = cl[i].members
    BY <2>1, RecenterIs
  <2> QED BY <1>2, <2>1, <2>2
<1>4. DOMAIN dl = DOMAIN cl /\ dl \in [DOMAIN cl -> Posting]
  BY <1>2, <1>3
<1> HIDE DEF dl
<1>5. dl \in Clusters
  BY <1>1, <1>4, ClustersDef
<1> QED BY <1>3, <1>4, <1>5 DEF Same, dl

\* A posting is added, replaced or removed.
LEMMA WithIs ==
  ASSUME NEW cl \in Clusters, NEW id \in Nat \ {0}, NEW p \in Posting
  PROVE  /\ With(cl, id, p) \in Clusters
         /\ DOMAIN With(cl, id, p) = DOMAIN cl \cup {id}
         /\ With(cl, id, p)[id] = p
         /\ \A i \in DOMAIN cl : i # id => With(cl, id, p)[i] = cl[i]
<1> DEFINE dl == With(cl, id, p)
<1>1. cl \in [DOMAIN cl -> Posting] /\ DOMAIN cl \subseteq Nat \ {0} /\ IsFiniteSet(DOMAIN cl)
  BY ClustersDef
<1>2. dl = [i \in DOMAIN cl \cup {id} |-> IF i = id THEN p ELSE cl[i]]
  BY DEF With
<1>3. dl \in [DOMAIN cl \cup {id} -> Posting] /\ DOMAIN dl = DOMAIN cl \cup {id}
  BY <1>1, <1>2
<1>4. dl[id] = p /\ \A i \in DOMAIN cl : i # id => dl[i] = cl[i]
  BY <1>2
<1>5. IsFiniteSet(DOMAIN cl \cup {id})
  BY <1>1, FS_AddElement
<1> HIDE DEF dl
<1>6. dl \in Clusters
  BY <1>1, <1>3, <1>5, ClustersDef
<1> QED BY <1>3, <1>4, <1>6 DEF dl

\* Such a working set, whatever the posting and its id.
LEMMA WithAny ==
  \A cl \in Clusters, id \in Nat \ {0}, p \in Posting :
    With(cl, id, p) \in Clusters /\ DOMAIN With(cl, id, p) = DOMAIN cl \cup {id}
  BY WithIs

\* The postings of such a working set.
LEMMA WithHas ==
  \A cl \in Clusters, id \in Nat \ {0}, p \in Posting :
    /\ With(cl, id, p)[id] = p
    /\ \A i \in DOMAIN cl : i # id => With(cl, id, p)[i] = cl[i]
<1> SUFFICES ASSUME NEW cl \in Clusters, NEW id \in Nat \ {0}, NEW p \in Posting
             PROVE  /\ With(cl, id, p)[id] = p
                    /\ \A i \in DOMAIN cl : i # id => With(cl, id, p)[i] = cl[i]
  OBVIOUS
<1>1. With(cl, id, p) = [i \in DOMAIN cl \cup {id} |-> IF i = id THEN p ELSE cl[i]]
  BY DEF With
<1> QED BY ONLY <1>1

\* A working set without one of its postings.
LEMMA WithoutIs ==
  ASSUME NEW cl \in Clusters, NEW id
  PROVE  /\ Without(cl, id) \in Clusters
         /\ DOMAIN Without(cl, id) = DOMAIN cl \ {id}
         /\ \A i \in DOMAIN cl : i # id => Without(cl, id)[i] = cl[i]
<1> DEFINE dl == Without(cl, id)
<1>1. cl \in [DOMAIN cl -> Posting] /\ DOMAIN cl \subseteq Nat \ {0} /\ IsFiniteSet(DOMAIN cl)
  BY ClustersDef
<1>2. dl = [i \in DOMAIN cl \ {id} |-> cl[i]]
  BY DEF Without
<1>3. dl \in [DOMAIN cl \ {id} -> Posting] /\ DOMAIN dl = DOMAIN cl \ {id}
  BY <1>1, <1>2
<1>4. \A i \in DOMAIN cl : i # id => dl[i] = cl[i]
  BY <1>2
<1>5. IsFiniteSet(DOMAIN cl \ {id})
  BY <1>1, FS_RemoveElement
<1> HIDE DEF dl
<1>6. dl \in Clusters
  BY <1>1, <1>3, <1>5, ClustersDef
<1> QED BY <1>3, <1>4, <1>6 DEF dl

\* The posting nearest to a vector is one of those considered.
LEMMA NearestIs ==
  ASSUME NEW cl \in Clusters, NEW v \in Int, NEW skip, DOMAIN cl \ skip # {}
  PROVE  NearestClusterID(cl, v, skip) \in DOMAIN cl \ skip
<1> DEFINE S == DOMAIN cl \ skip
           d == [i \in DOMAIN cl |-> Distance(v, cl[i].centroid)]
<1>1. cl \in [DOMAIN cl -> Posting] /\ DOMAIN cl \subseteq Nat \ {0}
  BY ClustersDef
<1>2. ASSUME NEW i \in S PROVE d[i] = Distance(v, cl[i].centroid) /\ d[i] \in Nat
  <2>1. cl[i].centroid \in Int
    BY <1>1, PostingFields
  <2> QED BY <2>1, DistanceNat
<1>3. S \subseteq Nat /\ S # {}
  BY <1>1
<1> HIDE DEF d, S
<1>4. \E c \in S : \A e \in S : d[c] < d[e] \/ (d[c] = d[e] /\ c <= e)
  BY <1>2, <1>3, FirstNearest
<1>5. \E c \in S : \A e \in S : \/ Distance(v, cl[c].centroid) < Distance(v, cl[e].centroid)
                                \/ Distance(v, cl[c].centroid) = Distance(v, cl[e].centroid) /\ c <= e
  BY <1>2, <1>4
<1> QED BY <1>5 DEF NearestClusterID, S

\* Without a posting, its ids are gone.
LEMMA PartitionWithout ==
  ASSUME NEW cl \in Clusters, NEW S, Partition(cl, S), NEW h \in DOMAIN cl
  PROVE  Partition(Without(cl, h), S \ Names(cl[h].members))
<1> DEFINE dl == Without(cl, h)
           T == S \ Names(cl[h].members)
<1>1. DOMAIN dl = DOMAIN cl \ {h} /\ \A i \in DOMAIN cl : i # h => dl[i] = cl[i]
  BY WithoutIs
<1> HIDE DEF dl
<1>2. /\ \A i \in DOMAIN dl : Distinct(dl[i].members)
      /\ \A i, j \in DOMAIN dl : i # j => Names(dl[i].members) \cap Names(dl[j].members) = {}
  BY <1>1 DEF Partition
<1>3. ASSUME NEW x, x \in T PROVE \E i \in DOMAIN dl : x \in Names(dl[i].members)
  <2>1. PICK i \in DOMAIN cl : x \in Names(cl[i].members)
    BY <1>3 DEF Partition
  <2>2. i # h
    BY <1>3, <2>1
  <2> QED BY <1>1, <2>1, <2>2
<1>4. ASSUME NEW x, NEW i \in DOMAIN dl, x \in Names(dl[i].members) PROVE x \in T
  <2>1. i \in DOMAIN cl /\ i # h /\ x \in Names(cl[i].members)
    BY <1>1, <1>4
  <2>2. x \in S /\ x \notin Names(cl[h].members)
    BY <2>1 DEF Partition
  <2> QED BY <2>2
<1> HIDE DEF T
<1>5. Partition(dl, T)
  BY <1>2, <1>3, <1>4 DEF Partition
<1> QED BY <1>5 DEF dl, T

\* With a posting more, its ids are there too.
LEMMA PartitionWith ==
  ASSUME NEW cl \in Clusters, NEW S, Partition(cl, S), NEW h \in (Nat \ {0}) \ DOMAIN cl,
         NEW p \in Posting, Distinct(p.members), Names(p.members) \cap S = {}
  PROVE  Partition(With(cl, h, p), S \cup Names(p.members))
<1> DEFINE dl == With(cl, h, p)
           T == S \cup Names(p.members)
<1>1. /\ DOMAIN dl = DOMAIN cl \cup {h} /\ dl[h] = p
      /\ \A i \in DOMAIN cl : i # h => dl[i] = cl[i]
  <2>1. h \in Nat \ {0}
    OBVIOUS
  <2>2. DOMAIN dl = DOMAIN cl \cup {h}
    BY ONLY <2>1, cl \in Clusters, p \in Posting, WithAny
  <2>3. dl[h] = p /\ \A i \in DOMAIN cl : i # h => dl[i] = cl[i]
    BY ONLY <2>1, cl \in Clusters, p \in Posting, WithHas
  <2> QED BY <2>2, <2>3
<1> HIDE DEF dl
<1>2. \A i \in DOMAIN dl : i = h \/ (i # h /\ i \in DOMAIN cl /\ dl[i] = cl[i])
  BY ONLY <1>1
<1>3. \A i \in DOMAIN dl : Distinct(dl[i].members)
  BY <1>1, <1>2 DEF Partition
<1>4. \A i \in DOMAIN cl : Names(cl[i].members) \subseteq S
  BY DEF Partition
<1>5. ASSUME NEW i \in DOMAIN dl, NEW j \in DOMAIN dl, i # j
      PROVE  Names(dl[i].members) \cap Names(dl[j].members) = {}
  <2>1. CASE i # h /\ j # h
    BY <1>2, <1>5, <2>1 DEF Partition
  <2>2. CASE i = h
    <3>1. j \in DOMAIN cl /\ dl[j] = cl[j] /\ dl[i] = p
      BY <1>1, <1>2, <1>5, <2>2
    <3> QED BY <1>4, <3>1
  <2>3. CASE j = h
    <3>1. i \in DOMAIN cl /\ dl[i] = cl[i] /\ dl[j] = p
      BY <1>1, <1>2, <1>5, <2>3
    <3> QED BY <1>4, <3>1
  <2> QED BY <2>1, <2>2, <2>3
<1>6. ASSUME NEW x, x \in T PROVE \E i \in DOMAIN dl : x \in Names(dl[i].members)
  <2>1. CASE x \in S
    <3>1. PICK i \in DOMAIN cl : x \in Names(cl[i].members)
      BY <2>1 DEF Partition
    <3>2. i \in DOMAIN dl /\ dl[i] = cl[i]
      BY <1>1
    <3> QED BY <3>1, <3>2
  <2>2. CASE x \in Names(p.members)
    BY <1>1, <2>2
  <2> QED BY <1>6, <2>1, <2>2
<1>7. ASSUME NEW x, NEW i \in DOMAIN dl, x \in Names(dl[i].members) PROVE x \in T
  BY <1>1, <1>2, <1>4, <1>7
<1> HIDE DEF T
<1>8. Partition(dl, T)
  BY <1>3, <1>5, <1>6, <1>7 DEF Partition
<1> QED BY <1>8 DEF dl, T

\* To replace a posting is to remove it and to add the new one.
LEMMA Replaced ==
  ASSUME NEW cl, NEW h, NEW p
  PROVE  With(cl, h, p) = With(Without(cl, h), h, p)
<1>1. DOMAIN With(cl, h, p) = DOMAIN With(Without(cl, h), h, p)
  BY DEF With, Without
<1>2. \A i \in DOMAIN With(cl, h, p) : With(cl, h, p)[i] = With(Without(cl, h), h, p)[i]
  BY DEF With, Without
<1>3. /\ With(cl, h, p) = [i \in DOMAIN With(cl, h, p) |-> With(cl, h, p)[i]]
      /\ With(Without(cl, h), h, p) =
           [i \in DOMAIN With(Without(cl, h), h, p) |-> With(Without(cl, h), h, p)[i]]
  BY DEF With
<1> QED BY <1>1, <1>2, <1>3

\* A posting is replaced by one that holds the same ids and some new ones.
LEMMA PartitionReplace ==
  ASSUME NEW cl \in Clusters, NEW S, Partition(cl, S), NEW h \in DOMAIN cl, NEW N, N \cap S = {},
         NEW p \in Posting, Distinct(p.members), Names(p.members) = Names(cl[h].members) \cup N
  PROVE  Partition(With(cl, h, p), S \cup N)
<1> DEFINE O == Names(cl[h].members)
<1>1. h \in (Nat \ {0}) \ DOMAIN Without(cl, h) /\ Without(cl, h) \in Clusters
  <2>1. DOMAIN cl \subseteq Nat \ {0}
    BY ClustersDef
  <2>2. Without(cl, h) \in Clusters /\ DOMAIN Without(cl, h) = DOMAIN cl \ {h}
    BY WithoutIs
  <2> QED BY <2>1, <2>2
<1>2. Partition(Without(cl, h), S \ O)
  BY PartitionWithout
<1>3. O \subseteq S
  BY DEF Partition
<1>4. Names(p.members) \cap (S \ O) = {} /\ (S \ O) \cup Names(p.members) = S \cup N
  BY <1>3
<1>5. Partition(With(Without(cl, h), h, p), (S \ O) \cup Names(p.members))
  BY <1>1, <1>2, <1>4, PartitionWith
<1> QED BY <1>4, <1>5, Replaced
-----------------------------------------------------------------------------
\* The working states; next is an id that no posting has.
Work == [cl : Clusters, next : Nat \ {0}, touched : SUBSET Nat]
Fresh(w) == \A i \in DOMAIN w.cl : i < w.next

(***************************************************************************)
(* An insertion puts the new member into one posting, the nearest, or a    *)
(* new one when there is none.                                             *)
(***************************************************************************)
LEMMA InsertIs ==
  ASSUME NEW w \in Work, NEW e \in Entry
  PROVE  /\ InsertNearest(w, e) \in Work
         /\ Fresh(w) => Fresh(InsertNearest(w, e))
         /\ \A S : Partition(w.cl, S) /\ e.id \notin S =>
              Partition(InsertNearest(w, e).cl, S \cup {e.id})
<1>1. w.cl \in Clusters /\ w.next \in Nat \ {0} /\ w.touched \subseteq Nat
  BY DEF Work
<1>2. e.vec \in Int /\ e.id \in Int
  BY DEF Entry
<1>3. CASE DOMAIN w.cl = {}
  <2> DEFINE p == [centroid |-> e.vec, members |-> <<e>>]
             cl == With(w.cl, w.next, p)
             u == InsertNearest(w, e)
  <2>1. u = [cl |-> cl, next |-> w.next + 1, touched |-> w.touched \cup {w.next}]
    BY <1>3 DEF InsertNearest
  <2>2. <<e>> \in Seq(Entry) /\ Distinct(<<e>>) /\ Names(<<e>>) = {e.id}
    BY DEF Distinct, Names
  <2>3. p \in Posting
    BY <1>2, <2>2 DEF Posting
  <2>4. cl \in Clusters /\ DOMAIN cl = {w.next}
    <3> HIDE DEF p
    <3>1. cl \in Clusters /\ DOMAIN cl = DOMAIN w.cl \cup {w.next}
      BY <1>1, <2>3, WithAny
    <3> QED BY <1>3, <3>1
  <2>5. u \in Work
    <3> HIDE DEF cl
    <3>1. w.next + 1 \in Nat \ {0} /\ w.touched \cup {w.next} \in SUBSET Nat
      BY <1>1
    <3> QED BY <2>1, <2>4, <3>1 DEF Work
  <2>6. Fresh(u)
    <3> HIDE DEF cl
    <3>1. DOMAIN u.cl = {w.next} /\ u.next = w.next + 1
      BY <2>1, <2>4
    <3> QED BY <1>1, <3>1 DEF Fresh
  <2>7. ASSUME NEW S, Partition(w.cl, S), e.id \notin S PROVE Partition(u.cl, S \cup {e.id})
    <3>1. w.next \in (Nat \ {0}) \ DOMAIN w.cl /\ p.members = <<e>>
      BY <1>1, <1>3
    <3>2. Distinct(p.members) /\ Names(p.members) \cap S = {} /\ S \cup Names(p.members) = S \cup {e.id}
      BY <2>2, <2>7, <3>1
    <3> HIDE DEF p
    <3>3. Partition(cl, S \cup Names(p.members))
      BY <1>1, <2>3, <2>7, <3>1, <3>2, PartitionWith
    <3>4. u.cl = cl
      BY <2>1
    <3> QED BY <3>2, <3>3, <3>4
  <2> HIDE DEF u
  <2> QED BY <2>5, <2>6, <2>7 DEF u
<1>4. CASE DOMAIN w.cl # {}
  <2> DEFINE h == NearestClusterID(w.cl, e.vec, {})
             m == w.cl[h].members
             p == [w.cl[h] EXCEPT !.members = Append(m, e)]
             cl == With(w.cl, h, p)
             u == InsertNearest(w, e)
  <2>1. u = [cl |-> cl, next |-> w.next, touched |-> w.touched \cup {h}]
    BY <1>4 DEF InsertNearest
  <2>2. h \in DOMAIN w.cl
    BY <1>1, <1>2, <1>4, NearestIs
  <2> HIDE DEF h
  <2>3. w.cl[h] \in Posting /\ h \in Nat \ {0}
    BY <1>1, <2>2, ClustersDef
  <2>4. m \in Seq(Entry)
    BY <2>3, PostingFields
  <2>5. /\ Append(m, e) \in Seq(Entry)
        /\ Distinct(m) /\ e.id \notin Names(m) => Distinct(Append(m, e))
        /\ Names(Append(m, e)) = Names(m) \cup {e.id}
    <3> HIDE DEF m
    <3> QED BY <2>4, AppendEntries
  <2>6. p \in Posting /\ p.members = Append(m, e)
    BY <2>3, <2>5, PostingFields
  <2> HIDE DEF p
  <2>7. cl \in Clusters /\ DOMAIN cl = DOMAIN w.cl
    <3>1. cl \in Clusters /\ DOMAIN cl = DOMAIN w.cl \cup {h}
      BY <1>1, <2>3, <2>6, WithAny
    <3> QED BY <2>2, <3>1
  <2> HIDE DEF cl
  <2>8. u \in Work
    <3>1. w.touched \cup {h} \in SUBSET Nat
      BY <1>1, <2>3
    <3> QED BY <1>1, <2>1, <2>7, <3>1 DEF Work
  <2>9. Fresh(w) => Fresh(u)
    BY <2>1, <2>7 DEF Fresh
  <2>10. ASSUME NEW S, Partition(w.cl, S), e.id \notin S PROVE Partition(u.cl, S \cup {e.id})
    <3>1. Distinct(m) /\ Names(m) \subseteq S
      BY <2>2, <2>10 DEF Partition
    <3>2. Distinct(p.members) /\ Names(p.members) = Names(m) \cup {e.id} /\ {e.id} \cap S = {}
      BY <2>5, <2>6, <2>10, <3>1
    <3>3. Partition(With(w.cl, h, p), S \cup {e.id})
      BY <1>1, <2>2, <2>6, <2>10, <3>2, PartitionReplace
    <3> QED BY <2>1, <3>3 DEF cl
  <2> HIDE DEF u
  <2> QED BY <2>8, <2>9, <2>10 DEF u
<1> QED BY <1>3, <1>4

-----------------------------------------------------------------------------
(***************************************************************************)
(* The first steps of Lire: what it loads, drops and refreshes.            *)
(***************************************************************************)

\* The refreshed members are those that are live, with their current vectors.
LEMMA RefreshedIs ==
  ASSUME NEW cl \in Clusters, NEW vecOf, vecOf \in [DOMAIN vecOf -> Int]
  PROVE  /\ Refreshed(cl, vecOf) \in Clusters /\ DOMAIN Refreshed(cl, vecOf) = DOMAIN cl
         /\ \A S : Partition(cl, S) => Partition(Refreshed(cl, vecOf), S \cap DOMAIN vecOf)
<1> DEFINE dl == Refreshed(cl, vecOf)
           At(i) == {j \in DOMAIN cl[i].members : cl[i].members[j].id \in DOMAIN vecOf}
           kept(i) == Selected(cl[i].members, At(i))
           new(i) == [j \in DOMAIN kept(i) |-> [kept(i)[j] EXCEPT !.vec = vecOf[kept(i)[j].id]]]
<1>1. cl \in [DOMAIN cl -> Posting] /\ DOMAIN cl \subseteq Nat \ {0} /\ IsFiniteSet(DOMAIN cl)
  BY ClustersDef
<1>2. dl = [i \in DOMAIN cl |-> [cl[i] EXCEPT !.members = new(i)]]
  BY DEF Refreshed
<1>3. ASSUME NEW i \in DOMAIN cl
      PROVE  /\ dl[i] \in Posting
             /\ Distinct(cl[i].members) => Distinct(dl[i].members)
             /\ Names(dl[i].members) = Names(cl[i].members) \cap DOMAIN vecOf
  <2> DEFINE m == cl[i].members
             I == At(i)
             k == kept(i)
             t == new(i)
  <2>1. m \in Seq(Entry) /\ cl[i] \in Posting
    BY <1>1, PostingFields
  <2>2. /\ k \in Seq(Entry)
        /\ Distinct(m) => Distinct(k)
        /\ Names(k) = {m[j].id : j \in I}
    <3>1. I \in SUBSET DOMAIN m
      OBVIOUS
    <3> HIDE DEF I, m
    <3> QED BY <2>1, <3>1, SelectedEntries DEF I, m
  <2>3. {m[j].id : j \in I} = Names(m) \cap DOMAIN vecOf
    BY DEF Names
  <2>4. t = [j \in DOMAIN k |-> [k[j] EXCEPT !.vec = vecOf[k[j].id]]]
    OBVIOUS
  <2>5. dl[i] = [cl[i] EXCEPT !.members = t]
    BY <1>2
  <2> HIDE DEF k, t, m, I
  <2>6. ASSUME NEW j \in DOMAIN k PROVE t[j] \in Entry /\ t[j].id = k[j].id
    <3>1. k[j] \in Entry /\ k[j].id \in DOMAIN vecOf
      <4>1. k[j] \in Entry
        BY <2>2
      <4>2. k[j].id \in Names(k)
        BY DEF Names
      <4> QED BY <4>1, <4>2, <2>2, <2>3
    <3>2. vecOf[k[j].id] \in Int
      BY <3>1
    <3> QED BY <2>4, <3>1, <3>2 DEF Entry
  <2>7. DOMAIN t = DOMAIN k /\ DOMAIN k = 1..Len(k) /\ Len(k) \in Nat
    BY <2>2, <2>4
  <2>8. t \in Seq(Entry)
    <3>1. t \in [1..Len(k) -> Entry]
      BY <2>4, <2>6, <2>7
    <3> QED BY <2>7, <3>1, FunctionIsSeq
  <2>9. Distinct(m) => Distinct(t)
    BY <2>2, <2>6, <2>7 DEF Distinct
  <2>10. Names(t) = Names(k)
    BY <2>6, <2>7 DEF Names
  <2>11. dl[i] \in Posting /\ dl[i].members = t
    BY <2>1, <2>5, <2>8, PostingFields
  <2> QED BY <2>2, <2>3, <2>9, <2>10, <2>11 DEF m
<1>4. DOMAIN dl = DOMAIN cl /\ dl \in [DOMAIN cl -> Posting]
  BY <1>2, <1>3
<1> HIDE DEF dl
<1>5. dl \in Clusters
  BY <1>1, <1>4, ClustersDef
<1>6. ASSUME NEW S, Partition(cl, S) PROVE Partition(dl, S \cap DOMAIN vecOf)
  <2>1. \A i \in DOMAIN dl : Distinct(dl[i].members)
    BY <1>3, <1>4, <1>6 DEF Partition
  <2>2. \A i, j \in DOMAIN dl : i # j => Names(dl[i].members) \cap Names(dl[j].members) = {}
    <3> SUFFICES ASSUME NEW i \in DOMAIN dl, NEW j \in DOMAIN dl, i # j
                 PROVE  Names(dl[i].members) \cap Names(dl[j].members) = {}
      OBVIOUS
    <3>1. Names(cl[i].members) \cap Names(cl[j].members) = {}
      BY <1>4, <1>6 DEF Partition
    <3> QED BY <1>3, <1>4, <3>1
  <2>3. \A x : x \in S \cap DOMAIN vecOf <=> \E i \in DOMAIN dl : x \in Names(dl[i].members)
    <3>1. \A x : x \in S <=> \E i \in DOMAIN cl : x \in Names(cl[i].members)
      BY <1>6 DEF Partition
    <3> QED BY <1>3, <1>4, <3>1
  <2> QED BY <2>1, <2>2, <2>3 DEF Partition
<1> QED BY <1>4, <1>5, <1>6 DEF dl

\* The states of the load: one new document after another is inserted.
Loading(f, before, vecOf, n0) ==
  /\ f[0] = Survivors(before, vecOf)
  /\ Loaded(before, vecOf) = f[n0]
  /\ \A k \in 0..n0 : f[k] \in Work
  /\ \A k \in Nat : k < n0 => f[k+1] = InsertNearest(f[k], NewEntry(NewIds(before, vecOf)[k+1], vecOf))

\* The states that Loaded goes through, one for each new id.
LEMMA LoadedFold ==
  ASSUME NEW before, NEW vecOf, vecOf \in [DOMAIN vecOf -> Int], DOMAIN vecOf \subseteq Int,
         Survivors(before, vecOf) \in Work, NEW n0 \in Nat, DOMAIN NewIds(before, vecOf) = 1..n0,
         \A i \in 1..n0 : NewIds(before, vecOf)[i] \in DOMAIN vecOf
  PROVE  \E f : Loading(f, before, vecOf, n0)
<1> DEFINE N == n0
           sq == NewIds(before, vecOf)
           W == Work
           base == Survivors(before, vecOf)
           step == [q \in W \X (1..N) |-> InsertNearest(q[1], NewEntry(NewIds(before, vecOf)[q[2]], vecOf))]
           Is(iter) == iter = [u \in SUBSET DOMAIN sq |->
                                IF u = {} THEN base
                                ELSE LET m == Max(u) IN InsertNearest(iter[u \ {m}], NewEntry(sq[m], vecOf))]
           it == CHOOSE iter : Is(iter)
<1>1. N \in Nat /\ base \in W /\ DOMAIN sq = 1..N /\ \A i \in 1..N : sq[i] = NewIds(before, vecOf)[i]
  OBVIOUS
<1>2. ASSUME NEW x \in W, NEW i \in 1..N PROVE InsertNearest(x, NewEntry(NewIds(before, vecOf)[i], vecOf)) \in W
  <2>1. NewIds(before, vecOf)[i] \in Int /\ vecOf[NewIds(before, vecOf)[i]] \in Int
    OBVIOUS
  <2>2. NewEntry(NewIds(before, vecOf)[i], vecOf) \in Entry
    BY <2>1 DEF NewEntry, Entry
  <2> QED BY <2>2, InsertIs
<1>3. step \in [W \X (1..N) -> W]
  <2> HIDE DEF W, N, base, sq
  <2> QED BY <1>2
<1> HIDE DEF W, N, base, sq
<1>4. PICK h : Folds(h, W, N, base, step)
  <2> HIDE DEF step
  <2> QED BY <1>1, <1>3, FoldTable
<1>5. ASSUME NEW u \in SUBSET (1..N), u # {} PROVE Max(u) \in 1..N /\ u \ {Max(u)} \in SUBSET (1..N)
  BY <1>1, <1>5, MaxIs
<1>6. Is(h)
  <2>1. ASSUME NEW u \in SUBSET (1..N), u # {} PROVE h[u] = InsertNearest(h[u \ {Max(u)}], NewEntry(sq[Max(u)], vecOf))
    <3>1. h[u \ {Max(u)}] \in W
      BY <1>4, <1>5, <2>1 DEF Folds
    <3>2. h[u] = step[<<h[u \ {Max(u)}], Max(u)>>]
      BY <1>4, <2>1 DEF Folds
    <3> QED BY <1>1, <1>5, <2>1, <3>1, <3>2
  <2>2. h = [u \in SUBSET (1..N) |-> h[u]] /\ h[{}] = base
    BY <1>4 DEF Folds
  <2> HIDE DEF step
  <2>3. \A u \in SUBSET (1..N) : h[u] = IF u = {} THEN base ELSE LET m == Max(u) IN InsertNearest(h[u \ {m}], NewEntry(sq[m], vecOf))
    BY <2>1, <2>2
  <2> QED BY <1>1, <2>2, <2>3
<1>7. Is(it)
  <2> HIDE DEF Is
  <2> QED BY <1>6
<1>8. Loaded(before, vecOf) = it[1..N]
  <2>1. Loaded(before, vecOf) = it[DOMAIN sq]
    BY DEF Loaded, FoldLeft, MapThenFoldSet, base, sq
  <2> HIDE DEF it
  <2> QED BY <1>1, <2>1
<1> HIDE DEF it
<1>9. it[{}] = base /\ \A u \in SUBSET (1..N) : u # {} => it[u] = InsertNearest(it[u \ {Max(u)}], NewEntry(sq[Max(u)], vecOf))
  <2>1. \A u \in SUBSET (1..N) :
          it[u] = IF u = {} THEN base ELSE LET m == Max(u) IN InsertNearest(it[u \ {m}], NewEntry(sq[m], vecOf))
    BY <1>1, <1>7
  <2> HIDE DEF Is
  <2> QED BY <2>1
<1>10. ASSUME NEW u \in SUBSET (1..N), u # {}, it[u \ {Max(u)}] \in W
       PROVE  it[u] = step[<<it[u \ {Max(u)}], Max(u)>>]
  BY <1>1, <1>5, <1>9, <1>10
<1>11. PICK f : States(f, it, W, N, base, step)
  <2> HIDE DEF step, Is
  <2> QED BY <1>1, <1>3, <1>9, <1>10, FoldStates
<1>12. ASSUME NEW k \in Nat, k < N PROVE f[k+1] = InsertNearest(f[k], NewEntry(NewIds(before, vecOf)[k+1], vecOf))
  <2>1. f[k] \in W /\ k+1 \in 1..N
    BY <1>1, <1>11, <1>12 DEF States
  <2>2. f[k+1] = step[<<f[k], k+1>>]
    BY <1>11, <1>12 DEF States
  <2> QED BY <2>1, <2>2
<1> QED BY <1>8, <1>11, <1>12 DEF States, Loading, N, W, base


(***************************************************************************)
(* After the refresh and the insertions the working set holds exactly the  *)
(* live vectors.                                                           *)
(***************************************************************************)
LEMMA LoadedIs ==
  ASSUME NEW n \in Nat, NEW before \in [1..n -> Posting], NEW S, Partition(before, S),
         NEW vecOf, vecOf \in [DOMAIN vecOf -> Int], DOMAIN vecOf \subseteq Int, IsFiniteSet(DOMAIN vecOf)
  PROVE  Loaded(before, vecOf) \in Work /\ Partition(Loaded(before, vecOf).cl, DOMAIN vecOf)
         /\ Fresh(Loaded(before, vecOf))
<1> DEFINE start == Survivors(before, vecOf)
           L == DOMAIN vecOf
           rest == L \ Present(before, vecOf)
           ids == NewIds(before, vecOf)
           N == Cardinality(rest)
<1>1. before \in Clusters /\ DOMAIN before = 1..n /\ Len(before) = n
  <2>0. n \in Int /\ 1 \in Int /\ 1..n \subseteq Nat \ {0}
    OBVIOUS
  <2>1. IsFiniteSet(1..n) /\ 1..n \subseteq Nat \ {0}
    BY ONLY <2>0, FS_Interval
  <2> QED BY <2>1, FunctionIsSeq, ClustersDef
<1>2. /\ Refreshed(before, vecOf) \in Clusters /\ DOMAIN Refreshed(before, vecOf) = 1..n
      /\ Partition(Refreshed(before, vecOf), S \cap L)
  BY <1>1, RefreshedIs
<1>3. start = [cl |-> Refreshed(before, vecOf), next |-> n + 1, touched |-> TouchedBy(before)]
  BY <1>1 DEF Survivors
<1>4. start \in Work /\ Fresh(start) /\ Partition(start.cl, S \cap L)
  <2>1. TouchedBy(before) \in SUBSET Nat /\ n + 1 \in Nat \ {0}
    BY <1>1 DEF TouchedBy
  <2> HIDE DEF start
  <2>2. start \in Work
    BY <1>2, <1>3, <2>1 DEF Work
  <2> QED BY <1>2, <1>3, <2>2 DEF Fresh
<1>5. Present(before, vecOf) = S \cap L
  <2>1. Present(before, vecOf) = (UNION {MembersOf(before[i]) : i \in DOMAIN before}) \cap L
    BY DEF Present
  <2>2. \A i \in DOMAIN before : MembersOf(before[i]) = Names(before[i].members)
    BY DEF MembersOf, Names
  <2>3. \A x : x \in S <=> \E i \in DOMAIN before : x \in Names(before[i].members)
    BY DEF Partition
  <2>4. \A x : x \in S <=> \E i \in DOMAIN before : x \in MembersOf(before[i])
    BY <2>2, <2>3
  <2> DEFINE U == UNION {MembersOf(before[i]) : i \in DOMAIN before}
  <2>5. \A x : x \in U <=> \E i \in DOMAIN before : x \in MembersOf(before[i])
    OBVIOUS
  <2> HIDE DEF U, rest, start, ids, L
  <2>6. \A x : x \in S <=> x \in U
    BY <2>4, <2>5
  <2>7. Present(before, vecOf) = U \cap L
    BY <2>1 DEF U
  <2> QED BY <2>6, <2>7
<1>6. IsFiniteSet(rest) /\ rest \subseteq Int
  BY FS_Subset
<1>7. /\ N \in Nat /\ DOMAIN ids = 1..N
      /\ \A i \in 1..N : ids[i] \in rest
      /\ \A i, j \in 1..N : ids[i] = ids[j] => i = j
      /\ \A x \in rest : \E i \in 1..N : ids[i] = x
  <2> HIDE DEF rest
  <2>1. ids = Ascending(rest)
    BY DEF NewIds, rest
  <2> HIDE DEF ids
  <2> QED BY <1>6, <2>1, AscendingIs
<1> HIDE DEF start, ids, N
<1>8. PICK f : /\ f[0] = start
               /\ Loaded(before, vecOf) = f[N]
               /\ \A k \in 0..N : f[k] \in Work
               /\ \A k \in Nat : k < N => f[k+1] = InsertNearest(f[k], NewEntry(ids[k+1], vecOf))
  <2>1. start = Survivors(before, vecOf) /\ ids = NewIds(before, vecOf)
    BY DEF start, ids
  <2>2. \A i \in 1..N : ids[i] \in L
    BY <1>7
  <2>3. Survivors(before, vecOf) \in Work /\ DOMAIN NewIds(before, vecOf) = 1..N
        /\ \A i \in 1..N : NewIds(before, vecOf)[i] \in DOMAIN vecOf
    BY <1>4, <1>7, <2>1, <2>2
  <2>4. N \in Nat
    BY <1>7
  <2> HIDE DEF L, rest
  <2>5. PICK f : Loading(f, before, vecOf, N)
    BY <2>3, <2>4, LoadedFold
  <2> HIDE DEF start, ids
  <2> QED BY <2>1, <2>5 DEF Loading
<1> DEFINE Done(k) == (S \cap L) \cup {ids[i] : i \in 1..k}
           T == {k \in Nat : k <= N => Partition(f[k].cl, Done(k)) /\ Fresh(f[k])}
<1>9. 0 \in T
  <2>1. Done(0) = S \cap L
    OBVIOUS
  <2> HIDE DEF Done
  <2> QED BY <1>4, <1>8, <2>1
<1>10. ASSUME NEW k \in Nat, k \in T PROVE k+1 \in T
  <2> SUFFICES ASSUME k+1 <= N PROVE Partition(f[k+1].cl, Done(k+1)) /\ Fresh(f[k+1])
    <3> HIDE DEF Done
    <3> QED OBVIOUS
  <2> DEFINE e == NewEntry(ids[k+1], vecOf)
  <2>1. k+1 \in 1..N /\ k < N /\ k \in 0..N
    BY <1>7
  <2>2. ids[k+1] \in rest
    BY <1>7, <2>1
  <2>3. e \in Entry /\ e.id = ids[k+1]
    <3>1. ids[k+1] \in Int /\ vecOf[ids[k+1]] \in Int
      BY <2>2
    <3> QED BY <3>1 DEF NewEntry, Entry
  <2>4. f[k] \in Work /\ f[k+1] = InsertNearest(f[k], e)
    BY <1>8, <2>1
  <2>5. Partition(f[k].cl, Done(k)) /\ Fresh(f[k])
    <3> HIDE DEF Done
    <3> QED BY <1>10, <2>1, <1>7
  <2>6. ids[k+1] \notin Done(k)
    <3>1. ids[k+1] \notin S \cap L
      BY <1>5, <2>2
    <3>2. ASSUME NEW i \in 1..k PROVE ids[i] # ids[k+1]
      <4>1. i \in 1..N /\ i # k+1
        BY <2>1, <1>7
      <4> QED BY <1>7, <2>1, <4>1
    <3> QED BY <3>1, <3>2
  <2>7. Done(k+1) = Done(k) \cup {ids[k+1]}
    <3>1. 1..k+1 = (1..k) \cup {k+1}
      OBVIOUS
    <3> QED BY <3>1
  <2> HIDE DEF e, Done
  <2>8. Fresh(f[k+1]) /\ Partition(f[k+1].cl, Done(k) \cup {e.id})
    BY <2>3, <2>4, <2>5, <2>6, InsertIs
  <2> QED BY <2>3, <2>7, <2>8
<1>11. \A k \in Nat : k \in T
  <2> HIDE DEF T
  <2> QED BY <1>9, <1>10, NatSetInduction
<1>12. Partition(f[N].cl, Done(N)) /\ Fresh(f[N]) /\ f[N] \in Work
  <2> HIDE DEF Done
  <2> QED BY <1>7, <1>8, <1>11
<1>13. Done(N) = L
  <2>1. \A x \in rest : x \in {ids[i] : i \in 1..N}
    BY <1>7
  <2>2. {ids[i] : i \in 1..N} \subseteq rest
    BY <1>7
  <2> QED BY <1>5, <2>1, <2>2
<1> QED BY <1>8, <1>12, <1>13

-----------------------------------------------------------------------------
(***************************************************************************)
(* Splitting and merging, round by round, keep the partition.              *)
(***************************************************************************)

\* Two halves share out the members of a posting.
TwoHalves(m, h) ==
  /\ h[1] \in Seq(Entry) /\ h[2] \in Seq(Entry)
  /\ Distinct(m) => Distinct(h[1]) /\ Distinct(h[2])
  /\ Distinct(m) => Names(h[1]) \cap Names(h[2]) = {}
  /\ Names(h[1]) \cup Names(h[2]) = Names(m)

\* 2-means shares out the members of a posting.
LEMMA HalvesIs ==
  ASSUME NEW m \in Seq(Entry), m # <<>>
  PROVE  TwoHalves(m, Halves(m))
<1> DEFINE n == Len(m)
           p == [i \in DOMAIN m |-> m[i].vec]
           km == KMeans(p, 2)
           h == Halves(m)
<1>1. n \in Nat \ {0} /\ DOMAIN m = 1..n /\ \A i \in 1..n : m[i] \in Entry
  OBVIOUS
<1>2. p \in [1..n -> Int]
  BY <1>1 DEF Entry
<1>3. PICK k \in 1..n : (k <= 2 \/ k = 1) /\ km \in KState(n, k)
  <2>1. 2 \in Nat
    OBVIOUS
  <2> HIDE DEF p, n
  <2> QED BY <1>1, <1>2, <2>1, KMeansIs
<1> DEFINE a == km.assign
           I(side) == InCluster(a, side)
<1>4. a \in [1..n -> {1, 2}]
  <2> HIDE DEF km, n
  <2>1. a \in [1..n -> 1..k]
    BY <1>3 DEF KState
  <2>2. 1..k \subseteq {1, 2}
    BY <1>1, <1>3
  <2> QED BY <2>1, <2>2
<1>5. h = Sides(m, km)
  BY DEF Halves
<1>6. h[1] = Selected(m, I(1)) /\ h[2] = Selected(m, I(2))
  <2> HIDE DEF km, h
  <2> QED BY <1>5 DEF Sides
<1> HIDE DEF h, km
<1>7. /\ I(1) \in SUBSET DOMAIN m /\ I(2) \in SUBSET DOMAIN m
      /\ I(1) \cap I(2) = {} /\ I(1) \cup I(2) = DOMAIN m
  BY <1>1, <1>4 DEF InCluster
<1> HIDE DEF I, a
<1>8. /\ h[1] \in Seq(Entry) /\ h[2] \in Seq(Entry)
      /\ Distinct(m) => Distinct(h[1]) /\ Distinct(h[2])
      /\ Names(h[1]) = {m[i].id : i \in I(1)} /\ Names(h[2]) = {m[i].id : i \in I(2)}
  BY <1>6, <1>7, SelectedEntries
<1>9. Names(h[1]) \cup Names(h[2]) = Names(m)
  BY <1>7, <1>8 DEF Names
<1>10. Distinct(m) => Names(h[1]) \cap Names(h[2]) = {}
  <2> SUFFICES ASSUME Distinct(m), NEW i \in I(1), NEW j \in I(2), m[i].id = m[j].id PROVE FALSE
    BY <1>8
  <2>1. i = j
    BY <1>7 DEF Distinct
  <2> QED BY <1>7, <2>1
<1> QED BY <1>8, <1>9, <1>10 DEF TwoHalves, h

\* The working set is of its type, its next id is fresh and its postings share out S.
Holds(w, S) == w \in Work /\ Fresh(w) /\ Partition(w.cl, S)

\* The halves of a posting under two fresh ids hold what the posting held.
LEMMA Split2Is ==
  ASSUME NEW w, NEW S, Holds(w, S), NEW v \in DOMAIN w.cl, NEW h, TwoHalves(w.cl[v].members, h)
  PROVE  Holds(Split2(w, v, h), S)
<1> DEFINE cl == w.cl
           O == Names(cl[v].members)
           a == w.next
           p1 == Recenter([cl[v] EXCEPT !.members = h[1]])
           p2 == Recenter([cl[v] EXCEPT !.members = h[2]])
           c1 == Without(cl, v)
           c2 == With(c1, a, p1)
           c3 == With(c2, a + 1, p2)
           d == Split2(w, v, h)
<1>1. cl \in Clusters /\ a \in Nat \ {0} /\ w.touched \subseteq Nat /\ Partition(cl, S)
      /\ \A i \in DOMAIN cl : i < a
  BY DEF Holds, Work, Fresh
<1>2. cl[v] \in Posting /\ v \in Nat \ {0}
  BY <1>1, ClustersDef
<1>3. Distinct(cl[v].members) /\ O \subseteq S
  BY <1>1 DEF Partition
<1>4. /\ h[1] \in Seq(Entry) /\ h[2] \in Seq(Entry) /\ Distinct(h[1]) /\ Distinct(h[2])
      /\ Names(h[1]) \cap Names(h[2]) = {} /\ Names(h[1]) \cup Names(h[2]) = O
  BY <1>3 DEF TwoHalves
<1>5. p1 \in Posting /\ p1.members = h[1] /\ p2 \in Posting /\ p2.members = h[2]
  <2>1. /\ [cl[v] EXCEPT !.members = h[1]] \in Posting
        /\ [cl[v] EXCEPT !.members = h[1]].members = h[1]
        /\ [cl[v] EXCEPT !.members = h[2]] \in Posting
        /\ [cl[v] EXCEPT !.members = h[2]].members = h[2]
    BY <1>2, <1>4, PostingFields
  <2> QED BY <2>1, RecenterIs
<1>6. CASE \E side \in {1, 2} : h[side] = <<>>
  BY <1>6 DEF Split2
<1>7. CASE ~ \E side \in {1, 2} : h[side] = <<>>
  <2>1. d = [cl |-> c3, next |-> a + 2, touched |-> (w.touched \ {v}) \cup {a, a + 1}]
    BY <1>7 DEF Split2
  <2> HIDE DEF cl, a, p1, p2, d, O
  <2>2. c1 \in Clusters /\ DOMAIN c1 = DOMAIN cl \ {v} /\ Partition(c1, S \ O)
    BY <1>1, WithoutIs, PartitionWithout DEF O, cl
  <2> HIDE DEF c1
  <2>3. a \in (Nat \ {0}) \ DOMAIN c1 /\ Names(p1.members) \cap (S \ O) = {}
    BY <1>1, <1>4, <1>5, <2>2, ClustersDef
  <2>4. c2 \in Clusters /\ DOMAIN c2 = DOMAIN c1 \cup {a}
    BY <1>5, <2>2, <2>3, WithIs
  <2>5. Partition(c2, (S \ O) \cup Names(p1.members))
    BY <1>4, <1>5, <2>2, <2>3, PartitionWith
  <2> HIDE DEF c2
  <2>6. DOMAIN cl \subseteq Nat
    BY <1>1, ClustersDef
  <2>7. a + 1 \in (Nat \ {0}) \ DOMAIN c2
    BY <1>1, <2>2, <2>4, <2>6
  <2>8. c3 \in Clusters /\ DOMAIN c3 = DOMAIN c2 \cup {a + 1}
    BY <1>5, <2>4, <2>7, WithIs
  <2>9. Names(p2.members) \cap ((S \ O) \cup Names(p1.members)) = {}
    BY <1>4, <1>5
  <2>10. Partition(c3, ((S \ O) \cup Names(p1.members)) \cup Names(p2.members))
    BY <1>4, <1>5, <2>4, <2>5, <2>7, <2>9, PartitionWith
  <2>11. ((S \ O) \cup Names(p1.members)) \cup Names(p2.members) = S
    BY <1>3, <1>4, <1>5
  <2> HIDE DEF c3
  <2>12. \A i \in DOMAIN c3 : i < a + 2
    BY <1>1, <2>2, <2>4, <2>6, <2>8
  <2>13. a + 2 \in Nat \ {0} /\ (w.touched \ {v}) \cup {a, a + 1} \subseteq Nat
    BY <1>1
  <2>14. d \in Work /\ d.cl = c3 /\ d.next = a + 2
    BY <2>1, <2>8, <2>13 DEF Work
  <2> QED BY <2>10, <2>11, <2>12, <2>14 DEF Holds, Fresh, d
<1> QED BY <1>6, <1>7

\* A round of the split loop keeps every member.
LEMMA SplitRoundIs ==
  ASSUME NEW w, NEW S, Holds(w, S), NEW cap \in Nat
  PROVE  Holds(SplitRound(w, cap), S)
<1> DEFINE over == {i \in DOMAIN w.cl : Len(w.cl[i].members) > cap}
           v == Min(over)
<1>1. CASE over = {}
  BY <1>1 DEF SplitRound
<1>2. CASE over # {}
  <2>1. w.cl \in Clusters
    BY DEF Holds, Work
  <2>2. over \in SUBSET Nat
    BY <2>1, ClustersDef
  <2>3. v \in over
    <3> HIDE DEF over
    <3> QED BY <1>2, <2>2, MinIs
  <2>4. SplitRound(w, cap) = Split2(w, v, Halves(w.cl[v].members))
    BY <1>2 DEF SplitRound
  <2> HIDE DEF v
  <2>5. w.cl[v].members \in Seq(Entry) /\ w.cl[v].members # <<>>
    <3>1. w.cl[v] \in Posting
      BY <2>1, <2>3, ClustersDef
    <3>2. w.cl[v].members \in Seq(Entry)
      BY <3>1, PostingFields
    <3> QED BY <2>3, <3>2
  <2>6. TwoHalves(w.cl[v].members, Halves(w.cl[v].members))
    BY <2>5, HalvesIs
  <2> QED BY <2>3, <2>4, <2>6, Split2Is
<1> QED BY <1>1, <1>2

\* The number of members of a working set.
LEMMA TotalMembersIs ==
  ASSUME NEW cl \in Clusters
  PROVE  TotalMembers(cl) \in Nat
<1> DEFINE f == [i \in DOMAIN cl |-> Len(cl[i].members)]
<1>1. \A i \in DOMAIN cl : cl[i] \in Posting
  BY ClustersDef
<1>2. ASSUME NEW i \in DOMAIN cl PROVE Len(cl[i].members) \in Nat
  BY <1>1, PostingFields
<1>3. DOMAIN f = DOMAIN cl /\ \A i \in DOMAIN cl : f[i] \in Nat
  BY <1>2
<1>4. IsFiniteSet(DOMAIN cl)
  BY ClustersDef
<1>5. TotalMembers(cl) = SumFunctionOnSet(f, DOMAIN f)
  BY DEF TotalMembers, SumFunction
<1> HIDE DEF f
<1>6. 0 \in Nat /\ \A x, y \in Nat : x + y \in Nat
  OBVIOUS
<1>7. IsFiniteSet(DOMAIN f) /\ \A x \in DOMAIN f : f[x] \in Nat
  BY <1>3, <1>4
<1>8. SumFunctionOnSet(f, DOMAIN f) \in Nat
  BY ONLY <1>6, <1>7, SumIs
<1> QED BY <1>5, <1>8

\* The states that the split loop goes through.
LEMMA SplitFold ==
  ASSUME NEW S, NEW w, Holds(w, S), NEW cap \in Nat, NEW n0 \in Nat, TotalMembers(w.cl) + 1 = n0
  PROVE  \E f : /\ f[0] = w
                /\ SplitOversized(w, cap) = f[n0]
                /\ \A k \in 0..n0 : f[k] \in {x \in Work : Holds(x, S)}
                /\ \A k \in Nat : k < n0 => f[k+1] = SplitRound(f[k], cap)
<1> DEFINE N == n0
           sq == Numbers(n0)
           W == {x \in Work : Holds(x, S)}
           base == w
           step == [q \in W \X (1..N) |-> SplitRound(q[1], cap)]
           Is(iter) == iter = [u \in SUBSET DOMAIN sq |->
                                IF u = {} THEN base
                                ELSE LET m == Max(u) IN SplitRound(iter[u \ {m}], cap)]
           it == CHOOSE iter : Is(iter)
<1>1. N \in Nat /\ base \in W /\ DOMAIN sq = 1..N /\ \A i \in 1..N : sq[i] = i
  BY DEF Numbers, Holds
<1>2. ASSUME NEW x \in W, NEW i \in 1..N PROVE SplitRound(x, cap) \in W
  <2>1. Holds(SplitRound(x, cap), S)
    BY SplitRoundIs
  <2> QED BY <2>1 DEF Holds
<1>3. step \in [W \X (1..N) -> W]
  <2> HIDE DEF W, N, base, sq
  <2> QED BY <1>2
<1> HIDE DEF W, N, base, sq
<1>4. PICK h : Folds(h, W, N, base, step)
  <2> HIDE DEF step
  <2> QED BY <1>1, <1>3, FoldTable
<1>5. ASSUME NEW u \in SUBSET (1..N), u # {} PROVE Max(u) \in 1..N /\ u \ {Max(u)} \in SUBSET (1..N)
  BY <1>1, <1>5, MaxIs
<1>6. Is(h)
  <2>1. ASSUME NEW u \in SUBSET (1..N), u # {} PROVE h[u] = SplitRound(h[u \ {Max(u)}], cap)
    <3>1. h[u \ {Max(u)}] \in W
      BY <1>4, <1>5, <2>1 DEF Folds
    <3>2. h[u] = step[<<h[u \ {Max(u)}], Max(u)>>]
      BY <1>4, <2>1 DEF Folds
    <3> QED BY <1>1, <1>5, <2>1, <3>1, <3>2
  <2>2. h = [u \in SUBSET (1..N) |-> h[u]] /\ h[{}] = base
    BY <1>4 DEF Folds
  <2> HIDE DEF step
  <2>3. \A u \in SUBSET (1..N) : h[u] = IF u = {} THEN base ELSE LET m == Max(u) IN SplitRound(h[u \ {m}], cap)
    BY <2>1, <2>2
  <2> QED BY <1>1, <2>2, <2>3
<1>7. Is(it)
  <2> HIDE DEF Is
  <2> QED BY <1>6
<1>8. SplitOversized(w, cap) = it[1..N]
  <2>1. SplitOversized(w, cap) = it[DOMAIN sq]
    BY DEF SplitOversized, FoldLeft, MapThenFoldSet, base, sq
  <2> HIDE DEF it
  <2> QED BY <1>1, <2>1
<1> HIDE DEF it
<1>9. it[{}] = base /\ \A u \in SUBSET (1..N) : u # {} => it[u] = SplitRound(it[u \ {Max(u)}], cap)
  <2>1. \A u \in SUBSET (1..N) :
          it[u] = IF u = {} THEN base ELSE LET m == Max(u) IN SplitRound(it[u \ {m}], cap)
    BY <1>1, <1>7
  <2> HIDE DEF Is
  <2> QED BY <2>1
<1>10. ASSUME NEW u \in SUBSET (1..N), u # {}, it[u \ {Max(u)}] \in W
       PROVE  it[u] = step[<<it[u \ {Max(u)}], Max(u)>>]
  BY <1>1, <1>5, <1>9, <1>10
<1>11. PICK f : States(f, it, W, N, base, step)
  <2> HIDE DEF step, Is
  <2> QED BY <1>1, <1>3, <1>9, <1>10, FoldStates
<1>12. ASSUME NEW k \in Nat, k < N PROVE f[k+1] = SplitRound(f[k], cap)
  <2>1. f[k] \in W /\ k+1 \in 1..N
    BY <1>1, <1>11, <1>12 DEF States
  <2>2. f[k+1] = step[<<f[k], k+1>>]
    BY <1>11, <1>12 DEF States
  <2> QED BY <2>1, <2>2
<1> QED BY <1>8, <1>11, <1>12 DEF States, N, W, base


\* The split pass keeps every member.
LEMMA SplitOversizedIs ==
  ASSUME NEW w, NEW S, Holds(w, S), NEW cap \in Nat
  PROVE  Holds(SplitOversized(w, cap), S)
<1> DEFINE n == TotalMembers(w.cl) + 1
<1>1. n \in Nat
  <2>1. w.cl \in Clusters
    BY DEF Holds, Work
  <2>2. TotalMembers(w.cl) \in Nat
    BY <2>1, TotalMembersIs
  <2> QED BY <2>2
<1>2. PICK f : /\ SplitOversized(w, cap) = f[n]
               /\ \A k \in 0..n : f[k] \in {x \in Work : Holds(x, S)}
  <2>1. TotalMembers(w.cl) + 1 = n
    OBVIOUS
  <2> HIDE DEF n
  <2> QED BY <1>1, <2>1, SplitFold
<1> HIDE DEF n
<1> QED BY <1>1, <1>2

\* A round of the merge loop keeps every member.
LEMMA MergeRoundIs ==
  ASSUME NEW w, NEW S, Holds(w, S), NEW floor \in Nat
  PROVE  Holds(MergeRound(w, floor), S)
<1> DEFINE cl == w.cl
           under == {i \in DOMAIN cl : Len(cl[i].members) < floor}
           v == Min(under)
           t == NearestClusterID(cl, cl[v].centroid, {v})
           O == Names(cl[v].members)
           p == Recenter([cl[t] EXCEPT !.members = @ \o cl[v].members])
           base == Without(cl, v)
           d == MergeRound(w, floor)
<1>1. cl \in Clusters /\ w.next \in Nat \ {0} /\ w.touched \subseteq Nat /\ Partition(cl, S)
      /\ \A i \in DOMAIN cl : i < w.next
  BY DEF Holds, Work, Fresh
<1>2. CASE under = {} \/ Cardinality(DOMAIN cl) <= 1
  BY <1>2 DEF MergeRound
<1>3. CASE under # {} /\ ~ Cardinality(DOMAIN cl) <= 1
  <2>1. d = [cl |-> Without(With(cl, t, p), v), next |-> w.next, touched |-> (w.touched \ {v}) \cup {t}]
    BY <1>3 DEF MergeRound
  <2>2. v \in under
    <3>1. under \in SUBSET Nat
      BY <1>1, ClustersDef
    <3> HIDE DEF under
    <3> QED BY <1>3, <3>1, MinIs
  <2> HIDE DEF v, d
  <2>3. v \in DOMAIN cl
    BY <2>2
  <2> HIDE DEF under, cl
  <2>4. cl[v] \in Posting /\ cl[v].centroid \in Int /\ cl[v].members \in Seq(Entry)
    BY <1>1, <2>3, ClustersDef, PostingFields
  <2>5. DOMAIN cl \ {v} # {}
    <3>1. IsFiniteSet(DOMAIN cl) /\ Cardinality(DOMAIN cl) \in Nat
      BY <1>1, ClustersDef, FS_CardinalityType
    <3>2. Cardinality(DOMAIN cl) > 1
      BY <1>3, <3>1
    <3>3. \E y \in DOMAIN cl : y # v
      BY ONLY <2>3, <3>1, <3>2, MoreThanOne
    <3> QED BY <3>3
  <2>6. t \in DOMAIN cl /\ t # v
    BY <1>1, <2>4, <2>5, NearestIs
  <2> HIDE DEF t
  <2>7. cl[t] \in Posting /\ cl[t].members \in Seq(Entry) /\ t \in Nat \ {0}
    BY <1>1, <2>6, ClustersDef, PostingFields
  <2>8. /\ Distinct(cl[t].members) /\ Distinct(cl[v].members)
        /\ Names(cl[t].members) \cap O = {} /\ O \subseteq S
    BY <1>1, <2>3, <2>6 DEF Partition
  <2> DEFINE m == cl[t].members \o cl[v].members
  <2>9. m \in Seq(Entry) /\ Distinct(m) /\ Names(m) = Names(cl[t].members) \cup O
    BY <2>4, <2>7, <2>8, ConcatEntries
  <2>10. p = Recenter([cl[t] EXCEPT !.members = m])
    OBVIOUS
  <2> HIDE DEF m, p
  <2>11. p \in Posting /\ p.members = m
    <3>1. [cl[t] EXCEPT !.members = m] \in Posting /\ [cl[t] EXCEPT !.members = m].members = m
      BY <2>7, <2>9, PostingFields
    <3> QED BY <2>10, <3>1, RecenterIs
  <2>12. base \in Clusters /\ DOMAIN base = DOMAIN cl \ {v} /\ base[t] = cl[t]
         /\ Partition(base, S \ O)
    BY <1>1, <2>3, <2>6, WithoutIs, PartitionWithout
  <2>13. Without(With(cl, t, p), v) = With(base, t, p)
    <3>1. DOMAIN Without(With(cl, t, p), v) = DOMAIN With(base, t, p)
      BY <2>6 DEF With, Without
    <3>2. \A i \in DOMAIN With(base, t, p) : Without(With(cl, t, p), v)[i] = With(base, t, p)[i]
      BY <2>6 DEF With, Without
    <3>3. /\ Without(With(cl, t, p), v) =
               [i \in DOMAIN Without(With(cl, t, p), v) |-> Without(With(cl, t, p), v)[i]]
          /\ With(base, t, p) = [i \in DOMAIN With(base, t, p) |-> With(base, t, p)[i]]
      BY DEF With, Without
    <3> QED BY <3>1, <3>2, <3>3
  <2> HIDE DEF base
  <2>14. t \in DOMAIN base /\ O \cap (S \ O) = {} /\ Distinct(p.members)
         /\ Names(p.members) = Names(base[t].members) \cup O
    BY <2>6, <2>9, <2>11, <2>12
  <2>15. Partition(With(base, t, p), (S \ O) \cup O)
    <3> HIDE DEF O
    <3> QED BY <2>11, <2>12, <2>14, PartitionReplace
  <2>16. (S \ O) \cup O = S
    BY <2>8
  <2>17. With(base, t, p) \in Clusters /\ DOMAIN With(base, t, p) = DOMAIN cl \ {v}
    <3>1. With(base, t, p) \in Clusters /\ DOMAIN With(base, t, p) = DOMAIN base \cup {t}
      BY <2>7, <2>11, <2>12, WithIs
    <3> QED BY <2>6, <2>12, <3>1
  <2>18. d \in Work /\ d.cl = With(base, t, p) /\ d.next = w.next
    <3>1. (w.touched \ {v}) \cup {t} \subseteq Nat
      BY <1>1, <2>7
    <3> QED BY <1>1, <2>1, <2>13, <2>17, <3>1 DEF Work
  <2>19. Fresh(d)
    BY <1>1, <2>17, <2>18 DEF Fresh
  <2> QED BY <2>15, <2>16, <2>18, <2>19 DEF Holds, d
<1> QED BY <1>2, <1>3

\* The states that the merge loop goes through.
LEMMA MergeFold ==
  ASSUME NEW S, NEW w, Holds(w, S), NEW floor \in Nat, NEW n0 \in Nat,
         Cardinality(DOMAIN w.cl) + 1 = n0
  PROVE  \E f : /\ f[0] = w
                /\ MergeUnderfull(w, floor) = f[n0]
                /\ \A k \in 0..n0 : f[k] \in {x \in Work : Holds(x, S)}
                /\ \A k \in Nat : k < n0 => f[k+1] = MergeRound(f[k], floor)
<1> DEFINE N == n0
           sq == Numbers(n0)
           W == {x \in Work : Holds(x, S)}
           base == w
           step == [q \in W \X (1..N) |-> MergeRound(q[1], floor)]
           Is(iter) == iter = [u \in SUBSET DOMAIN sq |->
                                IF u = {} THEN base
                                ELSE LET m == Max(u) IN MergeRound(iter[u \ {m}], floor)]
           it == CHOOSE iter : Is(iter)
<1>1. N \in Nat /\ base \in W /\ DOMAIN sq = 1..N /\ \A i \in 1..N : sq[i] = i
  BY DEF Numbers, Holds
<1>2. ASSUME NEW x \in W, NEW i \in 1..N PROVE MergeRound(x, floor) \in W
  <2>1. Holds(MergeRound(x, floor), S)
    BY MergeRoundIs
  <2> QED BY <2>1 DEF Holds
<1>3. step \in [W \X (1..N) -> W]
  <2> HIDE DEF W, N, base, sq
  <2> QED BY <1>2
<1> HIDE DEF W, N, base, sq
<1>4. PICK h : Folds(h, W, N, base, step)
  <2> HIDE DEF step
  <2> QED BY <1>1, <1>3, FoldTable
<1>5. ASSUME NEW u \in SUBSET (1..N), u # {} PROVE Max(u) \in 1..N /\ u \ {Max(u)} \in SUBSET (1..N)
  BY <1>1, <1>5, MaxIs
<1>6. Is(h)
  <2>1. ASSUME NEW u \in SUBSET (1..N), u # {} PROVE h[u] = MergeRound(h[u \ {Max(u)}], floor)
    <3>1. h[u \ {Max(u)}] \in W
      BY <1>4, <1>5, <2>1 DEF Folds
    <3>2. h[u] = step[<<h[u \ {Max(u)}], Max(u)>>]
      BY <1>4, <2>1 DEF Folds
    <3> QED BY <1>1, <1>5, <2>1, <3>1, <3>2
  <2>2. h = [u \in SUBSET (1..N) |-> h[u]] /\ h[{}] = base
    BY <1>4 DEF Folds
  <2> HIDE DEF step
  <2>3. \A u \in SUBSET (1..N) : h[u] = IF u = {} THEN base ELSE LET m == Max(u) IN MergeRound(h[u \ {m}], floor)
    BY <2>1, <2>2
  <2> QED BY <1>1, <2>2, <2>3
<1>7. Is(it)
  <2> HIDE DEF Is
  <2> QED BY <1>6
<1>8. MergeUnderfull(w, floor) = it[1..N]
  <2>1. MergeUnderfull(w, floor) = it[DOMAIN sq]
    BY DEF MergeUnderfull, FoldLeft, MapThenFoldSet, base, sq
  <2> HIDE DEF it
  <2> QED BY <1>1, <2>1
<1> HIDE DEF it
<1>9. it[{}] = base /\ \A u \in SUBSET (1..N) : u # {} => it[u] = MergeRound(it[u \ {Max(u)}], floor)
  <2>1. \A u \in SUBSET (1..N) :
          it[u] = IF u = {} THEN base ELSE LET m == Max(u) IN MergeRound(it[u \ {m}], floor)
    BY <1>1, <1>7
  <2> HIDE DEF Is
  <2> QED BY <2>1
<1>10. ASSUME NEW u \in SUBSET (1..N), u # {}, it[u \ {Max(u)}] \in W
       PROVE  it[u] = step[<<it[u \ {Max(u)}], Max(u)>>]
  BY <1>1, <1>5, <1>9, <1>10
<1>11. PICK f : States(f, it, W, N, base, step)
  <2> HIDE DEF step, Is
  <2> QED BY <1>1, <1>3, <1>9, <1>10, FoldStates
<1>12. ASSUME NEW k \in Nat, k < N PROVE f[k+1] = MergeRound(f[k], floor)
  <2>1. f[k] \in W /\ k+1 \in 1..N
    BY <1>1, <1>11, <1>12 DEF States
  <2>2. f[k+1] = step[<<f[k], k+1>>]
    BY <1>11, <1>12 DEF States
  <2> QED BY <2>1, <2>2
<1> QED BY <1>8, <1>11, <1>12 DEF States, N, W, base


\* The merge pass keeps every member.
LEMMA MergeUnderfullIs ==
  ASSUME NEW w, NEW S, Holds(w, S), NEW floor \in Nat
  PROVE  Holds(MergeUnderfull(w, floor), S)
<1> DEFINE n == Cardinality(DOMAIN w.cl) + 1
<1>1. n \in Nat
  <2>1. IsFiniteSet(DOMAIN w.cl)
    BY ClustersDef DEF Holds, Work
  <2>2. Cardinality(DOMAIN w.cl) \in Nat
    BY <2>1, FS_CardinalityType
  <2> QED BY <2>2
<1>2. PICK f : /\ MergeUnderfull(w, floor) = f[n]
               /\ \A k \in 0..n : f[k] \in {x \in Work : Holds(x, S)}
  <2>1. Cardinality(DOMAIN w.cl) + 1 = n
    OBVIOUS
  <2> HIDE DEF n
  <2> QED BY <1>1, <2>1, MergeFold
<1> HIDE DEF n
<1> QED BY <1>1, <1>2

\* Which postings are reported as touched does not matter to what they hold.
LEMMA TouchedIs ==
  ASSUME NEW w, NEW S, Holds(w, S), NEW ids \in SUBSET Nat
  PROVE  Holds(Touching(w, ids), S) /\ Holds(Untouched(w), S)
<1>1. /\ Touching(w, ids) \in Work /\ Untouched(w) \in Work
      /\ Touching(w, ids).cl = w.cl /\ Untouched(w).cl = w.cl
      /\ Touching(w, ids).next = w.next /\ Untouched(w).next = w.next
  BY DEF Touching, Untouched, Holds, Work
<1> QED BY <1>1 DEF Holds, Fresh

\* A rebalance, split pass and merge pass, keeps every member.
LEMMA RebalanceIs ==
  ASSUME NEW w, NEW S, Holds(w, S)
  PROVE  Holds(Rebalance(w), S)
<1> DEFINE n == TotalMembers(w.cl)
           k == Cardinality(DOMAIN w.cl)
<1>1. n \in Nat /\ k \in Nat
  <2>1. w.cl \in Clusters /\ IsFiniteSet(DOMAIN w.cl)
    BY ClustersDef DEF Holds, Work
  <2> QED BY <2>1, TotalMembersIs, FS_CardinalityType
<1>2. Rebalance(w) = Rebalanced(w, n, k)
  BY DEF Rebalance
<1> HIDE DEF n, k
<1>3. SplitCap(n, k) \in Nat /\ MergeMin(n, k) \in Nat
  <2> DEFINE a == Max({k, 1})
  <2>1. a \in Nat \ {0}
    <3>1. Max({k, 1}) = IF k >= 1 THEN k ELSE 1
      BY <1>1, OfTwo
    <3> QED BY <1>1, <3>1
  <2>2. SplitCap(n, k) = Max({1, (n \div a) * SplitCapMultiplier})
        /\ MergeMin(n, k) = Max({1, (n \div a) \div MergeMinDivisor})
    BY DEF SplitCap, MergeMin
  <2> HIDE DEF a
  <2>3. n \div a \in Nat
    BY <1>1, <2>1
  <2> DEFINE q == n \div a
  <2> HIDE DEF q
  <2>4. q \in Nat /\ SplitCapMultiplier \in Nat /\ MergeMinDivisor \in Nat \ {0}
    BY <2>3, LireAssumption DEF q
  <2> DEFINE x == q * SplitCapMultiplier
             y == q \div MergeMinDivisor
  <2>5. x \in Nat /\ y \in Nat
    BY <2>4
  <2>6. SplitCap(n, k) = Max({1, x}) /\ MergeMin(n, k) = Max({1, y})
    BY <2>2 DEF q
  <2> HIDE DEF x, y
  <2>7. Max({1, x}) = (IF 1 >= x THEN 1 ELSE x) /\ Max({1, y}) = IF 1 >= y THEN 1 ELSE y
    <3>1. 1 \in Int /\ x \in Int /\ y \in Int
      BY <2>5
    <3> QED BY <3>1, OfTwo
  <2> QED BY <2>5, <2>6, <2>7
<1> DEFINE s == SplitPass(w, SplitCap(n, k))
<1>4. w.touched \in SUBSET Nat
  BY DEF Holds, Work
<1>5. Holds(s, S)
  <2>1. Holds(SplitOversized(Untouched(w), SplitCap(n, k)), S)
    BY <1>3, <1>4, TouchedIs, SplitOversizedIs
  <2> QED BY <1>4, <2>1, TouchedIs DEF SplitPass
<1>6. Rebalanced(w, n, k) = MergePass(s, MergeMin(n, k))
  BY DEF Rebalanced
<1> HIDE DEF s
<1>7. s.touched \in SUBSET Nat
  BY <1>5 DEF Holds, Work
<1>8. Holds(MergePass(s, MergeMin(n, k)), S)
  <2>1. Holds(MergeUnderfull(Untouched(s), MergeMin(n, k)), S)
    BY <1>3, <1>5, <1>7, TouchedIs, MergeUnderfullIs
  <2> QED BY <1>7, <2>1, TouchedIs DEF MergePass
<1> QED BY <1>2, <1>6, <1>8

-----------------------------------------------------------------------------
(***************************************************************************)
(* Reassignment: every member goes to one cluster, its own or a nearer     *)
(* neighbour's.                                                            *)
(***************************************************************************)

\* The prefixes of the sequences that Joined joins.
LEMMA JoinedFold ==
  ASSUME NEW parts, IsFiniteSet(DOMAIN parts), DOMAIN parts \subseteq Int,
         \A x \in DOMAIN parts : parts[x] \in Seq(Entry),
         NEW n0 \in Nat, n0 = Cardinality(DOMAIN parts)
  PROVE  \E f : /\ f[0] = <<>>
                /\ Joined(parts) = f[n0]
                /\ \A k \in 0..n0 : f[k] \in Seq(Entry)
                /\ \A k \in Nat : k < n0 => f[k+1] = f[k] \o parts[Ascending(DOMAIN parts)[k+1]]
<1> DEFINE N == n0
           sq == Ascending(DOMAIN parts)
           W == Seq(Entry)
           base == <<>>
           step == [q \in W \X (1..N) |-> q[1] \o parts[Ascending(DOMAIN parts)[q[2]]]]
           Is(iter) == iter = [u \in SUBSET DOMAIN sq |->
                                IF u = {} THEN base
                                ELSE LET m == Max(u) IN iter[u \ {m}] \o parts[sq[m]]]
           it == CHOOSE iter : Is(iter)
<1>1. N \in Nat /\ base \in W /\ DOMAIN sq = 1..N /\ \A i \in 1..N : sq[i] = Ascending(DOMAIN parts)[i]
  BY AscendingIs
<1>2. ASSUME NEW x \in W, NEW i \in 1..N PROVE x \o parts[Ascending(DOMAIN parts)[i]] \in W
  <2>1. parts[Ascending(DOMAIN parts)[i]] \in Seq(Entry)
    BY AscendingIs
  <2> QED BY <2>1
<1>3. step \in [W \X (1..N) -> W]
  <2> HIDE DEF W, N, base, sq
  <2> QED BY <1>2
<1> HIDE DEF W, N, base, sq
<1>4. PICK h : Folds(h, W, N, base, step)
  <2> HIDE DEF step
  <2> QED BY <1>1, <1>3, FoldTable
<1>5. ASSUME NEW u \in SUBSET (1..N), u # {} PROVE Max(u) \in 1..N /\ u \ {Max(u)} \in SUBSET (1..N)
  BY <1>1, <1>5, MaxIs
<1>6. Is(h)
  <2>1. ASSUME NEW u \in SUBSET (1..N), u # {} PROVE h[u] = h[u \ {Max(u)}] \o parts[sq[Max(u)]]
    <3>1. h[u \ {Max(u)}] \in W
      BY <1>4, <1>5, <2>1 DEF Folds
    <3>2. h[u] = step[<<h[u \ {Max(u)}], Max(u)>>]
      BY <1>4, <2>1 DEF Folds
    <3> QED BY <1>1, <1>5, <2>1, <3>1, <3>2
  <2>2. h = [u \in SUBSET (1..N) |-> h[u]] /\ h[{}] = base
    BY <1>4 DEF Folds
  <2> HIDE DEF step
  <2>3. \A u \in SUBSET (1..N) : h[u] = IF u = {} THEN base ELSE LET m == Max(u) IN h[u \ {m}] \o parts[sq[m]]
    BY <2>1, <2>2
  <2> QED BY <1>1, <2>2, <2>3
<1>7. Is(it)
  <2> HIDE DEF Is
  <2> QED BY <1>6
<1>8. Joined(parts) = it[1..N]
  <2>1. Joined(parts) = it[DOMAIN sq]
    BY DEF Joined, FoldLeft, MapThenFoldSet, base, sq
  <2> HIDE DEF it
  <2> QED BY <1>1, <2>1
<1> HIDE DEF it
<1>9. it[{}] = base /\ \A u \in SUBSET (1..N) : u # {} => it[u] = it[u \ {Max(u)}] \o parts[sq[Max(u)]]
  <2>1. \A u \in SUBSET (1..N) :
          it[u] = IF u = {} THEN base ELSE LET m == Max(u) IN it[u \ {m}] \o parts[sq[m]]
    BY <1>1, <1>7
  <2> HIDE DEF Is
  <2> QED BY <2>1
<1>10. ASSUME NEW u \in SUBSET (1..N), u # {}, it[u \ {Max(u)}] \in W
       PROVE  it[u] = step[<<it[u \ {Max(u)}], Max(u)>>]
  BY <1>1, <1>5, <1>9, <1>10
<1>11. PICK f : States(f, it, W, N, base, step)
  <2> HIDE DEF step, Is
  <2> QED BY <1>1, <1>3, <1>9, <1>10, FoldStates
<1>12. ASSUME NEW k \in Nat, k < N PROVE f[k+1] = f[k] \o parts[Ascending(DOMAIN parts)[k+1]]
  <2>1. f[k] \in W /\ k+1 \in 1..N
    BY <1>1, <1>11, <1>12 DEF States
  <2>2. f[k+1] = step[<<f[k], k+1>>]
    BY <1>11, <1>12 DEF States
  <2> QED BY <2>1, <2>2
<1> QED BY <1>8, <1>11, <1>12 DEF States, N, W, base


\* The sequences of a function have distinct ids that are in no two of them.
Apart(parts) ==
  /\ \A x \in DOMAIN parts : Distinct(parts[x])
  /\ \A x, y \in DOMAIN parts : x # y => Names(parts[x]) \cap Names(parts[y]) = {}

\* What some sequences hold, joined.
LEMMA JoinedIs ==
  ASSUME NEW parts, IsFiniteSet(DOMAIN parts), DOMAIN parts \subseteq Int,
         \A x \in DOMAIN parts : parts[x] \in Seq(Entry), Apart(parts)
  PROVE  /\ Joined(parts) \in Seq(Entry) /\ Distinct(Joined(parts))
         /\ \A e : e \in Names(Joined(parts)) <=> \E x \in DOMAIN parts : e \in Names(parts[x])
<1> DEFINE D == DOMAIN parts
           N == Cardinality(D)
           a == Ascending(D)
<1>1. /\ N \in Nat /\ DOMAIN a = 1..N /\ \A i \in 1..N : a[i] \in D
      /\ \A i, j \in 1..N : a[i] = a[j] => i = j
      /\ \A x \in D : \E i \in 1..N : a[i] = x
  BY AscendingIs
<1> HIDE DEF N, a
<1>2. PICK f : /\ f[0] = <<>>
               /\ Joined(parts) = f[N]
               /\ \A k \in 0..N : f[k] \in Seq(Entry)
               /\ \A k \in Nat : k < N => f[k+1] = f[k] \o parts[a[k+1]]
  <2>1. N = Cardinality(D) /\ a = Ascending(D)
    BY DEF N, a
  <2>2. N \in Nat /\ N = Cardinality(DOMAIN parts)
    BY <1>1, <2>1
  <2>3. \E f : /\ f[0] = <<>>
               /\ Joined(parts) = f[N]
               /\ \A k \in 0..N : f[k] \in Seq(Entry)
               /\ \A k \in Nat : k < N => f[k+1] = f[k] \o parts[Ascending(DOMAIN parts)[k+1]]
    BY ONLY <2>2, IsFiniteSet(DOMAIN parts), DOMAIN parts \subseteq Int,
            \A x \in DOMAIN parts : parts[x] \in Seq(Entry), JoinedFold
  <2> QED BY <2>1, <2>3
<1> DEFINE Upto(k) == \A e : e \in Names(f[k]) <=> \E i \in 1..k : e \in Names(parts[a[i]])
           T == {k \in Nat : k <= N => Distinct(f[k]) /\ Upto(k)}
<1>3. 0 \in T
  <2>1. Names(f[0]) = {} /\ Distinct(f[0])
    BY <1>2 DEF Names, Distinct
  <2> QED BY <2>1
<1>4. ASSUME NEW k \in Nat, k \in T PROVE k+1 \in T
  <2> SUFFICES ASSUME k+1 <= N PROVE Distinct(f[k+1]) /\ Upto(k+1)
    <3> HIDE DEF Upto
    <3> QED OBVIOUS
  <2> DEFINE p == parts[a[k+1]]
  <2>1. k+1 \in 1..N /\ k < N /\ k \in 0..N /\ a[k+1] \in D
    BY <1>1
  <2>2. f[k] \in Seq(Entry) /\ f[k+1] = f[k] \o p /\ p \in Seq(Entry) /\ Distinct(p)
    BY <1>2, <2>1 DEF Apart
  <2>3. Distinct(f[k]) /\ Upto(k)
    <3> HIDE DEF Upto
    <3> QED BY <1>1, <1>4, <2>1
  <2>4. ASSUME NEW i \in 1..k PROVE Names(parts[a[i]]) \cap Names(p) = {}
    <3>1. i \in 1..N /\ i # k+1
      BY <1>1, <2>1
    <3>2. a[i] \in D /\ a[i] # a[k+1]
      BY <1>1, <2>1, <3>1
    <3> QED BY <2>1, <3>2 DEF Apart
  <2>5. Names(f[k]) \cap Names(p) = {}
    BY <2>3, <2>4
  <2> HIDE DEF p, Upto
  <2>6. Distinct(f[k+1]) /\ Names(f[k+1]) = Names(f[k]) \cup Names(p)
    BY <2>2, <2>3, <2>5, ConcatEntries
  <2>7. Upto(k+1)
    <3>1. 1..k+1 = (1..k) \cup {k+1}
      OBVIOUS
    <3>2. \A e : e \in Names(f[k+1]) <=> e \in Names(p) \/ \E i \in 1..k : e \in Names(parts[a[i]])
      BY <2>3, <2>6 DEF Upto
    <3> QED BY <3>1, <3>2 DEF Upto, p
  <2> QED BY <2>6, <2>7
<1>5. \A k \in Nat : k \in T
  <2> HIDE DEF T
  <2> QED BY <1>3, <1>4, NatSetInduction
<1>6. Distinct(f[N]) /\ Upto(N) /\ f[N] \in Seq(Entry)
  <2> HIDE DEF Upto
  <2> QED BY <1>1, <1>2, <1>5
<1>7. \A e : (\E i \in 1..N : e \in Names(parts[a[i]])) <=> \E x \in D : e \in Names(parts[x])
  BY <1>1
<1> QED BY <1>2, <1>6, <1>7

\* Where the members of each posting go.
Targeted(cl, target) ==
  /\ DOMAIN target = DOMAIN cl
  /\ \A h \in DOMAIN cl : /\ DOMAIN target[h] = DOMAIN cl[h].members
                          /\ \A j \in DOMAIN cl[h].members : target[h][j] \in DOMAIN cl

\* Every member has a target, and that is a posting: its own or the nearest to it.
LEMMA TargetsIs ==
  ASSUME NEW cl \in Clusters, NEW changed, NEW old, NEW forced
  PROVE  Targeted(cl, Targets(cl, changed, old, forced))
<1> DEFINE t == Targets(cl, changed, old, forced)
<1>1. ASSUME NEW h \in DOMAIN cl, NEW j \in DOMAIN cl[h].members
      PROVE  /\ DOMAIN t[h] = DOMAIN cl[h].members
             /\ t[h][j] = IF Candidate(cl, changed, old, forced, h, cl[h].members[j])
                          THEN NearestClusterID(cl, cl[h].members[j].vec, {}) ELSE h
  BY DEF Targets
<1>2. ASSUME NEW h \in DOMAIN cl, NEW j \in DOMAIN cl[h].members
      PROVE  NearestClusterID(cl, cl[h].members[j].vec, {}) \in DOMAIN cl
  <2>1. cl[h] \in Posting
    BY ClustersDef
  <2>2. cl[h].members \in Seq(Entry)
    BY <2>1, PostingFields
  <2>3. cl[h].members[j] \in Entry
    BY <2>2
  <2>4. cl[h].members[j].vec \in Int /\ DOMAIN cl \ {} # {}
    BY <2>3 DEF Entry
  <2> QED BY <2>4, NearestIs
<1>3. DOMAIN t = DOMAIN cl /\ \A h \in DOMAIN cl : DOMAIN t[h] = DOMAIN cl[h].members
  BY DEF Targets
<1> HIDE DEF t
<1>4. \A h \in DOMAIN cl : \A j \in DOMAIN cl[h].members : t[h][j] \in DOMAIN cl
  BY <1>1, <1>2
<1> QED BY <1>3, <1>4 DEF Targeted, t

\* A higher version changes nothing else.
LEMMA BumpedIs ==
  ASSUME NEW m \in Seq(Entry)
  PROVE  /\ Bumped(m) \in Seq(Entry) /\ Names(Bumped(m)) = Names(m)
         /\ Distinct(m) => Distinct(Bumped(m))
<1> DEFINE t == Bumped(m)
<1>1. Len(m) \in Nat /\ DOMAIN m = 1..Len(m) /\ \A j \in DOMAIN m : m[j] \in Entry
  OBVIOUS
<1>2. DOMAIN t = DOMAIN m /\ \A j \in DOMAIN m : t[j] = [m[j] EXCEPT !.version = @ + 1]
  BY DEF Bumped
<1> HIDE DEF t
<1>3. ASSUME NEW j \in DOMAIN m PROVE t[j] \in Entry /\ t[j].id = m[j].id
  <2>1. m[j] \in Entry /\ t[j] = [m[j] EXCEPT !.version = @ + 1]
    BY <1>1, <1>2
  <2> QED BY <2>1 DEF Entry
<1>4. t \in [1..Len(m) -> Entry]
  <2>1. t = [j \in DOMAIN m |-> [m[j] EXCEPT !.version = @ + 1]]
    BY DEF t, Bumped
  <2> QED BY <1>1, <1>2, <1>3, <2>1
<1>5. t \in Seq(Entry)
  BY <1>1, <1>4, FunctionIsSeq
<1>6. Names(t) = Names(m)
  BY <1>2, <1>3 DEF Names
<1>7. Distinct(m) => Distinct(t)
  BY <1>2, <1>3 DEF Distinct
<1> QED BY <1>5, <1>6, <1>7 DEF t

\* The member of posting h at j has the id e and goes to posting i.
Lands(cl, target, e, i, h, j) ==
  h \in DOMAIN cl /\ j \in DOMAIN cl[h].members /\ cl[h].members[j].id = e /\ target[h][j] = i

\* What a posting holds after the moves: the members that go to it.
LEMMA ExchangedPosting ==
  ASSUME NEW cl \in Clusters, NEW S, Partition(cl, S), NEW target, Targeted(cl, target),
         NEW i \in DOMAIN cl
  PROVE  LET m == Remaining(cl[i].members, MovedFrom(cl, target, i)) \o Gained(cl, target, i)
         IN  /\ m \in Seq(Entry) /\ Distinct(m)
             /\ \A e : e \in Names(m) <=> \E h, j : Lands(cl, target, e, i, h, j)
<1> DEFINE own == cl[i].members
           At(h) == {j \in DOMAIN target[h] : target[h][j] = i}
           Out == MovedFrom(cl, target, i)
           Kept == {j \in DOMAIN own : own[j].id \notin Out}
           rest == Remaining(own, Out)
           parts == [h \in DOMAIN cl \ {i} |-> Bumped(Goes(cl, target, h, i))]
           more == Gained(cl, target, i)
<1>1. ASSUME NEW h \in DOMAIN cl
      PROVE  /\ cl[h].members \in Seq(Entry) /\ Distinct(cl[h].members)
             /\ DOMAIN target[h] = DOMAIN cl[h].members
  <2>1. cl[h] \in Posting
    BY ClustersDef
  <2> QED BY <2>1, PostingFields DEF Partition, Targeted
<1>2. ASSUME NEW h \in DOMAIN cl
      PROVE  /\ Goes(cl, target, h, i) \in Seq(Entry) /\ Distinct(Goes(cl, target, h, i))
             /\ Names(Goes(cl, target, h, i)) = {cl[h].members[j].id : j \in At(h)}
             /\ At(h) \subseteq DOMAIN cl[h].members
  <2>1. At(h) \in SUBSET DOMAIN cl[h].members
    BY <1>1
  <2>2. Goes(cl, target, h, i) = Selected(cl[h].members, At(h))
    BY DEF Goes
  <2> HIDE DEF At
  <2> QED BY <1>1, <2>1, <2>2, SelectedEntries
<1>3. /\ rest \in Seq(Entry) /\ Distinct(rest) /\ Names(rest) = {own[j].id : j \in Kept}
  <2>1. Kept \in SUBSET DOMAIN own
    OBVIOUS
  <2>2. rest = Selected(own, Kept)
    BY DEF Remaining
  <2> HIDE DEF Kept
  <2> QED BY <1>1, <2>1, <2>2, SelectedEntries
<1>4. \A j \in DOMAIN own : j \in Kept <=> target[i][j] = i
  <2> SUFFICES ASSUME NEW j \in DOMAIN own PROVE own[j].id \in Out <=> target[i][j] # i
    OBVIOUS
  <2>1. own[j].id \in Out <=> \E n \in DOMAIN own : target[i][n] # i /\ own[j].id = own[n].id
    BY <1>1 DEF MovedFrom
  <2> QED BY <1>1, <2>1 DEF Distinct
<1>5. ASSUME NEW e PROVE e \in Names(rest) <=> \E j : Lands(cl, target, e, i, i, j)
  <2> HIDE DEF Kept, rest
  <2>1. e \in Names(rest) <=> \E j \in Kept : own[j].id = e
    BY <1>3
  <2>2. Kept \subseteq DOMAIN own
    BY DEF Kept
  <2> QED BY <1>4, <2>1, <2>2 DEF Lands
<1>6. DOMAIN parts = DOMAIN cl \ {i} /\ IsFiniteSet(DOMAIN parts) /\ DOMAIN parts \subseteq Int
  <2>1. IsFiniteSet(DOMAIN cl) /\ DOMAIN cl \subseteq Nat
    BY ClustersDef
  <2>2. IsFiniteSet(DOMAIN cl \ {i})
    BY <2>1, FS_Subset
  <2> QED BY <2>1, <2>2
<1>7. ASSUME NEW h \in DOMAIN parts
      PROVE  /\ parts[h] \in Seq(Entry) /\ Distinct(parts[h])
             /\ \A e : e \in Names(parts[h]) <=> \E j : Lands(cl, target, e, i, h, j)
  <2>1. parts[h] = Bumped(Goes(cl, target, h, i)) /\ h \in DOMAIN cl
    OBVIOUS
  <2> HIDE DEF parts
  <2>2. /\ parts[h] \in Seq(Entry) /\ Distinct(parts[h])
        /\ Names(parts[h]) = {cl[h].members[j].id : j \in At(h)}
    BY <1>2, <2>1, BumpedIs
  <2>3. \A j : j \in At(h) <=> j \in DOMAIN cl[h].members /\ target[h][j] = i
    BY <1>1, <2>1
  <2>4. ASSUME NEW e PROVE e \in Names(parts[h]) <=> \E j : Lands(cl, target, e, i, h, j)
    <3> HIDE DEF At
    <3> QED BY <2>1, <2>2, <2>3 DEF Lands
  <2> QED BY <2>2, <2>4
<1>8. more = Joined(parts)
  BY DEF Gained
<1> HIDE DEF parts, rest, more, Kept, Out, At, own
<1>9. ASSUME NEW x \in DOMAIN cl, NEW y \in DOMAIN cl, x # y, NEW e, NEW j, NEW l,
             Lands(cl, target, e, i, x, j), Lands(cl, target, e, i, y, l)
      PROVE  FALSE
  <2>1. e \in Names(cl[x].members) /\ e \in Names(cl[y].members)
    BY <1>9 DEF Lands, Names
  <2> QED BY <1>9, <2>1 DEF Partition
<1>10. Apart(parts)
  <2>1. ASSUME NEW x \in DOMAIN parts, NEW y \in DOMAIN parts, x # y
        PROVE  Names(parts[x]) \cap Names(parts[y]) = {}
    BY <1>6, <1>7, <1>9, <2>1
  <2> QED BY <1>7, <2>1 DEF Apart
<1>11. /\ more \in Seq(Entry) /\ Distinct(more)
       /\ \A e : e \in Names(more) <=> \E x \in DOMAIN parts : e \in Names(parts[x])
  BY <1>6, <1>7, <1>8, <1>10, JoinedIs
<1>12. Names(rest) \cap Names(more) = {}
  <2> SUFFICES ASSUME NEW e, e \in Names(rest), e \in Names(more) PROVE FALSE
    OBVIOUS
  <2>1. PICK x \in DOMAIN cl \ {i} : \E j : Lands(cl, target, e, i, x, j)
    BY <1>6, <1>7, <1>11
  <2> QED BY <1>5, <1>9, <2>1
<1>13. rest \o more \in Seq(Entry) /\ Distinct(rest \o more) /\ Names(rest \o more) = Names(rest) \cup Names(more)
  BY <1>3, <1>11, <1>12, ConcatEntries
<1>14. ASSUME NEW e PROVE e \in Names(rest \o more) <=> \E h, j : Lands(cl, target, e, i, h, j)
  <2>1. (\E h, j : Lands(cl, target, e, i, h, j)) <=>
          (\E j : Lands(cl, target, e, i, i, j)) \/ \E h \in DOMAIN cl \ {i} : \E j : Lands(cl, target, e, i, h, j)
    BY DEF Lands
  <2> QED BY <1>5, <1>6, <1>7, <1>11, <1>13, <2>1
<1> QED BY <1>13, <1>14 DEF rest, more, own, Out

\* The reassignment moves members between postings, and loses none.
LEMMA ReassignIs ==
  ASSUME NEW cl \in Clusters, NEW S, Partition(cl, S), NEW changed, NEW old, NEW forced
  PROVE  Reassign(cl, changed, old, forced) \in Clusters
         /\ Partition(Reassign(cl, changed, old, forced), S)
<1> DEFINE t == Targets(cl, changed, old, forced)
           dl == Exchanged(cl, t)
           m(i) == Remaining(cl[i].members, MovedFrom(cl, t, i)) \o Gained(cl, t, i)
           dirty == {i \in DOMAIN cl : MovedFrom(cl, t, i) # {} \/ Gained(cl, t, i) # <<>>}
<1>1. Targeted(cl, t)
  BY TargetsIs
<1>2. Reassign(cl, changed, old, forced) = Recentered(dl, changed \cup dirty)
  BY DEF Reassign
<1> HIDE DEF t
<1>3. DOMAIN dl = DOMAIN cl /\ dl = [i \in DOMAIN cl |-> [cl[i] EXCEPT !.members = m(i)]]
  BY DEF Exchanged
<1> HIDE DEF dl, dirty
<1>4. ASSUME NEW i \in DOMAIN cl
      PROVE  /\ dl[i] \in Posting /\ Distinct(dl[i].members)
             /\ \A e : e \in Names(dl[i].members) <=> \E h, j : Lands(cl, t, e, i, h, j)
  <2>1. /\ m(i) \in Seq(Entry) /\ Distinct(m(i))
        /\ \A e : e \in Names(m(i)) <=> \E h, j : Lands(cl, t, e, i, h, j)
    BY <1>1, ExchangedPosting
  <2>2. dl[i] = [cl[i] EXCEPT !.members = m(i)]
    BY <1>3
  <2>3. cl[i] \in Posting
    BY ClustersDef
  <2> HIDE DEF m
  <2>4. dl[i] \in Posting /\ dl[i].members = m(i)
    BY <2>1, <2>2, <2>3, PostingFields
  <2> QED BY <2>1, <2>4
<1>5. dl \in Clusters
  <2>1. dl \in [DOMAIN dl -> Posting]
    BY <1>3, <1>4
  <2> QED BY <1>3, <2>1, ClustersDef
<1>6. \A i, k \in DOMAIN dl : i # k => Names(dl[i].members) \cap Names(dl[k].members) = {}
  <2> SUFFICES ASSUME NEW i \in DOMAIN cl, NEW k \in DOMAIN cl, i # k, NEW e,
                      e \in Names(dl[i].members), e \in Names(dl[k].members)
               PROVE  FALSE
    BY <1>3
  <2>1. PICK h, j : Lands(cl, t, e, i, h, j)
    BY <1>4
  <2>2. PICK h2, j2 : Lands(cl, t, e, k, h2, j2)
    BY <1>4
  <2>3. e \in Names(cl[h].members) /\ e \in Names(cl[h2].members) /\ h \in DOMAIN cl /\ h2 \in DOMAIN cl
    BY <2>1, <2>2 DEF Lands, Names
  <2>4. h = h2
    BY <2>3 DEF Partition
  <2>5. j = j2
    BY <2>1, <2>2, <2>3, <2>4 DEF Lands, Partition, Distinct
  <2> QED BY <2>1, <2>2, <2>4, <2>5 DEF Lands
<1>7. \A e : e \in S <=> \E i \in DOMAIN dl : e \in Names(dl[i].members)
  <2>1. ASSUME NEW e, e \in S PROVE \E i \in DOMAIN dl : e \in Names(dl[i].members)
    <3>1. PICK h \in DOMAIN cl : e \in Names(cl[h].members)
      BY <2>1 DEF Partition
    <3>2. PICK j \in DOMAIN cl[h].members : cl[h].members[j].id = e
      BY <3>1 DEF Names
    <3>3. t[h][j] \in DOMAIN cl /\ Lands(cl, t, e, t[h][j], h, j)
      BY <1>1, <3>2 DEF Targeted, Lands
    <3> QED BY <1>3, <1>4, <3>3
  <2>2. ASSUME NEW e, NEW i \in DOMAIN dl, e \in Names(dl[i].members) PROVE e \in S
    <3>1. PICK h, j : Lands(cl, t, e, i, h, j)
      BY <1>3, <1>4, <2>2
    <3>2. h \in DOMAIN cl /\ e \in Names(cl[h].members)
      BY <3>1 DEF Lands, Names
    <3> QED BY <3>2 DEF Partition
  <2> QED BY <2>1, <2>2
<1>8. Partition(dl, S)
  BY <1>3, <1>4, <1>6, <1>7 DEF Partition
<1> QED BY <1>2, <1>5, <1>8, RecenteredIs, SamePartition

-----------------------------------------------------------------------------
(***************************************************************************)
(* The whole of Lire, from the stored clusters of one epoch to those of    *)
(* the next.                                                               *)
(***************************************************************************)

\* Clusters as they are stored: a list of postings, none of them empty, that share out S.
Stored(cs, S) ==
  /\ cs \in Seq(Posting) /\ Partition(cs, S)
  /\ \A c \in DOMAIN cs : cs[c].members # <<>>

\* Empty postings can be left out.
LEMMA PruneEmptyIs ==
  ASSUME NEW cl \in Clusters, NEW S, Partition(cl, S)
  PROVE  /\ PruneEmpty(cl) \in Clusters /\ Partition(PruneEmpty(cl), S)
         /\ \A i \in DOMAIN PruneEmpty(cl) : PruneEmpty(cl)[i].members # <<>>
<1> DEFINE dl == PruneEmpty(cl)
<1>1. /\ DOMAIN dl = {j \in DOMAIN cl : cl[j].members # <<>>}
      /\ \A i \in DOMAIN dl : dl[i] = cl[i]
  BY DEF PruneEmpty
<1>2. dl = [i \in DOMAIN dl |-> dl[i]]
  BY DEF PruneEmpty
<1> HIDE DEF dl
<1>3. cl \in [DOMAIN cl -> Posting] /\ DOMAIN cl \subseteq Nat \ {0} /\ IsFiniteSet(DOMAIN cl)
  BY ClustersDef
<1>4. DOMAIN dl \subseteq DOMAIN cl /\ IsFiniteSet(DOMAIN dl)
  BY <1>1, <1>3, FS_Subset
<1>5. dl \in Clusters
  <2>1. \A i \in DOMAIN dl : dl[i] \in Posting
    BY <1>1, <1>3, <1>4
  <2>2. dl \in [DOMAIN dl -> Posting]
    BY <1>2, <2>1
  <2> QED BY <1>3, <1>4, <2>2, ClustersDef
<1>6. Partition(dl, S)
  <2>1. \A i \in DOMAIN dl : Distinct(dl[i].members)
    BY <1>1, <1>4 DEF Partition
  <2>2. \A i, j \in DOMAIN dl : i # j => Names(dl[i].members) \cap Names(dl[j].members) = {}
    <3> SUFFICES ASSUME NEW i \in DOMAIN dl, NEW j \in DOMAIN dl, i # j
                 PROVE  Names(dl[i].members) \cap Names(dl[j].members) = {}
      OBVIOUS
    <3>1. Names(cl[i].members) \cap Names(cl[j].members) = {}
      BY <1>4 DEF Partition
    <3> QED BY <1>1, <3>1
  <2>3. \A i \in DOMAIN cl : i \notin DOMAIN dl => Names(cl[i].members) = {}
    BY <1>1 DEF Names
  <2>4. \A x : x \in S <=> \E i \in DOMAIN dl : x \in Names(dl[i].members)
    <3>1. \A x : x \in S <=> \E i \in DOMAIN cl : x \in Names(cl[i].members)
      BY DEF Partition
    <3> QED BY <1>1, <1>4, <2>3, <3>1
  <2> QED BY <2>1, <2>2, <2>4 DEF Partition
<1> QED BY <1>1, <1>5, <1>6 DEF dl

\* A snapshot lists the postings, each with the members it has.
LEMMA SnapshotIs ==
  ASSUME NEW cl \in Clusters, NEW S, Partition(cl, S),
         \A i \in DOMAIN cl : cl[i].members # <<>>
  PROVE  Stored(Snapshot(cl), S)
<1> DEFINE a == Ascending(DOMAIN cl)
           N == Cardinality(DOMAIN cl)
           cs == Snapshot(cl)
<1>1. cl \in [DOMAIN cl -> Posting] /\ DOMAIN cl \subseteq Int /\ IsFiniteSet(DOMAIN cl)
  BY ClustersDef
<1>2. /\ N \in Nat /\ DOMAIN a = 1..N /\ \A i \in 1..N : a[i] \in DOMAIN cl
      /\ \A i, j \in 1..N : a[i] = a[j] => i = j
      /\ \A x \in DOMAIN cl : \E i \in 1..N : a[i] = x
  <2> HIDE DEF a, N
  <2>1. N = Cardinality(DOMAIN cl) /\ a = Ascending(DOMAIN cl)
    BY DEF N, a
  <2> QED BY <1>1, <2>1, AscendingIs
<1>3. cs = [n \in DOMAIN a |-> [cl[a[n]] EXCEPT !.members = SortedById(cl[a[n]].members)]]
  BY DEF Snapshot
<1> HIDE DEF a, N, cs
<1>4. ASSUME NEW n \in 1..N
      PROVE  /\ cs[n] \in Posting /\ Distinct(cs[n].members)
             /\ Names(cs[n].members) = Names(cl[a[n]].members) /\ cs[n].members # <<>>
  <2> DEFINE p == cl[a[n]]
             m == SortedById(p.members)
  <2>1. p \in Posting /\ Distinct(p.members) /\ p.members # <<>>
    BY <1>1, <1>2 DEF Partition
  <2>2. cs[n] = [p EXCEPT !.members = m]
    BY <1>2, <1>3
  <2> HIDE DEF p
  <2>3. p.members \in Seq(Entry)
    BY <2>1, PostingFields
  <2>4. m \in Seq(Entry) /\ Distinct(m) /\ Names(m) = Names(p.members)
    BY <2>1, <2>3, SortedEntries
  <2> HIDE DEF m
  <2>5. m # <<>>
    <3>1. 1 \in DOMAIN p.members
      BY <2>1, <2>3
    <3>2. p.members[1].id \in Names(m)
      BY <2>4, <3>1 DEF Names
    <3>3. DOMAIN m # {}
      BY <3>2 DEF Names
    <3> QED BY <3>3
  <2>6. cs[n] \in Posting /\ cs[n].members = m
    BY <2>1, <2>2, <2>4, PostingFields
  <2> QED BY <2>4, <2>5, <2>6 DEF p
<1>5. DOMAIN cs = 1..N /\ cs \in Seq(Posting)
  <2>1. DOMAIN cs = 1..N
    BY <1>2, <1>3
  <2>2. cs \in [1..N -> Posting]
    BY <1>2, <1>3, <1>4
  <2> QED BY <1>2, <2>1, <2>2, FunctionIsSeq
<1>6. \A i, j \in DOMAIN cs : i # j => Names(cs[i].members) \cap Names(cs[j].members) = {}
  <2> SUFFICES ASSUME NEW i \in 1..N, NEW j \in 1..N, i # j
               PROVE  Names(cs[i].members) \cap Names(cs[j].members) = {}
    BY <1>5
  <2>1. a[i] \in DOMAIN cl /\ a[j] \in DOMAIN cl /\ a[i] # a[j]
    BY <1>2
  <2>2. Names(cl[a[i]].members) \cap Names(cl[a[j]].members) = {}
    BY <2>1 DEF Partition
  <2> QED BY <1>4, <2>2
<1>7. \A x : x \in S <=> \E n \in DOMAIN cs : x \in Names(cs[n].members)
  <2>1. \A x : x \in S <=> \E i \in DOMAIN cl : x \in Names(cl[i].members)
    BY DEF Partition
  <2>2. \A x : (\E i \in DOMAIN cl : x \in Names(cl[i].members)) <=> \E n \in 1..N : x \in Names(cl[a[n]].members)
    BY <1>2
  <2>3. \A x : (\E n \in 1..N : x \in Names(cl[a[n]].members)) <=> \E n \in DOMAIN cs : x \in Names(cs[n].members)
    BY <1>4, <1>5
  <2> QED BY <2>1, <2>2, <2>3
<1>8. Partition(cs, S)
  BY <1>4, <1>5, <1>6, <1>7 DEF Partition
<1>9. \A n \in DOMAIN cs : cs[n].members # <<>>
  BY <1>4, <1>5
<1> QED BY <1>5, <1>8, <1>9 DEF Stored, cs

\* What is carried forward from the previous epoch holds exactly the live vectors.
LEMMA CarriedForwardIs ==
  ASSUME NEW n \in Nat, NEW before \in [1..n -> Posting], NEW S, Partition(before, S),
         NEW vecOf, vecOf \in [DOMAIN vecOf -> Int], DOMAIN vecOf \subseteq Int, IsFiniteSet(DOMAIN vecOf)
  PROVE  Stored(CarriedForward(before, vecOf), DOMAIN vecOf)
<1> DEFINE L == DOMAIN vecOf
           w == Loaded(before, vecOf)
           r == RecenterTouched(w)
           b == Rebalance(r)
           old == [i \in DOMAIN before |-> before[i].centroid]
           moved == MovedIds(before, vecOf)
           g == Reassign(b.cl, b.touched, old, moved)
<1>1. Holds(w, L)
  BY LoadedIs DEF Holds
<1>2. Holds(r, L)
  <2> HIDE DEF w
  <2>1. w.cl \in Clusters
    BY <1>1 DEF Holds, Work
  <2> DEFINE dl == Recentered(w.cl, w.touched)
  <2>2. dl \in Clusters /\ Same(w.cl, dl)
    BY <2>1, RecenteredIs
  <2>3. r = [w EXCEPT !.cl = dl]
    BY DEF RecenterTouched
  <2> HIDE DEF dl, r
  <2>4. r \in Work /\ r.cl = dl /\ r.next = w.next
    BY <1>1, <2>2, <2>3 DEF Holds, Work
  <2>5. Partition(dl, L)
    BY <1>1, <2>2, SamePartition DEF Holds
  <2> QED BY <1>1, <2>2, <2>4, <2>5 DEF Holds, Fresh, Same
<1> HIDE DEF w, r
<1>3. Holds(b, L)
  BY <1>2, RebalanceIs
<1> HIDE DEF b
<1>4. b.cl \in Clusters /\ Partition(b.cl, L)
  BY <1>3 DEF Holds, Work
<1> HIDE DEF old, moved
<1>5. g \in Clusters /\ Partition(g, L)
  BY <1>4, ReassignIs
<1>6. CarriedForward(before, vecOf) = Snapshot(PruneEmpty(g))
  BY DEF CarriedForward, Finished, w, r, b, old, moved
<1> HIDE DEF g
<1>7. /\ PruneEmpty(g) \in Clusters /\ Partition(PruneEmpty(g), L)
      /\ \A i \in DOMAIN PruneEmpty(g) : PruneEmpty(g)[i].members # <<>>
  BY <1>5, PruneEmptyIs
<1> QED BY <1>6, <1>7, SnapshotIs

\* A list of some length.
Listed(s) == \E n \in Nat : DOMAIN s = 1..n

\* Clusters whose members have the fields of entries, and attributes besides.
Filed(cs) ==
  /\ Listed(cs)
  /\ \A c \in DOMAIN cs :
       /\ cs[c].centroid \in Int
       /\ Listed(cs[c].members)
       /\ \A j \in DOMAIN cs[c].members : /\ cs[c].members[j].id \in Int
                                          /\ cs[c].members[j].vec \in Int
                                          /\ cs[c].members[j].version \in Nat

\* The previous epoch, read back.
LEMMA LoadPrevEpochIs ==
  ASSUME NEW cs, Filed(cs), NEW S, Partition(cs, S)
  PROVE  /\ \E n \in Nat : LoadPrevEpoch(cs) \in [1..n -> Posting]
         /\ Partition(LoadPrevEpoch(cs), S)
<1> DEFINE b == LoadPrevEpoch(cs)
           ms(i) == [j \in DOMAIN cs[i].members |->
                       [id |-> cs[i].members[j].id, vec |-> cs[i].members[j].vec,
                        version |-> cs[i].members[j].version]]
<1>1. PICK n \in Nat : DOMAIN cs = 1..n
  BY DEF Filed, Listed
<1>2. b = [i \in DOMAIN cs |-> [centroid |-> cs[i].centroid, members |-> ms(i)]]
  BY DEF LoadPrevEpoch
<1> HIDE DEF b
<1>3. ASSUME NEW i \in DOMAIN cs
      PROVE  /\ b[i] \in Posting /\ DOMAIN b[i].members = DOMAIN cs[i].members
             /\ \A j \in DOMAIN cs[i].members : b[i].members[j].id = cs[i].members[j].id
  <2> DEFINE m == ms(i)
  <2>1. b[i] = [centroid |-> cs[i].centroid, members |-> m]
    BY <1>2
  <2>2. PICK k \in Nat : DOMAIN cs[i].members = 1..k
    BY DEF Filed, Listed
  <2>3. ASSUME NEW j \in DOMAIN cs[i].members PROVE m[j] \in Entry /\ m[j].id = cs[i].members[j].id
    BY DEF Filed, Entry
  <2>4. DOMAIN m = 1..k /\ m = [j \in 1..k |-> m[j]]
    BY <2>2
  <2> HIDE DEF m
  <2>5. m \in [1..k -> Entry]
    BY <2>2, <2>3, <2>4
  <2>6. m \in Seq(Entry)
    BY <2>5, FunctionIsSeq
  <2>7. cs[i].centroid \in Int
    BY DEF Filed
  <2> QED BY <2>1, <2>2, <2>3, <2>4, <2>6, <2>7 DEF Posting
<1>4. DOMAIN b = DOMAIN cs /\ b \in [1..n -> Posting]
  BY <1>1, <1>2, <1>3
<1>5. \A i \in DOMAIN cs : Names(b[i].members) = Names(cs[i].members)
  BY <1>3 DEF Names
<1>6. \A i \in DOMAIN cs : Distinct(cs[i].members) => Distinct(b[i].members)
  BY <1>3 DEF Distinct
<1>7. Partition(b, S)
  BY <1>4, <1>5, <1>6 DEF Partition
<1> QED BY <1>4, <1>7 DEF b

\* A build from nothing clusters every vector.
LEMMA FullClusterIs ==
  ASSUME NEW vecOf, vecOf \in [DOMAIN vecOf -> Int], DOMAIN vecOf \subseteq Int,
         IsFiniteSet(DOMAIN vecOf), DOMAIN vecOf # {}
  PROVE  Stored(FullCluster(vecOf), DOMAIN vecOf)
<1> DEFINE L == DOMAIN vecOf
           N == Cardinality(L)
           ids == Ascending(L)
           p == [i \in DOMAIN ids |-> vecOf[ids[i]]]
           km == KMeans(p, ChooseK(Len(ids)))
           cs == Buckets(ids, km, vecOf)
<1>1. N \in Nat \ {0}
  BY FS_CardinalityType, FS_EmptySet
<1>2. /\ DOMAIN ids = 1..N /\ \A i \in 1..N : ids[i] \in L
      /\ \A i, j \in 1..N : ids[i] = ids[j] => i = j
      /\ \A x \in L : \E i \in 1..N : ids[i] = x
  BY AscendingIs
<1>3. ids = [n \in DOMAIN ids |-> ids[n]]
  BY DEF Ascending, Ordered
<1>4. FullCluster(vecOf) = cs
  BY DEF FullCluster, Clustered
<1> HIDE DEF ids, N, cs
<1>5. Len(ids) = N
  <2>1. ids \in [1..N -> L]
    BY <1>2, <1>3
  <2> QED BY <1>1, <2>1, FunctionIsSeq
<1>6. p \in [1..N -> Int]
  BY <1>2
<1>7. PICK k \in 1..N : km \in KState(N, k) /\ Full(km.assign, k)
  <2>1. ChooseK(N) \in Nat
    BY <1>1, ChooseKType
  <2> HIDE DEF p
  <2> QED BY <1>1, <1>5, <1>6, <2>1, KMeansIs
<1> HIDE DEF p, km
<1> DEFINE a == km.assign
           I(c) == InCluster(a, c)
           b(c) == Ascending(I(c))
           ms(c) == [j \in DOMAIN b(c) |-> NewEntry(ids[b(c)[j]], vecOf)]
<1>8. k \in Nat /\ a \in [1..N -> 1..k] /\ km.centroids \in [1..k -> Int]
  BY <1>1, <1>7 DEF KState
<1> HIDE DEF a
<1>9. cs = [c \in 1..k |-> [centroid |-> km.centroids[c], members |-> ms(c)]]
  BY <1>8 DEF cs, Buckets, a
<1>10. ASSUME NEW c \in 1..k
       PROVE  /\ cs[c] \in Posting /\ Distinct(cs[c].members) /\ cs[c].members # <<>>
              /\ \A e : e \in Names(cs[c].members) <=> \E i \in 1..N : a[i] = c /\ e = ids[i]
  <2> DEFINE J == I(c)
             K == Cardinality(J)
             o == b(c)
             m == ms(c)
  <2>1. J \in SUBSET (1..N) /\ IsFiniteSet(J)
    <3>1. N \in Nat
      BY <1>1
    <3> QED BY <1>8, <3>1, InClusterIs
  <2>2. J # {}
    BY <1>7 DEF Full, a
  <2>3. \A i : i \in J <=> i \in 1..N /\ a[i] = c
    BY <1>8 DEF InCluster
  <2> HIDE DEF I
  <2>4. /\ K \in Nat /\ DOMAIN o = 1..K /\ \A j \in 1..K : o[j] \in J
        /\ \A i, j \in 1..K : o[i] = o[j] => i = j
        /\ \A x \in J : \E j \in 1..K : o[j] = x
    <3>1. J \subseteq Int
      BY <2>1
    <3> HIDE DEF J
    <3> QED BY <2>1, <3>1, AscendingIs DEF J
  <2>5. cs[c] = [centroid |-> km.centroids[c], members |-> m]
    BY <1>9
  <2>6. m = [j \in DOMAIN o |-> NewEntry(ids[o[j]], vecOf)]
    OBVIOUS
  <2> HIDE DEF J, K, o, m
  <2>7. ASSUME NEW j \in 1..K PROVE m[j] \in Entry /\ m[j].id = ids[o[j]]
    <3>1. ids[o[j]] \in L
      BY <1>2, <2>1, <2>4
    <3>2. ids[o[j]] \in Int /\ vecOf[ids[o[j]]] \in Int
      BY <3>1
    <3>3. m[j] = NewEntry(ids[o[j]], vecOf)
      BY <2>4, <2>6
    <3> QED BY <3>2, <3>3 DEF NewEntry, Entry
  <2>8. DOMAIN m = 1..K /\ m \in Seq(Entry)
    <3>1. m \in [1..K -> Entry]
      BY <2>4, <2>6, <2>7
    <3> QED BY <2>4, <3>1, FunctionIsSeq
  <2>9. Distinct(m)
    <3> SUFFICES ASSUME NEW i \in 1..K, NEW j \in 1..K, m[i].id = m[j].id PROVE i = j
      BY <2>8 DEF Distinct
    <3>1. ids[o[i]] = ids[o[j]] /\ o[i] \in 1..N /\ o[j] \in 1..N
      BY <2>1, <2>4, <2>7
    <3>2. o[i] = o[j]
      BY <1>2, <3>1
    <3> QED BY <2>4, <3>2
  <2>10. ASSUME NEW e PROVE e \in Names(m) <=> \E i \in 1..N : a[i] = c /\ e = ids[i]
    <3>1. e \in Names(m) <=> \E j \in 1..K : e = ids[o[j]]
      BY <2>7, <2>8 DEF Names
    <3>2. (\E j \in 1..K : e = ids[o[j]]) <=> \E i \in J : e = ids[i]
      BY <2>4
    <3> QED BY <2>3, <3>1, <3>2
  <2>11. m # <<>>
    <3>1. 1..K # {}
      BY <2>2, <2>4
    <3>2. DOMAIN m # {}
      BY <2>8, <3>1
    <3> QED BY <3>2
  <2>12. cs[c] \in Posting /\ cs[c].members = m
    <3>1. km.centroids[c] \in Int
      BY <1>8
    <3> QED BY <2>5, <2>8, <3>1 DEF Posting
  <2> QED BY <2>9, <2>10, <2>11, <2>12
<1> DEFINE In(e, c) == \E i \in 1..N : a[i] = c /\ e = ids[i]
<1>11. \A c \in 1..k : \A e : e \in Names(cs[c].members) <=> In(e, c)
  BY <1>10
<1>12. ASSUME NEW e, NEW c, NEW d, In(e, c), In(e, d) PROVE c = d
  BY <1>2, <1>12
<1>13. ASSUME NEW e PROVE (\E c \in 1..k : In(e, c)) <=> \E i \in 1..N : e = ids[i]
  BY <1>8
<1> HIDE DEF In
<1>14. DOMAIN cs = 1..k /\ cs \in Seq(Posting)
  <2>1. DOMAIN cs = 1..k
    BY <1>9
  <2>2. cs \in [1..k -> Posting]
    BY <1>9, <1>10
  <2> QED BY <1>8, <2>1, <2>2, FunctionIsSeq
<1>15. \A c, d \in DOMAIN cs : c # d => Names(cs[c].members) \cap Names(cs[d].members) = {}
  <2> SUFFICES ASSUME NEW c \in 1..k, NEW d \in 1..k, c # d, NEW e,
                      e \in Names(cs[c].members), e \in Names(cs[d].members)
               PROVE  FALSE
    BY <1>14
  <2> QED BY <1>11, <1>12
<1>16. \A e : e \in L <=> \E c \in DOMAIN cs : e \in Names(cs[c].members)
  <2>1. \A e : e \in L <=> \E i \in 1..N : e = ids[i]
    BY <1>2
  <2>2. \A e : e \in L <=> \E c \in 1..k : In(e, c)
    BY <1>13, <2>1
  <2> QED BY <1>14, <1>11, <2>2
<1>17. Partition(cs, L)
  BY <1>10, <1>14, <1>15, <1>16 DEF Partition
<1>18. \A c \in DOMAIN cs : cs[c].members # <<>>
  BY <1>10, <1>14
<1> QED BY <1>4, <1>14, <1>17, <1>18 DEF Stored

\* The clustering of an epoch holds exactly the live vectors, whatever it starts from.
LEMMA ClusterLiveIs ==
  ASSUME NEW prev, Filed(prev), NEW S, Partition(prev, S),
         NEW vecOf, vecOf \in [DOMAIN vecOf -> Int], DOMAIN vecOf \subseteq Int,
         IsFiniteSet(DOMAIN vecOf), DOMAIN vecOf # {}
  PROVE  Stored(ClusterLive(prev, vecOf), DOMAIN vecOf)
<1>1. CASE prev = <<>>
  BY <1>1, FullClusterIs DEF ClusterLive
<1>2. CASE prev # <<>>
  <2> DEFINE before == LoadPrevEpoch(prev)
  <2>1. PICK n \in Nat : before \in [1..n -> Posting]
    BY LoadPrevEpochIs
  <2>2. Partition(before, S)
    BY LoadPrevEpochIs
  <2>3. ClusterLive(prev, vecOf) = CarriedForward(before, vecOf)
    BY <1>2 DEF ClusterLive, IncrementalCluster
  <2> HIDE DEF before
  <2> QED BY <2>1, <2>2, <2>3, CarriedForwardIs
<1> QED BY <1>1, <1>2

-----------------------------------------------------------------------------
(***************************************************************************)
(* VectorEpoch: the inductive invariant.                                   *)
(***************************************************************************)

\* The documents with a vector have one that is a number; there are finitely many documents.
DocsOK ==
  /\ IsFiniteSet(DOMAIN docs) /\ DOMAIN docs \subseteq Nat
  /\ \A id \in WithVector(docs) : docs[id].vec \in Int

\* The ids in the clusters of an epoch.
Filing(cs) == UNION {Names(cs[c].members) : c \in DOMAIN cs}

\* Clusters that hold the documents of live, each with its vector and attributes.
Current(cs, live, ids) ==
  \A c \in DOMAIN cs : \A j \in DOMAIN cs[c].members :
    LET m == cs[c].members[j]
    IN  m.id \in ids => m.vec = live[m.id].vec /\ m.attrs = live[m.id].attrs

(***************************************************************************)
(* The inductive invariant: the clusters of the epoch share out some ids,  *)
(* which are those of the live vectors but for what the tail mentions.     *)
(***************************************************************************)
EpochOK ==
  LET cs == epoch.clusters
  IN  /\ Filed(cs) /\ Partition(cs, Filing(cs))
      /\ \A c \in DOMAIN cs : cs[c].members # <<>>
      /\ Filing(cs) \ tail = WithVector(docs) \ tail
      /\ Current(cs, docs, Filing(cs) \ tail)

IInv == DocsOK /\ (epoch # NoEpoch => EpochOK)

\* A partition shares out exactly what its postings hold.
LEMMA FilingIs ==
  ASSUME NEW cs, NEW S, Partition(cs, S)
  PROVE  Filing(cs) = S
  BY DEF Filing, Partition

\* The cluster files hold the clusters, each member as it is now.
LEMMA ClusterFilesIs ==
  ASSUME NEW live, \A id \in WithVector(live) : live[id].vec \in Int,
         NEW cs, Stored(cs, WithVector(live))
  PROVE  LET fs == ClusterFiles(cs, live)
         IN  /\ Filed(fs) /\ Partition(fs, WithVector(live))
             /\ \A c \in DOMAIN fs : fs[c].members # <<>>
             /\ Current(fs, live, WithVector(live))
<1> DEFINE fs == ClusterFiles(cs, live)
           File(m) == [id |-> m.id, vec |-> live[m.id].vec, attrs |-> live[m.id].attrs,
                       version |-> m.version]
           ms(c) == [j \in DOMAIN cs[c].members |-> File(cs[c].members[j])]
           S == WithVector(live)
<1>1. cs \in Seq(Posting) /\ Partition(cs, S) /\ \A c \in DOMAIN cs : cs[c].members # <<>>
  BY DEF Stored
<1>2. fs = [c \in DOMAIN cs |-> [cs[c] EXCEPT !.members = ms(c)]]
  BY DEF ClusterFiles
<1>3. DOMAIN fs = DOMAIN cs
  BY <1>2
<1> HIDE DEF fs, S
<1>4. ASSUME NEW c \in DOMAIN cs
      PROVE  /\ fs[c].centroid \in Int /\ Listed(fs[c].members) /\ fs[c].members # <<>>
             /\ DOMAIN fs[c].members = DOMAIN cs[c].members
             /\ \A j \in DOMAIN cs[c].members :
                  /\ fs[c].members[j].id = cs[c].members[j].id
                  /\ fs[c].members[j].vec = live[cs[c].members[j].id].vec
                  /\ fs[c].members[j].attrs = live[cs[c].members[j].id].attrs
                  /\ cs[c].members[j].id \in S
                  /\ fs[c].members[j].version \in Nat
                  /\ fs[c].members[j].id \in Int
  <2> DEFINE m == cs[c].members
             t == ms(c)
  <2>1. cs[c] \in Posting
    BY <1>1
  <2>2. cs[c].centroid \in Int /\ m \in Seq(Entry) /\ m # <<>>
    BY <1>1, <2>1, PostingFields
  <2>3. fs[c].centroid = cs[c].centroid /\ fs[c].members = t
    <3>1. fs[c] = [cs[c] EXCEPT !.members = t]
      BY <1>2
    <3> HIDE DEF t
    <3> QED BY <2>1, <3>1 DEF Posting
  <2>4. DOMAIN t = DOMAIN m /\ \A j \in DOMAIN m : t[j] = File(m[j])
    OBVIOUS
  <2>5. DOMAIN m = 1..Len(m) /\ Len(m) \in Nat /\ DOMAIN m # {}
    <3> HIDE DEF m
    <3>1. DOMAIN m = 1..Len(m) /\ Len(m) \in Nat
      BY <2>2
    <3>2. 1 \in DOMAIN m
      BY <2>2
    <3> QED BY <3>1, <3>2
  <2>6. ASSUME NEW j \in DOMAIN m PROVE m[j].id \in S /\ m[j].id \in Int /\ m[j].version \in Nat
    <3>1. m[j] \in Entry
      BY <2>2
    <3>2. m[j].id \in Names(m)
      BY DEF Names
    <3> QED BY <1>1, <3>1, <3>2 DEF Entry, Partition
  <2>7. \A j \in DOMAIN m : /\ t[j].id = m[j].id /\ t[j].vec = live[m[j].id].vec
                             /\ t[j].attrs = live[m[j].id].attrs /\ t[j].version = m[j].version
    BY <2>4
  <2> HIDE DEF t
  <2>8. Listed(t) /\ t # <<>>
    <3>1. DOMAIN t # {}
      BY <2>4, <2>5
    <3>2. t # <<>>
      BY <3>1
    <3> QED BY <2>4, <2>5, <3>2 DEF Listed
  <2> HIDE DEF m
  <2>9. \A j \in DOMAIN m : /\ t[j].id = m[j].id /\ t[j].vec = live[m[j].id].vec
                             /\ t[j].attrs = live[m[j].id].attrs /\ m[j].id \in S
                             /\ t[j].version \in Nat /\ t[j].id \in Int
    BY <2>6, <2>7
  <2> QED BY <2>2, <2>3, <2>4, <2>8, <2>9 DEF m
<1>5. Filed(fs)
  <2>1. Listed(fs)
    <3>1. DOMAIN cs = 1..Len(cs) /\ Len(cs) \in Nat
      BY <1>1
    <3> QED BY <1>3, <3>1 DEF Listed
  <2>2. ASSUME NEW c \in DOMAIN cs, NEW j \in DOMAIN cs[c].members
        PROVE  fs[c].members[j].vec \in Int
    <3>1. live[cs[c].members[j].id].vec \in Int
      BY <1>4 DEF S
    <3> QED BY <1>4, <3>1
  <2> QED BY <1>3, <1>4, <2>1, <2>2 DEF Filed
<1>6. \A c \in DOMAIN cs : Names(fs[c].members) = Names(cs[c].members)
  BY <1>4 DEF Names
<1>7. \A c \in DOMAIN cs : Distinct(cs[c].members) => Distinct(fs[c].members)
  BY <1>4 DEF Distinct
<1>8. Partition(fs, S)
  BY <1>1, <1>3, <1>6, <1>7 DEF Partition
<1>9. Current(fs, live, S)
  BY <1>3, <1>4 DEF Current
<1>10. \A c \in DOMAIN fs : fs[c].members # <<>>
  BY <1>3, <1>4
<1> QED BY <1>5, <1>8, <1>9, <1>10 DEF fs, S

\* What a build puts into an epoch, whatever it carries forward.
LEMMA BuildVectorIndexIs ==
  ASSUME NEW live, IsFiniteSet(DOMAIN live), DOMAIN live \subseteq Nat,
         \A id \in WithVector(live) : live[id].vec \in Int,
         NEW prev, Filed(prev), NEW S, Partition(prev, S)
  PROVE  LET fs == BuildVectorIndex(prev, live)
         IN  /\ Filed(fs) /\ Partition(fs, WithVector(live))
             /\ \A c \in DOMAIN fs : fs[c].members # <<>>
             /\ Current(fs, live, WithVector(live))
<1> DEFINE W == WithVector(live)
           vecOf == [id \in W |-> live[id].vec]
<1>1. CASE W = {}
  <2>1. BuildVectorIndex(prev, live) = <<>>
    BY <1>1 DEF BuildVectorIndex
  <2>2. Filed(<<>>)
    <3>1. DOMAIN <<>> = 1..0
      OBVIOUS
    <3> QED BY <3>1 DEF Filed, Listed
  <2>3. Partition(<<>>, {})
    BY DEF Partition
  <2> QED BY <1>1, <2>1, <2>2, <2>3 DEF Current
<1>2. CASE W # {}
  <2>1. W \subseteq DOMAIN live
    BY DEF WithVector
  <2>2. IsFiniteSet(W) /\ W \subseteq Int
    BY <2>1, FS_Subset
  <2>3. DOMAIN vecOf = W /\ vecOf \in [W -> Int]
    OBVIOUS
  <2>4. BuildVectorIndex(prev, live) = ClusterFiles(ClusterLive(prev, vecOf), live)
    BY <1>2 DEF BuildVectorIndex
  <2> HIDE DEF vecOf, W
  <2>5. Stored(ClusterLive(prev, vecOf), DOMAIN vecOf)
    BY <1>2, <2>2, <2>3, ClusterLiveIs
  <2>6. Stored(ClusterLive(prev, vecOf), WithVector(live))
    BY <2>3, <2>5 DEF W
  <2> QED BY <2>4, <2>6, ClusterFilesIs
<1> QED BY <1>1, <1>2

\* The invariant holds initially.
LEMMA InitIInv == Init => IInv
<1> SUFFICES ASSUME Init PROVE IInv
  OBVIOUS
<1>1. DOMAIN docs = {} /\ epoch = NoEpoch
  BY DEF Init
<1> QED BY <1>1, FS_EmptySet DEF IInv, DocsOK, WithVector

\* The ids filed by an epoch that a call of Upsert does not touch stay as they are.
LEMMA UpsertIInv ==
  ASSUME IInv, NEW batch \in Batches, Upsert(batch)
  PROVE  IInv'
<1> DEFINE B == DOMAIN batch
           kept == DOMAIN docs \ B
           stored == {id \in B : ~ batch[id].deleted}
<1>1. /\ docs' = [id \in kept \cup stored |->
                    IF id \in stored THEN [vec |-> batch[id].vec, attrs |-> batch[id].attrs]
                    ELSE docs[id]]
      /\ tail' = tail \cup B /\ epoch' = epoch
  BY DEF Upsert
<1>2. B \subseteq Ids /\ Ids \subseteq Nat /\ IsFiniteSet(B)
  BY EpochAssumption
<1>3. \A id \in B : batch[id].vec # NoVec => batch[id].vec \in Int
  BY EpochAssumption
<1>4. /\ DOMAIN docs' = kept \cup stored
      /\ \A id \in stored : docs'[id] = [vec |-> batch[id].vec, attrs |-> batch[id].attrs]
      /\ \A id \in kept : docs'[id] = docs[id]
  BY <1>1
<1>5. DocsOK'
  <2>1. IsFiniteSet(DOMAIN docs) /\ DOMAIN docs \subseteq Nat
    BY DEF IInv, DocsOK
  <2>2. IsFiniteSet(kept) /\ IsFiniteSet(stored)
    BY <1>2, <2>1, FS_Subset
  <2>3. IsFiniteSet(kept \cup stored)
    BY <2>2, FS_Union
  <2>4. ASSUME NEW id \in DOMAIN docs', docs'[id].vec # NoVec PROVE docs'[id].vec \in Int
    <3>1. CASE id \in stored
      <4>1. id \in B
        BY <3>1
      <4> HIDE DEF stored, kept
      <4>2. docs'[id] = [vec |-> batch[id].vec, attrs |-> batch[id].attrs]
        BY <1>4, <3>1
      <4>3. docs'[id].vec = batch[id].vec
        BY <4>2
      <4> QED BY <1>3, <2>4, <4>1, <4>3
    <3>2. CASE id \in kept
      BY <1>4, <2>4, <3>2 DEF IInv, DocsOK, WithVector
    <3> QED BY <1>4, <2>4, <3>1, <3>2
  <2>5. DOMAIN docs' \subseteq Nat
    BY <1>2, <1>4, <2>1
  <2> QED BY <1>4, <2>3, <2>4, <2>5 DEF DocsOK, WithVector
<1>6. ASSUME epoch' # NoEpoch PROVE EpochOK'
  <2> DEFINE cs == epoch.clusters
  <2>1. epoch'.clusters = cs /\ EpochOK
    BY <1>1, <1>6 DEF IInv
  <2>2. ASSUME NEW id, id \notin B
        PROVE  /\ id \in WithVector(docs)' <=> id \in WithVector(docs)
               /\ id \in DOMAIN docs => docs'[id] = docs[id]
    BY <1>4, <2>2 DEF WithVector
  <2>3. Filing(cs) \ tail' = WithVector(docs)' \ tail'
    <3>1. Filing(cs) \ tail = WithVector(docs) \ tail
      BY <2>1 DEF EpochOK
    <3> QED BY <1>1, <2>2, <3>1
  <2>4. Current(cs, docs', Filing(cs) \ tail')
    <3>1. Current(cs, docs, Filing(cs) \ tail)
      BY <2>1 DEF EpochOK
    <3>2. \A id \in Filing(cs) \ tail' : id \in Filing(cs) \ tail /\ docs'[id] = docs[id]
      <4>1. \A id \in Filing(cs) \ tail' : id \in Filing(cs) \ tail /\ id \notin B
        BY <1>1
      <4>2. \A id \in Filing(cs) \ tail' : id \in WithVector(docs)'
        BY <2>3
      <4>3. \A id \in Filing(cs) \ tail' : id \in DOMAIN docs
        BY <2>2, <4>1, <4>2 DEF WithVector
      <4> QED BY <2>2, <4>1, <4>3
    <3> QED BY <3>1, <3>2 DEF Current
  <2> QED BY <2>1, <2>3, <2>4 DEF EpochOK
<1> QED BY <1>5, <1>6 DEF IInv

\* A build starts from clusters that share out some ids, or from none.
LEMMA BuildIndexIInv ==
  ASSUME IInv, BuildIndex
  PROVE  IInv'
<1>1. PICK prev \in PrevClusters : epoch' = Objects(prev, docs)
  BY DEF BuildIndex
<1>2. docs' = docs /\ tail' = {}
  BY DEF BuildIndex
<1>3. DocsOK
  BY DEF IInv
<1>4. Filed(prev) /\ \E S : Partition(prev, S)
  <2>1. CASE prev = <<>>
    <3>1. Partition(<<>>, {})
      BY DEF Partition
    <3>2. DOMAIN <<>> = 1..0
      OBVIOUS
    <3> QED BY <2>1, <3>1, <3>2 DEF Filed, Listed
  <2>2. CASE prev # <<>>
    <3>1. epoch # NoEpoch /\ prev = epoch.clusters
      BY <1>1, <2>2 DEF PrevClusters
    <3> QED BY <3>1 DEF IInv, EpochOK
  <2> QED BY <2>1, <2>2
<1>5. PICK S : Partition(prev, S)
  BY <1>4
<1> DEFINE fs == BuildVectorIndex(prev, docs)
           W == WithVector(docs)
<1>6. /\ Filed(fs) /\ Partition(fs, W) /\ \A c \in DOMAIN fs : fs[c].members # <<>>
      /\ Current(fs, docs, W)
  BY <1>3, <1>4, <1>5, BuildVectorIndexIs DEF DocsOK
<1>7. epoch'.clusters = fs
  BY <1>1 DEF Objects, ObjectsOver
<1> HIDE DEF fs
<1>8. Filing(fs) = W
  BY <1>6, FilingIs
<1>9. EpochOK'
  <2>1. (WithVector(docs))' = W
    BY <1>2 DEF WithVector
  <2> HIDE DEF W
  <2>2. Filing(fs) \ tail' = W /\ W \ tail' = W
    BY <1>2, <1>8
  <2> QED BY <1>2, <1>6, <1>7, <1>8, <2>1, <2>2 DEF EpochOK
<1>10. DocsOK'
  BY <1>2, <1>3 DEF DocsOK, WithVector
<1> QED BY <1>9, <1>10 DEF IInv

(***************************************************************************)
(* Through every sequence of writes and builds, whatever a build could     *)
(* carry forward, the clusters of the epoch share out the live vectors.    *)
(***************************************************************************)
THEOREM EpochInvariant == Spec => []IInv
<1>1. IInv /\ [Next]_vars => IInv'
  <2> SUFFICES ASSUME IInv, [Next]_vars PROVE IInv'
    OBVIOUS
  <2>1. CASE BuildIndex
    BY <2>1, BuildIndexIInv
  <2>2. ASSUME NEW batch \in Batches, Upsert(batch) PROVE IInv'
    BY <2>2, UpsertIInv
  <2>3. CASE UNCHANGED vars
    <3>1. docs' = docs /\ tail' = tail /\ epoch' = epoch
      BY <2>3 DEF vars
    <3> QED BY <3>1 DEF IInv, DocsOK, EpochOK, WithVector
  <2> QED BY <2>1, <2>2, <2>3 DEF Next
<1> QED BY <1>1, InitIInv, PTL DEF Spec

\* The invariant says what EpochPartitions says.
LEMMA IInvPartitions == IInv => EpochPartitions
<1> SUFFICES ASSUME IInv, epoch # NoEpoch PROVE EpochPartitions
  BY DEF EpochPartitions
<1> DEFINE cs == epoch.clusters
           places == UNION {{c} \X DOMAIN cs[c].members : c \in DOMAIN cs}
           At(p) == cs[p[1]].members[p[2]]
<1>1. EpochOK
  BY DEF IInv
<1>2. \A p : p \in places <=> \E c \in DOMAIN cs : \E j \in DOMAIN cs[c].members : p = <<c, j>>
  OBVIOUS
<1> HIDE DEF places
<1>3. \A p, r \in places : At(p).id = At(r).id => p = r
  <2> SUFFICES ASSUME NEW p \in places, NEW r \in places, At(p).id = At(r).id PROVE p = r
    OBVIOUS
  <2>1. PICK c \in DOMAIN cs : \E j \in DOMAIN cs[c].members : p = <<c, j>>
    BY <1>2
  <2>2. PICK j \in DOMAIN cs[c].members : p = <<c, j>>
    BY <2>1
  <2>3. PICK d \in DOMAIN cs : \E l \in DOMAIN cs[d].members : r = <<d, l>>
    BY <1>2
  <2>4. PICK l \in DOMAIN cs[d].members : r = <<d, l>>
    BY <2>3
  <2>5. cs[c].members[j].id = cs[d].members[l].id
    BY <2>2, <2>4
  <2>6. cs[c].members[j].id \in Names(cs[c].members) /\ cs[d].members[l].id \in Names(cs[d].members)
    BY DEF Names
  <2> HIDE DEF cs
  <2>7. c = d
    BY <1>1, <2>5, <2>6 DEF EpochOK, Partition, cs
  <2>8. j = l
    BY <1>1, <2>5, <2>7 DEF EpochOK, Partition, Distinct, cs
  <2> QED BY <2>2, <2>4, <2>7, <2>8
<1>4. {At(p).id : p \in places} = Filing(cs)
  <2>1. ASSUME NEW e PROVE e \in {At(p).id : p \in places} <=> e \in Filing(cs)
    <3>1. e \in Filing(cs) <=> \E c \in DOMAIN cs : \E j \in DOMAIN cs[c].members : e = cs[c].members[j].id
      BY DEF Filing, Names
    <3>2. e \in {At(p).id : p \in places} <=> \E p \in places : e = At(p).id
      OBVIOUS
    <3>3. ASSUME NEW p \in places, e = At(p).id
          PROVE  \E c \in DOMAIN cs : \E j \in DOMAIN cs[c].members : e = cs[c].members[j].id
      <4>1. PICK c \in DOMAIN cs : \E j \in DOMAIN cs[c].members : p = <<c, j>>
        BY <1>2
      <4>2. PICK j \in DOMAIN cs[c].members : p = <<c, j>>
        BY <4>1
      <4> QED BY <3>3, <4>2
    <3>4. ASSUME NEW c \in DOMAIN cs, NEW j \in DOMAIN cs[c].members, e = cs[c].members[j].id
          PROVE  \E p \in places : e = At(p).id
      <4>1. <<c, j>> \in places /\ At(<<c, j>>) = cs[c].members[j]
        BY <1>2
      <4> QED BY <3>4, <4>1
    <3> QED BY <3>1, <3>2, <3>3, <3>4
  <2> QED BY <2>1
<1>5. ASSUME NEW p \in places, At(p).id \notin tail
      PROVE  At(p).vec = docs[At(p).id].vec /\ At(p).attrs = docs[At(p).id].attrs
  <2>1. PICK c \in DOMAIN cs : \E j \in DOMAIN cs[c].members : p = <<c, j>>
    BY <1>2
  <2>2. PICK j \in DOMAIN cs[c].members : p = <<c, j>>
    BY <2>1
  <2>3. At(p) = cs[c].members[j]
    BY <2>2
  <2> HIDE DEF cs
  <2>4. At(p).id \in Filing(cs)
    <3>1. At(p).id \in Names(cs[c].members)
      BY <2>3 DEF Names
    <3> QED BY <3>1 DEF Filing
  <2>5. At(p).id \in Filing(cs) \ tail
    BY <1>5, <2>4
  <2>6. \A d \in DOMAIN cs : \A i \in DOMAIN cs[d].members :
          cs[d].members[i].id \in Filing(cs) \ tail =>
            /\ cs[d].members[i].vec = docs[cs[d].members[i].id].vec
            /\ cs[d].members[i].attrs = docs[cs[d].members[i].id].attrs
    BY <1>1 DEF EpochOK, Current, cs
  <2> QED BY <2>3, <2>5, <2>6
<1>6. \A c \in DOMAIN cs : cs[c].members # <<>>
  BY <1>1 DEF EpochOK
<1>7. {At(p).id : p \in places} \ tail = WithVector(docs) \ tail
  BY <1>1, <1>4 DEF EpochOK
<1> QED BY <1>3, <1>5, <1>6, <1>7 DEF EpochPartitions, places

(***************************************************************************)
(* Over builds that carry clusters forward, split, merge and reassign      *)
(* them, the clusters hold every live vector exactly once, and as it is    *)
(* unless the tail mentions it (incrementalCluster, buildVectorIndex).     *)
(***************************************************************************)
THEOREM EpochPartitioned == Spec => []EpochPartitions
BY EpochInvariant, IInvPartitions, PTL

-----------------------------------------------------------------------------
\* What a scan of all live documents would find.
Live == {[id |-> id, vec |-> docs[id].vec, attrs |-> docs[id].attrs] : id \in WithVector(docs)}

\* The order in which a query ranks them.
NearOrder(q) == {p \in Live \X Live : NearerHit(q, p[1], p[2])}

\* What a live document looks like, and that there are finitely many.
LEMMA LiveIs ==
  ASSUME IInv
  PROVE  /\ IsFiniteSet(Live)
         /\ \A h \in Live : /\ h.id \in Nat /\ h.vec \in Int /\ h.id \in DOMAIN docs
                            /\ h.vec = docs[h.id].vec
                            /\ h.attrs = docs[h.id].attrs
         /\ \A g, h \in Live : g.id = h.id => g = h
<1> DEFINE File(id) == [id |-> id, vec |-> docs[id].vec, attrs |-> docs[id].attrs]
           W == WithVector(docs)
<1>1. W \subseteq DOMAIN docs /\ IsFiniteSet(W) /\ W \subseteq Nat /\ \A id \in W : docs[id].vec \in Int
  <2>1. W \subseteq DOMAIN docs
    BY DEF WithVector
  <2>2. IsFiniteSet(DOMAIN docs) /\ DOMAIN docs \subseteq Nat /\ \A id \in W : docs[id].vec \in Int
    BY DEF IInv, DocsOK
  <2> QED BY <2>1, <2>2, FS_Subset
<1>2. Live = {File(id) : id \in W}
  BY DEF Live
<1> HIDE DEF W
<1>3. IsFiniteSet({File(id) : id \in W})
  <2> DEFINE f == [id \in W |-> File(id)]
  <2>1. f \in Surjection(W, {File(id) : id \in W})
    BY DEF Surjection
  <2> HIDE DEF f
  <2> QED BY <1>1, <2>1, FS_Surjection
<1>4. ASSUME NEW h \in Live PROVE \E id \in W : h = File(id)
  BY <1>2
<1>5. \A h \in Live : /\ h.id \in Nat /\ h.vec \in Int /\ h.id \in DOMAIN docs
                      /\ h.vec = docs[h.id].vec /\ h.attrs = docs[h.id].attrs
  <2> SUFFICES ASSUME NEW h \in Live
               PROVE  /\ h.id \in Nat /\ h.vec \in Int /\ h.id \in DOMAIN docs
                      /\ h.vec = docs[h.id].vec /\ h.attrs = docs[h.id].attrs
    OBVIOUS
  <2>1. PICK id \in W : h = File(id)
    BY <1>4
  <2> QED BY <1>1, <2>1
<1>6. \A g, h \in Live : g.id = h.id => g = h
  <2> SUFFICES ASSUME NEW g \in Live, NEW h \in Live, g.id = h.id PROVE g = h
    OBVIOUS
  <2>1. PICK x \in W : g = File(x)
    BY <1>4
  <2>2. PICK y \in W : h = File(y)
    BY <1>4
  <2> QED BY <2>1, <2>2
<1> QED BY <1>2, <1>3, <1>5, <1>6

\* A query ranks the live documents in a total order.
LEMMA NearOrderTotal ==
  ASSUME IInv, NEW q, q.pos \in Int, NEW S \in SUBSET Live
  PROVE  IsFiniteSet(S) /\ TotalOrder(NearOrder(q), S)
<1> DEFINE R == NearOrder(q)
           d(h) == Distance(q.pos, h.vec)
<1>1. IsFiniteSet(S)
  BY LiveIs, FS_Subset
<1>2. ASSUME NEW h \in S PROVE d(h) \in Nat /\ h.id \in Nat
  BY LiveIs, DistanceNat
<1>3. \A a, b \in S : <<a, b>> \in R <=> d(a) < d(b) \/ (d(a) = d(b) /\ a.id < b.id)
  BY DEF NearOrder, NearerHit
<1> HIDE DEF d, R
<1>4. ASSUME NEW x \in S PROVE <<x, x>> \notin R
  BY <1>2, <1>3
<1>5. ASSUME NEW x \in S, NEW y \in S, NEW z \in S, <<x, y>> \in R, <<y, z>> \in R PROVE <<x, z>> \in R
  <2>1. /\ d(x) \in Nat /\ d(y) \in Nat /\ d(z) \in Nat
        /\ x.id \in Nat /\ y.id \in Nat /\ z.id \in Nat
    BY <1>2
  <2> QED BY <1>3, <1>5, <2>1
<1>6. ASSUME NEW x \in S, NEW y \in S PROVE x = y \/ <<x, y>> \in R \/ <<y, x>> \in R
  <2>1. d(x) \in Nat /\ d(y) \in Nat /\ x.id \in Nat /\ y.id \in Nat
    BY <1>2
  <2>2. x.id = y.id => x = y
    BY LiveIs
  <2> QED BY <1>3, <2>1, <2>2
<1> QED BY <1>1, <1>4, <1>5, <1>6 DEF TotalOrder, R

\* The first k places of a list of n.
Cut(a, r, n, k) == DOMAIN a = 1..(IF k <= n THEN k ELSE n) /\ \A i \in DOMAIN a : a[i] = r[i]

\* A list cut to its first k places.
LEMMA PrefixIs ==
  ASSUME NEW X, NEW n \in Nat, NEW r \in [1..n -> X], NEW k \in Nat
  PROVE  Cut(Prefix(r, k), r, n, k) /\ Prefix(r, k) \in Seq(X)
<1>1. r \in Seq(X) /\ Len(r) = n
  BY FunctionIsSeq
<1> DEFINE m == IF k <= n THEN k ELSE n
<1>2. Min({k, Len(r)}) = m
  <2>1. k \in Int /\ n \in Int
    OBVIOUS
  <2>2. Min({k, n}) = IF k <= n THEN k ELSE n
    BY ONLY <2>1, OfTwo
  <2> QED BY <1>1, <2>2
<1>3. m \in Nat /\ m <= n
  OBVIOUS
<1> HIDE DEF m
<1>4. Prefix(r, k) = SubSeq(r, 1, m)
  BY <1>2 DEF Prefix
<1>5. DOMAIN SubSeq(r, 1, m) = 1..m /\ \A i \in 1..m : SubSeq(r, 1, m)[i] = r[i]
  BY <1>1, <1>3
<1>6. SubSeq(r, 1, m) \in Seq(X)
  BY <1>1, <1>3
<1> QED BY <1>4, <1>5, <1>6 DEF Cut, m

\* r lists S in the order R, and a is its beginning.
RankedBy(a, r, R, S, k) == Ranking(r, R, S) /\ Cut(a, r, Cardinality(S), k)

\* An answer is the beginning of a list of the hits that pass, in order.
LEMMA RankedIs ==
  ASSUME IInv, NEW q, q.pos \in Int, q.topK \in Nat, NEW hits \in SUBSET Live
  PROVE  /\ Ranked(q, hits) \in Seq(Live)
         /\ \E r : RankedBy(Ranked(q, hits), r, NearOrder(q), Passing(q, hits), q.topK)
<1> DEFINE S == Passing(q, hits)
           R == NearOrder(q)
           N == Cardinality(S)
           s == SetToSeq(S)
           D == 1..N
           Bef(i, j) == \/ NearerHit(q, s[i], s[j])
                        \/ i < j /\ ~ NearerHit(q, s[j], s[i])
           o == Ordered(DOMAIN s, Bef)
           r == Sorted(s, LAMBDA a, b : NearerHit(q, a, b))
<1>1. S \in SUBSET Live
  BY DEF Passing
<1>2. IsFiniteSet(S) /\ TotalOrder(R, S)
  <2> HIDE DEF S, R
  <2> QED BY <1>1, NearOrderTotal DEF R
<1>3. /\ N \in Nat /\ DOMAIN s = D /\ \A n \in D : s[n] \in S
      /\ \A m, n \in D : s[m] = s[n] => m = n
  <2> HIDE DEF S
  <2> QED BY <1>2, SetToSeqIs
<1>4. \A a, b \in S : <<a, b>> \in R <=> NearerHit(q, a, b)
  <2> HIDE DEF S
  <2> QED BY <1>1 DEF NearOrder
<1>5. r = [n \in DOMAIN o |-> s[o[n]]]
  BY DEF Sorted, Picked
<1>6. Ranked(q, hits) = Prefix(r, q.topK)
  BY DEF Ranked
<1>7. o = [k \in 1..Cardinality(DOMAIN s) |->
             CHOOSE x \in DOMAIN s : Cardinality({y \in DOMAIN s : Bef(y, x)}) = k - 1]
  BY DEF Ordered
<1>8. IsFiniteSet(D) /\ Cardinality(D) = N
  <2>1. N \in Int /\ 1 \in Int
    BY <1>3
  <2>2. IsFiniteSet(1..N) /\ Cardinality(1..N) = IF 1 > N THEN 0 ELSE N - 1 + 1
    BY ONLY <2>1, FS_Interval
  <2> QED BY <1>3, <2>2
<1> HIDE DEF S, R, N, s, o, r
<1>9. ASSUME NEW x \in D, NEW y \in D PROVE Bef(y, x) <=> <<s[y], s[x]>> \in R
  <2>1. s[x] \in S /\ s[y] \in S
    BY <1>3
  <2>2. (NearerHit(q, s[y], s[x]) <=> <<s[y], s[x]>> \in R) /\ (NearerHit(q, s[x], s[y]) <=> <<s[x], s[y]>> \in R)
    BY <1>4, <2>1
  <2>3. s[x] = s[y] \/ <<s[y], s[x]>> \in R \/ <<s[x], s[y]>> \in R
    BY <1>2, <2>1 DEF TotalOrder
  <2>4. ~ (<<s[y], s[x]>> \in R /\ <<s[x], s[y]>> \in R)
    BY <1>2, <2>1 DEF TotalOrder
  <2>5. s[x] = s[y] => ~ y < x
    <3>1. s[x] = s[y] => x = y
      BY <1>3
    <3> QED BY <1>3, <3>1
  <2> QED BY <2>2, <2>3, <2>4, <2>5
<1>10. \A x \in D : {y \in D : Bef(y, x)} = {y \in D : <<s[y], s[x]>> \in R}
  <2> HIDE DEF Bef
  <2> QED BY <1>9
<1>11. o = [k \in D |-> CHOOSE x \in D : Cardinality({y \in D : <<s[y], s[x]>> \in R}) = k - 1]
  <2> DEFINE A(k) == CHOOSE x \in D : Cardinality({y \in D : Bef(y, x)}) = k - 1
             B(k) == CHOOSE x \in D : Cardinality({y \in D : <<s[y], s[x]>> \in R}) = k - 1
  <2>1. o = [k \in D |-> A(k)]
    <3> HIDE DEF Bef
    <3> QED BY <1>3, <1>7, <1>8 DEF D
  <2>2. ASSUME NEW k \in D PROVE A(k) = B(k)
    <3> HIDE DEF Bef, D
    <3>1. \A x \in D : (Cardinality({y \in D : Bef(y, x)}) = k - 1)
                         <=> (Cardinality({y \in D : <<s[y], s[x]>> \in R}) = k - 1)
      BY <1>10
    <3> QED BY <3>1
  <2>3. o = [k \in D |-> B(k)]
    <3> HIDE DEF Bef, D, A, B
    <3> QED BY <2>1, <2>2
  <2> QED BY <2>3
<1>12. r = [n \in D |-> s[o[n]]]
  <2>1. DOMAIN o = D
    BY <1>11
  <2> QED BY <1>5, <2>1
<1>13. Ranking(r, R, S)
  <2>1. s = SetToSeq(S) /\ N = Cardinality(S)
    BY DEF s, N
  <2>2. Placed(r, o, s, R, N)
    BY <1>11, <1>12 DEF Placed
  <2> QED BY ONLY <1>2, <2>1, <2>2, ListedInOrder
<1>14. r \in [1..N -> S]
  <2>1. DOMAIN r = 1..N /\ \A n \in 1..N : r[n] \in S
    BY <1>13 DEF Ranking, N
  <2> QED BY <1>12, <2>1
<1>15. Cut(Prefix(r, q.topK), r, N, q.topK) /\ Prefix(r, q.topK) \in Seq(Live)
  <2>1. r \in [1..N -> Live]
    BY <1>1, <1>14
  <2> QED BY <1>3, <2>1, PrefixIs
<1>16. RankedBy(Ranked(q, hits), r, R, S, q.topK)
  BY <1>6, <1>13, <1>15 DEF RankedBy, N
<1> QED BY <1>6, <1>15, <1>16 DEF R, S

\* What the clusters of the epoch hold.
AllMembers == UNION {Members(c) : c \in DOMAIN epoch.clusters}

\* The candidates that a query finds in the index are members of clusters.
LEMMA CandidatesIs ==
  ASSUME NEW q, NEW plan, NEW cands \in IndexCandidates(q, plan)
  PROVE  cands = {} \/ (epoch # NoEpoch /\ cands \subseteq AllMembers)
<1>1. CASE epoch = NoEpoch
  BY <1>1 DEF IndexCandidates
<1>2. CASE epoch # NoEpoch
  <2>1. Fetched(q, plan) \subseteq DOMAIN epoch.clusters
    BY <1>2 DEF IndexCandidates
  <2>2. CASE plan.filterFirst
    <3>1. cands = FilterFirstCandidates(plan)
      BY <1>2, <2>1, <2>2 DEF IndexCandidates
    <3>2. plan.clusters \subseteq DOMAIN epoch.clusters
      BY <2>1, <2>2 DEF Fetched
    <3>3. cands \subseteq UNION {Members(c) : c \in plan.clusters}
      BY <3>1 DEF FilterFirstCandidates
    <3> QED BY <1>2, <3>2, <3>3 DEF AllMembers
  <2>3. CASE ~ plan.filterFirst
    <3> DEFINE g == Scanned(q, plan)
    <3>1. cands \in Shortlists(g, q.topK * ShortlistMultiplier)
      BY <1>2, <2>1, <2>3 DEF IndexCandidates
    <3>2. g \subseteq AllMembers
      BY <2>1 DEF Scanned, AllMembers
    <3> HIDE DEF g
    <3>3. cands \subseteq g
      BY <3>1 DEF Shortlists, kSubset
    <3> QED BY <1>2, <3>2, <3>3
  <2> QED BY <2>2, <2>3
<1> QED BY <1>1, <1>2

\* Under the tail every candidate is a live document, and no fresh one is missing.
LEMMA OverlaidIs ==
  ASSUME IInv, NEW cands, cands = {} \/ (epoch # NoEpoch /\ cands \subseteq AllMembers)
  PROVE  Overlaid(cands) \in SUBSET Live /\ FreshCandidates \subseteq Overlaid(cands)
<1>1. FreshCandidates \subseteq Live
  BY DEF FreshCandidates, Live
<1>2. ASSUME NEW m \in cands, m.id \notin tail
      PROVE  [id |-> m.id, vec |-> m.vec, attrs |-> m.attrs] \in Live
  <2> DEFINE cs == epoch.clusters
  <2>1. EpochOK /\ m \in AllMembers
    BY DEF IInv
  <2>2. PICK c \in DOMAIN cs : m \in Members(c)
    BY <2>1 DEF AllMembers
  <2>3. PICK j \in DOMAIN cs[c].members : m = cs[c].members[j]
    BY <2>2 DEF Members
  <2>4. m.id \in Filing(cs)
    BY <2>3 DEF Filing, Names
  <2> HIDE DEF cs
  <2>5. m.id \in WithVector(docs)
    BY <1>2, <2>1, <2>4 DEF EpochOK, cs
  <2>6. m.vec = docs[m.id].vec /\ m.attrs = docs[m.id].attrs
    <3>1. Current(cs, docs, Filing(cs) \ tail)
      BY <2>1 DEF EpochOK, cs
    <3> QED BY <1>2, <2>3, <2>4, <3>1 DEF Current
  <2> QED BY <2>5, <2>6 DEF Live
<1> QED BY <1>1, <1>2 DEF Overlaid

\* Where more hits pass, an answer is no shorter and rank by rank no farther.
LEMMA MoreHits ==
  ASSUME IInv, NEW q, q.pos \in Int, q.topK \in Nat, NEW A \in SUBSET Live, NEW B \in SUBSET Live,
         Passing(q, B) \subseteq Passing(q, A)
  PROVE  LET more == Ranked(q, A)
             less == Ranked(q, B)
         IN  /\ Len(less) <= Len(more)
             /\ \A i \in DOMAIN less :
                  /\ i \in DOMAIN more
                  /\ Distance(q.pos, more[i].vec) <= Distance(q.pos, less[i].vec)
<1> DEFINE O == Passing(q, A)
           F == Passing(q, B)
           R == NearOrder(q)
           more == Ranked(q, A)
           less == Ranked(q, B)
           k == q.topK
           d(h) == Distance(q.pos, h.vec)
           NO == Cardinality(O)
           NF == Cardinality(F)
<1>1. q.pos \in Int /\ k \in Nat
  OBVIOUS
<1>2. more \in Seq(Live) /\ \E r : RankedBy(more, r, R, O, k)
  BY <1>1, RankedIs
<1>3. less \in Seq(Live) /\ \E r : RankedBy(less, r, R, F, k)
  BY <1>1, RankedIs
<1>4. O \in SUBSET Live /\ F \in SUBSET O
  BY DEF Passing
<1>5. IsFiniteSet(O) /\ TotalOrder(R, O)
  <2> HIDE DEF O, F
  <2> QED BY <1>1, <1>4, NearOrderTotal
<1>6. \A x \in Live : d(x) \in Nat
  BY <1>1, LiveIs, DistanceNat
<1>7. \A x, y \in Live : <<x, y>> \in R => d(x) <= d(y)
  <2> SUFFICES ASSUME NEW x \in Live, NEW y \in Live, <<x, y>> \in R PROVE d(x) <= d(y)
    OBVIOUS
  <2>1. d(x) \in Nat /\ d(y) \in Nat
    BY <1>6
  <2>2. d(x) < d(y) \/ d(x) = d(y)
    BY DEF NearOrder, NearerHit
  <2> HIDE DEF d
  <2> QED BY <2>1, <2>2
<1> HIDE DEF O, F, R, more, less, k, d
<1>8. PICK a : RankedBy(more, a, R, O, k)
  BY <1>2
<1>9. PICK f : RankedBy(less, f, R, F, k)
  BY <1>3
<1>10. /\ NO \in Nat
       /\ DOMAIN more = 1..(IF k <= NO THEN k ELSE NO)
       /\ \A i \in DOMAIN more : more[i] = a[i]
       /\ \A i \in 1..NO : a[i] \in O
  BY <1>8 DEF RankedBy, Ranking, Cut
<1>11. /\ NF \in Nat
       /\ DOMAIN less = 1..(IF k <= NF THEN k ELSE NF)
       /\ \A i \in DOMAIN less : less[i] = f[i]
       /\ \A i \in 1..NF : f[i] \in F
  BY <1>9 DEF RankedBy, Ranking, Cut
<1>12. NF <= NO /\ \A i \in 1..NF : a[i] = f[i] \/ <<a[i], f[i]>> \in R
  BY <1>4, <1>5, <1>8, <1>9, RankAgainst DEF RankedBy
<1> HIDE DEF NO, NF
<1>13. Len(less) <= Len(more)
  <2> DEFINE m == IF k <= NO THEN k ELSE NO
             n == IF k <= NF THEN k ELSE NF
  <2>1. m \in Nat /\ n \in Nat /\ n <= m
    BY <1>1, <1>10, <1>11, <1>12
  <2>2. DOMAIN more = 1..m /\ DOMAIN less = 1..n
    BY <1>10, <1>11
  <2> HIDE DEF m, n
  <2>3. Len(more) = m /\ Len(less) = n
    BY <1>2, <1>3, <2>1, <2>2
  <2> QED BY <2>1, <2>3
<1>14. ASSUME NEW i \in DOMAIN less PROVE i \in DOMAIN more /\ d(more[i]) <= d(less[i])
  <2>1. i \in 1..NF /\ i \in 1..NO /\ i \in DOMAIN more
    BY <1>1, <1>10, <1>11, <1>12
  <2>2. more[i] = a[i] /\ less[i] = f[i] /\ a[i] \in Live /\ f[i] \in Live
    BY <1>4, <1>10, <1>11, <2>1
  <2>3. a[i] = f[i] \/ <<a[i], f[i]>> \in R
    BY <1>12, <2>1
  <2>4. d(a[i]) \in Nat /\ d(f[i]) \in Nat
    BY <1>6, <2>2
  <2> QED BY <1>7, <2>1, <2>2, <2>3, <2>4
<1> QED BY <1>13, <1>14 DEF d, more, less

\* An answer made of live documents, with the fresh ones among them, is sound.
LEMMA AnswerSound ==
  ASSUME IInv, NEW q, q.pos \in Int, q.topK \in Nat, NEW hits \in SUBSET Live, FreshCandidates \subseteq hits
  PROVE  LET answer == Ranked(q, hits)
             fresh  == Ranked(q, FreshCandidates)
         IN  /\ IsInjective(IdsOf(answer))
             /\ \A i \in DOMAIN answer :
                  /\ answer[i].id \in DOMAIN docs
                  /\ docs[answer[i].id].vec = answer[i].vec
                  /\ docs[answer[i].id].attrs = answer[i].attrs
             /\ \A i \in DOMAIN fresh :
                  /\ i \in DOMAIN answer
                  /\ Distance(q.pos, answer[i].vec) <= Distance(q.pos, fresh[i].vec)
<1> DEFINE O == Passing(q, hits)
           answer == Ranked(q, hits)
           fresh == Ranked(q, FreshCandidates)
           NO == Cardinality(O)
<1>1. FreshCandidates \in SUBSET Live /\ Passing(q, FreshCandidates) \subseteq Passing(q, hits)
  BY DEF FreshCandidates, Live, Passing
<1>2. \A i \in DOMAIN fresh :
        i \in DOMAIN answer /\ Distance(q.pos, answer[i].vec) <= Distance(q.pos, fresh[i].vec)
  BY <1>1, MoreHits
<1>3. \E r : RankedBy(answer, r, NearOrder(q), O, q.topK)
  BY RankedIs
<1>4. O \subseteq Live
  BY DEF Passing
<1> HIDE DEF O, answer, fresh
<1>5. PICK a : RankedBy(answer, a, NearOrder(q), O, q.topK)
  BY <1>3
<1>6. /\ NO \in Nat
      /\ DOMAIN answer = 1..(IF q.topK <= NO THEN q.topK ELSE NO)
      /\ \A i \in DOMAIN answer : answer[i] = a[i]
      /\ \A i \in 1..NO : a[i] \in O
      /\ \A i, j \in 1..NO : a[i] = a[j] => i = j
  BY <1>5 DEF RankedBy, Ranking, Cut
<1>7. \A i \in DOMAIN answer : i \in 1..NO /\ answer[i] \in Live
  BY <1>4, <1>6
<1>8. IsInjective(IdsOf(answer))
  <2> SUFFICES ASSUME NEW i \in DOMAIN answer, NEW j \in DOMAIN answer, answer[i].id = answer[j].id
               PROVE  i = j
    BY DEF IsInjective, IdsOf
  <2>1. answer[i] = answer[j]
    BY <1>7, LiveIs
  <2> QED BY <1>6, <1>7, <2>1
<1>9. \A i \in DOMAIN answer :
        /\ answer[i].id \in DOMAIN docs
        /\ docs[answer[i].id].vec = answer[i].vec
        /\ docs[answer[i].id].attrs = answer[i].attrs
  BY <1>7, LiveIs
<1> QED BY <1>2, <1>8, <1>9 DEF answer, fresh

\* The invariant makes partial answers sound.
LEMMA IInvPartial == IInv => PartialAnswersSound
<1> SUFFICES ASSUME IInv, NEW q \in Queries, NEW answer \in VectorQuery(q)
             PROVE  LET fresh == Ranked(q, FreshCandidates)
                    IN  /\ IsInjective(IdsOf(answer))
                        /\ \A i \in DOMAIN answer :
                             /\ answer[i].id \in DOMAIN docs
                             /\ docs[answer[i].id].vec = answer[i].vec
                             /\ docs[answer[i].id].attrs = answer[i].attrs
                        /\ \A i \in DOMAIN fresh :
                             /\ i \in DOMAIN answer
                             /\ Distance(q.pos, answer[i].vec) <= Distance(q.pos, fresh[i].vec)
  BY DEF PartialAnswersSound
<1>1. PICK cands \in IndexCandidates(q, Plan(q)) : answer = Ranked(q, Overlaid(cands))
  BY DEF VectorQuery, Answers
<1>2. Overlaid(cands) \in SUBSET Live /\ FreshCandidates \subseteq Overlaid(cands)
  BY CandidatesIs, OverlaidIs
<1>3. q.pos \in Int /\ q.topK \in Nat
  BY EpochAssumption
<1> QED BY <1>1, <1>2, <1>3, AnswerSound

(***************************************************************************)
(* However few clusters are probed and whatever the estimate cuts, an      *)
(* answer is about the present, and no fresh write is crowded out of it    *)
(* (vectorCandidatesFromIndex, runVectorQuery).                            *)
(***************************************************************************)
THEOREM PartialSound == Spec => []PartialAnswersSound
BY EpochInvariant, IInvPartial, PTL

-----------------------------------------------------------------------------
(***************************************************************************)
(* What was indexed.  An epoch holds a snapshot, and everything that has   *)
(* changed since is in the tail.                                           *)
(***************************************************************************)

\* Documents whose ids and texts are those the constants allow for.
Written(live) ==
  /\ DOMAIN live \subseteq Ids
  /\ \A id \in DOMAIN live : TextFieldValue(live[id].attrs) \in DOMAIN Tokens

\* Two sets of documents that agree on an id.
SameDoc(live, old, id) ==
  /\ id \in DOMAIN live <=> id \in DOMAIN old
  /\ id \in DOMAIN live => live[id] = old[id]

\* The objects of the epoch are those of a build that found the documents old.
Indexed(old) ==
  /\ Written(old)
  /\ epoch = ObjectsOver(epoch.clusters, old)
  /\ Filing(epoch.clusters) = WithVector(old)
  /\ \A id \in Ids \ tail : SameDoc(docs, old, id)

(***************************************************************************)
(* The invariant of all indexes: what the clusters file is what the other  *)
(* indexes were built over, and without an epoch all documents are in the  *)
(* tail.                                                                   *)
(***************************************************************************)
SnapshotInv ==
  /\ IInv
  /\ Written(docs)
  /\ epoch = NoEpoch => DOMAIN docs \subseteq tail
  /\ epoch # NoEpoch => \E old : Indexed(old)

\* There are finitely many documents.
LEMMA SnapshotFinite ==
  ASSUME NEW live, Written(live)
  PROVE  IsFiniteSet(DOMAIN live) /\ DOMAIN live \subseteq Nat
         /\ Cardinality(DOMAIN live) \in 0..Cardinality(Ids)
<1>1. IsFiniteSet(Ids) /\ Ids \subseteq Nat /\ DOMAIN live \in SUBSET Ids
  BY EpochAssumption DEF Written
<1>2. IsFiniteSet(DOMAIN live) /\ Cardinality(DOMAIN live) <= Cardinality(Ids)
  BY <1>1, FS_Subset
<1>3. Cardinality(DOMAIN live) \in Nat /\ Cardinality(Ids) \in Nat
  BY <1>1, <1>2, FS_CardinalityType
<1> DEFINE n == Cardinality(DOMAIN live)
           m == Cardinality(Ids)
<1>4. n \in 0..m
  <2>1. n \in Nat /\ m \in Nat /\ n <= m
    BY <1>2, <1>3
  <2> HIDE DEF n, m
  <2> QED BY ONLY <2>1
<1>5. DOMAIN live \subseteq Nat
  BY ONLY <1>1
<1> QED BY ONLY <1>2, <1>4, <1>5

\* A call of Upsert puts what it changes into the tail.
LEMMA UpsertSnapshot ==
  ASSUME SnapshotInv, NEW batch \in Batches, Upsert(batch)
  PROVE  SnapshotInv'
<1> DEFINE B == DOMAIN batch
           kept == DOMAIN docs \ B
           stored == {id \in B : ~ batch[id].deleted}
<1>1. /\ docs' = [id \in kept \cup stored |->
                    IF id \in stored THEN [vec |-> batch[id].vec, attrs |-> batch[id].attrs]
                    ELSE docs[id]]
      /\ tail' = tail \cup B /\ epoch' = epoch
  BY DEF Upsert
<1>2. /\ DOMAIN docs' = kept \cup stored
      /\ \A id \in stored : docs'[id].attrs = batch[id].attrs
      /\ \A id \in kept : docs'[id] = docs[id]
  BY <1>1
<1>3. B \subseteq Ids /\ \A id \in B : TextFieldValue(batch[id].attrs) \in DOMAIN Tokens
  BY EpochAssumption, TextAssumption
<1>4. stored \subseteq B /\ kept \subseteq DOMAIN docs /\ \A id : id \notin B => (id \in DOMAIN docs' <=> id \in DOMAIN docs)
  BY <1>2
<1> HIDE DEF B, kept, stored
<1>5. Written(docs)'
  <2>1. DOMAIN docs' \subseteq Ids
    BY <1>2, <1>3, <1>4 DEF SnapshotInv, Written
  <2>2. ASSUME NEW id \in DOMAIN docs' PROVE TextFieldValue(docs'[id].attrs) \in DOMAIN Tokens
    <3>1. CASE id \in stored
      <4>1. docs'[id].attrs = batch[id].attrs /\ id \in B
        BY <1>2, <1>4, <3>1
      <4> QED BY <1>3, <4>1
    <3>2. CASE id \in kept
      <4>1. docs'[id] = docs[id] /\ id \in DOMAIN docs
        BY <1>2, <1>4, <3>2
      <4> QED BY <4>1 DEF SnapshotInv, Written
    <3> QED BY <1>2, <3>1, <3>2
  <2> QED BY <2>1, <2>2 DEF Written
<1>6. epoch' = NoEpoch => DOMAIN docs' \subseteq tail'
  BY <1>1, <1>2, <1>4 DEF SnapshotInv
<1>7. ASSUME epoch' # NoEpoch PROVE (\E old : Indexed(old))'
  <2>1. PICK old : Indexed(old)
    BY <1>1, <1>7 DEF SnapshotInv
  <2>2. ASSUME NEW id \in Ids \ tail' PROVE SameDoc(docs', old, id)
    <3>1. id \in Ids \ tail /\ id \notin B
      BY <1>1, <2>2
    <3>2. SameDoc(docs, old, id)
      BY <2>1, <3>1 DEF Indexed
    <3>3. id \in DOMAIN docs' <=> id \in DOMAIN docs
      BY <1>4, <3>1
    <3>4. id \in DOMAIN docs => id \in kept
      BY <3>1 DEF kept
    <3> QED BY <1>2, <3>2, <3>3, <3>4 DEF SameDoc
  <2>3. /\ Written(old) /\ epoch' = ObjectsOver(epoch'.clusters, old)
        /\ Filing(epoch'.clusters) = WithVector(old)
    BY <1>1, <2>1 DEF Indexed
  <2>4. \E new : /\ Written(new) /\ epoch' = ObjectsOver(epoch'.clusters, new)
                 /\ Filing(epoch'.clusters) = WithVector(new)
                 /\ \A id \in Ids \ tail' : SameDoc(docs', new, id)
    BY <2>2, <2>3
  <2> QED BY <2>4 DEF Indexed
<1>8. IInv'
  BY UpsertIInv DEF SnapshotInv
<1> QED BY <1>5, <1>6, <1>7, <1>8 DEF SnapshotInv

\* A build indexes the documents it finds.
LEMMA BuildSnapshot ==
  ASSUME SnapshotInv, BuildIndex
  PROVE  SnapshotInv'
<1>1. PICK prev \in PrevClusters : epoch' = Objects(prev, docs)
  BY DEF BuildIndex
<1>2. docs' = docs /\ tail' = {}
  BY DEF BuildIndex
<1>3. IInv'
  BY BuildIndexIInv DEF SnapshotInv
<1>4. Written(docs) /\ Written(docs)'
  BY <1>2 DEF SnapshotInv, Written
<1>5. epoch' = ObjectsOver(epoch'.clusters, docs)
  <2> DEFINE fs == BuildVectorIndex(prev, docs)
  <2>1. epoch' = ObjectsOver(fs, docs)
    BY <1>1 DEF Objects
  <2> HIDE DEF fs
  <2>2. epoch'.clusters = fs
    BY <2>1 DEF ObjectsOver
  <2> QED BY <2>1, <2>2
<1>6. epoch' # NoEpoch => Filing(epoch'.clusters) = WithVector(docs)
  <2> SUFFICES ASSUME epoch' # NoEpoch PROVE Filing(epoch'.clusters) = WithVector(docs)
    OBVIOUS
  <2>1. EpochOK'
    BY <1>3 DEF IInv
  <2>2. Filing(epoch'.clusters) \ tail' = WithVector(docs)' \ tail'
    BY <2>1 DEF EpochOK
  <2>3. WithVector(docs)' = WithVector(docs)
    BY <1>2 DEF WithVector
  <2> QED BY <1>2, <2>2, <2>3
<1>7. \A id \in Ids \ tail' : SameDoc(docs', docs, id)
  BY <1>2 DEF SameDoc
<1>8. epoch' # NoEpoch => (\E old : Indexed(old))'
  <2>1. epoch' # NoEpoch => \E new : /\ Written(new) /\ epoch' = ObjectsOver(epoch'.clusters, new)
                                     /\ Filing(epoch'.clusters) = WithVector(new)
                                     /\ \A id \in Ids \ tail' : SameDoc(docs', new, id)
    BY <1>4, <1>5, <1>6, <1>7
  <2> QED BY <2>1 DEF Indexed
<1>9. epoch' # NoEpoch
  <2>1. "docs" \in DOMAIN epoch'
    BY <1>1 DEF Objects, ObjectsOver
  <2>2. DOMAIN NoEpoch = {}
    BY DEF NoEpoch
  <2> QED BY <2>1, <2>2
<1> QED BY <1>3, <1>4, <1>8, <1>9 DEF SnapshotInv

\* The epoch always holds a snapshot.
THEOREM SnapshotInvariant == Spec => []SnapshotInv
<1>1. Init => SnapshotInv
  <2> SUFFICES ASSUME Init PROVE SnapshotInv
    OBVIOUS
  <2>1. DOMAIN docs = {} /\ epoch = NoEpoch
    BY DEF Init
  <2> QED BY <2>1, InitIInv DEF SnapshotInv, Written
<1>2. SnapshotInv /\ [Next]_vars => SnapshotInv'
  <2> SUFFICES ASSUME SnapshotInv, [Next]_vars PROVE SnapshotInv'
    OBVIOUS
  <2>1. CASE BuildIndex
    BY <2>1, BuildSnapshot
  <2>2. ASSUME NEW batch \in Batches, Upsert(batch) PROVE SnapshotInv'
    BY <2>2, UpsertSnapshot
  <2>3. CASE UNCHANGED vars
    <3>1. docs' = docs /\ tail' = tail /\ epoch' = epoch
      BY <2>3 DEF vars
    <3>2. IInv'
      BY <3>1 DEF SnapshotInv, IInv, DocsOK, EpochOK, WithVector
    <3>3. Written(docs)' /\ (epoch' = NoEpoch => DOMAIN docs' \subseteq tail')
      BY <3>1 DEF SnapshotInv, Written
    <3>4. epoch' # NoEpoch => (\E old : Indexed(old))'
      BY <3>1 DEF SnapshotInv, Indexed
    <3> QED BY <3>2, <3>3, <3>4 DEF SnapshotInv
  <2> QED BY <2>1, <2>2, <2>3 DEF Next
<1> QED BY <1>1, <1>2, PTL DEF Spec

\* A list of hits, by their ids: numbers, each once.
Leg(ids) ==
  \E n \in Nat : DOMAIN ids = 1..n /\ (\A i \in 1..n : ids[i] \in Nat) /\ IsInjective(ids)

\* What a query looks like, and what its deepened form does.
LEMMA QueryIs ==
  ASSUME NEW q \in Queries
  PROVE  /\ q.pos \in Int /\ q.topK \in Nat /\ q.text \in Seq(STRING)
         /\ Deepened(q).pos = q.pos /\ Deepened(q).text = q.text
         /\ Deepened(q).topK \in Nat
<1>1. q \in [pos : Int, text : Seq(STRING), filter : Filters, topK : Nat, nProbe : Nat]
      /\ HybridMultiplier \in Nat
  BY EpochAssumption
<1>2. q.topK * HybridMultiplier \in Nat
  BY <1>1
<1>3. Deepened(q) = [q EXCEPT !.topK = q.topK * HybridMultiplier]
  BY DEF Deepened
<1> QED BY <1>1, <1>2, <1>3

\* The beginning of a list of distinct hits names distinct ids.
LEMMA CutIsLeg ==
  ASSUME NEW S, NEW R, NEW a, NEW r, NEW k \in Nat, RankedBy(a, r, R, S, k),
         \A h \in S : h.id \in Nat, \A g, h \in S : g.id = h.id => g = h
  PROVE  Leg(IdsOf(a))
<1> DEFINE N == Cardinality(S)
           n == IF k <= N THEN k ELSE N
<1>1. /\ N \in Nat
      /\ \A i \in 1..N : r[i] \in S
      /\ \A i, j \in 1..N : r[i] = r[j] => i = j
      /\ DOMAIN a = 1..n /\ \A i \in DOMAIN a : a[i] = r[i]
  BY DEF RankedBy, Ranking, Cut
<1>2. n \in Nat /\ \A i \in 1..n : i \in 1..N
  BY <1>1
<1> HIDE DEF n
<1>3. \A i \in 1..n : a[i] \in S
  BY <1>1, <1>2
<1>4. DOMAIN IdsOf(a) = 1..n /\ \A i \in 1..n : IdsOf(a)[i] \in Nat
  BY <1>1, <1>3 DEF IdsOf
<1>5. IsInjective(IdsOf(a))
  <2> SUFFICES ASSUME NEW i \in 1..n, NEW j \in 1..n, a[i].id = a[j].id PROVE i = j
    BY <1>1 DEF IsInjective, IdsOf
  <2>1. a[i] = a[j]
    BY <1>3
  <2>2. r[i] = r[j]
    BY <1>1, <2>1
  <2> QED BY <1>1, <1>2, <2>2
<1> QED BY <1>2, <1>4, <1>5 DEF Leg

\* A vector query answers a list of distinct documents.
LEMMA VectorLeg ==
  ASSUME IInv, NEW q, q.pos \in Int, q.topK \in Nat, NEW answer \in VectorQuery(q)
  PROVE  Leg(IdsOf(answer))
<1>1. PICK cands \in IndexCandidates(q, Plan(q)) : answer = Ranked(q, Overlaid(cands))
  BY DEF VectorQuery, Answers
<1>2. Overlaid(cands) \in SUBSET Live
  BY CandidatesIs, OverlaidIs
<1>3. \E r : RankedBy(answer, r, NearOrder(q), Passing(q, Overlaid(cands)), q.topK)
  BY <1>1, <1>2, RankedIs
<1>4. PICK r : RankedBy(answer, r, NearOrder(q), Passing(q, Overlaid(cands)), q.topK)
  BY <1>3
<1> DEFINE S == Passing(q, Overlaid(cands))
<1>5. S \subseteq Live
  BY <1>2 DEF Passing
<1> HIDE DEF S
<1>6. (\A h \in S : h.id \in Nat) /\ \A g, h \in S : g.id = h.id => g = h
  BY <1>5, LiveIs
<1> QED BY <1>4, <1>6, CutIsLeg DEF S

\* Finitely many hits, with one score for each id.
Scored(hits) ==
  /\ IsFiniteSet(hits)
  /\ \A h \in hits : h.id \in Nat /\ h.score \in Nat
  /\ \A g, h \in hits : g.id = h.id => g = h

\* The order in which they are ranked.
ScoreOrder(S) == {p \in S \X S : HigherScore(p[1], p[2])}

\* It is a total one.
LEMMA ScoreOrderTotal ==
  ASSUME NEW S, Scored(S)
  PROVE  TotalOrder(ScoreOrder(S), S)
<1> DEFINE R == ScoreOrder(S)
<1>1. \A a, b \in S : <<a, b>> \in R <=> a.score > b.score \/ (a.score = b.score /\ a.id < b.id)
  BY DEF ScoreOrder, HigherScore
<1>2. \A h \in S : h.id \in Nat /\ h.score \in Nat
  BY DEF Scored
<1>3. \A g, h \in S : g.id = h.id => g = h
  BY DEF Scored
<1> HIDE DEF R
<1>4. \A x \in S : <<x, x>> \notin R
  BY <1>1, <1>2
<1>5. \A x, y, z \in S : <<x, y>> \in R /\ <<y, z>> \in R => <<x, z>> \in R
  BY <1>1, <1>2
<1>6. ASSUME NEW x \in S, NEW y \in S PROVE x = y \/ <<x, y>> \in R \/ <<y, x>> \in R
  <2>1. x.score \in Nat /\ y.score \in Nat /\ x.id \in Nat /\ y.id \in Nat
    BY <1>2
  <2>2. x.id = y.id => x = y
    BY <1>3
  <2> QED BY <1>1, <2>1, <2>2
<1> QED BY <1>4, <1>5, <1>6 DEF TotalOrder, R

\* The answer to a text query is the beginning of a list of the hits that pass, in order.
LEMMA RankedTextIs ==
  ASSUME NEW q, q.topK \in Nat, NEW hits, Scored(hits)
  PROVE  LET S == Passing(q, hits)
         IN  Scored(S) /\ \E r : RankedBy(RankedText(q, hits), r, ScoreOrder(S), S, q.topK)
<1> DEFINE S == Passing(q, hits)
           R == ScoreOrder(S)
           N == Cardinality(S)
           s == SetToSeq(S)
           D == 1..N
           Bef(i, j) == \/ HigherScore(s[i], s[j])
                        \/ i < j /\ ~ HigherScore(s[j], s[i])
           o == Ordered(DOMAIN s, Bef)
           r == Sorted(s, HigherScore)
<1>1. S \in SUBSET hits
  BY DEF Passing
<1>2. Scored(S)
  <2> HIDE DEF S
  <2>1. IsFiniteSet(S)
    BY <1>1, FS_Subset DEF Scored
  <2> QED BY <1>1, <2>1 DEF Scored
<1>3. IsFiniteSet(S) /\ TotalOrder(R, S)
  <2> HIDE DEF S
  <2> QED BY <1>2, ScoreOrderTotal DEF Scored
<1>4. /\ N \in Nat /\ DOMAIN s = D /\ \A n \in D : s[n] \in S
      /\ \A m, n \in D : s[m] = s[n] => m = n
  <2> HIDE DEF S
  <2> QED BY <1>3, SetToSeqIs
<1>5. \A a, b \in S : <<a, b>> \in R <=> HigherScore(a, b)
  <2> HIDE DEF S
  <2> QED BY DEF ScoreOrder
<1>6. r = [n \in DOMAIN o |-> s[o[n]]]
  BY DEF Sorted, Picked
<1>7. RankedText(q, hits) = Prefix(r, q.topK)
  BY DEF RankedText
<1>8. o = [k \in 1..Cardinality(DOMAIN s) |->
             CHOOSE x \in DOMAIN s : Cardinality({y \in DOMAIN s : Bef(y, x)}) = k - 1]
  BY DEF Ordered
<1>9. IsFiniteSet(D) /\ Cardinality(D) = N
  <2>1. N \in Int /\ 1 \in Int
    BY <1>4
  <2>2. IsFiniteSet(1..N) /\ Cardinality(1..N) = IF 1 > N THEN 0 ELSE N - 1 + 1
    BY ONLY <2>1, FS_Interval
  <2> QED BY <1>4, <2>2
<1> HIDE DEF S, R, N, s, o, r
<1>10. ASSUME NEW x \in D, NEW y \in D PROVE Bef(y, x) <=> <<s[y], s[x]>> \in R
  <2>1. s[x] \in S /\ s[y] \in S
    BY <1>4
  <2>2. (HigherScore(s[y], s[x]) <=> <<s[y], s[x]>> \in R) /\ (HigherScore(s[x], s[y]) <=> <<s[x], s[y]>> \in R)
    BY <1>5, <2>1
  <2>3. s[x] = s[y] \/ <<s[y], s[x]>> \in R \/ <<s[x], s[y]>> \in R
    BY <1>3, <2>1 DEF TotalOrder
  <2>4. ~ (<<s[y], s[x]>> \in R /\ <<s[x], s[y]>> \in R)
    BY <1>3, <2>1 DEF TotalOrder
  <2>5. s[x] = s[y] => ~ y < x
    <3>1. s[x] = s[y] => x = y
      BY <1>4
    <3> QED BY <1>4, <3>1
  <2> QED BY <2>2, <2>3, <2>4, <2>5
<1>11. \A x \in D : {y \in D : Bef(y, x)} = {y \in D : <<s[y], s[x]>> \in R}
  <2> HIDE DEF Bef
  <2> QED BY <1>10
<1>12. o = [k \in D |-> CHOOSE x \in D : Cardinality({y \in D : <<s[y], s[x]>> \in R}) = k - 1]
  <2> DEFINE A(k) == CHOOSE x \in D : Cardinality({y \in D : Bef(y, x)}) = k - 1
             B(k) == CHOOSE x \in D : Cardinality({y \in D : <<s[y], s[x]>> \in R}) = k - 1
  <2>1. o = [k \in D |-> A(k)]
    <3> HIDE DEF Bef
    <3> QED BY <1>4, <1>8, <1>9 DEF D
  <2>2. ASSUME NEW k \in D PROVE A(k) = B(k)
    <3> HIDE DEF Bef, D
    <3>1. \A x \in D : (Cardinality({y \in D : Bef(y, x)}) = k - 1)
                         <=> (Cardinality({y \in D : <<s[y], s[x]>> \in R}) = k - 1)
      BY <1>11
    <3> QED BY <3>1
  <2>3. o = [k \in D |-> B(k)]
    <3> HIDE DEF Bef, D, A, B
    <3> QED BY <2>1, <2>2
  <2> QED BY <2>3
<1>13. r = [n \in D |-> s[o[n]]]
  <2>1. DOMAIN o = D
    BY <1>12
  <2> QED BY <1>6, <2>1
<1>14. Ranking(r, R, S)
  <2>1. s = SetToSeq(S) /\ N = Cardinality(S)
    BY DEF s, N
  <2>2. Placed(r, o, s, R, N)
    BY <1>12, <1>13 DEF Placed
  <2> QED BY ONLY <1>3, <2>1, <2>2, ListedInOrder
<1>15. r \in [1..N -> S]
  <2>1. DOMAIN r = 1..N /\ \A n \in 1..N : r[n] \in S
    BY <1>14 DEF Ranking, N
  <2> QED BY <1>13, <2>1
<1>16. Cut(Prefix(r, q.topK), r, N, q.topK)
  BY <1>4, <1>15, PrefixIs
<1>17. RankedBy(RankedText(q, hits), r, R, S, q.topK)
  BY <1>7, <1>14, <1>16 DEF RankedBy, N
<1> QED BY <1>2, <1>17 DEF R, S

-----------------------------------------------------------------------------
(***************************************************************************)
(* Text: what the postings of a document give is what its text gives.      *)
(***************************************************************************)

\* How often a term occurs.
LEMMA FreqIs ==
  ASSUME NEW terms \in Seq(STRING), NEW t
  PROVE  /\ Freq(terms, t) \in Nat /\ Len(terms) \in Nat
         /\ t \in ToSet(terms) => Freq(terms, t) >= 1
<1> DEFINE I == {i \in DOMAIN terms : terms[i] = t}
<1>1. Len(terms) \in Nat /\ DOMAIN terms = 1..Len(terms)
  OBVIOUS
<1>2. IsFiniteSet(1..Len(terms))
  BY <1>1, FS_Interval
<1>3. IsFiniteSet(I)
  BY <1>1, <1>2, FS_Subset
<1>4. t \in ToSet(terms) => I # {}
  BY DEF ToSet
<1> HIDE DEF I
<1>5. Cardinality(I) \in Nat /\ (I # {} => Cardinality(I) # 0)
  BY <1>3, FS_CardinalityType, FS_EmptySet
<1> QED BY <1>1, <1>4, <1>5 DEF Freq, I

\* The quotient of naturals.
LEMMA QuotientIs ==
  ASSUME NEW a \in Nat, NEW b \in Nat \ {0}
  PROVE  a \div b \in Nat /\ (a >= b => a \div b >= 1)
<1>1. a \div b \in Int
  OBVIOUS
<1>2. b * (a \div b) <= a /\ a < b * ((a \div b) + 1)
  OBVIOUS
<1> DEFINE k == a \div b
<1> HIDE DEF k
<1>3. k >= 0
  <2> SUFFICES ASSUME k < 0 PROVE FALSE
    BY <1>1 DEF k
  <2>1. k + 1 <= 0 /\ k \in Int
    BY <1>1 DEF k
  <2>2. b * (k + 1) <= 0
    BY <2>1
  <2> QED BY <1>2, <2>1, <2>2 DEF k
<1>4. a >= b => k >= 1
  <2> SUFFICES ASSUME a >= b, k = 0 PROVE FALSE
    BY <1>1, <1>3 DEF k
  <2> QED BY <1>2 DEF k
<1> QED BY <1>1, <1>3, <1>4 DEF k

\* Statistics for which the table has the idf of every term.
Statistical(idx) ==
  /\ idx.N \in Nat /\ idx.totalLen \in Nat
  /\ \A t : <<idx.N, Cardinality(PostingsOf(idx, t))>> \in DOMAIN IDF

\* The share of a term that occurs is not nothing.
LEMMA TermScoreIs ==
  ASSUME NEW idx, Statistical(idx), NEW t, NEW tf \in Nat, NEW docLen \in Nat
  PROVE  /\ TermScore(idx, t, tf, docLen) \in Nat
         /\ tf >= 1 /\ docLen <= idx.totalLen => TermScore(idx, t, tf, docLen) >= 1
<1> DEFINE w == TermIDF(idx, t)
           n == idx.N
           total == idx.totalLen
<1>1. n \in Nat /\ total \in Nat
  BY DEF Statistical
<1>2. w \in Nat \ {0} /\ w >= n
  <2> DEFINE p == <<n, Cardinality(PostingsOf(idx, t))>>
  <2>1. p \in DOMAIN IDF
    BY DEF Statistical
  <2>2. IDF[p] \in Nat \ {0} /\ IDF[p] >= p[1]
    BY <2>1, Bm25Assumption
  <2>3. w = IDF[p] /\ p[1] = n
    BY DEF TermIDF
  <2> HIDE DEF p, w, n
  <2> QED BY <2>2, <2>3
<1>3. TermScore(idx, t, tf, docLen) =
        IF total = 0 THEN (w * tf * 22) \div (10 * tf + 3)
        ELSE (w * tf * 22 * total) \div (10 * tf * total + 3 * total + 9 * docLen * n)
  BY DEF TermScore
<1> HIDE DEF w, n, total
<1>4. w * tf \in Nat
  BY <1>2
<1>5. CASE total = 0
  <2>1. w * tf * 22 \in Nat /\ 10 * tf + 3 \in Nat \ {0}
    BY <1>4
  <2>2. tf >= 1 => w * tf * 22 >= 10 * tf + 3
    <3>1. w * tf >= tf
      BY <1>2
    <3> DEFINE x == w * tf
    <3> HIDE DEF x
    <3>2. x >= tf /\ x \in Nat
      BY <1>4, <3>1 DEF x
    <3>3. tf >= 1 => x * 22 >= 10 * tf + 3
      BY <3>2
    <3> QED BY <3>3 DEF x
  <2> DEFINE a == w * tf * 22
             b == 10 * tf + 3
  <2> HIDE DEF a, b
  <2>3. a \div b \in Nat /\ (a >= b => a \div b >= 1)
    BY <2>1, QuotientIs DEF a, b
  <2>4. TermScore(idx, t, tf, docLen) = a \div b
    BY <1>3, <1>5 DEF a, b
  <2>5. tf >= 1 => a >= b
    BY <2>2 DEF a, b
  <2> QED BY <2>3, <2>4, <2>5
<1>6. CASE total # 0
  <2> DEFINE a == w * tf * 22 * total
             b == 10 * tf * total + 3 * total + 9 * docLen * n
  <2>1. a \in Nat
    <3>1. w * tf * 22 \in Nat
      BY <1>4
    <3> QED BY <1>1, <3>1
  <2>2. b \in Nat \ {0}
    <3>1. 10 * tf \in Nat /\ 9 * docLen \in Nat
      OBVIOUS
    <3>2. 10 * tf * total \in Nat /\ 9 * docLen * n \in Nat
      BY <1>1, <3>1
    <3>3. 3 * total \in Nat \ {0}
      BY <1>1, <1>6
    <3> DEFINE x == 10 * tf * total
               y == 9 * docLen * n
    <3> HIDE DEF x, y
    <3>4. x \in Nat /\ y \in Nat
      BY <3>2 DEF x, y
    <3>5. x + 3 * total + y \in Nat \ {0}
      BY <1>1, <1>6, <3>4
    <3> QED BY <3>5 DEF x, y
  <2>3. tf >= 1 /\ docLen <= total => a >= b
    <3> SUFFICES ASSUME tf >= 1, docLen <= total PROVE a >= b
      OBVIOUS
    <3>1. docLen * n <= total * n /\ docLen * n \in Nat /\ total * n \in Nat
      BY <1>1
    <3>2. w * tf >= tf /\ w * tf >= n
      <4>1. w * tf >= tf
        BY <1>2
      <4>2. w * tf >= w
        BY <1>2
      <4> QED BY <1>1, <1>2, <1>4, <4>1, <4>2
    <3>3. w * tf * 22 >= 10 * tf + 9 * n + 3
      <4> DEFINE x == w * tf
      <4> HIDE DEF x
      <4>1. x \in Nat /\ x >= tf /\ x >= n
        BY <1>4, <3>2 DEF x
      <4>2. x * 22 >= 10 * tf + 9 * n + 3
        BY <1>1, <4>1
      <4> QED BY <4>2 DEF x
    <3>4. (10 * tf + 9 * n + 3) * total = 10 * tf * total + 9 * (total * n) + 3 * total
      BY <1>1
    <3>5. a >= (10 * tf + 9 * n + 3) * total
      <4> DEFINE x == w * tf * 22
                 y == 10 * tf + 9 * n + 3
      <4>1. x \in Nat /\ y \in Nat /\ x >= y
        BY <1>1, <1>4, <3>3
      <4> HIDE DEF x, y
      <4>2. x * total >= y * total
        BY <1>1, <4>1
      <4> QED BY <4>2 DEF x, y
    <3>6. 9 * docLen * n = 9 * (docLen * n)
      BY <1>1
    <3> DEFINE x == 10 * tf * total
               u == docLen * n
               v == total * n
    <3>7. x \in Nat /\ u \in Nat /\ v \in Nat /\ u <= v /\ a >= x + 9 * v + 3 * total
          /\ b = x + 3 * total + 9 * u
      <4>1. x \in Nat
        <5>1. 10 * tf \in Nat
          OBVIOUS
        <5> QED BY <1>1, <5>1
      <4>2. a >= x + 9 * v + 3 * total
        <5> HIDE DEF a
        <5> QED BY <3>4, <3>5
      <4> HIDE DEF a
      <4> QED BY <3>1, <3>6, <4>1, <4>2
    <3> HIDE DEF x, u, v, a, b
    <3> QED BY <1>1, <2>1, <3>7
  <2>4. TermScore(idx, t, tf, docLen) = a \div b
    BY <1>3, <1>6
  <2> HIDE DEF a, b
  <2>5. a \div b \in Nat /\ (a >= b => a \div b >= 1)
    BY <2>1, <2>2, QuotientIs
  <2> QED BY <2>3, <2>4, <2>5 DEF total
<1> QED BY <1>5, <1>6

\* The terms of an indexed document.
TermsOf(live, id) == Tokenize(TextFieldValue(live[id].attrs))

\* The documents that have a term.
Having(live, t) == {d \in DOMAIN live : t \in ToSet(TermsOf(live, d))}

\* What a full-text index says of the documents it was built over.
Posted(idx, live) ==
  /\ Statistical(idx)
  /\ \A d \in DOMAIN live : /\ TermsOf(live, d) \in Seq(STRING)
                            /\ idx.DocLen[d] = Len(TermsOf(live, d))
                            /\ Len(TermsOf(live, d)) <= idx.totalLen
  /\ \A t : PostingsOf(idx, t) =
              {[ID |-> d, TF |-> Freq(TermsOf(live, d), t)] : d \in Having(live, t)}

\* An index built over a snapshot says so.
LEMMA BuildBM25Is ==
  ASSUME NEW live, Written(live)
  PROVE  Posted(BuildBM25(TextsOf(live)), live)
<1> DEFINE D == DOMAIN live
           texts == TextsOf(live)
           idx == BuildBM25(texts)
           Posts(t) == {[ID |-> d, TF |-> Freq(TermsOf(live, d), t)] : d \in Having(live, t)}
           lens == [id \in D |-> Len(TermsOf(live, id))]
<1>1. DOMAIN texts = D /\ \A d \in D : Tokenize(texts[d]) = TermsOf(live, d)
  BY DEF TextsOf, TermsOf
<1>2. IsFiniteSet(D) /\ Cardinality(D) \in 0..Cardinality(Ids)
  BY SnapshotFinite
<1>3. ASSUME NEW d \in D PROVE TermsOf(live, d) \in Seq(STRING)
  <2>1. TextFieldValue(live[d].attrs) \in DOMAIN Tokens
    BY DEF Written
  <2> QED BY <2>1, Bm25Assumption DEF TermsOf, Tokenize
<1>4. /\ idx.N = Cardinality(D)
      /\ idx.totalLen = SumFunction([d \in D |-> Len(Tokenize(texts[d]))])
      /\ idx.DocLen = [d \in D |-> Len(Tokenize(texts[d]))]
      /\ idx.Index = [t \in UNION {ToSet(Tokenize(texts[d])) : d \in D} |->
                        {[ID |-> d, TF |-> Freq(Tokenize(texts[d]), t)] :
                           d \in {e \in D : t \in ToSet(Tokenize(texts[e]))}}]
  BY <1>1 DEF BuildBM25
<1> HIDE DEF idx, texts
<1>5. idx.totalLen = SumFunction(lens) /\ idx.DocLen = lens
  <2>1. [d \in D |-> Len(Tokenize(texts[d]))] = lens
    BY <1>1
  <2> QED BY <1>4, <2>1
<1>6. ASSUME NEW t PROVE PostingsOf(idx, t) = Posts(t)
  <2> DEFINE all == UNION {ToSet(Tokenize(texts[d])) : d \in D}
  <2>1. {e \in D : t \in ToSet(Tokenize(texts[e]))} = Having(live, t)
    BY <1>1 DEF Having
  <2>2. {[ID |-> d, TF |-> Freq(Tokenize(texts[d]), t)] : d \in Having(live, t)} = Posts(t)
    <3>1. \A d \in Having(live, t) : Tokenize(texts[d]) = TermsOf(live, d)
      BY <1>1 DEF Having
    <3> QED BY <3>1
  <2>3. DOMAIN idx.Index = all
    BY <1>4
  <2>4. CASE t \in all
    BY <1>4, <2>1, <2>2, <2>3, <2>4 DEF PostingsOf
  <2>5. CASE t \notin all
    <3>1. Having(live, t) = {}
      BY <2>1, <2>5
    <3>2. PostingsOf(idx, t) = {}
      BY <2>3, <2>5 DEF PostingsOf
    <3> QED BY <3>1, <3>2
  <2> QED BY <2>4, <2>5
<1>7. ASSUME NEW d \in D PROVE lens[d] \in Nat
  BY <1>3, FreqIs
<1>8. idx.totalLen \in Nat
  <2>1. 0 \in Nat /\ \A m, n \in Nat : m + n \in Nat
    OBVIOUS
  <2>2. DOMAIN lens = D
    OBVIOUS
  <2>3. \A e \in D : lens[e] \in Nat
    BY <1>7
  <2> HIDE DEF lens, D
  <2>4. SumFunctionOnSet(lens, D) \in Nat
    BY <1>2, <2>1, <2>3, SumIs
  <2> QED BY <1>5, <2>2, <2>4 DEF SumFunction
<1>9. ASSUME NEW d \in D PROVE lens[d] <= idx.totalLen
  <2>1. DOMAIN lens = D
    OBVIOUS
  <2>2. \A e \in D : lens[e] \in Nat
    BY <1>7
  <2> HIDE DEF lens, D
  <2>3. SumFunctionOnSet(lens, D) \in Nat /\ SumFunctionOnSet(lens, D) >= lens[d]
    BY <1>2, <2>2, SumAtLeast
  <2> QED BY <1>5, <2>1, <2>2, <2>3 DEF SumFunction
<1>10. ASSUME NEW t PROVE <<idx.N, Cardinality(PostingsOf(idx, t))>> \in DOMAIN IDF
  <2> DEFINE H == Having(live, t)
             f == [d \in H |-> [ID |-> d, TF |-> Freq(TermsOf(live, d), t)]]
  <2>1. H \in SUBSET D
    BY DEF Having
  <2>2. IsFiniteSet(H) /\ Cardinality(H) <= Cardinality(D)
    BY <1>2, <2>1, FS_Subset
  <2>3. f \in Surjection(H, Posts(t))
    BY DEF Surjection
  <2> HIDE DEF f, H, Posts
  <2>4. IsFiniteSet(Posts(t)) /\ Cardinality(Posts(t)) <= Cardinality(H)
    BY <2>2, <2>3, FS_Surjection
  <2>5. Cardinality(Posts(t)) \in Nat /\ Cardinality(D) \in Nat /\ Cardinality(H) \in Nat
    BY <1>2, <2>2, <2>4, FS_CardinalityType
  <2>6. Cardinality(Posts(t)) \in 0..Cardinality(D)
    BY <2>2, <2>4, <2>5
  <2>7. <<Cardinality(D), Cardinality(Posts(t))>> \in DOMAIN IDF
    BY <1>2, <2>6, TextAssumption
  <2> QED BY <1>4, <1>6, <2>7
<1>11. idx.N \in Nat
  BY <1>2, <1>4, FS_CardinalityType
<1> HIDE DEF Posts
<1>12. Statistical(idx)
  BY <1>8, <1>10, <1>11 DEF Statistical
<1>13. \A d \in D : idx.DocLen[d] = Len(TermsOf(live, d)) /\ Len(TermsOf(live, d)) <= idx.totalLen
  BY <1>5, <1>9
<1>14. Posted(idx, live)
  BY <1>3, <1>6, <1>12, <1>13 DEF Posted, Posts
<1> QED BY <1>14 DEF idx, texts

\* A sum over a function, and over none.
LEMMA SumEmpty == \A f : DOMAIN f = {} => SumFunction(f) = 0
<1> SUFFICES ASSUME NEW f, DOMAIN f = {} PROVE SumFunction(f) = 0
  OBVIOUS
<1>1. IsFiniteSet(DOMAIN f) /\ 0 \in {0} /\ (\A m, n \in {0} : m + n \in {0}) /\ \A x \in DOMAIN f : f[x] \in {0}
  BY FS_EmptySet
<1>2. SumFunctionOnSet(f, DOMAIN f) \in {0}
  BY <1>1, SumIs
<1> QED BY <1>2 DEF SumFunction

\* The share of one term of a query in the score of a text.
TextShare(idx, text, t) ==
  IF t \in ToSet(Tokenize(text))
  THEN TermScore(idx, t, Freq(Tokenize(text), t), Len(Tokenize(text))) ELSE 0

\* A text has a score, which is no less than the share of any term of the query.
LEMMA ScoreDocIs ==
  ASSUME NEW idx, Statistical(idx), NEW text \in DOMAIN Tokens, NEW terms \in Seq(STRING)
  PROVE  /\ ScoreDoc(idx, text, terms) = SumFunction([i \in DOMAIN terms |-> TextShare(idx, text, terms[i])])
         /\ ScoreDoc(idx, text, terms) \in Nat
         /\ \A i \in DOMAIN terms : ScoreDoc(idx, text, terms) >= TextShare(idx, text, terms[i])
         /\ (\A i \in DOMAIN terms : TextShare(idx, text, terms[i]) = 0) => ScoreDoc(idx, text, terms) = 0
<1> DEFINE f == [i \in DOMAIN terms |-> TextShare(idx, text, terms[i])]
           D == DOMAIN terms
           S == ScoreDoc(idx, text, terms)
<1>1. S = SumFunction(f)
  BY DEF ScoreDoc, TextShare
<1>2. Tokenize(text) \in Seq(STRING)
  BY Bm25Assumption DEF Tokenize
<1>3. ASSUME NEW t PROVE TextShare(idx, text, t) \in Nat
  <2>1. Freq(Tokenize(text), t) \in Nat /\ Len(Tokenize(text)) \in Nat
    BY <1>2, FreqIs
  <2>2. TermScore(idx, t, Freq(Tokenize(text), t), Len(Tokenize(text))) \in Nat
    BY <2>1, TermScoreIs
  <2> QED BY <2>2 DEF TextShare
<1>4. DOMAIN f = D /\ \A i \in D : f[i] \in Nat
  BY <1>3
<1>5. IsFiniteSet(D)
  <2>1. D = 1..Len(terms) /\ Len(terms) \in Nat
    OBVIOUS
  <2> QED BY <2>1, FS_Interval
<1>6. \A i \in D : f[i] = TextShare(idx, text, terms[i])
  OBVIOUS
<1> HIDE DEF f, D, S
<1>7. S \in Nat
  <2>1. 0 \in Nat /\ \A m, n \in Nat : m + n \in Nat
    OBVIOUS
  <2>2. SumFunctionOnSet(f, D) \in Nat
    BY <1>4, <1>5, <2>1, SumIs
  <2> QED BY <1>1, <1>4, <2>2 DEF SumFunction
<1>8. ASSUME NEW i \in D PROVE S >= f[i]
  <2>1. SumFunctionOnSet(f, D) >= f[i]
    BY <1>4, <1>5, SumAtLeast
  <2> QED BY <1>1, <1>4, <2>1 DEF SumFunction
<1>9. (\A i \in D : f[i] = 0) => S = 0
  <2> SUFFICES ASSUME \A i \in D : f[i] = 0 PROVE S = 0
    OBVIOUS
  <2>1. 0 \in {0} /\ (\A m, n \in {0} : m + n \in {0}) /\ \A i \in D : f[i] \in {0}
    OBVIOUS
  <2>2. SumFunctionOnSet(f, D) \in {0}
    BY <1>5, <2>1, SumIs
  <2> QED BY <1>1, <1>4, <2>2 DEF SumFunction
<1> QED BY <1>1, <1>6, <1>7, <1>8, <1>9 DEF f, D, S

\* What a query finds in the postings is what it finds in the texts.
LEMMA ScoreIs ==
  ASSUME NEW idx, NEW live, Posted(idx, live), Written(live), NEW terms \in Seq(STRING)
  PROVE  /\ DOMAIN Score(idx, terms) \subseteq DOMAIN live
         /\ \A d \in DOMAIN live :
              LET doc == ScoreDoc(idx, TextFieldValue(live[d].attrs), terms)
              IN  /\ d \in DOMAIN Score(idx, terms) <=> doc > 0
                  /\ d \in DOMAIN Score(idx, terms) => Score(idx, terms)[d] = doc
<1> DEFINE matched == UNION {{p.ID : p \in PostingsOf(idx, terms[i])} : i \in DOMAIN terms}
           Found(d, t) == {p \in PostingsOf(idx, t) : p.ID = d}
           Share(d, t) == SumFunction([p \in Found(d, t) |-> TermScore(idx, t, p.TF, idx.DocLen[d])])
           text(d) == TextFieldValue(live[d].attrs)
           Post(d, t) == [ID |-> d, TF |-> Freq(TermsOf(live, d), t)]
<1>1. /\ DOMAIN Score(idx, terms) = matched
      /\ \A d \in matched : Score(idx, terms)[d] = SumFunction([i \in DOMAIN terms |-> Share(d, terms[i])])
  BY DEF Score
<1>2. ASSUME NEW t PROVE PostingsOf(idx, t) = {Post(d, t) : d \in Having(live, t)}
  BY DEF Posted
<1>3. ASSUME NEW d PROVE d \in matched <=> \E i \in DOMAIN terms : d \in Having(live, terms[i])
  <2>1. d \in matched <=> \E i \in DOMAIN terms : \E p \in PostingsOf(idx, terms[i]) : d = p.ID
    OBVIOUS
  <2>2. ASSUME NEW i \in DOMAIN terms
        PROVE  (\E p \in PostingsOf(idx, terms[i]) : d = p.ID) <=> d \in Having(live, terms[i])
    <3>1. PostingsOf(idx, terms[i]) = {Post(e, terms[i]) : e \in Having(live, terms[i])}
      BY <1>2
    <3>2. \A e : Post(e, terms[i]).ID = e
      OBVIOUS
    <3> HIDE DEF Post
    <3> QED BY <3>1, <3>2
  <2> HIDE DEF matched
  <2> QED BY <2>1, <2>2
<1>4. ASSUME NEW d \in DOMAIN live, NEW t PROVE Share(d, t) = TextShare(idx, text(d), t)
  <2>0. /\ TermsOf(live, d) = Tokenize(text(d)) /\ idx.DocLen[d] = Len(Tokenize(text(d)))
        /\ Tokenize(text(d)) \in Seq(STRING) /\ Statistical(idx)
    BY DEF Posted, TermsOf
  <2>1. \A e : Post(e, t).ID = e
    OBVIOUS
  <2>2. CASE d \in Having(live, t)
    <3>1. Found(d, t) = {Post(d, t)}
      <4> HIDE DEF Post
      <4> QED BY <1>2, <2>1, <2>2
    <3> DEFINE f == [p \in Found(d, t) |-> TermScore(idx, t, p.TF, idx.DocLen[d])]
               x == Post(d, t)
    <3>2. DOMAIN f = {x} /\ f[x] = TermScore(idx, t, x.TF, idx.DocLen[d])
      <4> HIDE DEF x, Found
      <4> QED BY <3>1 DEF x
    <3>3. x.TF = Freq(Tokenize(text(d)), t)
      BY <2>0
    <3>4. f[x] = TextShare(idx, text(d), t)
      <4>1. t \in ToSet(Tokenize(text(d)))
        BY <2>0, <2>2 DEF Having
      <4> HIDE DEF f, x, text
      <4> QED BY <2>0, <3>2, <3>3, <4>1 DEF TextShare
    <3>5. f[x] \in Nat
      <4> HIDE DEF f, x, text
      <4>1. Freq(Tokenize(text(d)), t) \in Nat /\ Len(Tokenize(text(d))) \in Nat
        BY <2>0, FreqIs
      <4> QED BY <2>0, <3>2, <3>3, <4>1, TermScoreIs
    <3>6. Share(d, t) = SumFunction(f)
      OBVIOUS
    <3> HIDE DEF f, x
    <3>7. SumFunctionOnSet(f, {x}) = f[x]
      BY <3>5, SumOfOne
    <3> QED BY <3>2, <3>4, <3>6, <3>7 DEF SumFunction
  <2>3. CASE d \notin Having(live, t)
    <3>1. Found(d, t) = {}
      <4> HIDE DEF Post
      <4> QED BY <1>2, <2>1, <2>3
    <3> DEFINE f == [p \in Found(d, t) |-> TermScore(idx, t, p.TF, idx.DocLen[d])]
    <3>2. DOMAIN f = {}
      BY <3>1
    <3>3. Share(d, t) = SumFunction(f)
      OBVIOUS
    <3>4. TextShare(idx, text(d), t) = 0
      <4>1. t \notin ToSet(Tokenize(text(d)))
        BY <2>0, <2>3 DEF Having
      <4> QED BY <4>1 DEF TextShare
    <3> HIDE DEF f
    <3> QED BY <3>2, <3>3, <3>4, SumEmpty
  <2> QED BY <2>2, <2>3
<1> HIDE DEF matched, Share
<1>5. matched \subseteq DOMAIN live
  BY <1>3 DEF Having
<1>6. ASSUME NEW d \in DOMAIN live
      PROVE  LET doc == ScoreDoc(idx, text(d), terms)
             IN  /\ d \in matched <=> doc > 0
                 /\ d \in matched => Score(idx, terms)[d] = doc
  <2> DEFINE doc == ScoreDoc(idx, text(d), terms)
             Part(i) == TextShare(idx, text(d), terms[i])
  <2>0. text(d) \in DOMAIN Tokens /\ Statistical(idx)
    BY DEF Written, Posted
  <2>1. /\ doc = SumFunction([i \in DOMAIN terms |-> Part(i)])
        /\ doc \in Nat
        /\ \A i \in DOMAIN terms : doc >= Part(i)
        /\ (\A i \in DOMAIN terms : Part(i) = 0) => doc = 0
    <3> HIDE DEF text
    <3> QED BY <2>0, ScoreDocIs
  <2>2. ASSUME d \in matched PROVE Score(idx, terms)[d] = doc
    <3>1. [i \in DOMAIN terms |-> Share(d, terms[i])] = [i \in DOMAIN terms |-> Part(i)]
      BY <1>4
    <3> HIDE DEF Part, doc
    <3> QED BY <1>1, <2>1, <2>2, <3>1
  <2>3. ASSUME NEW i \in DOMAIN terms, d \in Having(live, terms[i]) PROVE Part(i) >= 1 /\ Part(i) \in Nat
    <3>1. /\ terms[i] \in ToSet(Tokenize(text(d))) /\ Tokenize(text(d)) \in Seq(STRING)
          /\ Len(Tokenize(text(d))) <= idx.totalLen
      BY <2>3 DEF Having, TermsOf, Posted
    <3> HIDE DEF text
    <3>2. Freq(Tokenize(text(d)), terms[i]) \in Nat /\ Len(Tokenize(text(d))) \in Nat
          /\ Freq(Tokenize(text(d)), terms[i]) >= 1
      BY <3>1, FreqIs
    <3> QED BY <2>0, <3>1, <3>2, TermScoreIs DEF TextShare
  <2>4. ASSUME NEW i \in DOMAIN terms, d \notin Having(live, terms[i]) PROVE Part(i) = 0
    <3>1. terms[i] \notin ToSet(Tokenize(text(d)))
      BY <2>4 DEF Having, TermsOf
    <3> QED BY <3>1 DEF TextShare
  <2> HIDE DEF doc, Part
  <2>5. d \in matched => doc > 0
    <3> SUFFICES ASSUME d \in matched PROVE doc > 0
      OBVIOUS
    <3>1. PICK i \in DOMAIN terms : d \in Having(live, terms[i])
      BY <1>3
    <3>2. doc \in Nat /\ doc >= Part(i) /\ Part(i) >= 1 /\ Part(i) \in Nat
      BY <2>1, <2>3, <3>1
    <3> QED BY <3>2
  <2>6. d \notin matched => doc = 0
    BY <1>3, <2>1, <2>4
  <2>7. (d \in matched <=> doc > 0) /\ (d \in matched => Score(idx, terms)[d] = doc)
    BY <2>2, <2>5, <2>6
  <2> QED BY <2>7 DEF doc
<1> QED BY <1>1, <1>5, <1>6

\* A query always finds statistics: those of nothing, or those of the documents that were indexed.
LEMMA StatisticsAre ==
  ASSUME SnapshotInv
  PROVE  /\ Statistical(Statistics)
         /\ \A old : epoch # NoEpoch /\ Indexed(old) =>
              Posted(epoch.bm25, old) /\ epoch.docs = AttrsOf(old)
<1>1. ASSUME NEW old, epoch # NoEpoch, Indexed(old)
      PROVE  Posted(epoch.bm25, old) /\ epoch.docs = AttrsOf(old)
  <2>1. epoch = ObjectsOver(epoch.clusters, old) /\ Written(old)
    BY <1>1 DEF Indexed
  <2> DEFINE cs == epoch.clusters
  <2>2. epoch.bm25 = BuildBM25(TextsOf(old)) /\ epoch.docs = AttrsOf(old)
    <3>1. epoch = ObjectsOver(cs, old)
      BY <2>1
    <3> HIDE DEF cs
    <3>2. ObjectsOver(cs, old).bm25 = BuildBM25(TextsOf(old)) /\ ObjectsOver(cs, old).docs = AttrsOf(old)
      BY DEF ObjectsOver
    <3> QED BY <3>1, <3>2
  <2> QED BY <2>1, <2>2, BuildBM25Is
<1>2. CASE epoch = NoEpoch
  <2>1. Statistics = EmptyBM25
    BY <1>2 DEF Statistics
  <2>2. EmptyBM25.N = 0 /\ EmptyBM25.totalLen = 0 /\ EmptyBM25.Index = <<>>
    BY DEF EmptyBM25
  <2>3. \A t : PostingsOf(EmptyBM25, t) = {}
    <3>1. DOMAIN <<>> = {}
      OBVIOUS
    <3> QED BY <2>2, <3>1 DEF PostingsOf
  <2>4. Cardinality({}) = 0 /\ Cardinality(Ids) \in Nat
    BY EpochAssumption, FS_EmptySet, FS_CardinalityType
  <2>5. <<0, 0>> \in DOMAIN IDF
    <3>1. 0 \in 0..Cardinality(Ids) /\ 0 \in 0..0
      BY <2>4
    <3> QED BY <3>1, TextAssumption
  <2>6. Statistical(EmptyBM25)
    <3> SUFFICES ASSUME NEW t PROVE <<0, Cardinality(PostingsOf(EmptyBM25, t))>> \in DOMAIN IDF
      BY <2>2 DEF Statistical
    <3>1. Cardinality(PostingsOf(EmptyBM25, t)) = 0
      BY <2>3, <2>4
    <3> QED BY <2>5, <3>1
  <2> QED BY <1>1, <2>1, <2>6
<1>3. CASE epoch # NoEpoch
  <2>1. PICK old : Indexed(old)
    BY <1>3 DEF SnapshotInv
  <2>2. Statistics = epoch.bm25
    BY <1>3 DEF Statistics
  <2> QED BY <1>1, <1>3, <2>1, <2>2 DEF Posted
<1> QED BY <1>2, <1>3

\* The hit that a document makes by its own text.
LiveHit(q, id) ==
  [id |-> id, attrs |-> docs[id].attrs,
   score |-> ScoreDoc(Statistics, TextFieldValue(docs[id].attrs), q.text)]

\* The hits among some documents are scored.
LEMMA LiveHitsAre ==
  ASSUME SnapshotInv, NEW q, q.text \in Seq(STRING), NEW ids \in SUBSET DOMAIN docs
  PROVE  /\ LiveHits(q, ids) = {h \in {LiveHit(q, id) : id \in ids} : h.score > 0}
         /\ Scored(LiveHits(q, ids))
<1> DEFINE all == {LiveHit(q, id) : id \in ids}
<1>1. LiveHits(q, ids) = {h \in all : h.score > 0}
  BY DEF LiveHits, LiveHit
<1>2. Written(docs) /\ IsFiniteSet(ids) /\ ids \subseteq Nat
  <2>1. Written(docs)
    BY DEF SnapshotInv
  <2>2. IsFiniteSet(DOMAIN docs) /\ DOMAIN docs \subseteq Nat
    BY <2>1, SnapshotFinite
  <2>3. IsFiniteSet(ids)
    BY <2>2, FS_Subset
  <2> QED BY <2>1, <2>2, <2>3
<1>3. IsFiniteSet(all)
  <2> DEFINE f == [id \in ids |-> LiveHit(q, id)]
  <2>1. f \in Surjection(ids, all)
    BY DEF Surjection
  <2> HIDE DEF f, all
  <2> QED BY <1>2, <2>1, FS_Surjection
<1>4. LiveHits(q, ids) \in SUBSET all
  BY <1>1
<1>5. IsFiniteSet(LiveHits(q, ids))
  <2> HIDE DEF all
  <2> QED BY <1>3, <1>4, FS_Subset
<1>6. ASSUME NEW id \in ids PROVE LiveHit(q, id).id = id /\ LiveHit(q, id).score \in Nat
  <2>1. TextFieldValue(docs[id].attrs) \in DOMAIN Tokens
    BY <1>2 DEF Written
  <2>2. ScoreDoc(Statistics, TextFieldValue(docs[id].attrs), q.text) \in Nat
    BY <2>1, StatisticsAre, ScoreDocIs
  <2> QED BY <2>2 DEF LiveHit
<1>7. \A h \in all : \E id \in ids : h = LiveHit(q, id)
  OBVIOUS
<1> HIDE DEF all
<1>8. ASSUME NEW h \in all PROVE h.id \in Nat /\ h.score \in Nat /\ h = LiveHit(q, h.id)
  BY <1>2, <1>6, <1>7
<1> QED BY <1>1, <1>4, <1>5, <1>8 DEF Scored, all

\* The postings of the epoch and the texts of the tail find together what the texts of all documents do.
LEMMA TextHitsAre ==
  ASSUME SnapshotInv, NEW q, q.text \in Seq(STRING)
  PROVE  TextHits(q) = LiveHits(q, DOMAIN docs)
<1> DEFINE hits(ids) == {h \in {LiveHit(q, id) : id \in ids} : h.score > 0}
<1>1. \A ids \in SUBSET DOMAIN docs : LiveHits(q, ids) = hits(ids)
  BY LiveHitsAre
<1>2. LiveHits(q, DOMAIN docs \cap tail) = hits(DOMAIN docs \cap tail) /\ LiveHits(q, DOMAIN docs) = hits(DOMAIN docs)
  <2> HIDE DEF hits
  <2>1. DOMAIN docs \cap tail \in SUBSET DOMAIN docs /\ DOMAIN docs \in SUBSET DOMAIN docs
    OBVIOUS
  <2> QED BY <1>1, <2>1
<1>3. CASE epoch = NoEpoch
  <2>1. DOMAIN docs \cap tail = DOMAIN docs
    BY <1>3 DEF SnapshotInv
  <2>2. TextHits(q) = LiveHits(q, DOMAIN docs \cap tail)
    BY <1>3 DEF TextHits
  <2> QED BY <2>1, <2>2
<1>4. CASE epoch # NoEpoch
  <2>1. PICK old : Indexed(old)
    BY <1>4 DEF SnapshotInv
  <2>2. Posted(epoch.bm25, old) /\ epoch.docs = AttrsOf(old) /\ Written(old)
    BY <1>4, <2>1, StatisticsAre DEF Indexed
  <2>3. Statistics = epoch.bm25
    BY <1>4 DEF Statistics
  <2> DEFINE scores == Score(epoch.bm25, q.text)
             found == DOMAIN scores \ tail
             Found(id) == [id |-> id, attrs |-> epoch.docs[id], score |-> scores[id]]
  <2>4. IndexHits(q) = {Found(id) : id \in found}
    BY DEF IndexHits
  <2>5. TextHits(q) = IndexHits(q) \cup hits(DOMAIN docs \cap tail)
    BY <1>2, <1>4 DEF TextHits
  <2>6. /\ DOMAIN scores \subseteq DOMAIN old
        /\ \A d \in DOMAIN old :
             LET doc == ScoreDoc(epoch.bm25, TextFieldValue(old[d].attrs), q.text)
             IN  /\ d \in DOMAIN scores <=> doc > 0
                 /\ d \in DOMAIN scores => scores[d] = doc
    BY <2>2, ScoreIs
  <2> HIDE DEF scores
  <2>7. DOMAIN old \subseteq Ids /\ DOMAIN docs \subseteq Ids
    BY <2>2 DEF Written, SnapshotInv
  <2>8. ASSUME NEW id \in DOMAIN docs \ tail
        PROVE  /\ id \in found <=> LiveHit(q, id).score > 0
               /\ id \in found => Found(id) = LiveHit(q, id)
    <3>1. id \in DOMAIN old /\ docs[id] = old[id]
      BY <2>1, <2>7 DEF Indexed, SameDoc
    <3> DEFINE doc == ScoreDoc(epoch.bm25, TextFieldValue(old[id].attrs), q.text)
    <3>2. (id \in DOMAIN scores <=> doc > 0) /\ (id \in DOMAIN scores => scores[id] = doc)
      BY <2>6, <3>1
    <3>3. LiveHit(q, id) = [id |-> id, attrs |-> old[id].attrs, score |-> doc]
      BY <2>3, <3>1 DEF LiveHit
    <3>4. epoch.docs[id] = old[id].attrs
      BY <2>2, <3>1 DEF AttrsOf
    <3> HIDE DEF doc
    <3>5. LiveHit(q, id).score = doc
      BY <3>3
    <3> QED BY <3>2, <3>3, <3>4, <3>5
  <2>9. found \subseteq DOMAIN docs
    <3> SUFFICES ASSUME NEW id \in found PROVE id \in DOMAIN docs
      OBVIOUS
    <3>1. id \in DOMAIN old /\ id \notin tail /\ id \in Ids
      BY <2>6, <2>7
    <3> QED BY <2>1, <3>1 DEF Indexed, SameDoc
  <2> HIDE DEF Found
  <2>10. {Found(id) : id \in found} = hits(DOMAIN docs \ tail)
    <3>1. \A id \in found : id \in DOMAIN docs \ tail
      BY <2>9
    <3> HIDE DEF found
    <3>2. ASSUME NEW h \in {Found(id) : id \in found} PROVE h \in hits(DOMAIN docs \ tail)
      <4>1. PICK id \in found : h = Found(id)
        BY <3>2
      <4>2. id \in DOMAIN docs \ tail /\ h = LiveHit(q, id) /\ h.score > 0
        BY <2>8, <3>1, <4>1
      <4> QED BY <4>2
    <3>3. ASSUME NEW h \in hits(DOMAIN docs \ tail) PROVE h \in {Found(id) : id \in found}
      <4>1. PICK id \in DOMAIN docs \ tail : h = LiveHit(q, id) /\ h.score > 0
        BY <3>3
      <4>2. id \in found /\ h = Found(id)
        BY <2>8, <4>1
      <4> QED BY <4>2
    <3> HIDE DEF hits
    <3> QED BY <3>2, <3>3
  <2>11. hits(DOMAIN docs \ tail) \cup hits(DOMAIN docs \cap tail) = hits(DOMAIN docs)
    <3> DEFINE F == DOMAIN docs \ tail
               T == DOMAIN docs \cap tail
    <3>1. DOMAIN docs = F \cup T
      OBVIOUS
    <3> HIDE DEF F, T
    <3>2. hits(F) \cup hits(T) = hits(F \cup T)
      OBVIOUS
    <3> HIDE DEF hits
    <3> QED BY <3>1, <3>2 DEF F, T
  <2> HIDE DEF hits, found
  <2> QED BY <1>2, <2>4, <2>5, <2>10, <2>11
<1> QED BY <1>3, <1>4

\* A text query answers a list of distinct documents.
LEMMA TextLeg ==
  ASSUME SnapshotInv, NEW q, q.text \in Seq(STRING), q.topK \in Nat
  PROVE  Leg(IdsOf(BM25Query(q)))
<1> DEFINE hits == TextHits(q)
           S == Passing(q, hits)
<1>1. Scored(hits)
  <2>1. DOMAIN docs \in SUBSET DOMAIN docs
    OBVIOUS
  <2>2. Scored(LiveHits(q, DOMAIN docs))
    BY <2>1, LiveHitsAre
  <2> QED BY <2>2, TextHitsAre
<1>2. BM25Query(q) = RankedText(q, hits)
  BY DEF BM25Query
<1> HIDE DEF hits
<1>3. Scored(S) /\ \E r : RankedBy(RankedText(q, hits), r, ScoreOrder(S), S, q.topK)
  BY <1>1, RankedTextIs
<1> HIDE DEF S
<1>4. PICK r : RankedBy(BM25Query(q), r, ScoreOrder(S), S, q.topK)
  BY <1>2, <1>3
<1>5. (\A h \in S : h.id \in Nat) /\ \A g, h \in S : g.id = h.id => g = h
  BY <1>3 DEF Scored
<1> QED BY <1>4, <1>5, CutIsLeg

\* A text query is always exact: the postings of the epoch, less what the tail mentions, and the
\* texts of the tail, scored by statistics that may be stale, give the same hits, with the same
\* scores, as if every live document were scored by its own text (runBM25Query).
THEOREM TextExact == Spec => [](\A q \in Queries : BM25Query(q) = ExhaustiveText(q))
<1>1. SnapshotInv => \A q \in Queries : BM25Query(q) = ExhaustiveText(q)
  <2> SUFFICES ASSUME SnapshotInv, NEW q \in Queries PROVE BM25Query(q) = ExhaustiveText(q)
    OBVIOUS
  <2>1. TextHits(q) = LiveHits(q, DOMAIN docs)
    BY QueryIs, TextHitsAre
  <2> QED BY <2>1 DEF BM25Query, ExhaustiveText
<1> QED BY <1>1, SnapshotInvariant, PTL

-----------------------------------------------------------------------------
(***************************************************************************)
(* Fusion: fractions, and the order of the fused list.                     *)
(***************************************************************************)
Fraction(p) == p.num \in Nat /\ p.den \in Nat /\ p.den > 0

NoLess(p, r) == p.num * r.den >= r.num * p.den

More(p, r) == p.num * r.den > r.num * p.den

\* Multiplying by the same factor keeps an order.
LEMMA TimesKeeps ==
  ASSUME NEW x \in Nat, NEW y \in Nat, NEW k \in Nat
  PROVE  /\ x * k \in Nat
         /\ x >= y => x * k >= y * k
         /\ x > y /\ k > 0 => x * k > y * k
         /\ x * k >= y * k /\ k > 0 => x >= y
         /\ x * k > y * k => x > y
<1>1. x * k \in Nat /\ y * k \in Nat
  OBVIOUS
<1>2. ASSUME x >= y PROVE x * k >= y * k
  <2>1. (x - y) * k >= 0
    BY <1>2
  <2>2. (x - y) * k = x * k - y * k
    OBVIOUS
  <2> QED BY <1>1, <2>1, <2>2
<1>3. ASSUME x > y, k > 0 PROVE x * k > y * k
  <2>1. (x - y) * k > 0
    BY <1>3
  <2>2. (x - y) * k = x * k - y * k
    OBVIOUS
  <2> QED BY <1>1, <2>1, <2>2
<1>4. ASSUME y >= x PROVE y * k >= x * k
  <2>1. (y - x) * k >= 0
    BY <1>4
  <2>2. (y - x) * k = y * k - x * k
    OBVIOUS
  <2> QED BY <1>1, <2>1, <2>2
<1>5. ASSUME y > x, k > 0 PROVE y * k > x * k
  <2>1. (y - x) * k > 0
    BY <1>5
  <2>2. (y - x) * k = y * k - x * k
    OBVIOUS
  <2> QED BY <1>1, <2>1, <2>2
<1> DEFINE m == x * k
           n == y * k
<1>6. m \in Nat /\ n \in Nat /\ (x >= y => m >= n) /\ (x > y /\ k > 0 => m > n)
      /\ (y >= x => n >= m) /\ (y > x /\ k > 0 => n > m)
  BY <1>1, <1>2, <1>3, <1>4, <1>5
<1> HIDE DEF m, n
<1>7. (m >= n /\ k > 0 => x >= y) /\ (m > n => x > y)
  BY <1>6
<1> QED BY <1>6, <1>7 DEF m, n

\* Of two fractions one is no less than the other.
LEMMA MoreIs ==
  ASSUME NEW p, NEW r, Fraction(p), Fraction(r)
  PROVE  More(p, r) <=> ~ NoLess(r, p)
<1> DEFINE x == p.num * r.den
           y == r.num * p.den
<1>1. x \in Nat /\ y \in Nat
  BY DEF Fraction
<1>2. (More(p, r) <=> x > y) /\ (NoLess(r, p) <=> y >= x)
  BY DEF More, NoLess
<1> HIDE DEF x, y
<1> QED BY <1>1, <1>2

\* The order of fractions is transitive.
LEMMA NoLessTransitive ==
  ASSUME NEW p, NEW r, NEW s, Fraction(p), Fraction(r), Fraction(s), NoLess(p, r), NoLess(r, s)
  PROVE  /\ NoLess(p, s)
         /\ More(p, r) \/ More(r, s) => More(p, s)
<1> DEFINE a == p.num
           b == p.den
           c == r.num
           d == r.den
           e == s.num
           f == s.den
<1>1. a \in Nat /\ b \in Nat /\ c \in Nat /\ d \in Nat /\ e \in Nat /\ f \in Nat /\ b > 0 /\ d > 0 /\ f > 0
  BY DEF Fraction
<1>2. a * d >= c * b /\ c * f >= e * d
  BY DEF NoLess
<1>3. /\ More(p, r) <=> a * d > c * b
      /\ More(r, s) <=> c * f > e * d
      /\ More(p, s) <=> a * f > e * b
      /\ NoLess(p, s) <=> a * f >= e * b
  BY DEF More, NoLess
<1> HIDE DEF a, b, c, d, e, f
<1> DEFINE A == a * d
           B == c * b
           C == c * f
           D == e * d
           E == a * f
           F == e * b
<1>4. A \in Nat /\ B \in Nat /\ C \in Nat /\ D \in Nat /\ E \in Nat /\ F \in Nat
  BY <1>1
<1>5. A * f = E * d /\ B * f = C * b /\ D * b = F * d
  BY <1>1
<1>6. A >= B /\ C >= D
  BY <1>2
<1>7. (More(p, r) <=> A > B) /\ (More(r, s) <=> C > D) /\ (More(p, s) <=> E > F) /\ (NoLess(p, s) <=> E >= F)
  BY <1>3
<1> HIDE DEF A, B, C, D, E, F
<1>8. A * f >= B * f /\ (A > B => A * f > B * f) /\ A * f \in Nat /\ B * f \in Nat
  BY <1>1, <1>4, <1>6, TimesKeeps
<1>9. C * b >= D * b /\ (C > D => C * b > D * b) /\ C * b \in Nat /\ D * b \in Nat
  BY <1>1, <1>4, <1>6, TimesKeeps
<1>10. (E * d >= F * d => E >= F) /\ (E * d > F * d => E > F)
  BY <1>1, <1>4, TimesKeeps
<1> DEFINE u == E * d
           v == B * f
           w == F * d
<1>11. /\ u \in Nat /\ v \in Nat /\ w \in Nat
       /\ u >= v /\ (A > B => u > v)
       /\ v >= w /\ (C > D => v > w)
  BY <1>5, <1>8, <1>9
<1>12. (u >= w => E >= F) /\ (u > w => E > F)
  BY <1>10
<1> HIDE DEF u, v, w
<1>13. u >= w /\ (A > B \/ C > D => u > w)
  BY <1>11
<1> QED BY <1>7, <1>12, <1>13

\* The sum of two fractions is one.
LEMMA AddedIs ==
  ASSUME NEW p, NEW r, Fraction(p), Fraction(r)
  PROVE  Fraction(Added(p, r))
<1> DEFINE a == p.num
           b == p.den
           c == r.num
           d == r.den
<1>1. a \in Nat /\ b \in Nat /\ c \in Nat /\ d \in Nat /\ b > 0 /\ d > 0
  BY DEF Fraction
<1>2. Added(p, r).num = a * d + c * b /\ Added(p, r).den = b * d
  BY DEF Added
<1> HIDE DEF a, b, c, d
<1>3. a * d \in Nat /\ c * b \in Nat /\ b * d \in Nat
  BY <1>1
<1>4. b * d > 0
  BY <1>1
<1> QED BY <1>2, <1>3, <1>4 DEF Fraction

\* A sum grows with its terms.
LEMMA AddedGrows ==
  ASSUME NEW p, NEW q, NEW r, NEW s, Fraction(p), Fraction(q), Fraction(r), Fraction(s),
         NoLess(p, r), NoLess(q, s)
  PROVE  More(p, r) \/ More(q, s) => More(Added(p, q), Added(r, s))
<1> DEFINE a == p.num
           b == p.den
           c == q.num
           d == q.den
           e == r.num
           f == r.den
           g == s.num
           h == s.den
<1>1. /\ a \in Nat /\ b \in Nat /\ c \in Nat /\ d \in Nat /\ e \in Nat /\ f \in Nat /\ g \in Nat /\ h \in Nat
      /\ b > 0 /\ d > 0 /\ f > 0 /\ h > 0
  BY DEF Fraction
<1>2. a * f >= e * b /\ c * h >= g * d
  BY DEF NoLess
<1>3. /\ More(p, r) <=> a * f > e * b
      /\ More(q, s) <=> c * h > g * d
  BY DEF More
<1>4. /\ Added(p, q).num = a * d + c * b /\ Added(p, q).den = b * d
      /\ Added(r, s).num = e * h + g * f /\ Added(r, s).den = f * h
  BY DEF Added
<1>5. More(Added(p, q), Added(r, s)) <=> (a * d + c * b) * (f * h) > (e * h + g * f) * (b * d)
  BY <1>4 DEF More
<1> HIDE DEF a, b, c, d, e, f, g, h
<1> DEFINE A == a * f
           B == e * b
           C == c * h
           D == g * d
           m == d * h
           n == b * f
<1>6. A \in Nat /\ B \in Nat /\ C \in Nat /\ D \in Nat /\ m \in Nat /\ n \in Nat /\ m > 0 /\ n > 0
  <2>1. A \in Nat /\ B \in Nat /\ C \in Nat /\ D \in Nat /\ m \in Nat /\ n \in Nat
    BY <1>1
  <2>2. m > 0
    BY <1>1
  <2>3. n > 0
    BY <1>1
  <2> QED BY ONLY <2>1, <2>2, <2>3
<1>7. (a * d + c * b) * (f * h) = A * m + C * n
  BY <1>1
<1>8. (e * h + g * f) * (b * d) = B * m + D * n
  BY <1>1
<1>9. More(Added(p, q), Added(r, s)) <=> A * m + C * n > B * m + D * n
  BY <1>5, <1>7, <1>8
<1>10. A >= B /\ C >= D /\ (More(p, r) <=> A > B) /\ (More(q, s) <=> C > D)
  BY <1>2, <1>3
<1> HIDE DEF A, B, C, D, m, n
<1>11. A * m >= B * m /\ (A > B => A * m > B * m) /\ A * m \in Nat /\ B * m \in Nat
  BY <1>6, <1>10, TimesKeeps
<1>12. C * n >= D * n /\ (C > D => C * n > D * n) /\ C * n \in Nat /\ D * n \in Nat
  BY <1>6, <1>10, TimesKeeps
<1> DEFINE u == A * m
           v == B * m
           w == C * n
           x == D * n
<1>13. /\ u \in Nat /\ v \in Nat /\ w \in Nat /\ x \in Nat
       /\ u >= v /\ (A > B => u > v) /\ w >= x /\ (C > D => w > x)
       /\ (More(Added(p, q), Added(r, s)) <=> u + w > v + x)
  BY <1>9, <1>11, <1>12
<1> HIDE DEF u, v, w, x
<1> QED BY <1>10, <1>13

\* A hit of a leg has one rank.
LEMMA RankIs ==
  ASSUME NEW ids, Leg(ids), NEW id \in Range(ids)
  PROVE  /\ Rank(ids, id) \in DOMAIN ids /\ ids[Rank(ids, id)] = id
         /\ Rank(ids, id) \in Nat /\ Rank(ids, id) >= 1
         /\ \A i \in DOMAIN ids : ids[i] = id => i = Rank(ids, id)
<1>1. PICK n \in Nat : DOMAIN ids = 1..n /\ (\A i \in 1..n : ids[i] \in Nat) /\ IsInjective(ids)
  BY DEF Leg
<1>2. \E i \in DOMAIN ids : ids[i] = id
  BY DEF Range
<1>3. Rank(ids, id) \in DOMAIN ids /\ ids[Rank(ids, id)] = id
  BY <1>2 DEF Rank
<1>4. Rank(ids, id) \in Nat /\ Rank(ids, id) >= 1
  <2>1. DOMAIN ids = 1..n
    BY <1>1
  <2> QED BY ONLY <1>1, <1>3, <2>1
<1>5. \A i \in DOMAIN ids : ids[i] = id => i = Rank(ids, id)
  BY <1>1, <1>3 DEF IsInjective
<1> QED BY <1>3, <1>4, <1>5

\* What a leg contributes is a fraction.
LEMMA TermIs ==
  ASSUME NEW ids, Leg(ids), NEW id
  PROVE  Fraction(Term(ids, id))
<1>1. CASE id \in Range(ids)
  <2>1. Term(ids, id) = [num |-> 1, den |-> RRFK + Rank(ids, id)]
    BY <1>1 DEF Term
  <2>2. RRFK \in Nat /\ Rank(ids, id) \in Nat /\ Rank(ids, id) >= 1
    BY <1>1, RankIs, EpochAssumption
  <2>3. RRFK + Rank(ids, id) \in Nat /\ RRFK + Rank(ids, id) > 0
    BY ONLY <2>2
  <2> QED BY <2>1, <2>3 DEF Fraction
<1>2. CASE id \notin Range(ids)
  <2>1. Term(ids, id) = [num |-> 0, den |-> 1]
    BY <1>2 DEF Term
  <2> QED BY <2>1 DEF Fraction
<1> QED BY <1>1, <1>2

\* One document stands before another in a list, if the other is in it at all.
Ahead(ids, a, b) == b \in Range(ids) => a \in Range(ids) /\ Rank(ids, a) < Rank(ids, b)

\* A leg contributes no less to the document that stands before, and more if the leg has both.
LEMMA AheadCounts ==
  ASSUME NEW ids, Leg(ids), NEW a, NEW b, Ahead(ids, a, b)
  PROVE  /\ NoLess(Term(ids, a), Term(ids, b))
         /\ b \in Range(ids) => More(Term(ids, a), Term(ids, b))
<1>1. CASE b \in Range(ids)
  <2>1. a \in Range(ids) /\ Rank(ids, a) < Rank(ids, b)
    BY <1>1 DEF Ahead
  <2>2. /\ Term(ids, a) = [num |-> 1, den |-> RRFK + Rank(ids, a)]
        /\ Term(ids, b) = [num |-> 1, den |-> RRFK + Rank(ids, b)]
    BY <1>1, <2>1 DEF Term
  <2>3. RRFK \in Nat /\ Rank(ids, a) \in Nat /\ Rank(ids, b) \in Nat
    BY <1>1, <2>1, RankIs, EpochAssumption
  <2> DEFINE m == RRFK + Rank(ids, a)
             n == RRFK + Rank(ids, b)
  <2>4. m \in Nat /\ n \in Nat /\ m < n
    BY ONLY <2>1, <2>3
  <2>5. /\ Term(ids, a).num = 1 /\ Term(ids, a).den = m
        /\ Term(ids, b).num = 1 /\ Term(ids, b).den = n
    BY <2>2
  <2> HIDE DEF m, n
  <2>6. 1 * n > 1 * m /\ 1 * n >= 1 * m
    BY ONLY <2>4
  <2> QED BY <2>5, <2>6 DEF NoLess, More
<1>2. CASE b \notin Range(ids)
  <2>1. Term(ids, b).num = 0 /\ Term(ids, b).den = 1
    BY <1>2 DEF Term
  <2>2. Term(ids, a).num \in Nat /\ Term(ids, a).den \in Nat
    BY TermIs DEF Fraction
  <2> DEFINE x == Term(ids, a).num
             y == Term(ids, a).den
  <2>3. NoLess(Term(ids, a), Term(ids, b)) <=> x * 1 >= 0 * y
    BY <2>1 DEF NoLess
  <2>4. x \in Nat /\ y \in Nat
    BY <2>2
  <2> HIDE DEF x, y
  <2>5. x * 1 >= 0 * y
    BY ONLY <2>4
  <2> QED BY <1>2, <2>3, <2>5
<1> QED BY <1>1, <1>2

\* The ids of two legs: finitely many numbers.
LEMMA LegIds ==
  ASSUME NEW v, NEW t, Leg(v), Leg(t)
  PROVE  IsFiniteSet(Range(v) \cup Range(t)) /\ Range(v) \cup Range(t) \subseteq Nat
<1>1. ASSUME NEW ids, Leg(ids) PROVE IsFiniteSet(Range(ids)) /\ Range(ids) \subseteq Nat
  <2>1. PICK n \in Nat : DOMAIN ids = 1..n /\ \A i \in 1..n : ids[i] \in Nat
    BY <1>1 DEF Leg
  <2>2. Range(ids) = {ids[x] : x \in 1..n}
    BY <2>1 DEF Range
  <2> DEFINE f == [i \in 1..n |-> ids[i]]
  <2>3. f \in Surjection(1..n, Range(ids))
    BY <2>2 DEF Surjection
  <2> HIDE DEF f
  <2>4. IsFiniteSet(1..n)
    <3>1. n \in Int /\ 1 \in Int
      BY <2>1
    <3> QED BY ONLY <3>1, FS_Interval
  <2>5. IsFiniteSet(Range(ids))
    BY <2>3, <2>4, FS_Surjection
  <2>6. Range(ids) \subseteq Nat
    BY <2>1, <2>2
  <2> QED BY <2>5, <2>6
<1>2. IsFiniteSet(Range(v)) /\ IsFiniteSet(Range(t)) /\ Range(v) \subseteq Nat /\ Range(t) \subseteq Nat
  BY <1>1
<1>3. IsFiniteSet(Range(v) \cup Range(t))
  BY <1>2, FS_Union
<1> QED BY <1>2, <1>3

\* The fused score of a document.
Fused(v, t, id) == Added(Term(v, id), Term(t, id))

\* The order in which documents are fused: by score, then by id.
FuseOrder(v, t) ==
  {p \in (Range(v) \cup Range(t)) \X (Range(v) \cup Range(t)) :
     \/ More(Fused(v, t, p[1]), Fused(v, t, p[2]))
     \/ ~ More(Fused(v, t, p[2]), Fused(v, t, p[1])) /\ p[1] < p[2]}

\* It is a total one.
LEMMA FuseOrderTotal ==
  ASSUME NEW v, NEW t, Leg(v), Leg(t)
  PROVE  TotalOrder(FuseOrder(v, t), Range(v) \cup Range(t))
<1> DEFINE U == Range(v) \cup Range(t)
           S(id) == Fused(v, t, id)
           R == FuseOrder(v, t)
<1>1. \A x, y \in U : <<x, y>> \in R <=> More(S(x), S(y)) \/ (~ More(S(y), S(x)) /\ x < y)
  BY DEF FuseOrder
<1>2. \A x : Fraction(S(x))
  BY TermIs, AddedIs DEF Fused
<1>3. U \subseteq Nat
  BY LegIds
<1> HIDE DEF U, S, R
<1>4. \A x, y : More(S(x), S(y)) <=> ~ NoLess(S(y), S(x))
  BY <1>2, MoreIs
<1>5. \A x, y : More(S(x), S(y)) => NoLess(S(x), S(y))
  <2> SUFFICES ASSUME NEW x, NEW y, More(S(x), S(y)) PROVE NoLess(S(x), S(y))
    OBVIOUS
  <2> DEFINE m == S(x).num * S(y).den
             n == S(y).num * S(x).den
  <2>1. m \in Nat /\ n \in Nat
    BY <1>2 DEF Fraction
  <2>2. m > n
    BY DEF More
  <2> HIDE DEF m, n
  <2>3. m >= n
    BY <2>1, <2>2
  <2> QED BY <2>3 DEF NoLess, m, n
<1>6. \A x \in U : <<x, x>> \notin R
  <2> SUFFICES ASSUME NEW x \in U PROVE <<x, x>> \notin R
    OBVIOUS
  <2>1. ~ (x < x)
    BY <1>3
  <2>2. ~ More(S(x), S(x))
    BY <1>4, <1>5
  <2> QED BY <1>1, <2>1, <2>2
<1>7. ASSUME NEW x \in U, NEW y \in U, NEW z \in U, <<x, y>> \in R, <<y, z>> \in R
      PROVE  <<x, z>> \in R
  <2>1. NoLess(S(x), S(y)) /\ (More(S(x), S(y)) \/ x < y)
    BY <1>1, <1>4, <1>5, <1>7
  <2>2. NoLess(S(y), S(z)) /\ (More(S(y), S(z)) \/ y < z)
    BY <1>1, <1>4, <1>5, <1>7
  <2>3. NoLess(S(x), S(z)) /\ (More(S(x), S(y)) \/ More(S(y), S(z)) => More(S(x), S(z)))
    BY <1>2, <2>1, <2>2, NoLessTransitive
  <2>4. ~ More(S(z), S(x))
    BY <1>4, <2>3
  <2>5. x < y /\ y < z => x < z
    <3>1. x \in Nat /\ y \in Nat /\ z \in Nat
      BY <1>3
    <3> QED BY ONLY <3>1
  <2> QED BY <1>1, <2>1, <2>2, <2>3, <2>4, <2>5
<1>8. ASSUME NEW x \in U, NEW y \in U PROVE x = y \/ <<x, y>> \in R \/ <<y, x>> \in R
  <2>1. x = y \/ x < y \/ y < x
    BY <1>3
  <2> QED BY <1>1, <2>1
<1> QED BY <1>6, <1>7, <1>8 DEF TotalOrder, U, R

\* The fused list is the beginning of a list of the documents of both legs, in that order.
LEMMA FuseIs ==
  ASSUME NEW v, NEW t, Leg(v), Leg(t), NEW k \in Nat
  PROVE  \E r : RankedBy(FuseRRF(v, t, k), r, FuseOrder(v, t), Range(v) \cup Range(t), k)
<1> DEFINE U == Range(v) \cup Range(t)
           R == FuseOrder(v, t)
           S(id) == Added(Term(v, id), Term(t, id))
           Above(a, b) == S(a).num * S(b).den > S(b).num * S(a).den
           Bef(a, b) == Above(a, b) \/ (~ Above(b, a) /\ a < b)
           N == Cardinality(U)
           At(n) == CHOOSE x \in U : Cardinality({y \in U : Bef(y, x)}) = n - 1
           o == [n \in 1..N |-> At(n)]
<1>1. FuseRRF(v, t, k) = Prefix(o, k)
  BY DEF FuseRRF, Ordered
<1>2. \A x, y \in U : <<x, y>> \in R <=> Bef(x, y)
  BY DEF FuseOrder, More, Fused
<1>3. IsFiniteSet(U) /\ TotalOrder(R, U) /\ N \in Nat
  BY LegIds, FuseOrderTotal, FS_CardinalityType
<1> HIDE DEF U, R, Bef, N, At
<1>4. \A x \in U : {y \in U : Bef(y, x)} = Below(R, U, x)
  BY <1>2 DEF Below
<1>5. ASSUME NEW n \in 1..N PROVE o[n] \in U /\ Cardinality(Below(R, U, o[n])) = n - 1
  <2>1. \E x \in U : Cardinality(Below(R, U, x)) = n - 1
    BY <1>3, PlaceTaken DEF N
  <2>2. \E x \in U : Cardinality({y \in U : Bef(y, x)}) = n - 1
    BY <1>4, <2>1
  <2>3. o[n] = CHOOSE x \in U : Cardinality({y \in U : Bef(y, x)}) = n - 1
    BY DEF At
  <2> HIDE DEF o
  <2>4. o[n] \in U /\ Cardinality({y \in U : Bef(y, o[n])}) = n - 1
    BY <2>2, <2>3
  <2> QED BY <1>4, <2>4
<1>6. DOMAIN o = 1..N
  OBVIOUS
<1>7. o \in [1..N -> U]
  <2>1. o = [n \in 1..N |-> o[n]]
    OBVIOUS
  <2> HIDE DEF o
  <2> QED BY <1>5, <2>1
<1> HIDE DEF o
<1>8. InOrder(o, R, U)
  BY <1>5, <1>6 DEF InOrder, N
<1>9. /\ \A m, n \in 1..N : o[m] = o[n] => m = n
      /\ \A x \in U : \E n \in 1..N : o[n] = x
      /\ \A m, n \in 1..N : m < n <=> <<o[m], o[n]>> \in R
  BY <1>3, <1>8, InOrderFacts DEF N
<1>10. Ranking(o, R, U)
  BY <1>3, <1>5, <1>6, <1>9 DEF Ranking, N
<1>11. Cut(Prefix(o, k), o, N, k)
  BY <1>3, <1>7, PrefixIs
<1>12. RankedBy(FuseRRF(v, t, k), o, R, U, k)
  BY <1>1, <1>10, <1>11 DEF RankedBy, N
<1> QED BY <1>12 DEF U, R

\* The beginning of an ordered list keeps whatever is before something that it keeps.
LEMMA CutKeepsOrder ==
  ASSUME NEW S, S \subseteq Nat, NEW R, NEW f, NEW r, NEW k \in Nat, RankedBy(f, r, R, S, k),
         NEW a \in S, NEW b \in S, <<a, b>> \in R
  PROVE  Ahead(f, a, b)
<1> DEFINE N == Cardinality(S)
           n == IF k <= N THEN k ELSE N
<1>1. /\ N \in Nat
      /\ \A i \in 1..N : r[i] \in S
      /\ \A i, j \in 1..N : r[i] = r[j] => i = j
      /\ \A x \in S : \E i \in 1..N : r[i] = x
      /\ \A i, j \in 1..N : i < j <=> <<r[i], r[j]>> \in R
      /\ DOMAIN f = 1..n /\ \A i \in DOMAIN f : f[i] = r[i]
  BY DEF RankedBy, Ranking, Cut
<1>2. n \in Nat /\ n <= N
  BY <1>1
<1> HIDE DEF n, N
<1>3. 1..n \subseteq 1..N
  BY <1>1, <1>2
<1>4. Leg(f)
  <2>1. \A i \in DOMAIN f : f[i] \in Nat
    BY <1>1, <1>3
  <2>2. \A i, j \in DOMAIN f : f[i] = f[j] => i = j
    BY <1>1, <1>3
  <2> QED BY <1>1, <1>2, <2>1, <2>2 DEF Leg, IsInjective
<1> SUFFICES ASSUME b \in Range(f) PROVE a \in Range(f) /\ Rank(f, a) < Rank(f, b)
  BY DEF Ahead
<1>5. PICK j \in 1..n : f[j] = b
  BY <1>1 DEF Range
<1>6. PICK i \in 1..N : r[i] = a
  BY <1>1
<1>7. i < j
  BY <1>1, <1>3, <1>5, <1>6
<1>8. i \in 1..n
  BY <1>1, <1>2, <1>5, <1>6, <1>7
<1>9. f[i] = a
  BY <1>1, <1>6, <1>8
<1>10. a \in Range(f)
  BY <1>1, <1>8, <1>9 DEF Range
<1>11. i = Rank(f, a) /\ j = Rank(f, b)
  BY <1>1, <1>4, <1>5, <1>8, <1>9, <1>10, RankIs
<1> QED BY <1>7, <1>10, <1>11

\* Two legs that agree are fused as they agree.
LEMMA FusionAgrees ==
  ASSUME NEW v, NEW t, Leg(v), Leg(t), NEW k \in Nat,
         NEW a \in Range(v) \cup Range(t), NEW b \in Range(v) \cup Range(t),
         Ahead(v, a, b), Ahead(t, a, b)
  PROVE  Ahead(FuseRRF(v, t, k), a, b)
<1>1. /\ NoLess(Term(v, a), Term(v, b)) /\ NoLess(Term(t, a), Term(t, b))
      /\ More(Term(v, a), Term(v, b)) \/ More(Term(t, a), Term(t, b))
  BY AheadCounts
<1>2. Fraction(Term(v, a)) /\ Fraction(Term(v, b)) /\ Fraction(Term(t, a)) /\ Fraction(Term(t, b))
  BY TermIs
<1>3. More(Fused(v, t, a), Fused(v, t, b))
  BY <1>1, <1>2, AddedGrows DEF Fused
<1>4. <<a, b>> \in FuseOrder(v, t)
  BY <1>3 DEF FuseOrder
<1>5. PICK r : RankedBy(FuseRRF(v, t, k), r, FuseOrder(v, t), Range(v) \cup Range(t), k)
  BY FuseIs
<1>6. Range(v) \cup Range(t) \subseteq Nat
  BY LegIds
<1> QED BY <1>4, <1>5, <1>6, CutKeepsOrder

\* Fusion agrees with two legs that agree, whatever is in the epoch and in the tail: the legs of a
\* hybrid query are lists of distinct documents, a document that stands before another in both
\* contributes no less in each and more in one, so it is not fused behind the other, and the cut
\* does not drop it alone (fuseRRF).
THEOREM FusionSound == Spec => []FusionRespectsLegs
<1>1. SnapshotInv => FusionRespectsLegs
  <2> SUFFICES ASSUME SnapshotInv, NEW q \in Queries, NEW legs \in HybridLegs(q),
                      NEW a \in Range(legs[1]) \cup Range(legs[2]),
                      NEW b \in Range(legs[1]) \cup Range(legs[2]),
                      Ahead(legs[1], a, b), Ahead(legs[2], a, b)
               PROVE  Ahead(FuseRRF(legs[1], legs[2], q.topK), a, b)
    BY DEF FusionRespectsLegs, Ahead
  <2> DEFINE d == Deepened(q)
  <2>1. PICK answer \in VectorQuery(d) : legs = <<IdsOf(answer), IdsOf(BM25Query(d))>>
    BY DEF HybridLegs
  <2>2. q.topK \in Nat /\ d.pos \in Int /\ d.topK \in Nat /\ d.text \in Seq(STRING)
    BY QueryIs
  <2> HIDE DEF d
  <2>3. Leg(IdsOf(answer))
    BY <2>1, <2>2, VectorLeg DEF SnapshotInv
  <2>4. Leg(IdsOf(BM25Query(d)))
    BY <2>2, TextLeg
  <2>5. legs[1] = IdsOf(answer) /\ legs[2] = IdsOf(BM25Query(d))
    BY <2>1
  <2>6. Leg(legs[1]) /\ Leg(legs[2])
    BY <2>3, <2>4, <2>5
  <2> DEFINE v == legs[1]
             t == legs[2]
  <2>7. /\ Leg(v) /\ Leg(t) /\ a \in Range(v) \cup Range(t) /\ b \in Range(v) \cup Range(t)
        /\ Ahead(v, a, b) /\ Ahead(t, a, b)
    BY <2>6
  <2> HIDE DEF v, t
  <2>8. Ahead(FuseRRF(v, t, q.topK), a, b)
    BY <2>2, <2>7, FusionAgrees
  <2> QED BY <2>8 DEF v, t
<1> QED BY <1>1, SnapshotInvariant, PTL

-----------------------------------------------------------------------------
(***************************************************************************)
(* Filters.  A filter is a finite tree, so what is defined from the parts  *)
(* of a filter is defined for the filter.                                  *)
(***************************************************************************)

\* Every set of trees has one none of whose parts is in the set.
Nested(X, kids) ==
  /\ \A x \in X : kids[x] \in SUBSET X
  /\ \A F \in SUBSET X : F # {} => \E x \in F : kids[x] \cap F = {}

\* A table made by such steps, for trees that have all their parts in it.
TableOf(t, D, kids, step) ==
  /\ \A x \in D : kids[x] \subseteq D
  /\ \A x \in D : t[x] = step[x][[y \in kids[x] |-> t[y]]]

\* Two of them agree.
LEMMA TablesAgree ==
  ASSUME NEW X, NEW kids, Nested(X, kids), NEW step, NEW D \in SUBSET X, NEW E \in SUBSET X,
         NEW t, NEW u, TableOf(t, D, kids, step), TableOf(u, E, kids, step)
  PROVE  \A x \in D \cap E : t[x] = u[x]
<1> DEFINE F == {x \in D \cap E : t[x] # u[x]}
<1>1. CASE F = {}
  BY <1>1
<1>2. CASE F # {}
  <2>1. F \in SUBSET X
    OBVIOUS
  <2>2. PICK x \in F : kids[x] \cap F = {}
    <3> HIDE DEF F
    <3> QED BY <1>2, <2>1 DEF Nested
  <2>3. x \in D /\ x \in E /\ t[x] # u[x]
    BY <2>2
  <2>4. kids[x] \subseteq D /\ kids[x] \subseteq E
    BY <2>3 DEF TableOf
  <2>5. \A y \in kids[x] : t[y] = u[y]
    BY <2>2, <2>4
  <2>6. [y \in kids[x] |-> t[y]] = [y \in kids[x] |-> u[y]]
    BY <2>5
  <2>7. t[x] = step[x][[y \in kids[x] |-> t[y]]] /\ u[x] = step[x][[y \in kids[x] |-> u[y]]]
    BY <2>3 DEF TableOf
  <2> QED BY <2>3, <2>6, <2>7
<1> QED BY <1>1, <1>2

\* There is a table for all of them.
LEMMA NestedTable ==
  ASSUME NEW X, NEW kids, Nested(X, kids), NEW V, NEW step,
         \A x \in X : \A h \in [kids[x] -> V] : step[x][h] \in V
  PROVE  \E t \in [X -> V] : TableOf(t, X, kids, step)
<1> DEFINE Has(D, t) == D \in SUBSET X /\ TableOf(t, D, kids, step) /\ \A y \in D : t[y] \in V
           Covers(x, t) == \E D : x \in D /\ Has(D, t)
           C == {x \in X : \E t : Covers(x, t)}
           Pick(x) == CHOOSE t : Covers(x, t)
           val(x) == Pick(x)[x]
<1>1. ASSUME NEW D, NEW t, Has(D, t), NEW x \in D
      PROVE  x \in C /\ val(x) = t[x]
  <2>1. Covers(x, t) /\ x \in X
    BY <1>1
  <2> HIDE DEF Has
  <2>2. x \in C /\ Covers(x, Pick(x))
    <3> HIDE DEF Covers
    <3> QED BY <2>1
  <2> HIDE DEF Pick
  <2>3. PICK E : x \in E /\ Has(E, Pick(x))
    BY <2>2
  <2>4. /\ D \in SUBSET X /\ E \in SUBSET X
        /\ TableOf(t, D, kids, step) /\ TableOf(Pick(x), E, kids, step)
    BY <1>1, <2>3 DEF Has
  <2>5. \A y \in D \cap E : t[y] = Pick(x)[y]
    BY <2>4, TablesAgree
  <2> QED BY <1>1, <2>2, <2>3, <2>5
<1>2. ASSUME NEW x \in C
      PROVE  kids[x] \subseteq C /\ val(x) \in V /\ val(x) = step[x][[y \in kids[x] |-> val(y)]]
  <2>1. PICK t, D : x \in D /\ Has(D, t)
    <3> HIDE DEF Has
    <3> QED BY <1>2
  <2>2. TableOf(t, D, kids, step) /\ \A y \in D : t[y] \in V
    BY <2>1
  <2>3. kids[x] \subseteq D /\ t[x] = step[x][[y \in kids[x] |-> t[y]]] /\ t[x] \in V
    BY <2>1, <2>2 DEF TableOf
  <2> HIDE DEF Has, val, C
  <2>4. \A y \in D : y \in C /\ val(y) = t[y]
    BY <1>1, <2>1
  <2>5. [y \in kids[x] |-> t[y]] = [y \in kids[x] |-> val(y)]
    BY <2>3, <2>4
  <2> QED BY <2>1, <2>3, <2>4, <2>5
<1>3. C \in SUBSET X
  OBVIOUS
<1>4. C = X
  <2> SUFFICES ASSUME X \ C # {} PROVE FALSE
    BY <1>3
  <2>1. PICK x \in X \ C : kids[x] \cap (X \ C) = {}
    <3>1. X \ C \in SUBSET X
      OBVIOUS
    <3> HIDE DEF C
    <3> QED BY <3>1 DEF Nested
  <2>2. kids[x] \subseteq C
    <3> HIDE DEF C
    <3>1. kids[x] \in SUBSET X
      BY DEF Nested
    <3> QED BY <2>1, <3>1
  <2> DEFINE D == C \cup {x}
             below == [y \in kids[x] |-> val(y)]
             h == [z \in D |-> IF z = x THEN step[x][below] ELSE val(z)]
  <2> HIDE DEF C, val
  <2>3. below \in [kids[x] -> V]
    BY <1>2, <2>2
  <2>4. step[x][below] \in V
    <3> HIDE DEF below
    <3> QED BY <2>1, <2>3
  <2>5. h[x] = step[x][below] /\ \A z \in C : h[z] = val(z)
    BY <2>1
  <2> HIDE DEF h
  <2>6. [y \in kids[x] |-> h[y]] = below
    BY <2>2, <2>5
  <2>7. ASSUME NEW z \in C PROVE h[z] = step[z][[y \in kids[z] |-> h[y]]] /\ kids[z] \subseteq C
    <3>1. kids[z] \subseteq C /\ val(z) = step[z][[y \in kids[z] |-> val(y)]]
      BY <1>2
    <3>2. [y \in kids[z] |-> h[y]] = [y \in kids[z] |-> val(y)]
      BY <2>5, <3>1
    <3> QED BY <2>5, <3>1, <3>2
  <2> HIDE DEF below
  <2>8. TableOf(h, D, kids, step)
    <3>1. \A z \in D : kids[z] \subseteq D
      BY <2>2, <2>7
    <3>2. \A z \in D : h[z] = step[z][[y \in kids[z] |-> h[y]]]
      BY <2>5, <2>6, <2>7
    <3> QED BY <3>1, <3>2 DEF TableOf
  <2>9. \A z \in D : h[z] \in V
    BY <1>2, <2>4, <2>5
  <2>10. Has(D, h)
    BY <1>3, <2>1, <2>8, <2>9
  <2>11. x \in D
    OBVIOUS
  <2>12. x \in C
    <3> HIDE DEF Has, D
    <3> QED BY <1>1, <2>10, <2>11
  <2> QED BY <2>1, <2>12
<1> DEFINE t == [x \in X |-> val(x)]
<1> HIDE DEF C, val
<1>5. t \in [X -> V]
  BY <1>2, <1>4
<1>6. TableOf(t, X, kids, step)
  <2> SUFFICES ASSUME NEW x \in X PROVE kids[x] \subseteq X /\ t[x] = step[x][[y \in kids[x] |-> t[y]]]
    BY DEF TableOf
  <2>1. kids[x] \subseteq X /\ val(x) = step[x][[y \in kids[x] |-> val(y)]]
    BY <1>2, <1>4
  <2>2. [y \in kids[x] |-> t[y]] = [y \in kids[x] |-> val(y)]
    BY <2>1
  <2> QED BY <2>1, <2>2
<1> QED BY <1>5, <1>6

\* The parts of each filter.
Parts == [f \in Filters |-> ToSet(f.sub)]

\* A part of a filter is one.
LEMMA PartsNested ==
  /\ Nested(Filters, Parts)
  /\ \A f \in Filters : \A i \in DOMAIN f.sub : f.sub[i] \in Filters /\ f.sub[i] \in Parts[f]
<1>1. \A f \in Filters : Parts[f] = ToSet(f.sub)
  BY DEF Parts
<1>2. ASSUME NEW f \in Filters PROVE ToSet(f.sub) \subseteq Filters /\ \A i \in DOMAIN f.sub : f.sub[i] \in ToSet(f.sub)
  <2>1. f.sub \in Seq(Filters)
    BY FilterAssumption
  <2> DEFINE s == f.sub
  <2>2. s \in Seq(Filters)
    BY <2>1
  <2> HIDE DEF s
  <2>3. ToSet(s) \subseteq Filters /\ \A i \in DOMAIN s : s[i] \in ToSet(s)
    BY <2>2 DEF ToSet
  <2> QED BY <2>3 DEF s
<1>3. ASSUME NEW F \in SUBSET Filters, F # {} PROVE \E f \in F : Parts[f] \cap F = {}
  <2>1. PICK f \in F : ToSet(f.sub) \cap F = {}
    BY <1>3, FilterAssumption
  <2> QED BY <1>1, <2>1
<1> HIDE DEF Parts
<1> QED BY <1>1, <1>2, <1>3 DEF Nested

\* What a condition, a conjunction and a disjunction say.
LEMMA HoldingIs ==
  ASSUME NEW f, NEW parts, NEW attrs
  PROVE  /\ Holding(f, parts, attrs) \in BOOLEAN
         /\ f.op = "eq" => (Holding(f, parts, attrs) <=>
              f.field \in DOMAIN attrs /\ EqualValues(attrs[f.field], f.value))
         /\ f.op = "and" => (Holding(f, parts, attrs) <=> \A i \in DOMAIN f.sub : parts[i])
         /\ f.op = "or" => (Holding(f, parts, attrs) <=> \E i \in DOMAIN f.sub : parts[i])
<1> DEFINE e == f.field \in DOMAIN attrs /\ EqualValues(attrs[f.field], f.value)
           a == \A i \in DOMAIN f.sub : parts[i]
           o == \E i \in DOMAIN f.sub : parts[i]
           op == f.op
<1>1. Holding(f, parts, attrs) = CASE op \in {"", "all"} -> TRUE [] op = "eq" -> e [] op = "and" -> a
                                   [] op = "or" -> o [] OTHER -> FALSE
  BY DEF Holding
<1>2. e \in BOOLEAN /\ a \in BOOLEAN /\ o \in BOOLEAN
  OBVIOUS
<1> HIDE DEF e, a, o, op
<1>3. Holding(f, parts, attrs) \in BOOLEAN
  BY <1>1, <1>2
<1>4. (op = "eq" => Holding(f, parts, attrs) = e) /\ (op = "and" => Holding(f, parts, attrs) = a)
      /\ (op = "or" => Holding(f, parts, attrs) = o)
  BY <1>1
<1> QED BY <1>3, <1>4 DEF e, a, o, op

\* The values at the parts of a filter.
AtParts(f, h) == [i \in DOMAIN f.sub |-> h[f.sub[i]]]

\* Only those matter.
LEMMA AtPartsSame ==
  ASSUME NEW f \in Filters, NEW t
  PROVE  AtParts(f, [g \in Parts[f] |-> t[g]]) = AtParts(f, t)
  BY PartsNested DEF AtParts

\* A filter holds of attributes as the parts of it do.
LEMMA MatchIs ==
  ASSUME NEW attrs, NEW f \in Filters
  PROVE  Match(f, attrs) = Holding(f, [i \in DOMAIN f.sub |-> Match(f.sub[i], attrs)], attrs)
<1> DEFINE Is(t) == t = [g \in Filters |-> Holding(g, AtParts(g, t), attrs)]
           Of == CHOOSE t : Is(t)
           step == [g \in Filters |-> [h \in [Parts[g] -> BOOLEAN] |-> Holding(g, AtParts(g, h), attrs)]]
<1>1. \A g : Match(g, attrs) = Of[g]
  BY DEF Match, AtParts
<1> HIDE DEF Of
<1>2. \A g \in Filters : \A h \in [Parts[g] -> BOOLEAN] :
        step[g][h] = Holding(g, AtParts(g, h), attrs) /\ step[g][h] \in BOOLEAN
  BY HoldingIs
<1>3. PICK t \in [Filters -> BOOLEAN] : TableOf(t, Filters, Parts, step)
  <2> HIDE DEF step
  <2> QED BY <1>2, PartsNested, NestedTable
<1>4. Is(t)
  <2>1. ASSUME NEW g \in Filters PROVE t[g] = Holding(g, AtParts(g, t), attrs)
    <3> DEFINE h == [x \in Parts[g] |-> t[x]]
    <3>1. t[g] = step[g][h]
      <4> HIDE DEF step
      <4> QED BY <1>3 DEF TableOf
    <3>2. Parts[g] \subseteq Filters
      BY PartsNested DEF Nested
    <3>3. h \in [Parts[g] -> BOOLEAN]
      BY <1>3, <3>2
    <3>4. AtParts(g, h) = AtParts(g, t)
      BY AtPartsSame
    <3> HIDE DEF h, step
    <3> QED BY <1>2, <3>1, <3>3, <3>4
  <2>2. t = [g \in Filters |-> t[g]]
    BY <1>3
  <2> QED BY <2>1, <2>2
<1>5. Is(Of)
  <2> HIDE DEF Is
  <2> QED BY <1>4 DEF Of
<1>6. Of[f] = Holding(f, AtParts(f, Of), attrs)
  BY <1>5
<1>7. AtParts(f, Of) = [i \in DOMAIN f.sub |-> Match(f.sub[i], attrs)]
  BY <1>1 DEF AtParts
<1> QED BY <1>1, <1>6, <1>7

-----------------------------------------------------------------------------
(***************************************************************************)
(* Bitmaps stand for sets of numbers.                                      *)
(***************************************************************************)
Container == [dense : BOOLEAN, low : SUBSET (0..ChunkSize - 1), card : Nat]
Bitmaps == UNION {[K -> Container] : K \in SUBSET Nat}

\* A number is taken apart into a chunk and what is left, in one way.
LEMMA ChunkIs ==
  ASSUME NEW x \in Nat, NEW n \in Nat \ {0}
  PROVE  /\ x \div n \in Nat /\ x % n \in 0..n - 1 /\ x = (x \div n) * n + (x % n)
         /\ \A k \in Nat, l \in 0..n - 1 : x = k * n + l => x \div n = k /\ x % n = l
<1>1. x \div n \in Nat /\ x % n \in 0..n - 1 /\ x = (x \div n) * n + (x % n)
  OBVIOUS
<1>2. ASSUME NEW k \in Nat, NEW l \in 0..n - 1, x = k * n + l
      PROVE  x \div n = k /\ x % n = l
  <2> DEFINE d == x \div n
             m == x % n
  <2>1. d \in Nat /\ m \in 0..n - 1 /\ d * n + m = k * n + l
    BY <1>1, <1>2
  <2> HIDE DEF d, m
  <2>2. d = k
    <3>1. CASE d > k
      <4>1. d >= k + 1
        BY <2>1, <3>1
      <4>2. k + 1 \in Nat
        OBVIOUS
      <4>3. d * n >= (k + 1) * n
        BY <2>1, <4>1, <4>2, TimesKeeps
      <4>4. (k + 1) * n = k * n + n
        OBVIOUS
      <4>5. k * n \in Nat /\ d * n \in Nat
        BY <2>1
      <4> QED BY <2>1, <4>3, <4>4, <4>5
    <3>2. CASE k > d
      <4>1. k >= d + 1
        BY <2>1, <3>2
      <4>2. d + 1 \in Nat
        BY <2>1
      <4>3. k * n >= (d + 1) * n
        BY <2>1, <4>1, <4>2, TimesKeeps
      <4>4. (d + 1) * n = d * n + n
        BY <2>1
      <4>5. k * n \in Nat /\ d * n \in Nat
        BY <2>1
      <4> QED BY <2>1, <4>3, <4>4, <4>5
    <3> QED BY <2>1, <3>1, <3>2
  <2>3. m = l
    <3>1. k * n \in Nat
      OBVIOUS
    <3> QED BY <2>1, <2>2, <3>1
  <2> QED BY <2>2, <2>3 DEF d, m
<1> QED BY <1>1, <1>2

\* What is in a bitmap.
LEMMA ElementsAre ==
  ASSUME NEW b \in Bitmaps
  PROVE  /\ Elements(b) \subseteq Nat
         /\ \A x \in Nat : x \in Elements(b) <=>
              x \div ChunkSize \in DOMAIN b /\ x % ChunkSize \in b[x \div ChunkSize].low
<1> DEFINE n == ChunkSize
<1>1. n \in Nat \ {0}
  BY BitmapAssumption
<1>2. DOMAIN b \subseteq Nat /\ \A k \in DOMAIN b : b[k].low \subseteq 0..n - 1
  <2>1. PICK K \in SUBSET Nat : b \in [K -> Container]
    BY DEF Bitmaps
  <2> QED BY <2>1 DEF Container
<1>3. \A x : x \in Elements(b) <=> \E k \in DOMAIN b : \E l \in b[k].low : x = k * n + l
  BY DEF Elements
<1> HIDE DEF n
<1>4. ASSUME NEW x \in Elements(b)
      PROVE  x \in Nat /\ x \div n \in DOMAIN b /\ x % n \in b[x \div n].low
  <2>1. PICK k \in DOMAIN b : \E l \in b[k].low : x = k * n + l
    BY <1>3
  <2>2. PICK l \in b[k].low : x = k * n + l
    BY <2>1
  <2>3. k \in Nat /\ l \in 0..n - 1
    BY <1>2
  <2>4. x \in Nat
    BY <1>1, <2>2, <2>3
  <2>5. x \div n = k /\ x % n = l
    BY <1>1, <2>2, <2>3, <2>4, ChunkIs
  <2> QED BY <2>2, <2>4, <2>5
<1>5. ASSUME NEW x \in Nat, x \div n \in DOMAIN b, x % n \in b[x \div n].low
      PROVE  x \in Elements(b)
  <2>1. x = (x \div n) * n + (x % n)
    BY <1>1, ChunkIs
  <2> QED BY <1>3, <1>5, <2>1
<1> QED BY <1>4, <1>5 DEF n

\* Two bitmaps and a number: where it is looked for.
LEMMA ChunkOf ==
  ASSUME NEW x \in Nat
  PROVE  x \div ChunkSize \in Nat /\ x % ChunkSize \in 0..ChunkSize - 1
<1> DEFINE n == ChunkSize
<1>1. n \in Nat \ {0}
  BY BitmapAssumption
<1> HIDE DEF n
<1>2. x \div n \in Nat /\ x % n \in 0..n - 1
  BY <1>1, ChunkIs
<1> QED BY <1>2 DEF n

\* The containers of a bitmap.
LEMMA BitmapFields ==
  ASSUME NEW b
  PROVE  b \in Bitmaps <=> b \in [DOMAIN b -> Container] /\ DOMAIN b \subseteq Nat
  BY DEF Bitmaps

\* The empty bitmap.
LEMMA NewIs == NewBitmap \in Bitmaps /\ Elements(NewBitmap) = {}
<1>1. DOMAIN NewBitmap = {} /\ NewBitmap \in [{} -> Container]
  BY DEF NewBitmap
<1>2. Elements(NewBitmap) = {}
  BY <1>1 DEF Elements
<1> QED BY <1>1, <1>2, BitmapFields

\* Adding a number adds it and nothing else.
LEMMA AddIs ==
  ASSUME NEW b \in Bitmaps, NEW id \in Nat
  PROVE  BitmapAdd(b, id) \in Bitmaps /\ Elements(BitmapAdd(b, id)) = Elements(b) \cup {id}
<1> DEFINE hi == id \div ChunkSize
           lo == id % ChunkSize
           c == IF hi \in DOMAIN b THEN b[hi] ELSE NewContainer
           d == BitmapAdd(b, id)
<1>1. hi \in Nat /\ lo \in 0..ChunkSize - 1
  BY ChunkOf
<1>2. b \in [DOMAIN b -> Container] /\ DOMAIN b \subseteq Nat
  BY BitmapFields
<1>3. c \in Container
  BY <1>2 DEF Container, NewContainer
<1>4. d = [key \in DOMAIN b \cup {hi} |-> IF key = hi THEN ContainerAdd(c, lo) ELSE b[key]]
  BY DEF BitmapAdd
<1>5. hi \in DOMAIN b => c = b[hi]
  OBVIOUS
<1>6. hi \notin DOMAIN b => c.low = {}
  BY DEF NewContainer
<1> HIDE DEF c, d, hi, lo
<1>7. ContainerAdd(c, lo) \in Container /\ ContainerAdd(c, lo).low = c.low \cup {lo}
  <2>1. /\ c.dense \in BOOLEAN /\ c.low \in SUBSET (0..ChunkSize - 1) /\ c.card \in Nat
    BY <1>3 DEF Container
  <2>2. CASE lo \in c.low
    <3>1. ContainerAdd(c, lo) = c
      BY <2>2 DEF ContainerAdd
    <3> QED BY <1>3, <2>2, <3>1
  <2>3. CASE lo \notin c.low
    <3> DEFINE e == c.dense \/ c.card + 1 > ArrayMax
               s == c.low \cup {lo}
               m == c.card + 1
    <3>1. ContainerAdd(c, lo) = [dense |-> e, low |-> s, card |-> m]
      BY <2>3 DEF ContainerAdd
    <3>2. e \in BOOLEAN /\ s \in SUBSET (0..ChunkSize - 1) /\ m \in Nat
      BY <1>1, <2>1
    <3> HIDE DEF e, s, m
    <3>3. ContainerAdd(c, lo) \in Container /\ ContainerAdd(c, lo).low = s
      BY <3>1, <3>2 DEF Container
    <3> QED BY <3>3 DEF s
  <2> QED BY <2>2, <2>3
<1>8. DOMAIN d = DOMAIN b \cup {hi} /\ d[hi] = ContainerAdd(c, lo) /\ \A k \in DOMAIN b : k # hi => d[k] = b[k]
  BY <1>4
<1>9. d \in Bitmaps
  <2>1. d \in [DOMAIN b \cup {hi} -> Container]
    BY <1>2, <1>4, <1>7
  <2> QED BY <1>1, <1>2, <2>1, BitmapFields
<1>10. ASSUME NEW x \in Nat PROVE x \in Elements(d) <=> x \in Elements(b) \/ x = id
  <2> DEFINE k == x \div ChunkSize
             l == x % ChunkSize
  <2>1. x \in Elements(d) <=> k \in DOMAIN d /\ l \in d[k].low
    BY <1>9, ElementsAre
  <2>2. x \in Elements(b) <=> k \in DOMAIN b /\ l \in b[k].low
    BY ElementsAre
  <2>3. x = id <=> k = hi /\ l = lo
    <3> DEFINE n == ChunkSize
    <3>1. n \in Nat \ {0}
      BY BitmapAssumption
    <3>2. x = k * n + l /\ id = hi * n + lo
      <4> HIDE DEF n
      <4>1. x = (x \div n) * n + (x % n) /\ id = (id \div n) * n + (id % n)
        BY <3>1, ChunkIs
      <4> QED BY <4>1 DEF n, hi, lo
    <3> QED BY <3>2 DEF hi, lo
  <2> HIDE DEF k, l
  <2>4. CASE k = hi
    <3>1. d[k].low = c.low \cup {lo} /\ k \in DOMAIN d
      BY <1>7, <1>8, <2>4
    <3>2. l \in c.low <=> k \in DOMAIN b /\ l \in b[k].low
      BY <1>5, <1>6, <2>4
    <3> QED BY <2>1, <2>2, <2>3, <2>4, <3>1, <3>2
  <2>5. CASE k # hi
    <3>1. k \in DOMAIN d <=> k \in DOMAIN b
      BY <1>8, <2>5
    <3> QED BY <1>8, <2>1, <2>2, <2>3, <2>5, <3>1
  <2> QED BY <2>4, <2>5
<1>11. Elements(d) \subseteq Nat /\ Elements(b) \subseteq Nat
  BY <1>9, ElementsAre
<1>12. Elements(d) = Elements(b) \cup {id}
  BY <1>10, <1>11
<1> QED BY <1>9, <1>12 DEF d

\* Containers have an intersection and a union.
LEMMA ContainersAre ==
  ASSUME NEW c \in Container, NEW d \in Container
  PROVE  /\ ContainerAnd(c, d) \in Container /\ ContainerAnd(c, d).low = c.low \cap d.low
         /\ ContainerAnd(c, d).card > 0 <=> c.low \cap d.low # {}
         /\ ContainerOr(c, d) \in Container /\ ContainerOr(c, d).low = c.low \cup d.low
<1> DEFINE n == ChunkSize - 1
           i == c.low \cap d.low
           u == c.low \cup d.low
<1>1. /\ c.dense \in BOOLEAN /\ d.dense \in BOOLEAN
      /\ c.low \in SUBSET (0..n) /\ d.low \in SUBSET (0..n)
  BY DEF Container
<1>2. n \in Int
  BY BitmapAssumption
<1> HIDE DEF n
<1>3. IsFiniteSet(0..n)
  <2>1. 0 \in Int
    OBVIOUS
  <2> QED BY ONLY <1>2, <2>1, FS_Interval
<1>4. i \in SUBSET (0..n) /\ u \in SUBSET (0..n)
  BY <1>1
<1>5. IsFiniteSet(i) /\ IsFiniteSet(u)
  <2> HIDE DEF i, u
  <2> QED BY <1>3, <1>4, FS_Subset
<1>6. /\ ContainerAnd(c, d) = [dense |-> c.dense /\ d.dense, low |-> i, card |-> Cardinality(i)]
      /\ ContainerOr(c, d) = [dense |-> Cardinality(u) > ArrayMax, low |-> u, card |-> Cardinality(u)]
  BY DEF ContainerAnd, ContainerOr
<1> HIDE DEF i, u
<1>7. Cardinality(i) \in Nat /\ Cardinality(u) \in Nat /\ (Cardinality(i) = 0 <=> i = {})
  BY <1>5, FS_CardinalityType, FS_EmptySet
<1> DEFINE m == Cardinality(i)
           k == Cardinality(u)
           e == c.dense /\ d.dense
           o == k > ArrayMax
<1>8. e \in BOOLEAN /\ o \in BOOLEAN
  BY <1>1, <1>7, BitmapAssumption
<1>9. /\ ContainerAnd(c, d) = [dense |-> e, low |-> i, card |-> m]
      /\ ContainerOr(c, d) = [dense |-> o, low |-> u, card |-> k]
      /\ m \in Nat /\ k \in Nat /\ (m = 0 <=> i = {})
  BY <1>6, <1>7
<1> HIDE DEF m, k, e, o
<1>10. ContainerAnd(c, d) \in Container /\ ContainerOr(c, d) \in Container
  BY <1>4, <1>8, <1>9 DEF Container, n
<1>11. m > 0 <=> i # {}
  BY <1>9
<1> QED BY <1>9, <1>10, <1>11 DEF i, u

\* Two bitmaps have an intersection.
LEMMA AndIs ==
  ASSUME NEW a \in Bitmaps, NEW b \in Bitmaps
  PROVE  BitmapAnd(a, b) \in Bitmaps /\ Elements(BitmapAnd(a, b)) = Elements(a) \cap Elements(b)
<1> DEFINE d == BitmapAnd(a, b)
           common == {key \in DOMAIN a \cap DOMAIN b : ContainerAnd(a[key], b[key]).card > 0}
<1>1. d = [key \in common |-> ContainerAnd(a[key], b[key])]
  BY DEF BitmapAnd
<1>2. /\ a \in [DOMAIN a -> Container] /\ DOMAIN a \subseteq Nat
      /\ b \in [DOMAIN b -> Container] /\ DOMAIN b \subseteq Nat
  BY BitmapFields
<1>3. ASSUME NEW k \in DOMAIN a \cap DOMAIN b
      PROVE  /\ ContainerAnd(a[k], b[k]) \in Container
             /\ ContainerAnd(a[k], b[k]).low = a[k].low \cap b[k].low
             /\ k \in common <=> a[k].low \cap b[k].low # {}
  <2>1. a[k] \in Container /\ b[k] \in Container
    BY <1>2
  <2>2. k \in common <=> ContainerAnd(a[k], b[k]).card > 0
    OBVIOUS
  <2> HIDE DEF common
  <2> QED BY <2>1, <2>2, ContainersAre
<1>4. common \subseteq DOMAIN a \cap DOMAIN b
  OBVIOUS
<1> HIDE DEF d, common
<1>5. DOMAIN d = common /\ \A k \in common : d[k].low = a[k].low \cap b[k].low
  BY <1>1, <1>3, <1>4
<1>6. d \in Bitmaps
  <2>1. d \in [common -> Container]
    BY <1>1, <1>3, <1>4
  <2> QED BY <1>2, <1>4, <2>1, BitmapFields
<1>7. ASSUME NEW x \in Nat PROVE x \in Elements(d) <=> x \in Elements(a) /\ x \in Elements(b)
  <2> DEFINE k == x \div ChunkSize
             l == x % ChunkSize
  <2>1. /\ x \in Elements(d) <=> k \in DOMAIN d /\ l \in d[k].low
        /\ x \in Elements(a) <=> k \in DOMAIN a /\ l \in a[k].low
        /\ x \in Elements(b) <=> k \in DOMAIN b /\ l \in b[k].low
    BY <1>6, ElementsAre
  <2> HIDE DEF k, l
  <2>2. k \in DOMAIN d /\ l \in d[k].low => k \in DOMAIN a /\ k \in DOMAIN b /\ l \in a[k].low /\ l \in b[k].low
    BY <1>4, <1>5
  <2>3. k \in DOMAIN a /\ k \in DOMAIN b /\ l \in a[k].low /\ l \in b[k].low => k \in DOMAIN d /\ l \in d[k].low
    BY <1>3, <1>5
  <2> QED BY <2>1, <2>2, <2>3
<1>8. Elements(d) \subseteq Nat /\ Elements(a) \subseteq Nat
  BY <1>6, ElementsAre
<1>9. Elements(d) = Elements(a) \cap Elements(b)
  BY <1>7, <1>8
<1> QED BY <1>6, <1>9 DEF d

\* Two bitmaps have a union.
LEMMA OrIs ==
  ASSUME NEW a \in Bitmaps, NEW b \in Bitmaps
  PROVE  BitmapOr(a, b) \in Bitmaps /\ Elements(BitmapOr(a, b)) = Elements(a) \cup Elements(b)
<1> DEFINE d == BitmapOr(a, b)
           At(key) == CASE key \notin DOMAIN b -> a[key]
                        [] key \notin DOMAIN a -> b[key]
                        [] OTHER -> ContainerOr(a[key], b[key])
<1>1. d = [key \in DOMAIN a \cup DOMAIN b |-> At(key)]
  BY DEF BitmapOr
<1>2. /\ a \in [DOMAIN a -> Container] /\ DOMAIN a \subseteq Nat
      /\ b \in [DOMAIN b -> Container] /\ DOMAIN b \subseteq Nat
  BY BitmapFields
<1>3. ASSUME NEW k \in DOMAIN a \cup DOMAIN b
      PROVE  /\ At(k) \in Container
             /\ \A l : l \in At(k).low <=> (k \in DOMAIN a /\ l \in a[k].low) \/ (k \in DOMAIN b /\ l \in b[k].low)
  <2>1. CASE k \notin DOMAIN b
    <3>1. At(k) = a[k] /\ k \in DOMAIN a
      BY <2>1
    <3> HIDE DEF At
    <3> QED BY <1>2, <2>1, <3>1
  <2>2. CASE k \notin DOMAIN a
    <3>1. At(k) = b[k] /\ k \in DOMAIN b
      BY <2>2
    <3> HIDE DEF At
    <3> QED BY <1>2, <2>2, <3>1
  <2>3. CASE k \in DOMAIN a /\ k \in DOMAIN b
    <3>1. At(k) = ContainerOr(a[k], b[k])
      BY <2>3
    <3>2. a[k] \in Container /\ b[k] \in Container
      BY <1>2, <2>3
    <3> HIDE DEF At
    <3>3. At(k) \in Container /\ At(k).low = a[k].low \cup b[k].low
      BY <3>1, <3>2, ContainersAre
    <3> QED BY <2>3, <3>3
  <2> QED BY <2>1, <2>2, <2>3
<1> HIDE DEF d, At
<1>4. DOMAIN d = DOMAIN a \cup DOMAIN b /\ \A k \in DOMAIN d : d[k] = At(k)
  BY <1>1
<1>5. d \in Bitmaps
  <2>1. d \in [DOMAIN a \cup DOMAIN b -> Container]
    BY <1>1, <1>3
  <2> QED BY <1>2, <2>1, BitmapFields
<1>6. ASSUME NEW x \in Nat PROVE x \in Elements(d) <=> x \in Elements(a) \/ x \in Elements(b)
  <2> DEFINE k == x \div ChunkSize
             l == x % ChunkSize
  <2>1. /\ x \in Elements(d) <=> k \in DOMAIN d /\ l \in d[k].low
        /\ x \in Elements(a) <=> k \in DOMAIN a /\ l \in a[k].low
        /\ x \in Elements(b) <=> k \in DOMAIN b /\ l \in b[k].low
    BY <1>5, ElementsAre
  <2> HIDE DEF k, l
  <2>2. k \in DOMAIN d /\ l \in d[k].low <=>
          (k \in DOMAIN a /\ l \in a[k].low) \/ (k \in DOMAIN b /\ l \in b[k].low)
    <3>1. k \in DOMAIN d => d[k] = At(k)
      BY <1>4
    <3> QED BY <1>3, <1>4, <3>1
  <2> QED BY <2>1, <2>2
<1>7. Elements(d) \subseteq Nat /\ Elements(a) \subseteq Nat /\ Elements(b) \subseteq Nat
  BY <1>5, ElementsAre
<1>8. Elements(d) = Elements(a) \cup Elements(b)
  BY <1>6, <1>7
<1> QED BY <1>5, <1>8 DEF d

\* What a set loses when a fold takes its first member.
Rest == [s \in SUBSET Nat |-> IF s = {} THEN {} ELSE {s \ {Some(s)}}]

\* The subsets of a finite set are taken apart member by member.
LEMMA SubsetsNested ==
  ASSUME NEW S, IsFiniteSet(S), NEW kids,
         \A s \in SUBSET S : kids[s] = {} \/ \E x \in s : kids[s] = {s \ {x}}
  PROVE  Nested(SUBSET S, kids)
<1>1. ASSUME NEW s \in SUBSET S PROVE kids[s] \in SUBSET SUBSET S
  OBVIOUS
<1>2. ASSUME NEW F \in SUBSET SUBSET S, F # {} PROVE \E s \in F : kids[s] \cap F = {}
  <2>1. \A s \in F : IsFiniteSet(s) /\ Cardinality(s) \in Nat
    BY <1>2, FS_Subset, FS_CardinalityType
  <2> DEFINE T == {Cardinality(s) : s \in F}
  <2>2. T \subseteq Nat /\ T # {}
    BY <1>2, <2>1
  <2>3. PICK n \in T : \A m \in T : n <= m
    <3> HIDE DEF T
    <3> QED BY <2>2, Least
  <2>4. PICK s \in F : Cardinality(s) = n /\ \A t \in F : n <= Cardinality(t)
    BY <2>3
  <2>5. CASE kids[s] = {}
    BY <2>5
  <2>6. ASSUME NEW x \in s, kids[s] = {s \ {x}} PROVE kids[s] \cap F = {}
    <3>1. Cardinality(s \ {x}) = Cardinality(s) - 1
      BY <2>1, FS_RemoveElement
    <3>2. s \ {x} \notin F
      BY <2>1, <2>4, <3>1
    <3> QED BY <2>6, <3>2
  <2> QED BY <2>5, <2>6
<1> QED BY <1>1, <1>2 DEF Nested

\* Finite sets can be taken apart so.
LEMMA RestNested ==
  ASSUME NEW S \in SUBSET Nat, IsFiniteSet(S)
  PROVE  Nested(SUBSET S, Rest)
<1>1. ASSUME NEW s \in SUBSET S PROVE Rest[s] = {} \/ \E x \in s : Rest[s] = {s \ {x}}
  <2>1. s # {} => Some(s) \in s
    BY DEF Some
  <2> QED BY <2>1 DEF Rest
<1> QED BY <1>1, SubsetsNested

\* A bitmap made from a set of numbers stands for it.
LEMMA FromIs ==
  ASSUME NEW S \in SUBSET Nat, IsFiniteSet(S)
  PROVE  BitmapFrom(S) \in Bitmaps /\ Elements(BitmapFrom(S)) = S
<1> DEFINE Is(iter) == iter = [s \in SUBSET S |->
                                IF s = {} THEN NewBitmap
                                ELSE LET x == CHOOSE x \in s : TRUE IN BitmapAdd(iter[s \ {x}], x)]
           it == CHOOSE iter : Is(iter)
           step == [s \in SUBSET S |-> [h \in [Rest[s] -> Bitmaps] |->
                      IF s = {} THEN NewBitmap ELSE BitmapAdd(h[s \ {Some(s)}], Some(s))]]
<1>1. BitmapFrom(S) = it[S]
  BY DEF BitmapFrom, FoldSet, MapThenFoldSet
<1> HIDE DEF it
<1>2. ASSUME NEW s \in SUBSET S, s # {}
      PROVE  Some(s) \in s /\ Some(s) \in Nat /\ s \ {Some(s)} \in SUBSET S /\ Rest[s] = {s \ {Some(s)}}
  BY <1>2 DEF Some, Rest
<1>3. ASSUME NEW s \in SUBSET S, NEW h \in [Rest[s] -> Bitmaps] PROVE step[s][h] \in Bitmaps
  <2>1. step[s][h] = IF s = {} THEN NewBitmap ELSE BitmapAdd(h[s \ {Some(s)}], Some(s))
    OBVIOUS
  <2> HIDE DEF step
  <2>2. s # {} => h[s \ {Some(s)}] \in Bitmaps /\ Some(s) \in Nat
    BY <1>2
  <2> QED BY <2>1, <2>2, NewIs, AddIs
<1>4. Nested(SUBSET S, Rest)
  BY RestNested
<1>5. PICK t \in [SUBSET S -> Bitmaps] : TableOf(t, SUBSET S, Rest, step)
  <2> HIDE DEF step
  <2> QED BY <1>3, <1>4, NestedTable
<1>6. Is(t)
  <2>1. ASSUME NEW s \in SUBSET S
        PROVE  t[s] = IF s = {} THEN NewBitmap ELSE BitmapAdd(t[s \ {Some(s)}], Some(s))
    <3> DEFINE h == [r \in Rest[s] |-> t[r]]
    <3>1. t[s] = step[s][h] /\ Rest[s] \subseteq SUBSET S
      <4> HIDE DEF step
      <4> QED BY <1>5 DEF TableOf
    <3>2. h \in [Rest[s] -> Bitmaps]
      BY <1>5, <3>1
    <3>3. s # {} => h[s \ {Some(s)}] = t[s \ {Some(s)}]
      BY <1>2
    <3> HIDE DEF h
    <3>4. step[s][h] = IF s = {} THEN NewBitmap ELSE BitmapAdd(h[s \ {Some(s)}], Some(s))
      BY <3>2
    <3> HIDE DEF step
    <3> QED BY <3>1, <3>3, <3>4
  <2>2. t = [s \in SUBSET S |-> IF s = {} THEN NewBitmap ELSE BitmapAdd(t[s \ {Some(s)}], Some(s))]
    BY <1>5, <2>1
  <2> QED BY <2>2 DEF Some
<1>7. Is(it)
  <2> HIDE DEF Is
  <2> QED BY <1>6 DEF it
<1>8. \A s \in SUBSET S : it[s] = IF s = {} THEN NewBitmap ELSE BitmapAdd(it[s \ {Some(s)}], Some(s))
  BY <1>7 DEF Some
<1> DEFINE Good(s) == it[s] \in Bitmaps /\ Elements(it[s]) = s
           F == {s \in SUBSET S : ~ Good(s)}
<1>9. F = {}
  <2> SUFFICES ASSUME F # {} PROVE FALSE
    OBVIOUS
  <2>1. PICK s \in F : Rest[s] \cap F = {}
    <3>1. F \in SUBSET SUBSET S
      OBVIOUS
    <3> HIDE DEF F
    <3> QED BY <1>4, <3>1 DEF Nested
  <2>2. s \in SUBSET S /\ ~ Good(s)
    BY <2>1
  <2>3. CASE s = {}
    <3>1. it[s] = NewBitmap
      BY <1>8, <2>2, <2>3
    <3> QED BY <2>2, <2>3, <3>1, NewIs
  <2>4. CASE s # {}
    <3> DEFINE r == s \ {Some(s)}
    <3>1. Some(s) \in s /\ Some(s) \in Nat /\ r \in SUBSET S /\ Rest[s] = {r}
      BY <1>2, <2>2, <2>4
    <3>2. it[s] = BitmapAdd(it[r], Some(s))
      BY <1>8, <2>2, <2>4
    <3>3. s = r \cup {Some(s)}
      BY <3>1
    <3> HIDE DEF r
    <3>4. Good(r)
      BY <2>1, <3>1
    <3>5. it[s] \in Bitmaps /\ Elements(it[s]) = r \cup {Some(s)}
      BY <3>1, <3>2, <3>4, AddIs
    <3> QED BY <2>2, <3>3, <3>5
  <2> QED BY <2>3, <2>4
<1> HIDE DEF F
<1>10. Good(S)
  <2>1. S \in SUBSET S
    OBVIOUS
  <2> QED BY <1>9, <2>1 DEF F
<1> QED BY <1>1, <1>10

\* What compiling a filter gives.
Outcomes == [ok : BOOLEAN, bits : Bitmaps]

\* What a set of indices loses when a fold takes its last step.
Heads(n) == [u \in SUBSET (1..n) |-> IF u = {} THEN {} ELSE {u \ {Max(u)}}]

\* The sets of the first indices can be taken apart so.
LEMMA HeadsNested ==
  ASSUME NEW n \in Nat
  PROVE  Nested(SUBSET (1..n), Heads(n))
<1>1. ASSUME NEW u \in SUBSET (1..n) PROVE Heads(n)[u] = {} \/ \E x \in u : Heads(n)[u] = {u \ {x}}
  <2>1. u # {} => Max(u) \in u
    BY MaxIs
  <2> QED BY <2>1 DEF Heads
<1>2. IsFiniteSet(1..n)
  <2>1. n \in Int /\ 1 \in Int
    OBVIOUS
  <2> QED BY ONLY <2>1, FS_Interval
<1> QED BY <1>1, <1>2, SubsetsNested

\* Bitmaps intersected one after the other.
LEMMA AndFold ==
  ASSUME NEW first \in Bitmaps, NEW rest \in Seq(Outcomes)
  PROVE  LET b == FoldLeft(LAMBDA acc, p : BitmapAnd(acc, p.bits), first, rest)
         IN  /\ b \in Bitmaps
             /\ \A x : x \in Elements(b) <=>
                  x \in Elements(first) /\ \A i \in DOMAIN rest : x \in Elements(rest[i].bits)
<1> DEFINE n == Len(rest)
           I == 1..n
           step == [u \in SUBSET I |-> [h \in [Heads(n)[u] -> Bitmaps] |->
                      IF u = {} THEN first ELSE BitmapAnd(h[u \ {Max(u)}], rest[Max(u)].bits)]]
           Is(iter) == iter = [u \in SUBSET DOMAIN rest |->
                                IF u = {} THEN first
                                ELSE LET m == Max(u) IN BitmapAnd(iter[u \ {m}], rest[m].bits)]
           it == CHOOSE iter : Is(iter)
           b == FoldLeft(LAMBDA acc, p : BitmapAnd(acc, p.bits), first, rest)
<1>1. b = it[DOMAIN rest]
  BY DEF FoldLeft, MapThenFoldSet
<1>2. n \in Nat /\ DOMAIN rest = I /\ \A i \in I : rest[i].bits \in Bitmaps
  <2> HIDE DEF step, Is, it, b
  <2>1. n \in Nat /\ DOMAIN rest = I /\ \A i \in I : rest[i] \in Outcomes
    OBVIOUS
  <2>2. \A p \in Outcomes : p.bits \in Bitmaps
    BY DEF Outcomes
  <2> QED BY <2>1, <2>2
<1> HIDE DEF it, b, n
<1>3. ASSUME NEW u \in SUBSET I, u # {}
      PROVE  Max(u) \in u /\ rest[Max(u)].bits \in Bitmaps /\ u \ {Max(u)} \in SUBSET I
             /\ Heads(n)[u] = {u \ {Max(u)}}
  <2>1. Max(u) \in u
    BY <1>2, <1>3, MaxIs
  <2>2. Heads(n)[u] = {u \ {Max(u)}}
    BY <1>3 DEF Heads
  <2> QED BY <1>2, <2>1, <2>2
<1>4. ASSUME NEW u \in SUBSET I, NEW h \in [Heads(n)[u] -> Bitmaps] PROVE step[u][h] \in Bitmaps
  <2>1. step[u][h] = IF u = {} THEN first ELSE BitmapAnd(h[u \ {Max(u)}], rest[Max(u)].bits)
    OBVIOUS
  <2> HIDE DEF step
  <2>2. u # {} => h[u \ {Max(u)}] \in Bitmaps /\ rest[Max(u)].bits \in Bitmaps
    BY <1>3
  <2> QED BY <2>1, <2>2, AndIs
<1>5. Nested(SUBSET I, Heads(n))
  BY <1>2, HeadsNested
<1>6. PICK t \in [SUBSET I -> Bitmaps] : TableOf(t, SUBSET I, Heads(n), step)
  <2> HIDE DEF step, I
  <2> QED BY <1>4, <1>5, NestedTable
<1>7. Is(t)
  <2>1. ASSUME NEW u \in SUBSET I
        PROVE  t[u] = IF u = {} THEN first ELSE BitmapAnd(t[u \ {Max(u)}], rest[Max(u)].bits)
    <3> DEFINE h == [r \in Heads(n)[u] |-> t[r]]
    <3>1. t[u] = step[u][h] /\ Heads(n)[u] \subseteq SUBSET I
      <4> HIDE DEF step
      <4> QED BY <1>6 DEF TableOf
    <3>2. h \in [Heads(n)[u] -> Bitmaps]
      BY <1>6, <3>1
    <3>3. u # {} => h[u \ {Max(u)}] = t[u \ {Max(u)}]
      BY <1>3
    <3> HIDE DEF h
    <3>4. step[u][h] = IF u = {} THEN first ELSE BitmapAnd(h[u \ {Max(u)}], rest[Max(u)].bits)
      BY <3>2
    <3> HIDE DEF step, I
    <3> QED BY <3>1, <3>3, <3>4
  <2>2. t = [u \in SUBSET I |-> IF u = {} THEN first ELSE BitmapAnd(t[u \ {Max(u)}], rest[Max(u)].bits)]
    <3> HIDE DEF step, I
    <3> QED BY <1>6, <2>1
  <2> QED BY <1>2, <2>2
<1>8. Is(it)
  <2> HIDE DEF Is
  <2> QED BY <1>7 DEF it
<1>9. \A u \in SUBSET I : it[u] = IF u = {} THEN first ELSE BitmapAnd(it[u \ {Max(u)}], rest[Max(u)].bits)
  <2> HIDE DEF step, I
  <2> QED BY <1>2, <1>8
<1> DEFINE Good(u) ==
             /\ it[u] \in Bitmaps
             /\ \A x : x \in Elements(it[u]) <=>
                  x \in Elements(first) /\ \A i \in u : x \in Elements(rest[i].bits)
           F == {u \in SUBSET I : ~ Good(u)}
<1> HIDE DEF step, Is
<1>10. F = {}
  <2> SUFFICES ASSUME F # {} PROVE FALSE
    OBVIOUS
  <2>1. PICK u \in F : Heads(n)[u] \cap F = {}
    <3>1. F \in SUBSET SUBSET I
      OBVIOUS
    <3> HIDE DEF F, I
    <3> QED BY <1>5, <3>1 DEF Nested
  <2>2. u \in SUBSET I /\ ~ Good(u)
    BY <2>1
  <2>3. CASE u = {}
    <3>1. it[u] = first
      BY <1>9, <2>2, <2>3
    <3>2. Good(u)
      BY <2>3, <3>1
    <3> QED BY <2>2, <3>2
  <2>4. CASE u # {}
    <3> DEFINE m == Max(u)
               r == u \ {m}
    <3>1. m \in u /\ rest[m].bits \in Bitmaps /\ r \in SUBSET I /\ Heads(n)[u] = {r}
      BY <1>3, <2>2, <2>4
    <3>2. it[u] = BitmapAnd(it[r], rest[m].bits)
      BY <1>9, <2>2, <2>4
    <3>3. u = r \cup {m}
      BY <3>1
    <3> HIDE DEF r, m
    <3>4. Good(r)
      <4> HIDE DEF Good
      <4> QED BY <2>1, <3>1
    <3>5. it[u] \in Bitmaps /\ Elements(it[u]) = Elements(it[r]) \cap Elements(rest[m].bits)
      BY <3>1, <3>2, <3>4, AndIs
    <3>6. Good(u)
      BY <3>3, <3>4, <3>5
    <3> QED BY <2>2, <3>6
  <2> QED BY <2>3, <2>4
<1> HIDE DEF F
<1>11. Good(I)
  <2>1. I \in SUBSET I
    OBVIOUS
  <2>2. ~ Good(I) => I \in F
    <3> HIDE DEF Good, I
    <3> QED BY <2>1 DEF F
  <2> HIDE DEF Good, I
  <2> QED BY <1>10, <2>2
<1> HIDE DEF I
<1>12. b = it[I]
  BY <1>1, <1>2
<1>13. /\ b \in Bitmaps
       /\ \A x : x \in Elements(b) <=>
            x \in Elements(first) /\ \A i \in DOMAIN rest : x \in Elements(rest[i].bits)
  BY <1>2, <1>11, <1>12
<1> QED BY <1>13 DEF b

\* Bitmaps united one after the other.
LEMMA OrFold ==
  ASSUME NEW first \in Bitmaps, NEW rest \in Seq(Outcomes)
  PROVE  LET b == FoldLeft(LAMBDA acc, p : BitmapOr(acc, p.bits), first, rest)
         IN  /\ b \in Bitmaps
             /\ \A x : x \in Elements(b) <=>
                  x \in Elements(first) \/ \E i \in DOMAIN rest : x \in Elements(rest[i].bits)
<1> DEFINE n == Len(rest)
           I == 1..n
           step == [u \in SUBSET I |-> [h \in [Heads(n)[u] -> Bitmaps] |->
                      IF u = {} THEN first ELSE BitmapOr(h[u \ {Max(u)}], rest[Max(u)].bits)]]
           Is(iter) == iter = [u \in SUBSET DOMAIN rest |->
                                IF u = {} THEN first
                                ELSE LET m == Max(u) IN BitmapOr(iter[u \ {m}], rest[m].bits)]
           it == CHOOSE iter : Is(iter)
           b == FoldLeft(LAMBDA acc, p : BitmapOr(acc, p.bits), first, rest)
<1>1. b = it[DOMAIN rest]
  BY DEF FoldLeft, MapThenFoldSet
<1>2. n \in Nat /\ DOMAIN rest = I /\ \A i \in I : rest[i].bits \in Bitmaps
  <2> HIDE DEF step, Is, it, b
  <2>1. n \in Nat /\ DOMAIN rest = I /\ \A i \in I : rest[i] \in Outcomes
    OBVIOUS
  <2>2. \A p \in Outcomes : p.bits \in Bitmaps
    BY DEF Outcomes
  <2> QED BY <2>1, <2>2
<1> HIDE DEF it, b, n
<1>3. ASSUME NEW u \in SUBSET I, u # {}
      PROVE  Max(u) \in u /\ rest[Max(u)].bits \in Bitmaps /\ u \ {Max(u)} \in SUBSET I
             /\ Heads(n)[u] = {u \ {Max(u)}}
  <2>1. Max(u) \in u
    BY <1>2, <1>3, MaxIs
  <2>2. Heads(n)[u] = {u \ {Max(u)}}
    BY <1>3 DEF Heads
  <2> QED BY <1>2, <2>1, <2>2
<1>4. ASSUME NEW u \in SUBSET I, NEW h \in [Heads(n)[u] -> Bitmaps] PROVE step[u][h] \in Bitmaps
  <2>1. step[u][h] = IF u = {} THEN first ELSE BitmapOr(h[u \ {Max(u)}], rest[Max(u)].bits)
    OBVIOUS
  <2> HIDE DEF step
  <2>2. u # {} => h[u \ {Max(u)}] \in Bitmaps /\ rest[Max(u)].bits \in Bitmaps
    BY <1>3
  <2> QED BY <2>1, <2>2, OrIs
<1>5. Nested(SUBSET I, Heads(n))
  BY <1>2, HeadsNested
<1>6. PICK t \in [SUBSET I -> Bitmaps] : TableOf(t, SUBSET I, Heads(n), step)
  <2> HIDE DEF step, I
  <2> QED BY <1>4, <1>5, NestedTable
<1>7. Is(t)
  <2>1. ASSUME NEW u \in SUBSET I
        PROVE  t[u] = IF u = {} THEN first ELSE BitmapOr(t[u \ {Max(u)}], rest[Max(u)].bits)
    <3> DEFINE h == [r \in Heads(n)[u] |-> t[r]]
    <3>1. t[u] = step[u][h] /\ Heads(n)[u] \subseteq SUBSET I
      <4> HIDE DEF step
      <4> QED BY <1>6 DEF TableOf
    <3>2. h \in [Heads(n)[u] -> Bitmaps]
      BY <1>6, <3>1
    <3>3. u # {} => h[u \ {Max(u)}] = t[u \ {Max(u)}]
      BY <1>3
    <3> HIDE DEF h
    <3>4. step[u][h] = IF u = {} THEN first ELSE BitmapOr(h[u \ {Max(u)}], rest[Max(u)].bits)
      BY <3>2
    <3> HIDE DEF step, I
    <3> QED BY <3>1, <3>3, <3>4
  <2>2. t = [u \in SUBSET I |-> IF u = {} THEN first ELSE BitmapOr(t[u \ {Max(u)}], rest[Max(u)].bits)]
    <3> HIDE DEF step, I
    <3> QED BY <1>6, <2>1
  <2> QED BY <1>2, <2>2
<1>8. Is(it)
  <2> HIDE DEF Is
  <2> QED BY <1>7 DEF it
<1>9. \A u \in SUBSET I : it[u] = IF u = {} THEN first ELSE BitmapOr(it[u \ {Max(u)}], rest[Max(u)].bits)
  <2> HIDE DEF step, I
  <2> QED BY <1>2, <1>8
<1> DEFINE Good(u) ==
             /\ it[u] \in Bitmaps
             /\ \A x : x \in Elements(it[u]) <=>
                  x \in Elements(first) \/ \E i \in u : x \in Elements(rest[i].bits)
           F == {u \in SUBSET I : ~ Good(u)}
<1> HIDE DEF step, Is
<1>10. F = {}
  <2> SUFFICES ASSUME F # {} PROVE FALSE
    OBVIOUS
  <2>1. PICK u \in F : Heads(n)[u] \cap F = {}
    <3>1. F \in SUBSET SUBSET I
      OBVIOUS
    <3> HIDE DEF F, I
    <3> QED BY <1>5, <3>1 DEF Nested
  <2>2. u \in SUBSET I /\ ~ Good(u)
    BY <2>1
  <2>3. CASE u = {}
    <3>1. it[u] = first
      BY <1>9, <2>2, <2>3
    <3>2. Good(u)
      BY <2>3, <3>1
    <3> QED BY <2>2, <3>2
  <2>4. CASE u # {}
    <3> DEFINE m == Max(u)
               r == u \ {m}
    <3>1. m \in u /\ rest[m].bits \in Bitmaps /\ r \in SUBSET I /\ Heads(n)[u] = {r}
      BY <1>3, <2>2, <2>4
    <3>2. it[u] = BitmapOr(it[r], rest[m].bits)
      BY <1>9, <2>2, <2>4
    <3>3. u = r \cup {m}
      BY <3>1
    <3> HIDE DEF r, m
    <3>4. Good(r)
      <4> HIDE DEF Good
      <4> QED BY <2>1, <3>1
    <3>5. it[u] \in Bitmaps /\ Elements(it[u]) = Elements(it[r]) \cup Elements(rest[m].bits)
      BY <3>1, <3>2, <3>4, OrIs
    <3>6. Good(u)
      BY <3>3, <3>4, <3>5
    <3> QED BY <2>2, <3>6
  <2> QED BY <2>3, <2>4
<1> HIDE DEF F
<1>11. Good(I)
  <2>1. I \in SUBSET I
    OBVIOUS
  <2>2. ~ Good(I) => I \in F
    <3> HIDE DEF Good, I
    <3> QED BY <2>1 DEF F
  <2> HIDE DEF Good, I
  <2> QED BY <1>10, <2>2
<1> HIDE DEF I
<1>12. b = it[I]
  BY <1>1, <1>2
<1>13. /\ b \in Bitmaps
       /\ \A x : x \in Elements(b) <=>
            x \in Elements(first) \/ \E i \in DOMAIN rest : x \in Elements(rest[i].bits)
  BY <1>2, <1>11, <1>12
<1> QED BY <1>13 DEF b

-----------------------------------------------------------------------------
(***************************************************************************)
(* Compiled filters.  What a filter compiles to is what the documents that *)
(* pass it are numbered.                                                   *)
(***************************************************************************)

\* An attribute index that files finite sets of ordinals.
Valued(af) ==
  \A field \in DOMAIN af.values : \A key \in DOMAIN af.values[field] :
    af.values[field][key] \in SUBSET Nat /\ IsFiniteSet(af.values[field][key])

\* The ordinals filed under the value of a condition.
Carrying(f, af) ==
  IF ValueKey(f.value) \in DOMAIN af.values[f.field] THEN af.values[f.field][ValueKey(f.value)] ELSE {}

\* What compiling a filter means, given what its parts compile to.
Means(f, parts, af, out) ==
  \/ /\ f.op = "eq" /\ f.field \in DOMAIN af.values /\ Scalar(f.value)
     /\ Elements(out.bits) = Carrying(f, af)
  \/ /\ f.op = "and" /\ \A i \in DOMAIN f.sub : parts[i].ok
     /\ f.sub # <<>>
     /\ \A x : x \in Elements(out.bits) <=> \A i \in DOMAIN f.sub : x \in Elements(parts[i].bits)
  \/ /\ f.op = "or" /\ \A i \in DOMAIN f.sub : parts[i].ok
     /\ \A x : x \in Elements(out.bits) <=> \E i \in DOMAIN f.sub : x \in Elements(parts[i].bits)

\* A filter compiles to a bitmap, which is that of its condition or made from those of its parts.
LEMMA CompiledIs ==
  ASSUME NEW f \in Filters, NEW parts \in Seq(Outcomes), DOMAIN parts = DOMAIN f.sub,
         NEW af, Valued(af)
  PROVE  LET out == Compiled(f, parts, af)
         IN  out \in Outcomes /\ (out.ok => Means(f, parts, af, out))
<1> DEFINE out == Compiled(f, parts, af)
           op == f.op
           whole == f.sub # <<>> /\ \A i \in DOMAIN f.sub : parts[i].ok
           leaf == op = "eq" /\ f.field \in DOMAIN af.values /\ Scalar(f.value)
           A == [ok |-> TRUE, bits |-> FoldLeft(LAMBDA acc, p : BitmapAnd(acc, p.bits), parts[1].bits, Tail(parts))]
           O == [ok |-> TRUE, bits |-> FoldLeft(LAMBDA acc, p : BitmapOr(acc, p.bits), NewBitmap, parts)]
           E == [ok |-> TRUE, bits |-> BitmapFrom(Carrying(f, af))]
<1>1. out = CASE leaf -> E [] op = "and" /\ whole -> A [] op = "or" /\ whole -> O [] OTHER -> NotCompiled
  BY DEF Compiled, Carrying
<1>2. CASE leaf
  <2>1. Carrying(f, af) \in SUBSET Nat /\ IsFiniteSet(Carrying(f, af))
    BY <1>2, FS_EmptySet DEF Valued, Carrying
  <2>2. BitmapFrom(Carrying(f, af)) \in Bitmaps /\ Elements(BitmapFrom(Carrying(f, af))) = Carrying(f, af)
    BY <2>1, FromIs
  <2>3. out = E
    <3> HIDE DEF A, O, E, whole, out
    <3> QED BY <1>1, <1>2
  <2>4. out.ok = TRUE /\ out.bits = BitmapFrom(Carrying(f, af)) /\ out \in Outcomes
    BY <2>2, <2>3 DEF Outcomes
  <2> HIDE DEF out
  <2>5. Means(f, parts, af, out)
    BY <1>2, <2>2, <2>4 DEF Means
  <2> QED BY <2>4, <2>5 DEF out
<1>3. CASE op = "and" /\ whole
  <2> DEFINE first == parts[1].bits
             rest == Tail(parts)
             b == FoldLeft(LAMBDA acc, p : BitmapAnd(acc, p.bits), first, rest)
             n == Len(parts)
  <2>1. n \in Nat /\ DOMAIN parts = 1..n /\ n > 0 /\ \A i \in 1..n : parts[i].ok
    <3>1. f.sub \in Seq(Filters) /\ f.sub # <<>>
      BY <1>3, FilterAssumption
    <3> DEFINE s == f.sub
    <3>2. Len(s) > 0 /\ DOMAIN s = 1..Len(s) /\ DOMAIN s = DOMAIN parts
      <4>1. s \in Seq(Filters) /\ s # <<>> /\ DOMAIN s = DOMAIN parts
        BY <3>1
      <4> HIDE DEF s
      <4> QED BY <4>1
    <3>3. Len(s) \in Nat /\ Len(parts) = Len(s)
      <4>1. s \in Seq(Filters)
        BY <3>1
      <4> HIDE DEF s
      <4> QED BY <3>2, <4>1
    <3> HIDE DEF s
    <3> QED BY <1>3, <3>2, <3>3
  <2>2. /\ rest \in Seq(Outcomes) /\ DOMAIN rest = 1..(n - 1)
        /\ \A i \in 1..(n - 1) : rest[i] = parts[i + 1]
    BY <2>1
  <2>3. first \in Bitmaps
    <3>1. parts[1] \in Outcomes
      BY <2>1
    <3> QED BY <3>1 DEF Outcomes
  <2> HIDE DEF first, rest, n
  <2>4. b \in Bitmaps /\ \A x : x \in Elements(b) <=>
                           x \in Elements(first) /\ \A i \in DOMAIN rest : x \in Elements(rest[i].bits)
    BY <2>2, <2>3, AndFold
  <2>5. out = [ok |-> TRUE, bits |-> b]
    <3>1. out = A
      <4> HIDE DEF A, O, E, whole, out
      <4> QED BY <1>1, <1>3
    <3> QED BY <3>1 DEF first, rest
  <2>6. out.ok = TRUE /\ out.bits = b /\ out \in Outcomes
    <3> HIDE DEF b
    <3> QED BY <2>4, <2>5 DEF Outcomes
  <2> HIDE DEF out, b
  <2>7. ASSUME NEW x PROVE x \in Elements(b) <=> \A i \in DOMAIN f.sub : x \in Elements(parts[i].bits)
    <3>1. ASSUME x \in Elements(b), NEW i \in 1..n PROVE x \in Elements(parts[i].bits)
      <4>1. CASE i = 1
        BY <2>4, <3>1, <4>1 DEF first
      <4>2. CASE i # 1
        <5>1. i - 1 \in 1..(n - 1) /\ (i - 1) + 1 = i
          BY <2>1, <4>2
        <5>2. rest[i - 1] = parts[(i - 1) + 1]
          BY <2>2, <5>1
        <5> QED BY <2>2, <2>4, <3>1, <5>1, <5>2
      <4> QED BY <4>1, <4>2
    <3>2. ASSUME \A i \in 1..n : x \in Elements(parts[i].bits) PROVE x \in Elements(b)
      <4>1. x \in Elements(first)
        BY <2>1, <3>2 DEF first
      <4>2. ASSUME NEW i \in 1..(n - 1) PROVE x \in Elements(rest[i].bits)
        <5>1. i + 1 \in 1..n
          BY <2>1
        <5> QED BY <2>2, <3>2, <5>1
      <4> QED BY <2>2, <2>4, <4>1, <4>2
    <3> QED BY <2>1, <3>1, <3>2
  <2>8. Means(f, parts, af, out)
    BY <1>3, <2>6, <2>7 DEF Means
  <2> QED BY <2>6, <2>8 DEF out
<1>4. CASE op = "or" /\ whole
  <2> DEFINE b == FoldLeft(LAMBDA acc, p : BitmapOr(acc, p.bits), NewBitmap, parts)
  <2>1. b \in Bitmaps /\ \A x : x \in Elements(b) <=>
                           x \in Elements(NewBitmap) \/ \E i \in DOMAIN parts : x \in Elements(parts[i].bits)
    BY NewIs, OrFold
  <2>2. out = [ok |-> TRUE, bits |-> b]
    <3>1. out = O
      <4> HIDE DEF A, O, E, whole, out
      <4> QED BY <1>1, <1>4
    <3> QED BY <3>1
  <2>3. out.ok = TRUE /\ out.bits = b /\ out \in Outcomes
    <3> HIDE DEF b
    <3> QED BY <2>1, <2>2 DEF Outcomes
  <2> HIDE DEF out, b
  <2>4. \A x : x \in Elements(b) <=> \E i \in DOMAIN f.sub : x \in Elements(parts[i].bits)
    BY <2>1, NewIs
  <2>5. Means(f, parts, af, out)
    BY <1>4, <2>3, <2>4 DEF Means
  <2> QED BY <2>3, <2>5 DEF out
<1>5. CASE ~ leaf /\ ~ (op = "and" /\ whole) /\ ~ (op = "or" /\ whole)
  <2>1. out = NotCompiled
    <3> HIDE DEF A, O, E, whole, leaf, out
    <3> QED BY <1>1, <1>5
  <2> QED BY <2>1, NewIs DEF NotCompiled, Outcomes
<1> QED BY <1>2, <1>3, <1>4, <1>5

\* A filter compiles to what its operator makes of what its parts compile to.
LEMMA CompileIs ==
  ASSUME NEW af, Valued(af), NEW f \in Filters
  PROVE  LET parts == [i \in DOMAIN f.sub |-> CompileFilter(f.sub[i], af)]
         IN  /\ CompileFilter(f, af) = Compiled(f, parts, af)
             /\ CompileFilter(f, af) \in Outcomes /\ parts \in Seq(Outcomes)
<1> DEFINE Is(t) == t = [g \in Filters |-> Compiled(g, AtParts(g, t), af)]
           Of == CHOOSE t : Is(t)
           step == [g \in Filters |-> [h \in [Parts[g] -> Outcomes] |-> Compiled(g, AtParts(g, h), af)]]
           parts == [i \in DOMAIN f.sub |-> CompileFilter(f.sub[i], af)]
<1>1. \A g : CompileFilter(g, af) = Of[g]
  BY DEF CompileFilter, AtParts
<1> HIDE DEF Of
<1>2. ASSUME NEW g \in Filters, NEW h \in [Parts[g] -> Outcomes]
      PROVE  AtParts(g, h) \in Seq(Outcomes) /\ DOMAIN AtParts(g, h) = DOMAIN g.sub
  <2>1. g.sub \in Seq(Filters)
    BY FilterAssumption
  <2> DEFINE s == g.sub
             n == Len(s)
  <2>2. n \in Nat /\ DOMAIN s = 1..n
    <3>1. s \in Seq(Filters)
      BY <2>1
    <3> HIDE DEF s
    <3> QED BY <3>1
  <2>3. \A i \in DOMAIN s : s[i] \in Parts[g]
    BY PartsNested
  <2>4. AtParts(g, h) = [i \in DOMAIN s |-> h[s[i]]]
    BY DEF AtParts
  <2> HIDE DEF s, n
  <2>5. AtParts(g, h) \in [1..n -> Outcomes]
    BY <2>2, <2>3, <2>4
  <2>6. AtParts(g, h) \in Seq(Outcomes)
    BY <2>2, <2>5, FunctionIsSeq
  <2> QED BY <2>2, <2>5, <2>6 DEF s
<1>3. ASSUME NEW g \in Filters, NEW h \in [Parts[g] -> Outcomes]
      PROVE  step[g][h] = Compiled(g, AtParts(g, h), af) /\ step[g][h] \in Outcomes
  <2>1. step[g][h] = Compiled(g, AtParts(g, h), af)
    OBVIOUS
  <2> HIDE DEF step
  <2> QED BY <1>2, <2>1, CompiledIs
<1>4. PICK t \in [Filters -> Outcomes] : TableOf(t, Filters, Parts, step)
  <2> HIDE DEF step
  <2> QED BY <1>3, PartsNested, NestedTable
<1>5. Is(t)
  <2>1. ASSUME NEW g \in Filters PROVE t[g] = Compiled(g, AtParts(g, t), af)
    <3> DEFINE h == [x \in Parts[g] |-> t[x]]
    <3>1. t[g] = step[g][h]
      <4> HIDE DEF step
      <4> QED BY <1>4 DEF TableOf
    <3>2. Parts[g] \subseteq Filters
      BY PartsNested DEF Nested
    <3>3. h \in [Parts[g] -> Outcomes]
      BY <1>4, <3>2
    <3>4. AtParts(g, h) = AtParts(g, t)
      BY AtPartsSame
    <3> HIDE DEF h, step
    <3> QED BY <1>3, <3>1, <3>3, <3>4
  <2>2. t = [g \in Filters |-> t[g]]
    BY <1>4
  <2> QED BY <2>1, <2>2
<1>6. Is(Of)
  <2> HIDE DEF Is
  <2> QED BY <1>5 DEF Of
<1>7. Of[f] = Compiled(f, AtParts(f, Of), af)
  BY <1>6
<1>8. AtParts(f, Of) = parts
  BY <1>1 DEF AtParts
<1>9. ASSUME NEW g \in Filters PROVE Of[g] \in Outcomes
  <2> DEFINE F == {x \in Filters : Of[x] \notin Outcomes}
  <2>1. F = {}
    <3> SUFFICES ASSUME F # {} PROVE FALSE
      OBVIOUS
    <3>1. PICK x \in F : Parts[x] \cap F = {}
      <4>1. F \in SUBSET Filters
        OBVIOUS
      <4> HIDE DEF F
      <4> QED BY <4>1, PartsNested DEF Nested
    <3>2. x \in Filters /\ Of[x] \notin Outcomes
      BY <3>1
    <3> DEFINE h == [y \in Parts[x] |-> Of[y]]
    <3>3. h \in [Parts[x] -> Outcomes]
      <4>1. Parts[x] \subseteq Filters
        BY <3>2, PartsNested DEF Nested
      <4> QED BY <3>1, <4>1
    <3>4. AtParts(x, h) = AtParts(x, Of)
      BY <3>2, AtPartsSame
    <3>5. Of[x] = Compiled(x, AtParts(x, Of), af)
      BY <1>6, <3>2
    <3> HIDE DEF h, F, Is, step
    <3>6. AtParts(x, h) \in Seq(Outcomes) /\ DOMAIN AtParts(x, h) = DOMAIN x.sub
      BY <1>2, <3>2, <3>3
    <3>7. Compiled(x, AtParts(x, h), af) \in Outcomes
      BY <3>2, <3>6, CompiledIs
    <3> QED BY <3>2, <3>4, <3>5, <3>7
  <2> QED BY <2>1
<1>10. parts \in Seq(Outcomes)
  <2> DEFINE h == [y \in Parts[f] |-> Of[y]]
  <2>1. h \in [Parts[f] -> Outcomes]
    <3>1. Parts[f] \subseteq Filters
      BY PartsNested DEF Nested
    <3> QED BY <1>9, <3>1
  <2>2. AtParts(f, h) = AtParts(f, Of)
    BY AtPartsSame
  <2> HIDE DEF h
  <2> QED BY <1>2, <1>8, <2>1, <2>2
<1> HIDE DEF parts, Is, step
<1>11. CompileFilter(f, af) = Compiled(f, parts, af) /\ CompileFilter(f, af) \in Outcomes /\ parts \in Seq(Outcomes)
  BY <1>1, <1>7, <1>8, <1>9, <1>10
<1> QED BY <1>11 DEF parts

\* Two values are indexed under one key where a filter takes them to be equal.
LEMMA ValueKeyIs ==
  ASSUME NEW a, NEW b
  PROVE  ValueKey(a) = ValueKey(b) <=> EqualValues(a, b)
<1>1. Numeric(a) \in BOOLEAN /\ Numeric(b) \in BOOLEAN
  BY DEF Numeric
<1>2. /\ ValueKey(a) = <<Numeric(a), IF Numeric(a) THEN "" ELSE a.kind, a.v>>
      /\ ValueKey(b) = <<Numeric(b), IF Numeric(b) THEN "" ELSE b.kind, b.v>>
      /\ EqualValues(a, b) <=> Numeric(a) = Numeric(b) /\ a.v = b.v /\ (~ Numeric(a) => a.kind = b.kind)
  BY DEF ValueKey, EqualValues
<1> DEFINE na == Numeric(a)
           nb == Numeric(b)
           ka == IF na THEN "" ELSE a.kind
           kb == IF nb THEN "" ELSE b.kind
           va == a.v
           vb == b.v
<1>3. ValueKey(a) = ValueKey(b) <=> na = nb /\ ka = kb /\ va = vb
  <2>1. ValueKey(a) = <<na, ka, va>> /\ ValueKey(b) = <<nb, kb, vb>>
    BY <1>2
  <2> HIDE DEF na, nb, ka, kb, va, vb
  <2> QED BY <2>1
<1>4. na = nb => (ka = kb <=> (~ na => a.kind = b.kind))
  <2>1. CASE na = TRUE
    BY <2>1
  <2>2. CASE na = FALSE
    BY <2>2
  <2> QED BY <1>1, <2>1, <2>2
<1> HIDE DEF ka, kb
<1> QED BY <1>2, <1>3, <1>4

\* Values that a filter takes to be equal are both scalars or both lists.
LEMMA EqualScalars ==
  ASSUME NEW a, NEW b, EqualValues(a, b), Scalar(b)
  PROVE  Scalar(a)
<1>1. Numeric(a) = Numeric(b) /\ (~ Numeric(a) => a.kind = b.kind)
  BY DEF EqualValues
<1>2. CASE Numeric(a)
  BY <1>2 DEF Numeric, Scalar
<1>3. CASE ~ Numeric(a)
  BY <1>1, <1>3 DEF Scalar
<1> QED BY <1>2, <1>3

\* The documents that a condition holds of, by their numbers.
Meeting(f, ds, ords) ==
  {o \in DOMAIN ords : f.field \in DOMAIN ds[ords[o]] /\ EqualValues(ds[ords[o]][f.field], f.value)}

\* What the attribute index of some documents numbers and files.
LEMMA AttributeIndexIs ==
  ASSUME NEW ds, IsFiniteSet(DOMAIN ds), DOMAIN ds \subseteq Nat, NEW co
  PROVE  LET af == BuildAttributeIndex(ds, co)
             N == Cardinality(DOMAIN ds)
         IN  /\ N \in Nat /\ DOMAIN af.ords = 1..N /\ af.ords \in Seq(DOMAIN ds) /\ Len(af.ords) = N
             /\ \A o \in 1..N : af.ords[o] \in DOMAIN ds
             /\ \A o, p \in 1..N : af.ords[o] = af.ords[p] => o = p
             /\ \A id \in DOMAIN ds : \E o \in 1..N : af.ords[o] = id
             /\ \A o \in 1..N : af.clusterOf[o] = IF af.ords[o] \in DOMAIN co THEN co[af.ords[o]] ELSE 0
             /\ Valued(af)
             /\ \A f : f.field \in DOMAIN af.values /\ Scalar(f.value) => Carrying(f, af) = Meeting(f, ds, af.ords)
<1> DEFINE af == BuildAttributeIndex(ds, co)
           N == Cardinality(DOMAIN ds)
           ords == Ascending(DOMAIN ds)
           Fields == UNION {DOMAIN ds[id] : id \in DOMAIN ds} \ {TextField}
           Carriers(field) == {o \in DOMAIN ords :
                                 field \in DOMAIN ds[ords[o]] /\ Scalar(ds[ords[o]][field])}
           Key(field, o) == ValueKey(ds[ords[o]][field])
           Keys(field) == {Key(field, o) : o \in Carriers(field)}
           IsIndexed(field) ==
             LET n == Cardinality(Keys(field))
             IN  n > 0 /\ (n <= MinFieldCardinality \/ n <= Len(ords) \div 2)
           cl == [o \in DOMAIN ords |-> IF ords[o] \in DOMAIN co THEN co[ords[o]] ELSE 0]
           values == [field \in {f \in Fields : IsIndexed(f)} |->
                        [key \in Keys(field) |-> {o \in Carriers(field) : Key(field, o) = key}]]
<1>1. af = [ords |-> ords, clusterOf |-> cl, values |-> values]
  BY DEF BuildAttributeIndex
<1>2. DOMAIN ds \subseteq Int
  OBVIOUS
<1>3. /\ N \in Nat /\ DOMAIN ords = 1..N
      /\ \A n \in 1..N : ords[n] \in DOMAIN ds
      /\ \A m, n \in 1..N : ords[m] = ords[n] => m = n
      /\ \A x \in DOMAIN ds : \E n \in 1..N : ords[n] = x
  BY <1>2, AscendingIs
<1>4. /\ DOMAIN values = {f \in Fields : IsIndexed(f)}
      /\ \A field \in DOMAIN values : values[field] = [key \in Keys(field) |-> {o \in Carriers(field) : Key(field, o) = key}]
  <2> HIDE DEF Fields, Carriers, Key, Keys, IsIndexed
  <2> QED OBVIOUS
<1>5. af.ords = ords /\ af.clusterOf = cl /\ af.values = values
  <2> HIDE DEF ords, cl, values
  <2> QED BY <1>1
<1> HIDE DEF values, IsIndexed, Fields
<1>6. ords = [n \in 1..N |-> ords[n]]
  <2>1. ords = [n \in 1..N |-> CHOOSE x \in DOMAIN ds : Cardinality({y \in DOMAIN ds : y < x}) = n - 1]
    BY DEF Ascending, Ordered
  <2> DEFINE g(n) == CHOOSE x \in DOMAIN ds : Cardinality({y \in DOMAIN ds : y < x}) = n - 1
  <2>2. ords = [n \in 1..N |-> g(n)]
    BY <2>1
  <2> HIDE DEF ords, g
  <2> QED BY <2>2
<1>7. \A o \in 1..N : cl[o] = IF ords[o] \in DOMAIN co THEN co[ords[o]] ELSE 0
  BY <1>3
<1> HIDE DEF af, ords, cl, N
<1>8. ords \in Seq(DOMAIN ds) /\ Len(ords) = N
  <2> DEFINE X == DOMAIN ds
  <2>1. ords \in [1..N -> X] /\ N \in Nat
    BY <1>3, <1>6
  <2> HIDE DEF X
  <2>2. ords \in Seq(X) /\ Len(ords) = N
    BY ONLY <2>1
  <2> QED BY <2>2 DEF X
<1>9. ASSUME NEW field \in DOMAIN values, NEW key \in DOMAIN values[field]
      PROVE  values[field][key] \in SUBSET Nat /\ IsFiniteSet(values[field][key])
  <2>1. values[field][key] \subseteq DOMAIN ords
    <3> DEFINE v == values[field]
    <3>1. v = [k \in Keys(field) |-> {o \in Carriers(field) : Key(field, o) = k}]
      BY <1>4
    <3>2. \A o \in Carriers(field) : o \in DOMAIN ords
      OBVIOUS
    <3>3. key \in DOMAIN v
      OBVIOUS
    <3> HIDE DEF v, Keys, Carriers, Key
    <3>4. v[key] = {o \in Carriers(field) : Key(field, o) = key}
      BY <3>1, <3>3
    <3>5. \A o \in v[key] : o \in DOMAIN ords
      BY <3>2, <3>4
    <3> QED BY <3>5 DEF v
  <2>2. IsFiniteSet(1..N)
    <3>1. N \in Int /\ 1 \in Int
      BY <1>3
    <3> QED BY ONLY <3>1, FS_Interval
  <2>3. values[field][key] \in SUBSET (1..N)
    BY <1>3, <2>1
  <2>4. IsFiniteSet(values[field][key])
    BY <2>2, <2>3, FS_Subset
  <2>5. 1..N \subseteq Nat
    BY <1>3
  <2> QED BY <2>3, <2>4, <2>5
<1>10. Valued(af)
  BY <1>5, <1>9 DEF Valued
<1>11. ASSUME NEW f, f.field \in DOMAIN values, Scalar(f.value)
       PROVE  Carrying(f, af) = Meeting(f, ds, ords)
  <2> DEFINE field == f.field
             key == ValueKey(f.value)
             C == Carrying(f, af)
             v == values[field]
  <2>1. v = [k \in Keys(field) |-> {o \in Carriers(field) : Key(field, o) = k}]
    BY <1>4, <1>11
  <2>2. C = IF key \in DOMAIN v THEN v[key] ELSE {}
    BY <1>5 DEF Carrying
  <2>3. \A o : o \in Meeting(f, ds, ords) <=>
                 o \in DOMAIN ords /\ field \in DOMAIN ds[ords[o]] /\ EqualValues(ds[ords[o]][field], f.value)
    BY DEF Meeting
  <2> HIDE DEF v, C, field, key
  <2>4. ASSUME NEW o PROVE o \in C <=> o \in Carriers(field) /\ Key(field, o) = key
    <3>1. DOMAIN v = Keys(field) /\ \A k \in Keys(field) : v[k] = {x \in Carriers(field) : Key(field, x) = k}
      <4> HIDE DEF Keys, Carriers, Key
      <4> QED BY <2>1
    <3>2. CASE key \in Keys(field)
      <4> HIDE DEF Keys, Carriers, Key
      <4> QED BY <2>2, <3>1, <3>2
    <3>3. CASE key \notin Keys(field)
      <4>1. ~ (o \in Carriers(field) /\ Key(field, o) = key)
        <5> HIDE DEF Carriers, Key
        <5> QED BY <3>3
      <4>2. C = {}
        BY <2>2, <3>1, <3>3
      <4> QED BY <4>1, <4>2
    <3> QED BY <3>2, <3>3
  <2>5. ASSUME NEW o \in DOMAIN ords
        PROVE  o \in Carriers(field) /\ Key(field, o) = key <=>
                 field \in DOMAIN ds[ords[o]] /\ EqualValues(ds[ords[o]][field], f.value)
    <3> DEFINE a == ds[ords[o]][field]
    <3>1. Key(field, o) = key <=> EqualValues(a, f.value)
      BY ValueKeyIs DEF key
    <3>2. EqualValues(a, f.value) => Scalar(a)
      BY <1>11, EqualScalars
    <3>3. o \in Carriers(field) <=> field \in DOMAIN ds[ords[o]] /\ Scalar(a)
      OBVIOUS
    <3> HIDE DEF Carriers, Key, a
    <3> QED BY <3>1, <3>2, <3>3 DEF a
  <2>6. \A o : o \in Carriers(field) => o \in DOMAIN ords
    OBVIOUS
  <2> HIDE DEF Carriers, Key
  <2>7. \A o : o \in C <=> o \in Meeting(f, ds, ords)
    BY <2>3, <2>4, <2>5, <2>6
  <2>8. C = Meeting(f, ds, ords)
    BY <2>7
  <2> QED BY <2>8 DEF C
<1> HIDE DEF Carriers, Key, Keys
<1>12. /\ N \in Nat /\ DOMAIN af.ords = 1..N
       /\ \A o \in 1..N : af.ords[o] \in DOMAIN ds
       /\ \A o, p \in 1..N : af.ords[o] = af.ords[p] => o = p
       /\ \A id \in DOMAIN ds : \E o \in 1..N : af.ords[o] = id
  BY <1>3, <1>5
<1>13. af.ords \in Seq(DOMAIN ds) /\ Len(af.ords) = N
  BY <1>5, <1>8
<1>14. \A o \in 1..N : af.clusterOf[o] = IF af.ords[o] \in DOMAIN co THEN co[af.ords[o]] ELSE 0
  BY <1>5, <1>7
<1>15. \A f : f.field \in DOMAIN af.values /\ Scalar(f.value) => Carrying(f, af) = Meeting(f, ds, af.ords)
  BY <1>5, <1>11
<1> QED BY <1>10, <1>12, <1>13, <1>14, <1>15 DEF af, N

\* The numbers of the documents that pass a filter.
Matching(f, ds, ords) == {o \in DOMAIN ords : Match(f, ds[ords[o]])}

(***************************************************************************)
(* A filter that compiles gives exactly the documents that it matches: by  *)
(* induction on the parts of a filter (compileFilter, Filter.Match).       *)
(***************************************************************************)
THEOREM CompileExact ==
  ASSUME NEW ds, IsFiniteSet(DOMAIN ds), DOMAIN ds \subseteq Nat, NEW co, NEW f \in Filters
  PROVE  LET af == BuildAttributeIndex(ds, co)
         IN  /\ CompileFilter(f, af) \in Outcomes
             /\ CompileFilter(f, af).ok => Elements(CompileFilter(f, af).bits) = Matching(f, ds, af.ords)
<1> DEFINE af == BuildAttributeIndex(ds, co)
           ords == af.ords
           out(g) == CompileFilter(g, af)
           Exact(g) == out(g).ok => Elements(out(g).bits) = Matching(g, ds, ords)
           F == {g \in Filters : ~ Exact(g)}
<1>1. /\ Valued(af)
      /\ \A g : g.field \in DOMAIN af.values /\ Scalar(g.value) => Carrying(g, af) = Meeting(g, ds, ords)
  BY AttributeIndexIs
<1> HIDE DEF af, ords
<1>2. ASSUME NEW g \in Filters
      PROVE  LET parts == [i \in DOMAIN g.sub |-> out(g.sub[i])]
             IN  /\ out(g) \in Outcomes
                 /\ out(g).ok => Means(g, parts, af, out(g))
  <2> DEFINE parts == [i \in DOMAIN g.sub |-> out(g.sub[i])]
  <2>1. out(g) = Compiled(g, parts, af) /\ out(g) \in Outcomes /\ parts \in Seq(Outcomes)
    BY <1>1, CompileIs
  <2>2. DOMAIN parts = DOMAIN g.sub
    OBVIOUS
  <2> HIDE DEF parts, out
  <2>3. Compiled(g, parts, af).ok => Means(g, parts, af, Compiled(g, parts, af))
    BY <1>1, <2>1, <2>2, CompiledIs
  <2> QED BY <2>1, <2>3 DEF parts
<1>3. F = {}
  <2> SUFFICES ASSUME F # {} PROVE FALSE
    OBVIOUS
  <2>1. PICK g \in F : Parts[g] \cap F = {}
    <3>1. F \in SUBSET Filters
      OBVIOUS
    <3> HIDE DEF F
    <3> QED BY <3>1, PartsNested DEF Nested
  <2>2. g \in Filters /\ ~ Exact(g)
    BY <2>1
  <2> DEFINE parts == [i \in DOMAIN g.sub |-> out(g.sub[i])]
             I == DOMAIN g.sub
             M == Matching(g, ds, ords)
             holds(i, o) == Match(g.sub[i], ds[ords[o]])
  <2>3. out(g).ok /\ Elements(out(g).bits) # M
    BY <2>2
  <2>4. Means(g, parts, af, out(g))
    BY <1>2, <2>2, <2>3
  <2>5. ASSUME NEW i \in I PROVE parts[i] = out(g.sub[i]) /\ Exact(g.sub[i])
    <3>1. g.sub[i] \in Filters /\ g.sub[i] \in Parts[g]
      BY <2>2, PartsNested
    <3>2. g.sub[i] \notin F
      BY <2>1, <3>1
    <3> QED BY <3>1, <3>2
  <2>6. ASSUME NEW i \in I, parts[i].ok
        PROVE  \A x : x \in Elements(parts[i].bits) <=> x \in DOMAIN ords /\ holds(i, x)
    <3>1. Elements(parts[i].bits) = Matching(g.sub[i], ds, ords)
      BY <2>5, <2>6
    <3> HIDE DEF parts
    <3> QED BY <3>1 DEF Matching
  <2>7. ASSUME NEW o
        PROVE  /\ Match(g, ds[ords[o]]) \in BOOLEAN
               /\ g.op = "eq" => (Match(g, ds[ords[o]]) <=>
                    g.field \in DOMAIN ds[ords[o]] /\ EqualValues(ds[ords[o]][g.field], g.value))
               /\ g.op = "and" => (Match(g, ds[ords[o]]) <=> \A i \in I : holds(i, o))
               /\ g.op = "or" => (Match(g, ds[ords[o]]) <=> \E i \in I : holds(i, o))
    <3> DEFINE below == [i \in I |-> holds(i, o)]
               attrs == ds[ords[o]]
    <3>1. Match(g, attrs) = Holding(g, below, attrs)
      BY <2>2, MatchIs
    <3>2. \A i \in I : below[i] = holds(i, o)
      OBVIOUS
    <3> HIDE DEF below
    <3>3. /\ Holding(g, below, attrs) \in BOOLEAN
          /\ g.op = "eq" => (Holding(g, below, attrs) <=>
               g.field \in DOMAIN attrs /\ EqualValues(attrs[g.field], g.value))
          /\ g.op = "and" => (Holding(g, below, attrs) <=> \A i \in I : below[i])
          /\ g.op = "or" => (Holding(g, below, attrs) <=> \E i \in I : below[i])
      BY HoldingIs
    <3> HIDE DEF holds
    <3> QED BY <3>1, <3>2, <3>3
  <2>8. \A x : x \in M <=> x \in DOMAIN ords /\ Match(g, ds[ords[x]])
    BY DEF Matching
  <2> DEFINE S == Elements(out(g).bits)
  <2>9. S # M
    BY <2>3
  <2> HIDE DEF M, S, F
  <2>10. CASE /\ g.op = "eq" /\ g.field \in DOMAIN af.values /\ Scalar(g.value)
              /\ S = Carrying(g, af)
    <3>1. S = Meeting(g, ds, ords)
      BY <1>1, <2>10
    <3>2. \A x : x \in S <=> x \in M
      BY <2>7, <2>8, <2>10, <3>1 DEF Meeting
    <3> QED BY <2>9, <3>2
  <2>11. CASE /\ g.op = "and" /\ \A i \in I : parts[i].ok
              /\ g.sub # <<>>
              /\ \A x : x \in S <=> \A i \in I : x \in Elements(parts[i].bits)
    <3>1. \E i : i \in I
      <4>1. g.sub \in Seq(Filters) /\ g.sub # <<>>
        BY <2>2, <2>11, FilterAssumption
      <4> DEFINE s == g.sub
      <4>2. s \in Seq(Filters) /\ s # <<>>
        BY <4>1
      <4> HIDE DEF s
      <4>3. 1 \in DOMAIN s
        BY <4>2
      <4> QED BY <4>3 DEF s
    <3> HIDE DEF parts, I, holds
    <3>2. \A x : x \in S <=> x \in DOMAIN ords /\ \A i \in I : holds(i, x)
      BY <2>6, <2>11, <3>1
    <3>3. \A x : x \in S <=> x \in M
      BY <2>7, <2>8, <2>11, <3>2
    <3> QED BY <2>9, <3>3
  <2>12. CASE /\ g.op = "or" /\ \A i \in I : parts[i].ok
              /\ \A x : x \in S <=> \E i \in I : x \in Elements(parts[i].bits)
    <3> HIDE DEF parts, I, holds
    <3>2. \A x : x \in S <=> x \in DOMAIN ords /\ \E i \in I : holds(i, x)
      BY <2>6, <2>12
    <3>3. \A x : x \in S <=> x \in M
      BY <2>7, <2>8, <2>12, <3>2
    <3> QED BY <2>9, <3>3
  <2> QED BY <2>4, <2>10, <2>11, <2>12 DEF Means, S
<1>4. Exact(f)
  <2>1. ~ Exact(f) => f \in F
    <3> HIDE DEF Exact
    <3> QED OBVIOUS
  <2> HIDE DEF Exact, F
  <2> QED BY <1>3, <2>1
<1> HIDE DEF F
<1>5. out(f) \in Outcomes
  BY <1>2
<1> QED BY <1>4, <1>5 DEF af, ords

-----------------------------------------------------------------------------
(***************************************************************************)
(* Plans.  A plan wants every indexed document that passes the filter, so  *)
(* reading by the plan finds what reading without it finds.                *)
(***************************************************************************)

\* A document lies in the cluster that files it.
LEMMA ClusterOfIs ==
  ASSUME NEW cs, NEW S, Partition(cs, S), Listed(cs)
  PROVE  /\ DOMAIN ClusterOf(cs) = S
         /\ \A c \in DOMAIN cs : \A id \in Names(cs[c].members) : ClusterOf(cs)[id] = c
<1> DEFINE D == UNION {MembersOf(cs[c]) : c \in DOMAIN cs}
           Homes(id) == {c \in DOMAIN cs : id \in MembersOf(cs[c])}
<1>1. ClusterOf(cs) = [id \in D |-> Max(Homes(id))]
  BY DEF ClusterOf
<1>2. \A c : MembersOf(cs[c]) = Names(cs[c].members)
  BY DEF MembersOf, Names
<1>3. D = S
  <2>1. \A x : x \in D <=> \E c \in DOMAIN cs : x \in Names(cs[c].members)
    BY <1>2
  <2> HIDE DEF D
  <2> QED BY <2>1 DEF Partition
<1>4. ASSUME NEW c \in DOMAIN cs, NEW id \in Names(cs[c].members) PROVE id \in S /\ Max(Homes(id)) = c
  <2>1. Homes(id) = {c}
    BY <1>2 DEF Partition
  <2>2. PICK n \in Nat : DOMAIN cs = 1..n
    BY DEF Listed
  <2> HIDE DEF Homes
  <2>3. Homes(id) \in SUBSET (1..n) /\ Homes(id) # {}
    BY <2>1, <2>2
  <2>4. Max(Homes(id)) \in Homes(id)
    BY <2>3, MaxIs
  <2>5. id \in S
    BY DEF Partition
  <2> QED BY <2>1, <2>4, <2>5
<1> HIDE DEF D, Homes
<1> QED BY <1>1, <1>3, <1>4

\* A plan wants every member that passes its filter, where it lies.
LEMMA PlanIs ==
  ASSUME SnapshotInv, epoch # NoEpoch, NEW f \in Filters
  PROVE  LET plan == PlanVectorQuery(f, epoch.attrs)
         IN  /\ plan.usable = FALSE => plan.filterFirst = FALSE
             /\ plan.usable \in BOOLEAN
             /\ plan.usable =>
                  /\ plan.clusters \subseteq DOMAIN epoch.clusters
                  /\ \A c \in DOMAIN epoch.clusters : \A m \in Members(c) :
                       m.id \notin tail /\ Match(f, m.attrs) => c \in plan.clusters /\ <<c, m.id>> \in plan.wanted
<1> DEFINE cs == epoch.clusters
           plan == PlanVectorQuery(f, epoch.attrs)
           af == epoch.attrs
           co == ClusterOf(cs)
           compiled == CompileFilter(f, af)
           inCluster == {o \in Elements(compiled.bits) : af.clusterOf[o] > 0}
<1>1. PICK old : Indexed(old)
  BY DEF SnapshotInv
<1> DEFINE ds == AttrsOf(old)
           N == Cardinality(DOMAIN ds)
<1>2. af = BuildAttributeIndex(ds, co)
  <2>1. epoch = ObjectsOver(cs, old)
    BY <1>1 DEF Indexed
  <2>2. ObjectsOver(cs, old).attrs = BuildAttributeIndex(ds, co)
    BY DEF ObjectsOver
  <2> QED BY <2>1, <2>2
<1>3. DOMAIN ds = DOMAIN old /\ \A id \in DOMAIN old : ds[id] = old[id].attrs
  BY DEF AttrsOf
<1>4. IsFiniteSet(DOMAIN ds) /\ DOMAIN ds \subseteq Nat
  BY <1>1, <1>3, SnapshotFinite DEF Indexed
<1>5. EpochOK
  BY DEF SnapshotInv, IInv
<1>6. Filing(cs) = WithVector(old) /\ WithVector(old) \subseteq DOMAIN old /\ DOMAIN old \subseteq Ids
      /\ \A id \in Ids \ tail : SameDoc(docs, old, id)
  BY <1>1 DEF Indexed, Written, WithVector
<1>7. Partition(cs, Filing(cs)) /\ Listed(cs) /\ Current(cs, docs, Filing(cs) \ tail)
  BY <1>5 DEF EpochOK, Filed
<1>8. /\ DOMAIN co = Filing(cs)
      /\ \A c \in DOMAIN cs : \A id \in Names(cs[c].members) : co[id] = c
  BY <1>7, ClusterOfIs
<1>9. PICK n \in Nat : DOMAIN cs = 1..n
  BY <1>7 DEF Listed
<1>10. plan = IF f.op \in {"", "all"} \/ ~ compiled.ok THEN NoPlan
              ELSE [usable |-> TRUE,
                    filterFirst |-> Selective(compiled.bits, af),
                    wanted |-> {<<af.clusterOf[o], af.ords[o]>> : o \in inCluster},
                    clusters |-> {af.clusterOf[o] : o \in inCluster}]
  BY DEF PlanVectorQuery
<1> HIDE DEF plan, af, co, ds
<1>11. /\ DOMAIN af.ords = 1..N
       /\ \A o \in 1..N : af.ords[o] \in DOMAIN ds
       /\ \A id \in DOMAIN ds : \E o \in 1..N : af.ords[o] = id
       /\ \A o \in 1..N : af.clusterOf[o] = IF af.ords[o] \in DOMAIN co THEN co[af.ords[o]] ELSE 0
  <2> DEFINE b == BuildAttributeIndex(ds, co)
  <2>1. /\ DOMAIN b.ords = 1..N
        /\ \A o \in 1..N : b.ords[o] \in DOMAIN ds
        /\ \A id \in DOMAIN ds : \E o \in 1..N : b.ords[o] = id
        /\ \A o \in 1..N : b.clusterOf[o] = IF b.ords[o] \in DOMAIN co THEN co[b.ords[o]] ELSE 0
    BY <1>4, AttributeIndexIs
  <2> HIDE DEF b, N
  <2> QED BY <1>2, <2>1 DEF b
<1>12. /\ compiled \in Outcomes
       /\ compiled.ok => Elements(compiled.bits) = Matching(f, ds, af.ords)
  BY <1>2, <1>4, CompileExact
<1>13. compiled.ok \in BOOLEAN
  BY <1>12 DEF Outcomes
<1> HIDE DEF N, compiled, cs
<1>14. CASE f.op \in {"", "all"} \/ ~ compiled.ok
  <2>1. plan = NoPlan
    BY <1>10, <1>14
  <2> QED BY <2>1 DEF NoPlan, plan, af
<1>15. CASE ~ (f.op \in {"", "all"} \/ ~ compiled.ok)
  <2>1. /\ plan.usable = TRUE
        /\ plan.wanted = {<<af.clusterOf[o], af.ords[o]>> : o \in inCluster}
        /\ plan.clusters = {af.clusterOf[o] : o \in inCluster}
    BY <1>10, <1>15
  <2>2. \A o : o \in inCluster <=> o \in DOMAIN af.ords /\ Match(f, ds[af.ords[o]]) /\ af.clusterOf[o] > 0
    BY <1>12, <1>15 DEF Matching
  <2> HIDE DEF inCluster
  <2>3. ASSUME NEW o \in inCluster PROVE af.clusterOf[o] \in DOMAIN cs
    <3>1. o \in 1..N /\ af.clusterOf[o] > 0
      BY <1>11, <2>2
    <3>2. af.ords[o] \in DOMAIN co /\ af.clusterOf[o] = co[af.ords[o]]
      <4>1. ~ (0 > 0)
        OBVIOUS
      <4> QED BY <1>11, <3>1, <4>1
    <3>3. af.ords[o] \in Filing(cs)
      BY <1>8, <3>2
    <3>4. PICK c \in DOMAIN cs : af.ords[o] \in Names(cs[c].members)
      BY <3>3 DEF Filing
    <3> QED BY <1>8, <3>2, <3>4
  <2>4. plan.clusters \subseteq DOMAIN cs
    BY <2>1, <2>3
  <2>5. ASSUME NEW c \in DOMAIN cs, NEW m \in Members(c), m.id \notin tail, Match(f, m.attrs)
        PROVE  c \in plan.clusters /\ <<c, m.id>> \in plan.wanted
    <3>1. PICK j \in DOMAIN cs[c].members : m = cs[c].members[j]
      BY DEF Members, cs
    <3>2. m.id \in Names(cs[c].members)
      BY <3>1 DEF Names
    <3>3. m.id \in Filing(cs)
      BY <3>2 DEF Filing
    <3>4. m.attrs = docs[m.id].attrs
      BY <1>7, <2>5, <3>1, <3>3 DEF Current
    <3>5. m.id \in DOMAIN old /\ m.id \in Ids
      BY <1>6, <3>3
    <3>6. docs[m.id] = old[m.id]
      <4>1. SameDoc(docs, old, m.id)
        BY <1>6, <2>5, <3>5
      <4> QED BY <3>5, <4>1 DEF SameDoc
    <3>7. m.attrs = ds[m.id]
      BY <1>3, <3>4, <3>5, <3>6
    <3>8. PICK o \in 1..N : af.ords[o] = m.id
      BY <1>3, <1>11, <3>5
    <3>9. af.clusterOf[o] = c
      BY <1>8, <1>11, <3>2, <3>3, <3>8
    <3>10. o \in inCluster
      <4>1. c > 0
        BY <1>9
      <4>2. o \in DOMAIN af.ords /\ Match(f, ds[af.ords[o]])
        BY <1>11, <2>5, <3>7, <3>8
      <4> QED BY <2>2, <3>9, <4>1, <4>2
    <3> QED BY <2>1, <3>8, <3>9, <3>10
  <2> QED BY <2>1, <2>4, <2>5 DEF plan, af, cs
<1> QED BY <1>14, <1>15

\* The values of a function on a finite set are finitely many.
LEMMA FiniteImage ==
  ASSUME NEW S, IsFiniteSet(S), NEW g, DOMAIN g = S
  PROVE  IsFiniteSet({g[x] : x \in S})
<1> DEFINE T == {g[x] : x \in S}
           h == [x \in S |-> g[x]]
<1>1. h \in Surjection(S, T)
  BY DEF Surjection
<1> HIDE DEF T, h
<1>2. IsFiniteSet(T)
  BY <1>1, FS_Surjection
<1> QED BY <1>2 DEF T

\* The clusters hold finitely many members.
LEMMA MembersFinite ==
  ASSUME IInv, epoch # NoEpoch
  PROVE  IsFiniteSet(AllMembers)
<1> DEFINE cs == epoch.clusters
<1>1. Filed(cs)
  BY DEF IInv, EpochOK
<1>2. PICK n \in Nat : DOMAIN cs = 1..n
  BY <1>1 DEF Filed, Listed
<1>3. \A k \in Nat : IsFiniteSet(1..k)
  <2> SUFFICES ASSUME NEW k \in Nat PROVE IsFiniteSet(1..k)
    OBVIOUS
  <2>1. k \in Int /\ 1 \in Int
    OBVIOUS
  <2> QED BY ONLY <2>1, FS_Interval
<1>4. ASSUME NEW c \in DOMAIN cs PROVE IsFiniteSet(Members(c))
  <2> DEFINE m == cs[c].members
  <2>1. PICK k \in Nat : DOMAIN m = 1..k
    BY <1>1 DEF Filed, Listed
  <2>2. Members(c) = {m[j] : j \in DOMAIN m}
    BY DEF Members
  <2> HIDE DEF m, cs
  <2>3. IsFiniteSet({m[j] : j \in DOMAIN m})
    BY <1>3, <2>1, FiniteImage
  <2> QED BY <2>2, <2>3
<1> DEFINE g == [c \in DOMAIN cs |-> Members(c)]
<1>5. IsFiniteSet({g[c] : c \in DOMAIN cs})
  <2>1. DOMAIN g = DOMAIN cs /\ IsFiniteSet(DOMAIN cs)
    BY <1>2, <1>3
  <2> HIDE DEF g, cs
  <2> QED BY <2>1, FiniteImage
<1>6. AllMembers = UNION {g[c] : c \in DOMAIN cs}
  BY DEF AllMembers
<1>7. \A T \in {g[c] : c \in DOMAIN cs} : IsFiniteSet(T)
  BY <1>4
<1> HIDE DEF g, cs
<1> QED BY <1>5, <1>6, <1>7, FS_UNION

\* What the members of a set give to the candidates, under the tail.
LEMMA OverlaidMembers ==
  ASSUME NEW A, NEW B, NEW q,
         \A m \in B : m.id \notin tail /\ Match(q.filter, m.attrs) => m \in A
  PROVE  Passing(q, Overlaid(B)) \subseteq Passing(q, Overlaid(A))
<1> DEFINE Hit(m) == [id |-> m.id, vec |-> m.vec, attrs |-> m.attrs]
<1>1. \A X : Overlaid(X) = {Hit(m) : m \in {x \in X : x.id \notin tail}} \cup FreshCandidates
  BY DEF Overlaid
<1>2. ASSUME NEW h \in Passing(q, Overlaid(B)) PROVE h \in Passing(q, Overlaid(A))
  <2>1. h \in Overlaid(B) /\ Match(q.filter, h.attrs)
    BY DEF Passing
  <2>2. CASE h \in FreshCandidates
    BY <1>1, <2>1, <2>2 DEF Passing
  <2>3. CASE h \notin FreshCandidates
    <3>1. PICK m \in B : m.id \notin tail /\ h = Hit(m)
      BY <1>1, <2>1, <2>3
    <3>2. h.attrs = m.attrs
      BY <3>1
    <3>3. m \in A
      BY <2>1, <3>1, <3>2
    <3>4. h \in Overlaid(A)
      BY <1>1, <3>1, <3>3
    <3> QED BY <2>1, <3>4 DEF Passing
  <2> QED BY <2>2, <2>3
<1> QED BY <1>2

\* A direct gathering finds every member that passes the filter.
LEMMA GatheredFirst ==
  ASSUME SnapshotInv, epoch # NoEpoch, NEW q \in Queries, Plan(q).filterFirst
  PROVE  /\ IndexCandidates(q, Plan(q)) = {FilterFirstCandidates(Plan(q))}
         /\ \A m \in AllMembers : m.id \notin tail /\ Match(q.filter, m.attrs) =>
              m \in FilterFirstCandidates(Plan(q))
<1> DEFINE plan == Plan(q)
<1>1. plan = PlanVectorQuery(q.filter, epoch.attrs) /\ q.filter \in Filters
  BY EpochAssumption DEF Plan
<1> HIDE DEF plan
<1>2. /\ plan.usable
      /\ plan.clusters \subseteq DOMAIN epoch.clusters
      /\ \A c \in DOMAIN epoch.clusters : \A m \in Members(c) :
           m.id \notin tail /\ Match(q.filter, m.attrs) => c \in plan.clusters /\ <<c, m.id>> \in plan.wanted
  BY <1>1, PlanIs DEF plan
<1>3. Fetched(q, plan) \subseteq DOMAIN epoch.clusters
  BY <1>2 DEF Fetched, plan
<1>4. IndexCandidates(q, plan) = {FilterFirstCandidates(plan)}
  BY <1>3 DEF IndexCandidates, plan
<1>5. ASSUME NEW m \in AllMembers, m.id \notin tail, Match(q.filter, m.attrs)
      PROVE  m \in FilterFirstCandidates(plan)
  <2>1. PICK c \in DOMAIN epoch.clusters : m \in Members(c)
    BY DEF AllMembers
  <2>2. c \in plan.clusters /\ <<c, m.id>> \in plan.wanted
    BY <1>2, <1>5, <2>1
  <2> QED BY <2>1, <2>2 DEF FilterFirstCandidates
<1> QED BY <1>4, <1>5 DEF plan

\* Whatever an uncut query without a plan finds that passes its filter, the plan finds.
LEMMA PlanFinds ==
  ASSUME SnapshotInv, NEW q \in Queries, KeepsAll(q, NoPlan),
         NEW planned \in IndexCandidates(q, Plan(q)), NEW plain \in IndexCandidates(q, NoPlan)
  PROVE  Passing(q, Overlaid(plain)) \subseteq Passing(q, Overlaid(planned))
<1> DEFINE plan == Plan(q)
           P == ToSet(ProbeClusters(epoch.tree, Centroids(epoch.clusters), q.pos, q.nProbe))
           limit == q.topK * ShortlistMultiplier
<1>1. CASE epoch = NoEpoch
  BY <1>1 DEF IndexCandidates
<1>2. CASE epoch # NoEpoch
  <2>1. Fetched(q, NoPlan) = P
    BY DEF Fetched, NoPlan
  <2>2. P \subseteq DOMAIN epoch.clusters
    <3> HIDE DEF P
    <3> QED BY <1>2, <2>1 DEF IndexCandidates
  <2>3. limit \in Nat
    BY EpochAssumption
  <2> HIDE DEF P, limit
  <2>4. Scanned(q, NoPlan) = UNION {Members(c) : c \in P}
    BY <2>1 DEF Scanned
  <2>5. Scanned(q, NoPlan) \subseteq AllMembers
    BY <2>2, <2>4 DEF AllMembers
  <2>6. IsFiniteSet(Scanned(q, NoPlan)) /\ Cardinality(Scanned(q, NoPlan)) \in Nat
        /\ Cardinality(Scanned(q, NoPlan)) <= limit
    <3>1. IsFiniteSet(AllMembers)
      BY <1>2, MembersFinite DEF SnapshotInv
    <3>2. IsFiniteSet(Scanned(q, NoPlan))
      BY <2>5, <3>1, FS_Subset
    <3> QED BY <1>2, <3>2, FS_CardinalityType DEF KeepsAll, limit
  <2>7. plain = Scanned(q, NoPlan)
    <3>1. IndexCandidates(q, NoPlan) = Shortlists(Scanned(q, NoPlan), limit)
      BY <1>2, <2>1, <2>2 DEF IndexCandidates, NoPlan, limit
    <3> QED BY <2>6, <3>1 DEF Shortlists
  <2>8. CASE plan.filterFirst
    <3>1. planned = FilterFirstCandidates(plan)
      BY <1>2, <2>8, GatheredFirst
    <3>2. \A m \in plain : m.id \notin tail /\ Match(q.filter, m.attrs) => m \in planned
      BY <1>2, <2>5, <2>7, <2>8, <3>1, GatheredFirst
    <3> QED BY <3>2, OverlaidMembers
  <2>9. CASE ~ plan.filterFirst
    <3>1. Fetched(q, plan) = {c \in P : plan.usable => c \in plan.clusters}
      BY <2>9 DEF Fetched, P
    <3>2. Scanned(q, plan) \subseteq Scanned(q, NoPlan)
      BY <2>4, <3>1 DEF Scanned
    <3>3. IsFiniteSet(Scanned(q, plan)) /\ Cardinality(Scanned(q, plan)) <= limit
      <4>1. IsFiniteSet(Scanned(q, plan)) /\ Cardinality(Scanned(q, plan)) <= Cardinality(Scanned(q, NoPlan))
        BY <2>6, <3>2, FS_Subset
      <4>2. Cardinality(Scanned(q, plan)) \in Nat
        BY <4>1, FS_CardinalityType
      <4> QED BY <2>3, <2>6, <4>1, <4>2
    <3>4. planned = Scanned(q, plan)
      <4>1. Fetched(q, plan) \subseteq DOMAIN epoch.clusters
        BY <2>2, <3>1
      <4>2. IndexCandidates(q, plan) = Shortlists(Scanned(q, plan), limit)
        BY <1>2, <2>9, <4>1 DEF IndexCandidates, limit
      <4> QED BY <3>3, <4>2 DEF Shortlists
    <3>5. ASSUME NEW m \in plain, m.id \notin tail, Match(q.filter, m.attrs) PROVE m \in planned
      <4>1. PICK c \in P : m \in Members(c)
        BY <2>4, <2>7
      <4>2. plan = PlanVectorQuery(q.filter, epoch.attrs) /\ q.filter \in Filters
        BY <1>2, EpochAssumption DEF Plan
      <4> HIDE DEF plan
      <4>3. plan.usable => c \in plan.clusters
        BY <1>2, <2>2, <3>5, <4>1, <4>2, PlanIs
      <4> QED BY <3>1, <3>4, <4>1, <4>3 DEF Scanned
    <3> QED BY <3>5, OverlaidMembers
  <2> QED BY <2>8, <2>9
<1> QED BY <1>1, <1>2

\* The invariant makes plans lose nothing.
LEMMA SnapshotPlans == SnapshotInv => PlanLosesNothing
<1> SUFFICES ASSUME SnapshotInv, NEW q \in Queries, KeepsAll(q, NoPlan),
                    NEW planned \in VectorQuery(q), NEW plain \in Answers(q, NoPlan)
             PROVE  /\ Len(planned) >= Len(plain)
                    /\ \A i \in DOMAIN plain :
                         Distance(q.pos, planned[i].vec) <= Distance(q.pos, plain[i].vec)
  BY DEF PlanLosesNothing
<1>1. PICK a \in IndexCandidates(q, Plan(q)) : planned = Ranked(q, Overlaid(a))
  BY DEF VectorQuery, Answers
<1>2. PICK b \in IndexCandidates(q, NoPlan) : plain = Ranked(q, Overlaid(b))
  BY DEF Answers
<1>3. Passing(q, Overlaid(b)) \subseteq Passing(q, Overlaid(a))
  BY PlanFinds
<1>4. IInv /\ q.pos \in Int /\ q.topK \in Nat
  BY QueryIs DEF SnapshotInv
<1>5. Overlaid(a) \in SUBSET Live /\ Overlaid(b) \in SUBSET Live
  BY <1>4, CandidatesIs, OverlaidIs
<1>6. /\ Len(plain) <= Len(planned)
      /\ \A i \in DOMAIN plain :
           /\ i \in DOMAIN planned
           /\ Distance(q.pos, planned[i].vec) <= Distance(q.pos, plain[i].vec)
  BY <1>1, <1>2, <1>3, <1>4, <1>5, MoreHits
<1>7. Len(planned) \in Nat /\ Len(plain) \in Nat
  <2>1. planned \in Seq(Live) /\ plain \in Seq(Live)
    BY <1>1, <1>2, <1>4, <1>5, RankedIs
  <2> QED BY <2>1
<1> QED BY <1>6, <1>7

(***************************************************************************)
(* A plan only ever helps: where the shortlist without it is not cut, the  *)
(* planned answer is rank by rank at least as near and at least as long    *)
(* (planVectorQuery, vectorCandidatesFromIndex).                           *)
(***************************************************************************)
THEOREM PlanSound == Spec => []PlanLosesNothing
BY SnapshotInvariant, SnapshotPlans, PTL

\* What a scan of all live documents looks at, under the filter.
LEMMA OverlaidAll ==
  ASSUME IInv, epoch # NoEpoch, NEW q, NEW A \in SUBSET AllMembers,
         \A m \in AllMembers : m.id \notin tail /\ Match(q.filter, m.attrs) => m \in A
  PROVE  Passing(q, Overlaid(A)) = Passing(q, Live)
<1> DEFINE cs == epoch.clusters
<1>1. Overlaid(A) \subseteq Live
  BY OverlaidIs
<1>2. EpochOK
  BY DEF IInv
<1>3. ASSUME NEW h \in Live, Match(q.filter, h.attrs) PROVE h \in Overlaid(A)
  <2>1. PICK id \in WithVector(docs) : h = [id |-> id, vec |-> docs[id].vec, attrs |-> docs[id].attrs]
    BY DEF Live
  <2>2. CASE id \in tail
    <3>1. h \in FreshCandidates
      BY <2>1, <2>2 DEF FreshCandidates
    <3> QED BY <3>1 DEF Overlaid
  <2>3. CASE id \notin tail
    <3>1. id \in Filing(cs)
      BY <1>2, <2>3 DEF EpochOK
    <3>2. PICK c \in DOMAIN cs : \E j \in DOMAIN cs[c].members : id = cs[c].members[j].id
      BY <3>1 DEF Filing, Names
    <3>3. PICK j \in DOMAIN cs[c].members : id = cs[c].members[j].id
      BY <3>2
    <3> DEFINE m == cs[c].members[j]
    <3>4. m.id = id /\ m.vec = docs[id].vec /\ m.attrs = docs[id].attrs
      <4>1. Current(cs, docs, Filing(cs) \ tail)
        BY <1>2 DEF EpochOK
      <4> QED BY <2>3, <3>1, <3>3, <4>1 DEF Current
    <3>5. m \in AllMembers
      BY DEF AllMembers, Members
    <3> HIDE DEF m
    <3>6. h.attrs = m.attrs /\ h = [id |-> m.id, vec |-> m.vec, attrs |-> m.attrs]
      BY <2>1, <3>4
    <3>7. m \in A
      BY <1>3, <2>3, <3>4, <3>5, <3>6
    <3> QED BY <2>3, <3>4, <3>6, <3>7 DEF Overlaid
  <2> QED BY <2>2, <2>3
<1> QED BY <1>1, <1>3 DEF Passing

\* A query that gathers its candidates directly answers what a scan of all live documents would.
FilterFirstExact ==
  \A q \in Queries : Plan(q).filterFirst => VectorQuery(q) = {Exhaustive(q)}

\* The invariant makes direct gathering exact.
LEMMA SnapshotFilterFirst == SnapshotInv => FilterFirstExact
<1> SUFFICES ASSUME SnapshotInv, NEW q \in Queries, Plan(q).filterFirst PROVE VectorQuery(q) = {Exhaustive(q)}
  BY DEF FilterFirstExact
<1>1. epoch # NoEpoch
  BY DEF Plan, NoPlan
<1> DEFINE c == FilterFirstCandidates(Plan(q))
<1>2. /\ IndexCandidates(q, Plan(q)) = {c}
      /\ \A m \in AllMembers : m.id \notin tail /\ Match(q.filter, m.attrs) => m \in c
  BY <1>1, GatheredFirst
<1>3. c \in SUBSET AllMembers
  <2> HIDE DEF c
  <2> QED BY <1>2, CandidatesIs
<1> HIDE DEF c
<1>4. Passing(q, Overlaid(c)) = Passing(q, Live)
  BY <1>1, <1>2, <1>3, OverlaidAll DEF SnapshotInv
<1>5. Ranked(q, Overlaid(c)) = Ranked(q, Live)
  BY <1>4 DEF Ranked
<1>6. Exhaustive(q) = Ranked(q, Live)
  BY DEF Exhaustive, Live
<1> QED BY <1>2, <1>5, <1>6 DEF VectorQuery, Answers

(***************************************************************************)
(* A filter that is resolved first makes a vector query exact, however few *)
(* clusters it asks to probe (filterFirstCandidates).                      *)
(***************************************************************************)
THEOREM FilteredExact == Spec => []FilterFirstExact
BY SnapshotInvariant, SnapshotFilterFirst, PTL

-----------------------------------------------------------------------------
(***************************************************************************)
(* The centroid tree.  Its buckets are sets of clusters, and the groups of *)
(* a bucket share it out.                                                  *)
(***************************************************************************)

\* Groups: at least two non-empty buckets, apart from each other, that make up the bucket.
Divides(gs, bucket) ==
  /\ Len(gs) \in Nat /\ Len(gs) >= 2 /\ DOMAIN gs = 1..Len(gs)
  /\ \A j \in DOMAIN gs : /\ gs[j].centroid \in Int
                          /\ gs[j].bucket # {} /\ gs[j].bucket \subseteq bucket
  /\ \A i, j \in DOMAIN gs : i # j => gs[i].bucket \cap gs[j].bucket = {}
  /\ \A x \in bucket : \E j \in DOMAIN gs : x \in gs[j].bucket

\* The points of a bucket.
LEMMA BucketPoints ==
  ASSUME NEW c \in Seq(Int), NEW b \in SUBSET DOMAIN c
  PROVE  /\ IsFiniteSet(b) /\ b \subseteq Nat \ {0} /\ Cardinality(b) \in Nat
         /\ Selected(c, b) \in [1..Cardinality(b) -> Int]
<1>1. DOMAIN c = 1..Len(c) /\ Len(c) \in Nat
  OBVIOUS
<1>2. IsFiniteSet(1..Len(c))
  BY <1>1, FS_Interval
<1>3. IsFiniteSet(b) /\ b \subseteq Nat \ {0}
  BY <1>1, <1>2, FS_Subset
<1>4. /\ Cardinality(b) \in Nat /\ DOMAIN Ascending(b) = 1..Cardinality(b)
      /\ \A n \in 1..Cardinality(b) : Ascending(b)[n] \in b
  BY <1>3, AscendingIs
<1>5. Selected(c, b) = [n \in DOMAIN Ascending(b) |-> c[Ascending(b)[n]]]
  BY DEF Selected, Picked
<1>6. \A i \in b : c[i] \in Int
  OBVIOUS
<1> DEFINE o == Ascending(b)
           N == Cardinality(b)
<1> HIDE DEF o, N
<1>7. [n \in DOMAIN o |-> c[o[n]]] \in [1..N -> Int]
  BY <1>4, <1>6 DEF o, N
<1> QED BY <1>3, <1>4, <1>5, <1>7 DEF o, N

\* What k-means makes of the points of a bucket of two or more.
LEMMA GroupsIs ==
  ASSUME NEW c \in Seq(Int), NEW b \in SUBSET DOMAIN c, Cardinality(b) >= 2
  PROVE  Divides(Groups(b, KMeans(Selected(c, b), TreeFanout)), b)
<1> DEFINE n == Cardinality(b)
           p == Selected(c, b)
           km == KMeans(p, TreeFanout)
           o == Ascending(b)
           Bucket(x) == {o[i] : i \in InCluster(km.assign, x)}
           all == [x \in DOMAIN km.centroids |-> [centroid |-> km.centroids[x], bucket |-> Bucket(x)]]
<1>1. n \in Nat /\ n >= 2 /\ p \in [1..n -> Int] /\ IsFiniteSet(b) /\ b \subseteq Int
  BY BucketPoints
<1>2. /\ \A i \in 1..n : o[i] \in b
      /\ \A i, j \in 1..n : o[i] = o[j] => i = j
      /\ \A x \in b : \E i \in 1..n : o[i] = x
  BY <1>1, AscendingIs
<1>3. Groups(b, km) = Selected(all, {x \in DOMAIN all : all[x].bucket # {}})
  BY DEF Groups
<1> HIDE DEF n, p, o
<1>4. PICK k \in 1..n : /\ k >= TreeFanout \/ k = n
                        /\ km \in KState(n, k) /\ Full(km.assign, k)
  <2>1. n \in Nat \ {0} /\ TreeFanout \in Nat
    BY <1>1, TreeAssumption
  <2> QED BY <1>1, <2>1, KMeansIs
<1>5. k \in Nat /\ k >= 2
  BY <1>1, <1>4, TreeAssumption
<1> HIDE DEF km
<1>6. km.centroids \in [1..k -> Int] /\ km.assign \in [1..n -> 1..k]
  BY <1>4 DEF KState
<1>7. \A x \in 1..k : InCluster(km.assign, x) = {i \in 1..n : km.assign[i] = x}
  BY <1>6 DEF InCluster
<1>8. ASSUME NEW x \in 1..k PROVE Bucket(x) # {} /\ Bucket(x) \subseteq b
  <2>1. InCluster(km.assign, x) # {}
    BY <1>4 DEF Full
  <2> QED BY <1>2, <1>7, <2>1
<1>9. ASSUME NEW x \in 1..k, NEW y \in 1..k, x # y PROVE Bucket(x) \cap Bucket(y) = {}
  <2> SUFFICES ASSUME NEW i \in InCluster(km.assign, x), NEW j \in InCluster(km.assign, y), o[i] = o[j]
               PROVE  FALSE
    OBVIOUS
  <2>1. i \in 1..n /\ j \in 1..n /\ km.assign[i] = x /\ km.assign[j] = y
    BY <1>7
  <2> QED BY <1>2, <1>9, <2>1
<1>10. ASSUME NEW x \in b PROVE \E y \in 1..k : x \in Bucket(y)
  <2>1. PICK i \in 1..n : o[i] = x
    BY <1>2
  <2>2. km.assign[i] \in 1..k /\ i \in InCluster(km.assign, km.assign[i])
    BY <1>6, <1>7
  <2> QED BY <2>1, <2>2
<1> DEFINE X == {[centroid |-> km.centroids[x], bucket |-> Bucket(x)] : x \in 1..k}
<1> HIDE DEF Bucket
<1>11. DOMAIN all = 1..k /\ \A x \in 1..k : all[x].centroid \in Int /\ all[x].bucket = Bucket(x)
  BY <1>6
<1>12. all \in Seq(X) /\ Len(all) = k
  <2>1. all \in [1..k -> X]
    BY <1>6
  <2> HIDE DEF all, X
  <2> QED BY <1>5, <2>1, FunctionIsSeq
<1> HIDE DEF all, X
<1>13. {x \in DOMAIN all : all[x].bucket # {}} = 1..k
  BY <1>8, <1>11
<1> DEFINE gs == Groups(b, km)
<1>14. gs = Selected(all, 1..k)
  BY <1>3, <1>13
<1> HIDE DEF gs
<1>15. gs \in Seq(X) /\ \E r : Picks(gs, all, r, 1..k)
  BY <1>11, <1>12, <1>14, SelectedIs
<1>16. PICK r : Picks(gs, all, r, 1..k)
  BY <1>15
<1>17. /\ DOMAIN gs = DOMAIN r
       /\ \A j \in DOMAIN gs : r[j] \in 1..k /\ gs[j] = all[r[j]]
       /\ \A i, j \in DOMAIN gs : r[i] = r[j] => i = j
       /\ \A x \in 1..k : \E j \in DOMAIN gs : r[j] = x
  BY <1>16 DEF Picks
<1>18. DOMAIN gs = 1..Len(gs) /\ Len(gs) \in Nat
  BY <1>15
<1>19. Len(gs) >= 2
  <2>1. 1 \in 1..k /\ 2 \in 1..k
    BY <1>5
  <2>2. PICK i \in DOMAIN gs : r[i] = 1
    BY <1>17, <2>1
  <2>3. PICK j \in DOMAIN gs : r[j] = 2
    BY <1>17, <2>1
  <2>4. i # j
    BY <2>2, <2>3
  <2> QED BY <1>18, <2>4
<1>20. \A j \in DOMAIN gs : gs[j].centroid \in Int /\ gs[j].bucket = Bucket(r[j])
  BY <1>11, <1>17
<1>21. \A i, j \in DOMAIN gs : i # j => gs[i].bucket \cap gs[j].bucket = {}
  BY <1>9, <1>17, <1>20
<1>22. ASSUME NEW x \in b PROVE \E j \in DOMAIN gs : x \in gs[j].bucket
  <2>1. PICK y \in 1..k : x \in Bucket(y)
    BY <1>10
  <2>2. PICK j \in DOMAIN gs : r[j] = y
    BY <1>17
  <2> QED BY <1>20, <2>1, <2>2
<1>23. \A j \in DOMAIN gs : gs[j].bucket # {} /\ gs[j].bucket \subseteq b
  BY <1>8, <1>17, <1>20
<1>24. Divides(gs, b)
  BY <1>18, <1>19, <1>20, <1>21, <1>22, <1>23 DEF Divides
<1> QED BY <1>24 DEF gs, km, p

\* A group is smaller than the bucket.
LEMMA GroupSmaller ==
  ASSUME NEW b, IsFiniteSet(b), NEW gs, Divides(gs, b), NEW j \in DOMAIN gs
  PROVE  /\ gs[j].bucket \in SUBSET b /\ gs[j].bucket # {}
         /\ Cardinality(gs[j].bucket) \in Nat /\ Cardinality(gs[j].bucket) < Cardinality(b)
<1> DEFINE g == gs[j].bucket
<1>1. g \in SUBSET b /\ g # {}
  BY DEF Divides
<1>2. \E i \in DOMAIN gs : i # j
  <2>1. 1 \in DOMAIN gs /\ 2 \in DOMAIN gs
    BY DEF Divides
  <2>2. CASE j = 1
    BY <2>1, <2>2
  <2>3. CASE j # 1
    BY <2>1, <2>3
  <2> QED BY <2>2, <2>3
<1>3. PICK i \in DOMAIN gs : i # j
  BY <1>2
<1>4. g # b
  BY <1>3 DEF Divides
<1> HIDE DEF g
<1>5. /\ IsFiniteSet(g) /\ Cardinality(g) <= Cardinality(b)
      /\ Cardinality(b) = Cardinality(g) => b = g
  BY <1>1, FS_Subset
<1>6. Cardinality(g) \in Nat /\ Cardinality(b) \in Nat
  BY <1>5, FS_CardinalityType
<1>7. Cardinality(g) < Cardinality(b)
  BY <1>4, <1>5, <1>6
<1> QED BY <1>1, <1>6, <1>7 DEF g

\* A table of the nodes of all buckets.
Grown(t, c) == t = [b \in SUBSET DOMAIN c |-> NodeOver(c, b, t)]

\* A node depends on those of smaller buckets only.
LEMMA NodeOverSame ==
  ASSUME NEW c \in Seq(Int), NEW b \in SUBSET DOMAIN c, NEW t, NEW u,
         \A g \in SUBSET b : g # {} /\ Cardinality(g) < Cardinality(b) => t[g] = u[g]
  PROVE  NodeOver(c, b, t) = NodeOver(c, b, u)
<1> DEFINE gs == Groups(b, KMeans(Selected(c, b), TreeFanout))
           Small == Cardinality(b) <= TreeLeafCapacity \/ Cardinality(b) <= 1
<1>1. IsFiniteSet(b) /\ Cardinality(b) \in Nat
  BY BucketPoints
<1>2. CASE Small
  BY <1>2 DEF NodeOver
<1>3. CASE ~ Small
  <2>1. Divides(gs, b)
    BY <1>1, <1>3, GroupsIs
  <2>2. NodeOver(c, b, t) = InnerNode(c, b, gs, t) /\ NodeOver(c, b, u) = InnerNode(c, b, gs, u)
    BY <1>3 DEF NodeOver
  <2> HIDE DEF gs
  <2>3. ASSUME NEW j \in DOMAIN gs PROVE t[gs[j].bucket] = u[gs[j].bucket]
    BY <1>1, <2>1, GroupSmaller
  <2> DEFINE Under(v) == [j \in DOMAIN gs |-> [v[gs[j].bucket] EXCEPT !.centroid = gs[j].centroid]]
             Inner(v) == IF Len(gs) <= 1 THEN NewLeaf(c, b)
                         ELSE [centroid |-> MeanOf(c, b), cluster |-> 0, children |-> Under(v)]
  <2>4. Under(t) = Under(u)
    BY <2>3
  <2>5. InnerNode(c, b, gs, t) = Inner(t) /\ InnerNode(c, b, gs, u) = Inner(u)
    BY DEF InnerNode
  <2> HIDE DEF Under
  <2> QED BY <2>2, <2>4, <2>5
<1> QED BY <1>2, <1>3

\* There is such a table.
LEMMA TreeExists ==
  ASSUME NEW c \in Seq(Int)
  PROVE  \E t : Grown(t, c)
<1> DEFINE B == SUBSET DOMAIN c
           UpToCard(t, n) == \A b \in B : Cardinality(b) <= n => t[b] = NodeOver(c, b, t)
           T == {n \in Nat : \E t : UpToCard(t, n)}
<1>1. \A b \in B : IsFiniteSet(b) /\ Cardinality(b) \in Nat
  BY BucketPoints
<1>2. ASSUME NEW n \in Nat, NEW t, \A b \in B : Cardinality(b) < n => t[b] = NodeOver(c, b, t)
      PROVE  \E u : UpToCard(u, n)
  <2> DEFINE u == [b \in B |-> IF Cardinality(b) < n THEN t[b] ELSE NodeOver(c, b, t)]
  <2>1. \A b \in B : u[b] = NodeOver(c, b, t)
    BY <1>2
  <2>2. \A b \in B : Cardinality(b) < n => u[b] = t[b]
    OBVIOUS
  <2> HIDE DEF u
  <2>3. ASSUME NEW b \in B, Cardinality(b) <= n PROVE u[b] = NodeOver(c, b, u)
    <3>1. ASSUME NEW g \in SUBSET b, g # {}, Cardinality(g) < Cardinality(b) PROVE t[g] = u[g]
      <4>1. g \in B /\ Cardinality(g) \in Nat /\ Cardinality(b) \in Nat
        BY <1>1
      <4>2. Cardinality(g) < n
        BY <2>3, <3>1, <4>1
      <4> QED BY <2>2, <4>1, <4>2
    <3>2. NodeOver(c, b, t) = NodeOver(c, b, u)
      <4> HIDE DEF B
      <4>1. b \in SUBSET DOMAIN c
        BY DEF B
      <4> QED BY <3>1, <4>1, NodeOverSame
    <3> QED BY <2>1, <3>2
  <2> QED BY <2>3
<1>3. 0 \in T
  <2>1. \A b \in B : ~ (Cardinality(b) < 0)
    BY <1>1
  <2>2. \A b \in B : Cardinality(b) < 0 => {}[b] = NodeOver(c, b, {})
    BY <2>1
  <2> HIDE DEF UpToCard, B
  <2>3. \E u : UpToCard(u, 0)
    BY <1>2, <2>2
  <2> QED BY <2>3
<1>4. ASSUME NEW n \in Nat, n \in T PROVE n+1 \in T
  <2>1. PICK t : UpToCard(t, n)
    BY <1>4
  <2>2. \A b \in B : Cardinality(b) < n+1 => t[b] = NodeOver(c, b, t)
    <3> SUFFICES ASSUME NEW b \in B, Cardinality(b) < n+1 PROVE t[b] = NodeOver(c, b, t)
      OBVIOUS
    <3>1. Cardinality(b) <= n
      BY <1>1
    <3> QED BY <2>1, <3>1
  <2> HIDE DEF UpToCard, B
  <2>3. \E u : UpToCard(u, n+1)
    BY <1>2, <2>2
  <2> QED BY <2>3
<1> HIDE DEF T, UpToCard
<1>5. \A n \in Nat : n \in T
  BY <1>3, <1>4, NatSetInduction
<1> DEFINE K == Cardinality(DOMAIN c)
<1>6. K \in Nat /\ IsFiniteSet(DOMAIN c)
  BY <1>1
<1> HIDE DEF K
<1>7. PICK t : UpToCard(t, K)
  BY <1>5, <1>6 DEF T
<1> DEFINE v == [b \in B |-> t[b]]
<1>8. ASSUME NEW b \in B PROVE t[b] = NodeOver(c, b, t)
  <2>1. Cardinality(b) <= K
    BY <1>6, FS_Subset DEF K
  <2> QED BY <1>7, <2>1 DEF UpToCard
<1>9. ASSUME NEW b \in B PROVE v[b] = NodeOver(c, b, v)
  <2>1. \A g \in SUBSET b : v[g] = t[g]
    OBVIOUS
  <2>2. NodeOver(c, b, t) = NodeOver(c, b, v)
    <3> HIDE DEF v
    <3>1. \A g \in SUBSET b : g # {} /\ Cardinality(g) < Cardinality(b) => t[g] = v[g]
      BY <2>1
    <3> QED BY <3>1, NodeOverSame
  <2> QED BY <1>8, <2>2
<1>10. v = [b \in B |-> v[b]]
  OBVIOUS
<1> HIDE DEF v
<1>11. v = [b \in B |-> NodeOver(c, b, v)]
  BY <1>9, <1>10
<1> QED BY <1>11 DEF Grown

\* What is built is the node of the bucket of all clusters.
LEMMA TreeIs ==
  ASSUME NEW c \in Seq(Int)
  PROVE  \E t : Grown(t, c) /\ BuildCentroidTree(c) = t[DOMAIN c]
<1> DEFINE t == CHOOSE t : Grown(t, c)
<1>1. Grown(t, c)
  BY TreeExists
<1>2. BuildCentroidTree(c) = t[DOMAIN c]
  BY DEF BuildCentroidTree, Grown
<1> QED BY <1>1, <1>2

\* A child has the contents of the node of its bucket, and the centroid of the split.
Routes(x, t, b) == /\ x.centroid \in Int
                   /\ x = [centroid |-> x.centroid, cluster |-> t[b].cluster, children |-> t[b].children]

\* The node of b has a child for every group of it.
Parents(t, b, gs) ==
  /\ Divides(gs, b)
  /\ t[b].children = [j \in DOMAIN gs |-> t[b].children[j]]
  /\ \A j \in DOMAIN gs : Routes(t[b].children[j], t, gs[j].bucket)

\* A node is a leaf of a small bucket, or has a child for every group.
LEMMA NodeIs ==
  ASSUME NEW c \in Seq(Int), NEW t, Grown(t, c), NEW b \in SUBSET DOMAIN c, b # {}
  PROVE  /\ Routes(t[b], t, b)
         /\ \/ /\ t[b].children = <<>> /\ t[b].cluster \in b
               /\ Cardinality(b) <= TreeLeafCapacity \/ Cardinality(b) <= 1
            \/ \E gs : Parents(t, b, gs)
<1> DEFINE gs == Groups(b, KMeans(Selected(c, b), TreeFanout))
           Small == Cardinality(b) <= TreeLeafCapacity \/ Cardinality(b) <= 1
           mean == MeanOf(c, b)
<1>1. IsFiniteSet(b) /\ Cardinality(b) \in Nat /\ b \subseteq Nat
  BY BucketPoints
<1>2. mean \in Int
  <2>1. \A i \in b : c[i] \in Int
    OBVIOUS
  <2> QED BY <1>1, <2>1, MeanInt
<1> HIDE DEF mean
<1>3. ASSUME NEW a \in SUBSET DOMAIN c
      PROVE  /\ t[a] = NodeOver(c, a, t)
             /\ \E x, y, z : t[a] = [centroid |-> x, cluster |-> y, children |-> z]
  <2>1. t[a] = NodeOver(c, a, t)
    BY DEF Grown
  <2> DEFINE ga == Groups(a, KMeans(Selected(c, a), TreeFanout))
  <2>2. t[a] = NewLeaf(c, a) \/ t[a] = InnerNode(c, a, ga, t)
    BY <2>1 DEF NodeOver
  <2> HIDE DEF ga
  <2> QED BY <2>1, <2>2 DEF NewLeaf, InnerNode
<1>4. CASE Small
  <2>1. t[b] = NewLeaf(c, b)
    BY <1>3, <1>4 DEF NodeOver
  <2>2. Min(b) \in b
    BY <1>1, MinIs
  <2>3. t[b] = [centroid |-> mean, cluster |-> Min(b), children |-> <<>>]
    BY <2>1 DEF NewLeaf, mean
  <2> QED BY <1>2, <1>4, <2>2, <2>3 DEF Routes
<1>5. CASE ~ Small
  <2>1. Divides(gs, b)
    BY <1>1, <1>5, GroupsIs
  <2>2. t[b] = InnerNode(c, b, gs, t)
    BY <1>3, <1>5 DEF NodeOver
  <2> HIDE DEF gs
  <2>3. ~ (Len(gs) <= 1)
    BY <2>1 DEF Divides
  <2> DEFINE ch == [j \in DOMAIN gs |-> [t[gs[j].bucket] EXCEPT !.centroid = gs[j].centroid]]
  <2>4. t[b] = [centroid |-> mean, cluster |-> 0, children |-> ch]
    BY <2>2, <2>3 DEF InnerNode, mean
  <2>5. ASSUME NEW j \in DOMAIN gs PROVE Routes(ch[j], t, gs[j].bucket)
    <3>1. gs[j].bucket \in SUBSET DOMAIN c /\ gs[j].centroid \in Int
      BY <2>1 DEF Divides
    <3>2. PICK x, y, z : t[gs[j].bucket] = [centroid |-> x, cluster |-> y, children |-> z]
      BY <1>3, <3>1
    <3>3. ch[j] = [[centroid |-> x, cluster |-> y, children |-> z] EXCEPT !.centroid = gs[j].centroid]
      BY <3>2
    <3>4. ch[j] = [centroid |-> gs[j].centroid, cluster |-> y, children |-> z]
      BY ONLY <3>3
    <3> HIDE DEF ch
    <3> QED BY <3>1, <3>2, <3>4 DEF Routes
  <2>6. ch = [j \in DOMAIN gs |-> ch[j]]
    OBVIOUS
  <2> HIDE DEF ch
  <2>7. Routes(t[b], t, b)
    BY <1>2, <2>4 DEF Routes
  <2>8. t[b].children = ch
    BY <2>4
  <2>9. Parents(t, b, gs)
    BY <2>1, <2>5, <2>6, <2>8 DEF Parents
  <2> QED BY <2>7, <2>9
<1> QED BY <1>4, <1>5

-----------------------------------------------------------------------------
(***************************************************************************)
(* The descent.  The nodes of a frontier have buckets apart from each      *)
(* other, and what a level leads to has the same clusters in its buckets.  *)
(***************************************************************************)

\* The nodes that a frontier may have.
NodesOf(t, c) ==
  {[centroid |-> x, cluster |-> t[b].cluster, children |-> t[b].children] : x \in Int, b \in SUBSET DOMAIN c}

\* The nodes of f share out the clusters in S, those with children having at most m each.
Shared(f, g, S, m, t, c) ==
  /\ f \in Seq(NodesOf(t, c)) /\ DOMAIN g = DOMAIN f
  /\ \A i \in DOMAIN f : /\ Routes(f[i], t, g[i]) /\ g[i] # {} /\ g[i] \subseteq S
                         /\ f[i].children # <<>> => Cardinality(g[i]) <= m
  /\ \A i, j \in DOMAIN f : i # j => g[i] \cap g[j] = {}
  /\ \A x \in S : \E i \in DOMAIN f : x \in g[i]

Sharing(f, S, m, t, c) == \E g : Shared(f, g, S, m, t, c)

\* A node that routes to a bucket is one of them.
LEMMA RoutesIn ==
  ASSUME NEW c, NEW t, NEW b \in SUBSET DOMAIN c, NEW x, Routes(x, t, b)
  PROVE  x \in NodesOf(t, c)
<1> DEFINE Node(y, d) == [centroid |-> y, cluster |-> t[d].cluster, children |-> t[d].children]
<1>1. x.centroid \in Int /\ x = Node(x.centroid, b)
  BY DEF Routes
<1>2. NodesOf(t, c) = {Node(y, d) : y \in Int, d \in SUBSET DOMAIN c}
  BY DEF NodesOf
<1> HIDE DEF Node
<1> QED BY <1>1, <1>2

\* What a node leads to shares out its bucket.
LEMMA DownShared ==
  ASSUME NEW c \in Seq(Int), NEW t, Grown(t, c), NEW b \in SUBSET DOMAIN c, b # {},
         NEW x, Routes(x, t, b), NEW m \in Nat, x.children # <<>> => Cardinality(b) <= m+1
  PROVE  Sharing(Down(x), b, m, t, c)
<1>1. x.children = t[b].children
  <2>1. x = [centroid |-> x.centroid, cluster |-> t[b].cluster, children |-> t[b].children]
    BY DEF Routes
  <2> QED BY ONLY <2>1
<1>0. x \in NodesOf(t, c)
  BY RoutesIn
<1>2. CASE x.children = <<>>
  <2> DEFINE g == <<b>>
             f == <<x>>
  <2>1. Down(x) = f
    BY <1>2 DEF Down, IsLeaf
  <2>2. f \in Seq(NodesOf(t, c)) /\ DOMAIN f = {1} /\ DOMAIN g = {1} /\ f[1] = x /\ g[1] = b
    BY <1>0
  <2> HIDE DEF f, g
  <2>3. Shared(f, g, b, m, t, c)
    BY <1>2, <2>2 DEF Shared
  <2> QED BY <2>1, <2>3 DEF Sharing
<1>3. CASE x.children # <<>>
  <2>0. PICK gs : Parents(t, b, gs)
    BY <1>1, <1>3, NodeIs
  <2>1. /\ Divides(gs, b)
        /\ t[b].children = [j \in DOMAIN gs |-> t[b].children[j]]
        /\ \A j \in DOMAIN gs : Routes(t[b].children[j], t, gs[j].bucket)
    BY <2>0 DEF Parents
  <2> DEFINE g == [j \in DOMAIN gs |-> gs[j].bucket]
             ch == t[b].children
  <2>2. Down(x) = ch
    BY <1>1, <1>3 DEF Down, IsLeaf
  <2>3. IsFiniteSet(b) /\ Cardinality(b) \in Nat
    BY BucketPoints
  <2>4. \A j \in DOMAIN gs : /\ g[j] \in SUBSET b /\ g[j] # {}
                             /\ Cardinality(g[j]) \in Nat /\ Cardinality(g[j]) < Cardinality(b)
    BY <2>1, <2>3, GroupSmaller
  <2>5. DOMAIN g = DOMAIN gs /\ ch = [j \in DOMAIN gs |-> ch[j]] /\ \A j \in DOMAIN gs : Routes(ch[j], t, g[j])
    BY <2>1
  <2>6. Len(gs) \in Nat /\ DOMAIN gs = 1..Len(gs)
    BY <2>1 DEF Divides
  <2>7. /\ \A i, j \in DOMAIN gs : i # j => g[i] \cap g[j] = {}
        /\ \A y \in b : \E i \in DOMAIN gs : y \in g[i]
    BY <2>1 DEF Divides
  <2> HIDE DEF g
  <2>8. \A j \in DOMAIN gs : ch[j] \in NodesOf(t, c)
    <3> SUFFICES ASSUME NEW j \in DOMAIN gs PROVE ch[j] \in NodesOf(t, c)
      OBVIOUS
    <3>1. g[j] \in SUBSET DOMAIN c /\ Routes(ch[j], t, g[j])
      BY <2>4, <2>5
    <3> QED BY <3>1, RoutesIn
  <2>9. ch \in Seq(NodesOf(t, c))
    <3> HIDE DEF ch
    <3>1. ch \in [1..Len(gs) -> NodesOf(t, c)]
      BY <2>5, <2>6, <2>8
    <3> QED BY <2>6, <3>1, FunctionIsSeq
  <2>10. \A j \in DOMAIN gs : Cardinality(g[j]) <= m
    BY <1>3, <2>3, <2>4
  <2> HIDE DEF ch
  <2>11. Shared(ch, g, b, m, t, c)
    BY <2>4, <2>5, <2>7, <2>9, <2>10 DEF Shared
  <2> QED BY <2>2, <2>11 DEF Sharing
<1> QED BY <1>2, <1>3

\* Two frontiers with nothing in common, one behind the other.
LEMMA JoinShared ==
  ASSUME NEW c, NEW t, NEW m, NEW S, NEW T, S \cap T = {}, NEW f, NEW h,
         Sharing(f, S, m, t, c), Sharing(h, T, m, t, c)
  PROVE  Sharing(f \o h, S \cup T, m, t, c)
<1>1. PICK g : Shared(f, g, S, m, t, c)
  BY DEF Sharing
<1>2. PICK k : Shared(h, k, T, m, t, c)
  BY DEF Sharing
<1> DEFINE X == NodesOf(t, c)
           N == Len(f)
           M == Len(h)
           u == f \o h
           w == [i \in 1..N+M |-> IF i <= N THEN g[i] ELSE k[i-N]]
<1>3. f \in Seq(X) /\ h \in Seq(X) /\ DOMAIN g = DOMAIN f /\ DOMAIN k = DOMAIN h
  BY <1>1, <1>2 DEF Shared
<1> HIDE DEF X
<1>4. /\ N \in Nat /\ M \in Nat /\ DOMAIN f = 1..N /\ DOMAIN h = 1..M
      /\ u \in Seq(X) /\ DOMAIN u = 1..N+M
      /\ \A i \in 1..N+M : u[i] = IF i <= N THEN f[i] ELSE h[i-N]
  BY <1>3
<1> HIDE DEF u, N, M
<1>5. ASSUME NEW i \in 1..N+M
      PROVE  \/ i \in 1..N /\ u[i] = f[i] /\ w[i] = g[i]
             \/ i - N \in 1..M /\ ~ (i <= N) /\ u[i] = h[i-N] /\ w[i] = k[i-N]
  <2>1. CASE i <= N
    BY <1>4, <2>1
  <2>2. CASE ~ (i <= N)
    <3>1. i - N \in 1..M
      BY <1>4, <2>2
    <3> QED BY <1>4, <2>2, <3>1
  <2> QED BY <2>1, <2>2
<1>6. /\ \A i \in 1..N : w[i] = g[i] /\ i \in 1..N+M
      /\ \A i \in 1..M : w[i+N] = k[i] /\ i+N \in 1..N+M
  <2>1. ASSUME NEW i \in 1..M PROVE w[i+N] = k[i] /\ i+N \in 1..N+M
    <3> DEFINE j == i+N
    <3>1. j \in 1..N+M /\ ~ (j <= N) /\ j-N = i
      BY <1>4
    <3> HIDE DEF j
    <3>2. w[j] = k[j-N]
      BY <3>1
    <3> QED BY <3>1, <3>2 DEF j
  <2>2. ASSUME NEW i \in 1..N PROVE w[i] = g[i] /\ i \in 1..N+M
    BY <1>4
  <2> QED BY <2>1, <2>2
<1>7. DOMAIN w = 1..N+M
  OBVIOUS
<1> HIDE DEF w
<1>8. ASSUME NEW i \in DOMAIN u
      PROVE  /\ Routes(u[i], t, w[i]) /\ w[i] # {} /\ w[i] \subseteq S \cup T
             /\ u[i].children # <<>> => Cardinality(w[i]) <= m
  <2>1. CASE i \in 1..N /\ u[i] = f[i] /\ w[i] = g[i]
    BY <1>1, <1>4, <2>1 DEF Shared
  <2>2. CASE i - N \in 1..M /\ u[i] = h[i-N] /\ w[i] = k[i-N]
    BY <1>2, <1>4, <2>2 DEF Shared
  <2> QED BY <1>4, <1>5, <2>1, <2>2
<1>9. ASSUME NEW i \in DOMAIN u, NEW j \in DOMAIN u, i # j PROVE w[i] \cap w[j] = {}
  <2>1. i \in 1..N+M /\ j \in 1..N+M /\ i \in Int /\ j \in Int /\ N \in Int
    BY <1>4
  <2>2. \A l \in 1..N : g[l] \subseteq S
    BY <1>1, <1>4 DEF Shared
  <2>3. \A l \in 1..M : k[l] \subseteq T
    BY <1>2, <1>4 DEF Shared
  <2>4. \A a, b \in 1..N : a # b => g[a] \cap g[b] = {}
    BY <1>1, <1>4 DEF Shared
  <2>5. \A a, b \in 1..M : a # b => k[a] \cap k[b] = {}
    BY <1>2, <1>4 DEF Shared
  <2>6. CASE i \in 1..N /\ w[i] = g[i]
    <3>1. CASE j \in 1..N /\ w[j] = g[j]
      BY <1>9, <2>4, <2>6, <3>1
    <3>2. CASE j - N \in 1..M /\ w[j] = k[j-N]
      BY <2>2, <2>3, <2>6, <3>2
    <3> QED BY <1>5, <2>1, <3>1, <3>2
  <2>7. CASE i - N \in 1..M /\ w[i] = k[i-N]
    <3>1. CASE j \in 1..N /\ w[j] = g[j]
      BY <2>2, <2>3, <2>7, <3>1
    <3>2. CASE j - N \in 1..M /\ w[j] = k[j-N]
      <4>1. i - N # j - N
        BY <1>9, <2>1
      <4> QED BY <2>5, <2>7, <3>2, <4>1
    <3> QED BY <1>5, <2>1, <3>1, <3>2
  <2> QED BY <1>5, <2>1, <2>6, <2>7
<1>10. ASSUME NEW x \in S \cup T PROVE \E i \in DOMAIN u : x \in w[i]
  <2>1. CASE x \in S
    <3>1. PICK i \in 1..N : x \in g[i]
      BY <1>1, <1>4, <2>1 DEF Shared
    <3> QED BY <1>4, <1>6, <3>1
  <2>2. CASE x \in T
    <3>1. PICK i \in 1..M : x \in k[i]
      BY <1>2, <1>4, <2>2 DEF Shared
    <3> QED BY <1>4, <1>6, <3>1
  <2> QED BY <2>1, <2>2
<1>11. u \in Seq(NodesOf(t, c)) /\ DOMAIN w = DOMAIN u
  BY <1>4, <1>7 DEF X
<1>12. Shared(u, w, S \cup T, m, t, c)
  BY <1>8, <1>9, <1>10, <1>11 DEF Shared
<1> QED BY <1>12 DEF Sharing, u

\* What the nodes of a frontier lead to shares out the same clusters.
LEMMA LevelShared ==
  ASSUME NEW c \in Seq(Int), NEW t, Grown(t, c), NEW S \in SUBSET DOMAIN c, NEW m \in Nat,
         NEW f, f # <<>>, Sharing(f, S, m+1, t, c)
  PROVE  Sharing(FlattenSeq([i \in DOMAIN f |-> Down(f[i])]), S, m, t, c)
<1>1. PICK g : Shared(f, g, S, m+1, t, c)
  BY DEF Sharing
<1> DEFINE N == Len(f)
           d(k) == [i \in 1..k |-> Down(f[i])]
           Up(k) == UNION {g[i] : i \in 1..k}
           T == {k \in Nat : k+1 <= N => Sharing(FlattenSeq(d(k+1)), Up(k+1), m, t, c)}
<1>2. N \in Nat /\ N # 0 /\ DOMAIN f = 1..N
  BY <1>1 DEF Shared
<1> HIDE DEF N
<1>3. ASSUME NEW k \in 1..N PROVE Sharing(Down(f[k]), g[k], m, t, c)
  <2>1. /\ Routes(f[k], t, g[k]) /\ g[k] # {} /\ g[k] \subseteq S
        /\ f[k].children # <<>> => Cardinality(g[k]) <= m+1
    BY <1>1, <1>2 DEF Shared
  <2>2. g[k] \in SUBSET DOMAIN c
    BY <2>1
  <2> QED BY <2>1, <2>2, DownShared
<1>4. 0 \in T
  <2> SUFFICES ASSUME 0+1 <= N PROVE Sharing(FlattenSeq(d(0+1)), Up(0+1), m, t, c)
    OBVIOUS
  <2>1. 1 \in 1..N /\ 0+1 = 1 /\ 1..1 = {1}
    BY <1>2
  <2>2. Len(d(1)) = 1 /\ d(1)[1] = Down(f[1])
    BY <2>1
  <2>3. FlattenSeq(d(1)) = Down(f[1])
    <3> HIDE DEF d
    <3> QED BY <2>2, FlattenSingle
  <2>4. Up(1) = g[1]
    BY <2>1
  <2> HIDE DEF d, Up
  <2> QED BY <1>3, <2>1, <2>3, <2>4
<1>5. ASSUME NEW k \in Nat, k \in T PROVE k+1 \in T
  <2> SUFFICES ASSUME k+1+1 <= N PROVE Sharing(FlattenSeq(d(k+1+1)), Up(k+1+1), m, t, c)
    OBVIOUS
  <2> DEFINE n == k+1
  <2>0. n \in Nat \ {0} /\ n+1 \in 1..N /\ n \in 1..N /\ n+1 <= N
    BY <1>2
  <2>1. Sharing(FlattenSeq(d(n)), Up(n), m, t, c)
    <3>1. k+1 <= N
      BY <1>2
    <3> HIDE DEF d, Up
    <3> QED BY <1>5, <3>1
  <2> HIDE DEF n
  <2>2. Len(d(n)) = n /\ Len(d(n+1)) = n+1 /\ d(n+1)[n+1] = Down(f[n+1])
    BY <2>0
  <2>3. \A i \in 1..n : d(n)[i] = d(n+1)[i]
    BY <2>0
  <2>4. FlattenSeq(d(n+1)) = FlattenSeq(d(n)) \o d(n+1)[n+1]
    <3> HIDE DEF d
    <3> QED BY <2>0, <2>2, <2>3, FlattenLast
  <2>5. Up(n+1) = Up(n) \cup g[n+1]
    <3>1. 1..n+1 = (1..n) \cup {n+1}
      BY <2>0
    <3> QED BY ONLY <3>1
  <2>6. Up(n) \cap g[n+1] = {}
    <3>1. \A i \in 1..n : g[i] \cap g[n+1] = {}
      <4>1. \A i \in 1..n : i \in DOMAIN f /\ n+1 \in DOMAIN f /\ i # n+1
        BY <1>2, <2>0
      <4> QED BY <1>1, <4>1 DEF Shared
    <3> QED BY <3>1
  <2>7. Sharing(d(n+1)[n+1], g[n+1], m, t, c)
    <3> HIDE DEF d
    <3> QED BY <1>3, <2>0, <2>2
  <2> HIDE DEF d, Up
  <2>8. Sharing(FlattenSeq(d(n+1)), Up(n+1), m, t, c)
    <3> DEFINE a == FlattenSeq(d(n))
               b == d(n+1)[n+1]
               V == Up(n)
               W == g[n+1]
    <3>1. Sharing(a, V, m, t, c) /\ Sharing(b, W, m, t, c) /\ V \cap W = {}
      BY <2>1, <2>6, <2>7
    <3> HIDE DEF a, b, V, W
    <3>2. Sharing(a \o b, V \cup W, m, t, c)
      BY <3>1, JoinShared
    <3> QED BY <2>4, <2>5, <3>2 DEF a, b, V, W
  <2> QED BY <2>8 DEF n
<1> HIDE DEF T
<1>6. \A k \in Nat : k \in T
  BY <1>4, <1>5, NatSetInduction
<1>7. Sharing(FlattenSeq(d(N)), Up(N), m, t, c)
  <2>1. N - 1 \in Nat /\ N - 1 + 1 = N /\ N - 1 + 1 <= N
    BY <1>2
  <2>2. N - 1 \in T
    BY <1>6, <2>1
  <2> HIDE DEF d, Up
  <2> QED BY <2>1, <2>2 DEF T
<1>8. d(N) = [i \in DOMAIN f |-> Down(f[i])]
  BY <1>2
<1>9. Up(N) = S
  <2>1. \A i \in 1..N : g[i] \subseteq S
    BY <1>1, <1>2 DEF Shared
  <2>2. \A x \in S : \E i \in 1..N : x \in g[i]
    BY <1>1, <1>2 DEF Shared
  <2> QED BY <2>1, <2>2
<1> HIDE DEF d, Up
<1> QED BY <1>7, <1>8, <1>9

\* Some of the nodes, in any order.
LEMMA PickShared ==
  ASSUME NEW c, NEW t, NEW m, NEW S, NEW f, NEW g, Shared(f, g, S, m, t, c),
         NEW h \in Seq(NodesOf(t, c)), NEW r, NEW I \in SUBSET DOMAIN f, Picks(h, f, r, I)
  PROVE  Sharing(h, UNION {g[i] : i \in I}, m, t, c)
<1> DEFINE w == [n \in DOMAIN h |-> g[r[n]]]
           V == UNION {g[i] : i \in I}
<1>1. /\ DOMAIN h = DOMAIN r
      /\ \A n \in DOMAIN r : r[n] \in I /\ h[n] = f[r[n]]
      /\ \A n, j \in DOMAIN r : r[n] = r[j] => n = j
      /\ \A i \in I : \E n \in DOMAIN r : r[n] = i
  BY DEF Picks
<1>2. \A n \in DOMAIN h : r[n] \in I /\ r[n] \in DOMAIN f /\ h[n] = f[r[n]] /\ w[n] = g[r[n]]
  BY <1>1
<1>3. DOMAIN w = DOMAIN h
  OBVIOUS
<1> HIDE DEF w
<1>4. ASSUME NEW n \in DOMAIN h
      PROVE  /\ Routes(h[n], t, w[n]) /\ w[n] # {} /\ w[n] \subseteq V
             /\ h[n].children # <<>> => Cardinality(w[n]) <= m
  <2>1. w[n] \subseteq V
    BY <1>2
  <2>2. r[n] \in DOMAIN f /\ h[n] = f[r[n]] /\ w[n] = g[r[n]]
    BY <1>2
  <2>3. /\ Routes(f[r[n]], t, g[r[n]]) /\ g[r[n]] # {}
        /\ f[r[n]].children # <<>> => Cardinality(g[r[n]]) <= m
    BY <2>2 DEF Shared
  <2> HIDE DEF V
  <2> QED BY <2>1, <2>2, <2>3
<1>5. ASSUME NEW i \in DOMAIN h, NEW j \in DOMAIN h, i # j PROVE w[i] \cap w[j] = {}
  <2>1. r[i] # r[j]
    BY <1>1, <1>5
  <2> QED BY <1>2, <2>1 DEF Shared
<1>6. ASSUME NEW x \in V PROVE \E n \in DOMAIN h : x \in w[n]
  <2>1. PICK i \in I : x \in g[i]
    OBVIOUS
  <2>2. PICK n \in DOMAIN h : r[n] = i
    BY <1>1
  <2> QED BY <1>2, <2>1, <2>2
<1> HIDE DEF V
<1>7. Shared(h, w, V, m, t, c)
  BY <1>3, <1>4, <1>5, <1>6 DEF Shared
<1> QED BY <1>7 DEF Sharing, V

\* Nodes in the order of their distance from a query.
InOrderOf(q, f) == Sorted(f, LAMBDA m, n : Nearer(q, m, n))

\* Sorting keeps the nodes.
LEMMA SortedNodes ==
  ASSUME NEW X, NEW f \in Seq(X), NEW q \in Int,
         \A i \in DOMAIN f : f[i].centroid \in Int /\ (f[i].children = <<>> => f[i].cluster \in Int)
  PROVE  /\ InOrderOf(q, f) \in Seq(X) /\ Len(InOrderOf(q, f)) = Len(f)
         /\ \E r : Picks(InOrderOf(q, f), f, r, DOMAIN f)
<1> DEFINE S == DOMAIN f
           D(i) == Distance(q, f[i].centroid)
           L(i) == f[i].children = <<>>
           C(i) == f[i].cluster
           Near(i, j) == D(i) < D(j) \/ (D(i) = D(j) /\ L(i) /\ (L(j) => C(i) < C(j)))
           Before(i, j) == \/ Nearer(q, f[i], f[j])
                           \/ i < j /\ ~ Nearer(q, f[j], f[i])
           R == {p \in S \X S : Before(p[1], p[2])}
           r == Ordered(S, Before)
           N == Cardinality(S)
           s == InOrderOf(q, f)
<1>1. /\ S = 1..Len(f) /\ Len(f) \in Nat /\ IsFiniteSet(S) /\ S \subseteq Int /\ N = Len(f)
      /\ \A i \in S : f[i] \in X /\ D(i) \in Int /\ (L(i) => C(i) \in Int)
  <2>1. S = 1..Len(f) /\ Len(f) \in Nat
    OBVIOUS
  <2> DEFINE n == Len(f)
  <2>2. IsFiniteSet(1..n) /\ Cardinality(1..n) = n
    <3>1. 1 \in Int /\ n \in Int /\ n \in Nat
      BY <2>1
    <3> HIDE DEF n
    <3>2. IsFiniteSet(1..n) /\ Cardinality(1..n) = IF 1 > n THEN 0 ELSE n - 1 + 1
      BY ONLY <3>1, FS_Interval
    <3> QED BY <3>1, <3>2
  <2>3. \A i \in S : f[i] \in X /\ D(i) \in Int
    <3> SUFFICES ASSUME NEW i \in S PROVE f[i] \in X /\ D(i) \in Int
      OBVIOUS
    <3>1. f[i].centroid \in Int
      OBVIOUS
    <3>2. f[i] \in X
      OBVIOUS
    <3>3. D(i) \in Nat
      BY <3>1, DistanceNat
    <3> QED BY <3>2, <3>3
  <2> QED BY <2>1, <2>2, <2>3
<1>2. \A i, j \in S : Nearer(q, f[i], f[j]) <=> Near(i, j)
  BY DEF Nearer, LeafFirst, IsLeaf
<1>3. s = [n \in DOMAIN r |-> f[r[n]]]
  BY DEF InOrderOf, Sorted, Picked
<1>4. r = [n \in 1..N |-> CHOOSE x \in S : Cardinality({y \in S : Before(y, x)}) = n - 1]
  BY DEF Ordered
<1> HIDE DEF S, r, D, L, C
<1>5. \A x, y \in S : <<x, y>> \in R <=> Before(x, y)
  OBVIOUS
<1>6. TotalOrder(R, S)
  <2>0. \A x, y \in S : Before(x, y) <=> \/ Near(x, y)
                                         \/ x < y /\ ~ Near(y, x)
    BY <1>2
  <2> HIDE DEF Before
  <2>1. ASSUME NEW x \in S PROVE ~ Before(x, x)
    <3>1. D(x) \in Int /\ x \in Int /\ (L(x) => C(x) \in Int)
      BY <1>1
    <3> QED BY ONLY <2>0, <3>1
  <2>2. ASSUME NEW x \in S, NEW y \in S, NEW z \in S, Before(x, y), Before(y, z) PROVE Before(x, z)
    <3>1. /\ D(x) \in Int /\ D(y) \in Int /\ D(z) \in Int /\ x \in Int /\ y \in Int /\ z \in Int
          /\ L(x) => C(x) \in Int
          /\ L(y) => C(y) \in Int
          /\ L(z) => C(z) \in Int
      BY <1>1
    <3>2. /\ Near(x, y) \/ (x < y /\ ~ Near(y, x))
          /\ Near(y, z) \/ (y < z /\ ~ Near(z, y))
      BY <2>0, <2>2
    <3>3. Near(x, z) \/ (x < z /\ ~ Near(z, x))
      BY ONLY <3>1, <3>2
    <3> QED BY <2>0, <3>3
  <2>3. ASSUME NEW x \in S, NEW y \in S PROVE x = y \/ Before(x, y) \/ Before(y, x)
    <3>1. /\ D(x) \in Int /\ D(y) \in Int /\ x \in Int /\ y \in Int
          /\ L(x) => C(x) \in Int
          /\ L(y) => C(y) \in Int
      BY <1>1
    <3>2. x = y \/ Near(x, y) \/ (x < y /\ ~ Near(y, x)) \/ Near(y, x) \/ (y < x /\ ~ Near(x, y))
      BY ONLY <3>1
    <3> QED BY <2>0, <3>2
  <2> HIDE DEF R
  <2> QED BY <1>5, <2>1, <2>2, <2>3 DEF TotalOrder
<1> HIDE DEF R, Before, s
<1>7. \A x \in S : {y \in S : Before(y, x)} = Below(R, S, x)
  BY <1>5 DEF Below
<1>8. InOrder(r, R, S)
  <2>1. ASSUME NEW n \in 1..N PROVE r[n] \in S /\ Cardinality(Below(R, S, r[n])) = n - 1
    <3>1. \E x \in S : Cardinality(Below(R, S, x)) = n - 1
      BY <1>1, <1>6, PlaceTaken
    <3>2. \E x \in S : Cardinality({y \in S : Before(y, x)}) = n - 1
      BY <1>7, <3>1
    <3>3. r[n] = CHOOSE x \in S : Cardinality({y \in S : Before(y, x)}) = n - 1
      BY <1>4
    <3>4. r[n] \in S /\ Cardinality({y \in S : Before(y, r[n])}) = n - 1
      BY <3>2, <3>3
    <3> QED BY <1>7, <3>4
  <2>2. DOMAIN r = 1..N
    BY <1>4
  <2> QED BY <2>1, <2>2 DEF InOrder
<1>9. /\ DOMAIN r = 1..N
      /\ \A n \in 1..N : r[n] \in S
      /\ \A j, n \in 1..N : r[j] = r[n] => j = n
      /\ \A x \in S : \E n \in 1..N : r[n] = x
  <2>1. /\ \A j, n \in 1..N : r[j] = r[n] => j = n
        /\ \A x \in S : \E n \in 1..N : r[n] = x
    <3>1. IsFiniteSet(S) /\ N = Cardinality(S)
      BY <1>1
    <3> HIDE DEF N
    <3> QED BY ONLY <1>6, <1>8, <3>1, InOrderFacts
  <2> QED BY <1>8, <2>1 DEF InOrder
<1> HIDE DEF N
<1>10. s \in Seq(X) /\ Len(s) = Len(f)
  <2>1. s \in [1..N -> X]
    BY <1>1, <1>3, <1>9
  <2> QED BY <1>1, <2>1, FunctionIsSeq
<1>11. Picks(s, f, r, S)
  BY <1>3, <1>9 DEF Picks
<1> QED BY <1>10, <1>11 DEF s, S

\* Buckets apart from each other are no more than the clusters.
LEMMA SharedFew ==
  ASSUME NEW c \in Seq(Int), NEW t, NEW m, NEW S \in SUBSET DOMAIN c, NEW f, Sharing(f, S, m, t, c)
  PROVE  Len(f) \in Nat /\ Len(f) <= Len(c) /\ DOMAIN f = 1..Len(f)
<1>1. PICK g : Shared(f, g, S, m, t, c)
  BY DEF Sharing
<1>2. Len(f) \in Nat /\ DOMAIN f = 1..Len(f)
  BY <1>1 DEF Shared
<1>3. Len(c) \in Nat /\ DOMAIN c = 1..Len(c)
  OBVIOUS
<1> DEFINE n == Len(f)
           K == Len(c)
           p == [i \in 1..n |-> CHOOSE x \in g[i] : TRUE]
<1>4. \A i \in 1..n : g[i] # {} /\ g[i] \subseteq 1..K
  BY <1>1, <1>2, <1>3 DEF Shared
<1>5. \A i \in 1..n : p[i] \in g[i]
  BY <1>4
<1>6. \A i, j \in 1..n : i # j => g[i] \cap g[j] = {}
  BY <1>1, <1>2 DEF Shared
<1>7. n \in Nat /\ K \in Nat
  BY <1>2, <1>3
<1>8. p = [i \in 1..n |-> p[i]]
  OBVIOUS
<1> HIDE DEF p, n, K
<1>9. p \in [1..n -> 1..K] /\ \A i, j \in 1..n : p[i] = p[j] => i = j
  BY <1>4, <1>5, <1>6, <1>8
<1>10. p \in Injection(1..n, 1..K)
  BY <1>9 DEF Injection, IsInjective
<1>11. IsFiniteSet(1..K) /\ Cardinality(1..K) = K /\ Cardinality(1..n) = n
  <2>1. 1 \in Int /\ n \in Int /\ K \in Int
    BY <1>7
  <2>2. /\ IsFiniteSet(1..K) /\ Cardinality(1..K) = IF 1 > K THEN 0 ELSE K - 1 + 1
        /\ Cardinality(1..n) = IF 1 > n THEN 0 ELSE n - 1 + 1
    BY ONLY <2>1, FS_Interval
  <2> QED BY <1>7, <2>2
<1>12. Cardinality(1..n) <= Cardinality(1..K)
  BY <1>10, <1>11, FS_Injection
<1> QED BY <1>2, <1>11, <1>12 DEF n, K

\* A leaf routes to a cluster of its bucket, which is small.
LEMMA LeafIs ==
  ASSUME NEW c \in Seq(Int), NEW t, Grown(t, c), NEW b \in SUBSET DOMAIN c, b # {}, t[b].children = <<>>
  PROVE  t[b].cluster \in b /\ (Cardinality(b) <= TreeLeafCapacity \/ Cardinality(b) <= 1)
<1>1. ASSUME NEW gs, Parents(t, b, gs) PROVE FALSE
  <2>1. /\ 1 \in DOMAIN gs
        /\ t[b].children = [j \in DOMAIN gs |-> t[b].children[j]]
    BY <1>1 DEF Parents, Divides
  <2> DEFINE ch == t[b].children
  <2>2. DOMAIN ch = DOMAIN gs /\ ch = <<>>
    BY <2>1
  <2>3. DOMAIN ch = {}
    BY <2>2
  <2> QED BY <2>1, <2>2, <2>3
<1> QED BY <1>1, NodeIs

\* A frontier in the order of a query.
LEMMA SortedShared ==
  ASSUME NEW c \in Seq(Int), NEW t, Grown(t, c), NEW m, NEW S \in SUBSET DOMAIN c,
         NEW f, Sharing(f, S, m, t, c), NEW q \in Int
  PROVE  Sharing(InOrderOf(q, f), S, m, t, c) /\ Len(InOrderOf(q, f)) = Len(f)
         /\ \E r : Picks(InOrderOf(q, f), f, r, DOMAIN f)
<1>1. PICK g : Shared(f, g, S, m, t, c)
  BY DEF Sharing
<1>2. ASSUME NEW i \in DOMAIN f PROVE f[i].centroid \in Int /\ (f[i].children = <<>> => f[i].cluster \in Int)
  <2>1. Routes(f[i], t, g[i]) /\ g[i] # {} /\ g[i] \in SUBSET DOMAIN c
    BY <1>1 DEF Shared
  <2>2. f[i] = [centroid |-> f[i].centroid, cluster |-> t[g[i]].cluster, children |-> t[g[i]].children]
    BY <2>1 DEF Routes
  <2>3. f[i].cluster = t[g[i]].cluster /\ f[i].children = t[g[i]].children
    BY ONLY <2>2
  <2>4. f[i].children = <<>> => f[i].cluster \in g[i]
    BY <2>1, <2>3, LeafIs
  <2>5. g[i] \subseteq Int
    BY <2>1
  <2> QED BY <2>1, <2>4, <2>5 DEF Routes
<1> DEFINE X == NodesOf(t, c)
           s == InOrderOf(q, f)
<1>3. f \in Seq(X)
  BY <1>1 DEF Shared
<1> HIDE DEF X, s
<1>4. s \in Seq(X) /\ Len(s) = Len(f) /\ \E r : Picks(s, f, r, DOMAIN f)
  BY <1>2, <1>3, SortedNodes DEF s
<1>5. PICK r : Picks(s, f, r, DOMAIN f)
  BY <1>4
<1>6. Sharing(s, UNION {g[i] : i \in DOMAIN f}, m, t, c)
  BY <1>1, <1>4, <1>5, PickShared DEF X
<1>7. UNION {g[i] : i \in DOMAIN f} = S
  BY <1>1 DEF Shared
<1> QED BY <1>4, <1>6, <1>7 DEF s

\* The beginning of a frontier.
LEMMA PrefixShared ==
  ASSUME NEW c \in Seq(Int), NEW t, NEW m, NEW S \in SUBSET DOMAIN c,
         NEW f, Sharing(f, S, m, t, c), NEW k \in Nat
  PROVE  \E V \in SUBSET S : /\ Sharing(Prefix(f, k), V, m, t, c)
                             /\ k >= Len(c) => V = S
<1>1. PICK g : Shared(f, g, S, m, t, c)
  BY DEF Sharing
<1> DEFINE X == NodesOf(t, c)
           N == Len(f)
           a == Prefix(f, k)
           n == IF k <= N THEN k ELSE N
           I == 1..n
           V == UNION {g[i] : i \in I}
           r == [i \in 1..n |-> i]
<1>2. f \in Seq(X)
  BY <1>1 DEF Shared
<1> HIDE DEF X
<1>3. N \in Nat /\ DOMAIN f = 1..N /\ f \in [1..N -> X]
  BY <1>2
<1>4. Len(c) \in Nat /\ N <= Len(c)
  BY SharedFew
<1> HIDE DEF N, a
<1>5. Cut(a, f, N, k) /\ a \in Seq(X)
  BY <1>3, PrefixIs DEF a
<1>6. n \in Nat /\ n <= N /\ (k >= Len(c) => n = N)
  BY <1>3, <1>4
<1>7. DOMAIN a = 1..n /\ \A i \in DOMAIN a : a[i] = f[i]
  BY <1>5 DEF Cut
<1> HIDE DEF n
<1>8. I \in SUBSET DOMAIN f
  BY <1>3, <1>6
<1>9. Picks(a, f, r, I)
  BY <1>7 DEF Picks
<1> HIDE DEF I, r
<1>10. Sharing(a, V, m, t, c)
  BY <1>1, <1>5, <1>8, <1>9, PickShared DEF X
<1>11. V \in SUBSET S
  BY <1>1, <1>8 DEF Shared
<1>12. k >= Len(c) => V = S
  <2>1. k >= Len(c) => I = DOMAIN f
    BY <1>3, <1>6 DEF I
  <2> QED BY <1>1, <2>1 DEF Shared
<1> HIDE DEF V
<1> QED BY <1>10, <1>11, <1>12 DEF a

\* The frontier below, cut to the beam.
LEMMA DeeperIs ==
  ASSUME NEW c \in Seq(Int), NEW t, Grown(t, c), NEW m \in Nat, NEW S \in SUBSET DOMAIN c,
         NEW f, Sharing(f, S, m+1, t, c), NEW q \in Int, NEW beam \in Nat
  PROVE  \E V \in SUBSET S : /\ Sharing(Deeper(q, f, beam), V, m, t, c)
                             /\ beam >= Len(c) => V = S
<1>1. CASE AllLeaves(f)
  <2>1. PICK g : Shared(f, g, S, m+1, t, c)
    BY DEF Sharing
  <2>2. \A i \in DOMAIN f : f[i].children = <<>>
    BY <1>1 DEF AllLeaves, IsLeaf
  <2>3. Shared(f, g, S, m, t, c)
    BY <2>1, <2>2 DEF Shared
  <2>4. Deeper(q, f, beam) = f
    BY <1>1 DEF Deeper
  <2> QED BY <2>3, <2>4 DEF Sharing
<1>2. CASE ~ AllLeaves(f)
  <2> DEFINE level == FlattenSeq([i \in DOMAIN f |-> Down(f[i])])
  <2>1. Deeper(q, f, beam) = Prefix(InOrderOf(q, level), beam)
    BY <1>2 DEF Deeper, NextLevel, InOrderOf
  <2>2. f # <<>>
    BY <1>2 DEF AllLeaves
  <2>3. Sharing(level, S, m, t, c)
    BY <2>2, LevelShared
  <2> HIDE DEF level
  <2>4. Sharing(InOrderOf(q, level), S, m, t, c)
    BY <2>3, SortedShared
  <2> QED BY <2>1, <2>4, PrefixShared
<1> QED BY <1>1, <1>2

\* The root has all clusters in its bucket.
LEMMA RootShared ==
  ASSUME NEW c \in Seq(Int), c # <<>>, NEW t, Grown(t, c)
  PROVE  Sharing(<<t[DOMAIN c]>>, DOMAIN c, Len(c), t, c)
<1> DEFINE x == t[DOMAIN c]
           b == DOMAIN c
           f == <<x>>
           g == <<b>>
<1>1. b \in SUBSET DOMAIN c /\ b # {} /\ Len(c) \in Nat /\ b = 1..Len(c)
  OBVIOUS
<1>2. Routes(x, t, b)
  BY <1>1, NodeIs
<1>3. x \in NodesOf(t, c)
  BY <1>2, RoutesIn
<1>4. f \in Seq(NodesOf(t, c)) /\ DOMAIN f = {1} /\ DOMAIN g = {1} /\ f[1] = x /\ g[1] = b
  BY <1>3
<1>5. Cardinality(b) = Len(c)
  <2> DEFINE n == Len(c)
  <2>1. 1 \in Int /\ n \in Int /\ n \in Nat
    BY <1>1
  <2> HIDE DEF n
  <2>2. Cardinality(1..n) = IF 1 > n THEN 0 ELSE n - 1 + 1
    BY ONLY <2>1, FS_Interval
  <2>3. Cardinality(1..n) = n
    BY <2>1, <2>2
  <2> QED BY <1>1, <2>3 DEF n
<1> HIDE DEF f, g, x, b
<1>6. Shared(f, g, b, Len(c), t, c)
  BY <1>1, <1>2, <1>4, <1>5 DEF Shared
<1> QED BY <1>6 DEF Sharing, f, x, b

\* A bound on buckets may be raised.
LEMMA SharedMore ==
  ASSUME NEW c \in Seq(Int), NEW t, NEW m \in Nat, NEW n \in Nat, m <= n,
         NEW S \in SUBSET DOMAIN c, NEW f, Sharing(f, S, m, t, c)
  PROVE  Sharing(f, S, n, t, c)
<1>1. PICK g : Shared(f, g, S, m, t, c)
  BY DEF Sharing
<1>2. ASSUME NEW i \in DOMAIN f, f[i].children # <<>> PROVE Cardinality(g[i]) <= n
  <2>1. g[i] \in SUBSET DOMAIN c /\ Cardinality(g[i]) <= m
    BY <1>1, <1>2 DEF Shared
  <2>2. Cardinality(g[i]) \in Nat
    BY <2>1, BucketPoints
  <2> QED BY <2>1, <2>2
<1>3. Shared(f, g, S, n, t, c)
  BY <1>1, <1>2 DEF Shared
<1> QED BY <1>3 DEF Sharing

\* f has the frontiers of a descent.
Descents(f, q, t, c, beam) ==
  /\ f[0] = <<t[DOMAIN c]>>
  /\ Descend(q, t[DOMAIN c], beam, Len(c)) = f[Len(c)]
  /\ \A k \in Nat : k < Len(c) => f[k+1] = Deeper(q, f[k], beam)

\* The frontiers that a descent goes through, one for each level.
LEMMA DescendFold ==
  ASSUME NEW c \in Seq(Int), c # <<>>, NEW t, Grown(t, c), NEW q \in Int, NEW beam \in Nat
  PROVE  \E f : Descents(f, q, t, c, beam)
<1> DEFINE N == Len(c)
           sq == Numbers(N)
           W == {x \in Seq(NodesOf(t, c)) : \E S \in SUBSET DOMAIN c : Sharing(x, S, N, t, c)}
           base == <<t[DOMAIN c]>>
           D(x) == Deeper(q, x, beam)
           step == [p \in W \X (1..N) |-> D(p[1])]
           Is(iter) == iter = [u \in SUBSET DOMAIN sq |->
                                IF u = {} THEN base
                                ELSE LET m == Max(u) IN D(iter[u \ {m}])]
           it == CHOOSE iter : Is(iter)
<1>1. N \in Nat /\ DOMAIN sq = 1..N
  BY DEF Numbers
<1>2. \A x, S, m : Sharing(x, S, m, t, c) => x \in Seq(NodesOf(t, c))
  BY DEF Sharing, Shared
<1>3. base \in W
  <2>1. Sharing(base, DOMAIN c, N, t, c)
    BY RootShared
  <2> HIDE DEF base, N
  <2> QED BY <1>2, <2>1
<1>4. ASSUME NEW x \in W PROVE D(x) \in W
  <2>1. PICK S \in SUBSET DOMAIN c : Sharing(x, S, N, t, c)
    OBVIOUS
  <2> HIDE DEF W
  <2>2. N+1 \in Nat /\ N <= N+1
    BY <1>1
  <2> HIDE DEF N
  <2>3. Sharing(x, S, N+1, t, c)
    BY <1>1, <2>1, <2>2, SharedMore
  <2>4. PICK V \in SUBSET S : Sharing(D(x), V, N, t, c)
    BY <1>1, <2>3, DeeperIs
  <2> QED BY <1>2, <2>4 DEF W
<1> HIDE DEF N, sq, W, base, D
<1>5. step \in [W \X (1..N) -> W]
  BY <1>4
<1>6. PICK h : Folds(h, W, N, base, step)
  <2> HIDE DEF step
  <2> QED BY <1>1, <1>3, <1>5, FoldTable
<1>7. ASSUME NEW u \in SUBSET (1..N), u # {} PROVE Max(u) \in 1..N /\ u \ {Max(u)} \in SUBSET (1..N)
  BY <1>1, <1>7, MaxIs
<1>8. Is(h)
  <2>1. ASSUME NEW u \in SUBSET (1..N), u # {} PROVE h[u] = D(h[u \ {Max(u)}])
    <3>1. h[u \ {Max(u)}] \in W
      BY <1>6, <1>7, <2>1 DEF Folds
    <3>2. h[u] = step[<<h[u \ {Max(u)}], Max(u)>>]
      BY <1>6, <2>1 DEF Folds
    <3> QED BY <1>7, <2>1, <3>1, <3>2
  <2>2. h = [u \in SUBSET (1..N) |-> h[u]] /\ h[{}] = base
    BY <1>6 DEF Folds
  <2> HIDE DEF step
  <2>3. \A u \in SUBSET (1..N) : h[u] = IF u = {} THEN base ELSE LET m == Max(u) IN D(h[u \ {m}])
    BY <2>1, <2>2
  <2> QED BY <1>1, <2>2, <2>3
<1>9. Is(it)
  <2> HIDE DEF Is
  <2> QED BY <1>8
<1>10. Descend(q, t[DOMAIN c], beam, N) = it[1..N]
  <2>1. Descend(q, t[DOMAIN c], beam, N) = it[DOMAIN sq]
    BY DEF Descend, FoldLeft, MapThenFoldSet, base, sq, D
  <2> HIDE DEF it
  <2> QED BY <1>1, <2>1
<1> HIDE DEF it
<1>11. it[{}] = base /\ \A u \in SUBSET (1..N) : u # {} => it[u] = D(it[u \ {Max(u)}])
  <2>1. \A u \in SUBSET (1..N) :
          it[u] = IF u = {} THEN base ELSE LET m == Max(u) IN D(it[u \ {m}])
    BY <1>1, <1>9
  <2> HIDE DEF Is
  <2> QED BY <2>1
<1>12. ASSUME NEW u \in SUBSET (1..N), u # {}, it[u \ {Max(u)}] \in W
       PROVE  it[u] = step[<<it[u \ {Max(u)}], Max(u)>>]
  BY <1>7, <1>11, <1>12
<1>13. PICK f : States(f, it, W, N, base, step)
  <2> HIDE DEF step, Is
  <2> QED BY <1>1, <1>3, <1>5, <1>11, <1>12, FoldStates
<1>14. ASSUME NEW k \in Nat, k < N PROVE f[k+1] = D(f[k])
  <2>1. f[k] \in W /\ k+1 \in 1..N
    BY <1>1, <1>13, <1>14 DEF States
  <2>2. f[k+1] = step[<<f[k], k+1>>]
    BY <1>13, <1>14 DEF States
  <2> QED BY <2>1, <2>2
<1>15. f[0] = base /\ f[N] = it[1..N]
  BY <1>13 DEF States
<1>16. Descents(f, q, t, c, beam)
  BY <1>10, <1>14, <1>15 DEF Descents, N, base, D
<1> QED BY <1>16

\* The descent ends at leaves, and a wide beam loses none of the clusters.
LEMMA DescendIs ==
  ASSUME NEW c \in Seq(Int), c # <<>>, NEW t, Grown(t, c), NEW q \in Int, NEW beam \in Nat
  PROVE  \E S \in SUBSET DOMAIN c : /\ Sharing(Descend(q, t[DOMAIN c], beam, Len(c)), S, 0, t, c)
                                    /\ beam >= Len(c) => S = DOMAIN c
<1> DEFINE N == Len(c)
           A == DOMAIN c
<1>0. PICK f : Descents(f, q, t, c, beam)
  BY DescendFold
<1>1. /\ f[0] = <<t[A]>>
      /\ Descend(q, t[A], beam, N) = f[N]
      /\ \A k \in Nat : k < N => f[k+1] = Deeper(q, f[k], beam)
  BY <1>0 DEF Descents
<1>2. N \in Nat
  OBVIOUS
<1>3. Sharing(f[0], A, N, t, c)
  BY <1>1, RootShared
<1> HIDE DEF N, A
<1> DEFINE Good(k) == \E S \in SUBSET DOMAIN c : Sharing(f[k], S, N - k, t, c) /\ (beam >= N => S = A)
           T == {k \in Nat : k <= N => Good(k)}
<1>4. 0 \in T
  <2>1. N - 0 = N /\ A \in SUBSET DOMAIN c
    BY <1>2 DEF A
  <2>2. Good(0)
    BY <1>3, <2>1
  <2> QED BY <2>2
<1>5. ASSUME NEW k \in Nat, k \in T, k+1 <= N PROVE Good(k+1)
  <2>1. PICK S \in SUBSET DOMAIN c : Sharing(f[k], S, N - k, t, c) /\ (beam >= N => S = A)
    BY <1>2, <1>5
  <2> HIDE DEF Good, T
  <2> DEFINE m == N - (k+1)
  <2>2. m \in Nat /\ N - k = m+1 /\ k < N
    BY <1>2, <1>5
  <2> HIDE DEF m
  <2> DEFINE x == f[k]
  <2>7. Sharing(x, S, m+1, t, c)
    BY <2>1, <2>2
  <2> HIDE DEF x
  <2>3. PICK V \in SUBSET S : Sharing(Deeper(q, x, beam), V, m, t, c) /\ (beam >= Len(c) => V = S)
    BY <2>2, <2>7, DeeperIs
  <2>4. f[k+1] = Deeper(q, x, beam)
    BY <1>1, <2>2 DEF N, x
  <2>5. Sharing(f[k+1], V, N - (k+1), t, c)
    BY <2>3, <2>4 DEF m
  <2>6. beam >= N => V = A
    BY <2>1, <2>3 DEF N
  <2> QED BY <2>5, <2>6 DEF Good
<1>6. \A k \in Nat : k \in T => k+1 \in T
  <2> HIDE DEF Good
  <2> QED BY <1>5
<1> HIDE DEF T
<1>7. \A k \in Nat : k \in T
  BY <1>4, <1>6, NatSetInduction
<1>8. Good(N)
  BY <1>2, <1>7 DEF T
<1>9. N - N = 0
  BY <1>2
<1> QED BY <1>1, <1>8, <1>9 DEF N, A

\* The leaves of a frontier without inner nodes route to clusters apart from each other.
LEMMA LeavesAre ==
  ASSUME NEW c \in Seq(Int), NEW t, Grown(t, c), NEW S \in SUBSET DOMAIN c, NEW f, Sharing(f, S, 0, t, c)
  PROVE  /\ \A i \in DOMAIN f : f[i].cluster \in S
         /\ \A i, j \in DOMAIN f : f[i].cluster = f[j].cluster => i = j
         /\ TreeLeafCapacity = 1 => \A x \in S : \E i \in DOMAIN f : f[i].cluster = x
<1>1. PICK g : Shared(f, g, S, 0, t, c)
  BY DEF Sharing
<1>2. ASSUME NEW i \in DOMAIN f
      PROVE  f[i].cluster \in g[i] /\ g[i] \subseteq S /\ (TreeLeafCapacity = 1 => g[i] = {f[i].cluster})
  <2> DEFINE b == g[i]
             k == f[i].cluster
  <2>1. Routes(f[i], t, b) /\ b # {} /\ b \subseteq S /\ (f[i].children # <<>> => Cardinality(b) <= 0)
    BY <1>1 DEF Shared
  <2>2. f[i] = [centroid |-> f[i].centroid, cluster |-> t[b].cluster, children |-> t[b].children]
    BY <2>1 DEF Routes
  <2>3. k = t[b].cluster /\ f[i].children = t[b].children
    BY ONLY <2>2
  <2> HIDE DEF b, k
  <2>4. b \in SUBSET DOMAIN c /\ IsFiniteSet(b) /\ Cardinality(b) \in Nat
    <3>1. b \in SUBSET DOMAIN c
      BY <2>1
    <3> QED BY <3>1, BucketPoints
  <2>5. Cardinality(b) # 0
    BY <2>1, <2>4, FS_EmptySet
  <2>6. t[b].children = <<>>
    BY <2>1, <2>3, <2>4, <2>5
  <2>7. k \in b /\ (Cardinality(b) <= TreeLeafCapacity \/ Cardinality(b) <= 1)
    BY <2>1, <2>3, <2>4, <2>6, LeafIs
  <2>8. ASSUME TreeLeafCapacity = 1 PROVE b = {k}
    <3>1. Cardinality(b) = 1
      BY <2>4, <2>5, <2>7, <2>8
    <3>2. \E y : b = {y}
      BY <2>4, <3>1, FS_Singleton
    <3> QED BY <2>7, <3>2
  <2> QED BY <2>1, <2>7, <2>8 DEF b, k
<1>3. ASSUME NEW i \in DOMAIN f, NEW j \in DOMAIN f, f[i].cluster = f[j].cluster PROVE i = j
  <2>1. i # j => g[i] \cap g[j] = {}
    BY <1>1 DEF Shared
  <2> QED BY <1>2, <1>3, <2>1
<1>4. ASSUME TreeLeafCapacity = 1, NEW x \in S PROVE \E i \in DOMAIN f : f[i].cluster = x
  <2>1. PICK i \in DOMAIN f : x \in g[i]
    BY <1>1 DEF Shared
  <2> QED BY <1>2, <1>4, <2>1
<1> QED BY <1>2, <1>3, <1>4

\* The clusters that a descent reaches.
LEMMA BeamDescendIs ==
  ASSUME NEW c \in Seq(Int), c # <<>>, NEW t, Grown(t, c), NEW q \in Int, NEW beam \in Nat
  PROVE  \E n \in Nat :
           /\ n <= Len(c)
           /\ BeamDescend(t[DOMAIN c], q, beam, Len(c)) \in [1..n -> DOMAIN c]
           /\ TreeLeafCapacity = 1 /\ beam >= Len(c) =>
                ToSet(BeamDescend(t[DOMAIN c], q, beam, Len(c))) = DOMAIN c
<1> DEFINE w == Max({beam, 1})
           d == Descend(q, t[DOMAIN c], w, Len(c))
           leaves == InOrderOf(q, d)
           First(i) == \A j \in 1..(i - 1) : leaves[j].cluster # leaves[i].cluster
           I == {i \in DOMAIN leaves : First(i)}
           kept == Selected(leaves, I)
           B == BeamDescend(t[DOMAIN c], q, beam, Len(c))
<1>1. w \in Nat /\ w >= beam
  <2>1. beam \in Int /\ 1 \in Int
    OBVIOUS
  <2>2. w = IF beam >= 1 THEN beam ELSE 1
    BY ONLY <2>1, OfTwo
  <2> QED BY <2>2
<1>2. B = [j \in DOMAIN kept |-> kept[j].cluster]
  BY DEF BeamDescend, InOrderOf
<1> HIDE DEF w, B
<1>3. PICK S \in SUBSET DOMAIN c : Sharing(d, S, 0, t, c) /\ (w >= Len(c) => S = DOMAIN c)
  BY <1>1, DescendIs
<1> HIDE DEF d
<1>4. Sharing(leaves, S, 0, t, c)
  BY <1>3, SortedShared
<1> HIDE DEF leaves
<1>5. PICK g : Shared(leaves, g, S, 0, t, c)
  BY <1>4 DEF Sharing
<1>6. leaves \in Seq(NodesOf(t, c))
  BY <1>5 DEF Shared
<1>7. \A i, j \in DOMAIN leaves : leaves[i].cluster = leaves[j].cluster => i = j
  BY <1>4, LeavesAre
<1>8. I = DOMAIN leaves
  <2>1. ASSUME NEW i \in DOMAIN leaves, NEW j \in 1..(i-1) PROVE j \in DOMAIN leaves /\ j # i
    BY <1>6
  <2> QED BY <1>7, <2>1
<1>9. I \in SUBSET DOMAIN leaves /\ UNION {g[i] : i \in I} = S
  BY <1>5, <1>8 DEF Shared
<1> HIDE DEF I
<1> DEFINE X == NodesOf(t, c)
<1>10. kept \in Seq(X) /\ \E r : Picks(kept, leaves, r, I)
  <2> HIDE DEF X
  <2> QED BY <1>6, <1>9, SelectedIs DEF X
<1>11. PICK r : Picks(kept, leaves, r, I)
  BY <1>10
<1> HIDE DEF kept
<1>12. Sharing(kept, S, 0, t, c)
  BY <1>5, <1>9, <1>10, <1>11, PickShared
<1> DEFINE n == Len(kept)
<1>13. n \in Nat /\ n <= Len(c) /\ DOMAIN kept = 1..n
  BY <1>12, SharedFew
<1> HIDE DEF n, X
<1>14. /\ \A i \in DOMAIN kept : kept[i].cluster \in S
       /\ TreeLeafCapacity = 1 => \A x \in S : \E i \in DOMAIN kept : kept[i].cluster = x
  <2> HIDE DEF First
  <2>1. \A i \in DOMAIN kept : kept[i].cluster \in S
    BY <1>12, LeavesAre
  <2>2. ASSUME TreeLeafCapacity = 1 PROVE \A x \in S : \E i \in DOMAIN kept : kept[i].cluster = x
    BY <1>12, <2>2, LeavesAre
  <2> QED BY <2>1, <2>2
<1>15. B \in [1..n -> DOMAIN c]
  BY <1>2, <1>13, <1>14
<1>16. ASSUME TreeLeafCapacity = 1, beam >= Len(c) PROVE ToSet(B) = DOMAIN c
  <2>1. Len(c) \in Nat
    OBVIOUS
  <2>2. S = DOMAIN c
    BY <1>1, <1>3, <1>16, <2>1
  <2>3. DOMAIN B = DOMAIN kept /\ \A i \in DOMAIN kept : B[i] = kept[i].cluster
    BY <1>2
  <2>4. \A x \in DOMAIN c : \E i \in DOMAIN B : B[i] = x
    BY <1>14, <1>16, <2>2, <2>3
  <2>5. \A i \in DOMAIN B : B[i] \in DOMAIN c
    BY <1>14, <2>3
  <2>6. ToSet(B) = {B[i] : i \in DOMAIN B}
    BY DEF ToSet
  <2> QED BY <2>4, <2>5, <2>6
<1> QED BY <1>13, <1>15, <1>16 DEF B

\* The clusters in the order of the flat scan.
Scan(q, c) == Ordered(DOMAIN c, LAMBDA i, j : NearerCentroid(q, c, i, j))

\* That order names every cluster.
LEMMA NearestOrder ==
  ASSUME NEW c \in Seq(Int), NEW q \in Int
  PROVE  /\ Scan(q, c) \in [1..Len(c) -> DOMAIN c]
         /\ \A x \in DOMAIN c : \E n \in 1..Len(c) : Scan(q, c)[n] = x
<1> DEFINE S == DOMAIN c
           D(i) == Distance(q, c[i])
           Before(i, j) == NearerCentroid(q, c, i, j)
           R == {p \in S \X S : Before(p[1], p[2])}
           r == Scan(q, c)
           N == Cardinality(S)
<1>1. /\ S = 1..Len(c) /\ Len(c) \in Nat /\ IsFiniteSet(S) /\ S \subseteq Int /\ N = Len(c)
      /\ \A i \in S : D(i) \in Int
  <2>1. S = 1..Len(c) /\ Len(c) \in Nat
    OBVIOUS
  <2> DEFINE n == Len(c)
  <2>2. IsFiniteSet(1..n) /\ Cardinality(1..n) = n
    <3>1. 1 \in Int /\ n \in Int /\ n \in Nat
      BY <2>1
    <3> HIDE DEF n
    <3>2. IsFiniteSet(1..n) /\ Cardinality(1..n) = IF 1 > n THEN 0 ELSE n - 1 + 1
      BY ONLY <3>1, FS_Interval
    <3> QED BY <3>1, <3>2
  <2>3. \A i \in S : D(i) \in Int
    <3> SUFFICES ASSUME NEW i \in S PROVE D(i) \in Int
      OBVIOUS
    <3>1. c[i] \in Int
      OBVIOUS
    <3> QED BY <3>1, DistanceNat
  <2> QED BY <2>1, <2>2, <2>3
<1>2. \A i, j \in S : Before(i, j) <=> (D(i) < D(j) \/ (D(i) = D(j) /\ i < j))
  BY DEF NearerCentroid
<1>3. r = [n \in 1..N |-> CHOOSE x \in S : Cardinality({y \in S : Before(y, x)}) = n - 1]
  BY DEF Scan, Ordered
<1> HIDE DEF S, r, D, Before
<1>4. \A x, y \in S : <<x, y>> \in R <=> Before(x, y)
  OBVIOUS
<1>5. TotalOrder(R, S)
  <2>0. \A x \in S : D(x) \in Int /\ x \in Int
    BY <1>1
  <2> HIDE DEF R
  <2>1. ASSUME NEW x \in S PROVE <<x, x>> \notin R
    BY <1>2, <1>4, <2>0
  <2>2. ASSUME NEW x \in S, NEW y \in S, NEW z \in S, <<x, y>> \in R, <<y, z>> \in R PROVE <<x, z>> \in R
    <3>1. /\ D(x) < D(y) \/ (D(x) = D(y) /\ x < y)
          /\ D(y) < D(z) \/ (D(y) = D(z) /\ y < z)
      BY <1>2, <1>4, <2>2
    <3>2. D(x) \in Int /\ D(y) \in Int /\ D(z) \in Int /\ x \in Int /\ y \in Int /\ z \in Int
      BY <2>0
    <3>3. D(x) < D(z) \/ (D(x) = D(z) /\ x < z)
      BY ONLY <3>1, <3>2
    <3> QED BY <1>2, <1>4, <3>3
  <2>3. ASSUME NEW x \in S, NEW y \in S PROVE x = y \/ <<x, y>> \in R \/ <<y, x>> \in R
    BY <1>2, <1>4, <2>0
  <2> QED BY <2>1, <2>2, <2>3 DEF TotalOrder
<1> HIDE DEF R
<1>6. \A x \in S : {y \in S : Before(y, x)} = Below(R, S, x)
  BY <1>4 DEF Below
<1>7. InOrder(r, R, S)
  <2>1. ASSUME NEW n \in 1..N PROVE r[n] \in S /\ Cardinality(Below(R, S, r[n])) = n - 1
    <3>1. \E x \in S : Cardinality(Below(R, S, x)) = n - 1
      BY <1>1, <1>5, PlaceTaken
    <3>2. \E x \in S : Cardinality({y \in S : Before(y, x)}) = n - 1
      BY <1>6, <3>1
    <3>3. r[n] = CHOOSE x \in S : Cardinality({y \in S : Before(y, x)}) = n - 1
      BY <1>3
    <3>4. r[n] \in S /\ Cardinality({y \in S : Before(y, r[n])}) = n - 1
      BY <3>2, <3>3
    <3> QED BY <1>6, <3>4
  <2>2. DOMAIN r = 1..N
    BY <1>3
  <2> QED BY <2>1, <2>2 DEF InOrder
<1>8. \A x \in S : \E n \in 1..N : r[n] = x
  <2>1. IsFiniteSet(S) /\ N = Cardinality(S)
    BY <1>1
  <2> HIDE DEF N
  <2> QED BY ONLY <1>5, <1>7, <2>1, InOrderFacts
<1>9. r = [n \in 1..N |-> r[n]]
  <2> DEFINE W(n) == CHOOSE x \in S : Cardinality({y \in S : Before(y, x)}) = n - 1
  <2>1. r = [n \in 1..N |-> W(n)]
    BY <1>3
  <2> HIDE DEF W
  <2> QED BY <2>1
<1> HIDE DEF N
<1>10. r \in [1..Len(c) -> S]
  BY <1>1, <1>7, <1>9 DEF InOrder
<1> QED BY <1>1, <1>8, <1>10 DEF S, r

\* The flat scan probes clusters, with a large budget all of them.
LEMMA FlatScanIs ==
  ASSUME NEW c \in Seq(Int), NEW q \in Int, NEW n \in Nat
  PROVE  /\ ToSet(NearestClusters(q, c, n)) \subseteq DOMAIN c
         /\ n >= Len(c) => ToSet(NearestClusters(q, c, n)) = DOMAIN c
<1> DEFINE r == Scan(q, c)
           N == Len(c)
           a == Prefix(r, n)
           X == DOMAIN c
<1>1. r \in [1..N -> X] /\ \A x \in X : \E i \in 1..N : r[i] = x
  BY NearestOrder
<1>2. NearestClusters(q, c, n) = a
  BY DEF NearestClusters, Scan
<1>3. N \in Nat
  OBVIOUS
<1> HIDE DEF r, N, X
<1>4. Cut(a, r, N, n)
  BY <1>1, <1>3, PrefixIs
<1> HIDE DEF a
<1>5. DOMAIN a = 1..(IF n <= N THEN n ELSE N) /\ \A i \in DOMAIN a : a[i] = r[i]
  BY <1>4 DEF Cut
<1>6. \A i \in DOMAIN a : i \in 1..N
  BY <1>3, <1>5
<1>7. ToSet(a) = {a[i] : i \in DOMAIN a}
  BY DEF ToSet
<1>8. \A i \in DOMAIN a : a[i] \in X
  BY <1>1, <1>5, <1>6
<1>9. ASSUME n >= N PROVE \A x \in X : \E i \in DOMAIN a : a[i] = x
  <2>1. DOMAIN a = 1..N
    BY <1>3, <1>5, <1>9
  <2> QED BY <1>1, <1>5, <2>1
<1>10. ToSet(a) \subseteq X /\ (n >= N => ToSet(a) = X)
  BY <1>7, <1>8, <1>9
<1> QED BY <1>2, <1>10 DEF X, N

\* The tree probes clusters, with a large budget all of them.
LEMMA ProbeIs ==
  ASSUME NEW c \in Seq(Int), NEW q \in Int, NEW n \in Nat
  PROVE  /\ ToSet(ProbeClusters(BuildTree(c), c, q, n)) \subseteq DOMAIN c
         /\ TreeLeafCapacity = 1 /\ n >= Len(c) => ToSet(ProbeClusters(BuildTree(c), c, q, n)) = DOMAIN c
<1>1. CASE BuildTree(c) = NoTree
  <2>1. ProbeClusters(BuildTree(c), c, q, n) = NearestClusters(q, c, n)
    BY <1>1 DEF ProbeClusters
  <2>2. /\ ToSet(NearestClusters(q, c, n)) \subseteq DOMAIN c
        /\ n >= Len(c) => ToSet(NearestClusters(q, c, n)) = DOMAIN c
    BY FlatScanIs
  <2> QED BY <2>1, <2>2
<1>2. CASE BuildTree(c) # NoTree
  <2>1. PICK t : Grown(t, c) /\ BuildCentroidTree(c) = t[DOMAIN c]
    BY TreeIs
  <2>2. c # <<>> /\ BuildTree(c) = t[DOMAIN c]
    BY <1>2, <2>1 DEF BuildTree, UnlessLeaf
  <2> DEFINE K == Len(c)
             beam == Beam(n, K)
             B == BeamDescend(t[DOMAIN c], q, beam, K)
             a == Prefix(B, n)
             X == DOMAIN c
  <2>3. ProbeClusters(BuildTree(c), c, q, n) = a
    BY <1>2, <2>2 DEF ProbeClusters
  <2>4. beam \in Nat /\ (n >= K => beam >= K)
    <3>1. K \in Nat /\ n * TreeBeamFactor \in Nat /\ n * TreeBeamFactor >= n
      BY TreeAssumption
    <3> DEFINE m == n * TreeBeamFactor
    <3> HIDE DEF m, K
    <3>2. m \in Int /\ K \in Int
      BY <3>1 DEF m
    <3>3. Min({m, K}) = IF m <= K THEN m ELSE K
      BY ONLY <3>2, OfTwo
    <3>4. beam = Min({m, K})
      BY DEF Beam, m
    <3>5. m \in Nat /\ m >= n
      BY <3>1 DEF m
    <3> HIDE DEF beam
    <3> QED BY <3>1, <3>3, <3>4, <3>5
  <2> HIDE DEF beam
  <2>5. PICK k \in Nat :
          /\ k <= Len(c) /\ B \in [1..k -> X]
          /\ TreeLeafCapacity = 1 /\ beam >= Len(c) => ToSet(B) = X
    BY <2>1, <2>2, <2>4, BeamDescendIs
  <2> HIDE DEF B, X
  <2>6. Cut(a, B, k, n)
    BY <2>5, PrefixIs
  <2> HIDE DEF a
  <2>7. DOMAIN a = 1..(IF n <= k THEN n ELSE k) /\ \A i \in DOMAIN a : a[i] = B[i]
    BY <2>6 DEF Cut
  <2>8. \A i \in DOMAIN a : i \in 1..k
    BY <2>7
  <2>9. ToSet(a) = {a[i] : i \in DOMAIN a} /\ ToSet(B) = {B[i] : i \in DOMAIN B}
    BY DEF ToSet
  <2>10. \A i \in DOMAIN a : a[i] \in X
    BY <2>5, <2>7, <2>8
  <2>11. ASSUME TreeLeafCapacity = 1, n >= K PROVE ToSet(a) = X
    <3>1. K \in Nat
      OBVIOUS
    <3>2. ToSet(B) = X
      BY <2>4, <2>5, <2>11
    <3>3. DOMAIN a = 1..k
      BY <2>5, <2>7, <2>11, <3>1
    <3>4. DOMAIN B = DOMAIN a /\ \A i \in DOMAIN a : a[i] = B[i]
      BY <2>5, <2>7, <3>3
    <3> QED BY <2>9, <3>2, <3>4
  <2>12. ToSet(a) \subseteq X
    BY <2>9, <2>10
  <2> QED BY <2>3, <2>11, <2>12 DEF X
<1> QED BY <1>1, <1>2

-----------------------------------------------------------------------------
(***************************************************************************)
(* What a query reads.                                                     *)
(***************************************************************************)

\* A finite set has subsets of every size up to its own.
LEMMA SubsetOfSize ==
  ASSUME NEW S, IsFiniteSet(S), NEW k \in Nat, k <= Cardinality(S)
  PROVE  \E s \in SUBSET S : Cardinality(s) = k
<1> DEFINE N == Cardinality(S)
           Has(j) == \E s \in SUBSET S : Cardinality(s) = j
           T == {j \in Nat : j <= N => Has(j)}
<1>1. N \in Nat
  BY FS_CardinalityType
<1>2. 0 \in T
  <2>1. Cardinality({}) = 0
    BY FS_EmptySet
  <2> QED BY <2>1
<1>3. ASSUME NEW j \in Nat, j \in T, j+1 <= N PROVE Has(j+1)
  <2>1. PICK s \in SUBSET S : Cardinality(s) = j
    BY <1>1, <1>3
  <2>2. s # S
    BY <1>1, <1>3, <2>1
  <2>3. PICK x \in S : x \notin s
    BY <2>2
  <2>4. IsFiniteSet(s)
    BY FS_Subset
  <2>5. Cardinality(s \cup {x}) = j+1
    BY <2>1, <2>3, <2>4, FS_AddElement
  <2> QED BY <2>5
<1> HIDE DEF Has, N
<1>4. \A j \in Nat : j \in T => j+1 \in T
  BY <1>3
<1> HIDE DEF T
<1>5. \A j \in Nat : j \in T
  BY <1>2, <1>4, NatSetInduction
<1> QED BY <1>5 DEF T, Has, N

\* There is always a shortlist.
LEMMA SomeShortlist ==
  ASSUME NEW g, IsFiniteSet(g), NEW limit \in Nat
  PROVE  Shortlists(g, limit) # {}
<1>1. CASE Cardinality(g) <= limit
  BY <1>1 DEF Shortlists
<1>2. CASE ~ (Cardinality(g) <= limit)
  <2>1. Cardinality(g) \in Nat
    BY FS_CardinalityType
  <2>2. limit <= Cardinality(g)
    BY <1>2, <2>1
  <2>3. \E s \in SUBSET g : Cardinality(s) = limit
    BY <2>2, SubsetOfSize
  <2> QED BY <1>2, <2>3 DEF Shortlists, kSubset
<1> QED BY <1>1, <1>2

\* The tree over the clusters of the epoch names clusters of the epoch.
LEMMA EpochProbe ==
  ASSUME SnapshotInv, epoch # NoEpoch, NEW q \in Queries
  PROVE  LET P == ToSet(ProbeClusters(epoch.tree, Centroids(epoch.clusters), q.pos, q.nProbe))
         IN  /\ P \subseteq DOMAIN epoch.clusters
             /\ TreeLeafCapacity = 1 /\ q.nProbe >= Len(epoch.clusters) => P = DOMAIN epoch.clusters
<1> DEFINE cs == epoch.clusters
           c == Centroids(cs)
           P == ToSet(ProbeClusters(BuildTree(c), c, q.pos, q.nProbe))
<1>1. PICK old : epoch = ObjectsOver(epoch.clusters, old)
  BY DEF SnapshotInv, Indexed
<1>2. epoch.tree = BuildTree(c)
  <2> DEFINE x == epoch.clusters
  <2>1. epoch = ObjectsOver(x, old)
    BY <1>1
  <2> HIDE DEF x
  <2>2. epoch.tree = BuildTree(Centroids(x))
    BY ONLY <2>1 DEF ObjectsOver
  <2> QED BY <2>2 DEF x
<1>3. Filed(cs)
  BY DEF SnapshotInv, IInv, EpochOK
<1>4. PICK n \in Nat : DOMAIN cs = 1..n
  BY <1>3 DEF Filed, Listed
<1>5. c \in [1..n -> Int]
  BY <1>3, <1>4 DEF Centroids, Filed
<1> HIDE DEF c, cs
<1>6. c \in Seq(Int) /\ Len(c) = n /\ DOMAIN c = 1..n
  BY <1>5, FunctionIsSeq
<1>7. Len(cs) = n
  BY <1>4
<1>8. q.pos \in Int /\ q.nProbe \in Nat
  BY EpochAssumption
<1>9. P \subseteq DOMAIN c /\ (TreeLeafCapacity = 1 /\ q.nProbe >= Len(c) => P = DOMAIN c)
  BY <1>6, <1>8, ProbeIs
<1>10. P \subseteq DOMAIN cs /\ (TreeLeafCapacity = 1 /\ q.nProbe >= Len(cs) => P = DOMAIN cs)
  BY <1>4, <1>6, <1>7, <1>9
<1> HIDE DEF P
<1>11. ToSet(ProbeClusters(epoch.tree, Centroids(epoch.clusters), q.pos, q.nProbe)) = P
  BY <1>2 DEF P, c, cs
<1> QED BY <1>10, <1>11 DEF cs

\* What a query fetches is there.
LEMMA FetchedIs ==
  ASSUME SnapshotInv, epoch # NoEpoch, NEW q \in Queries
  PROVE  /\ Fetched(q, Plan(q)) \subseteq DOMAIN epoch.clusters
         /\ IsFiniteSet(Scanned(q, Plan(q)))
<1> DEFINE plan == Plan(q)
           P == ToSet(ProbeClusters(epoch.tree, Centroids(epoch.clusters), q.pos, q.nProbe))
           D == DOMAIN epoch.clusters
<1>1. P \subseteq D
  BY EpochProbe
<1>2. plan = PlanVectorQuery(q.filter, epoch.attrs) /\ q.filter \in Filters
  BY EpochAssumption DEF Plan
<1> HIDE DEF plan
<1>3. plan.filterFirst => plan.clusters \subseteq D
  BY <1>2, PlanIs
<1>4. Fetched(q, plan) = IF plan.filterFirst THEN plan.clusters ELSE {c \in P : plan.usable => c \in plan.clusters}
  BY DEF Fetched
<1> HIDE DEF P
<1>5. Fetched(q, plan) \subseteq D
  BY <1>1, <1>3, <1>4
<1>6. Scanned(q, plan) \subseteq AllMembers
  BY <1>5 DEF Scanned, AllMembers
<1>7. IsFiniteSet(AllMembers)
  BY MembersFinite DEF SnapshotInv
<1>8. IsFiniteSet(Scanned(q, plan))
  BY <1>6, <1>7, FS_Subset
<1> QED BY <1>5, <1>8 DEF plan

\* No query fails.
LEMMA SomeAnswer ==
  ASSUME SnapshotInv, NEW q \in Queries
  PROVE  VectorQuery(q) # {}
<1>1. IndexCandidates(q, Plan(q)) # {}
  <2>1. CASE epoch = NoEpoch
    BY <2>1 DEF IndexCandidates
  <2>2. CASE epoch # NoEpoch
    <3> DEFINE limit == q.topK * ShortlistMultiplier
    <3>1. limit \in Nat
      BY EpochAssumption
    <3>2. Fetched(q, Plan(q)) \subseteq DOMAIN epoch.clusters /\ IsFiniteSet(Scanned(q, Plan(q)))
      BY <2>2, FetchedIs
    <3>3. \/ IndexCandidates(q, Plan(q)) = {FilterFirstCandidates(Plan(q))}
          \/ IndexCandidates(q, Plan(q)) = Shortlists(Scanned(q, Plan(q)), limit)
      BY <2>2, <3>2 DEF IndexCandidates
    <3> HIDE DEF limit
    <3>4. Shortlists(Scanned(q, Plan(q)), limit) # {}
      BY <3>1, <3>2, SomeShortlist
    <3> QED BY <3>3, <3>4
  <2> QED BY <2>1, <2>2
<1> QED BY <1>1 DEF VectorQuery, Answers

\* A query that probes every cluster and cuts nothing answers what a scan of all live documents would.
LEMMA ProbedExact ==
  ASSUME TreeLeafCapacity = 1, SnapshotInv, NEW q \in Queries, ~ Plan(q).filterFirst,
         ProbesAll(q), KeepsAll(q, Plan(q))
  PROVE  VectorQuery(q) = {Exhaustive(q)}
<1> DEFINE plan == Plan(q)
<1>0. Exhaustive(q) = Ranked(q, Live)
  BY DEF Exhaustive, Live
<1>1. CASE epoch = NoEpoch
  <2>1. IndexCandidates(q, plan) = {{}}
    BY <1>1 DEF IndexCandidates
  <2>2. DOMAIN docs \subseteq tail
    BY <1>1 DEF SnapshotInv
  <2>3. WithVector(docs) \cap tail = WithVector(docs)
    BY <2>2 DEF WithVector
  <2>4. FreshCandidates = Live
    BY <2>3 DEF FreshCandidates, Live
  <2>5. Overlaid({}) = FreshCandidates
    BY DEF Overlaid
  <2> QED BY <1>0, <2>1, <2>4, <2>5 DEF VectorQuery, Answers
<1>2. CASE epoch # NoEpoch
  <2> DEFINE D == DOMAIN epoch.clusters
             A == Scanned(q, plan)
             limit == q.topK * ShortlistMultiplier
             P == ToSet(ProbeClusters(epoch.tree, Centroids(epoch.clusters), q.pos, q.nProbe))
  <2>1. P = D
    BY <1>2, EpochProbe DEF ProbesAll
  <2>2. Fetched(q, plan) = {c \in P : plan.usable => c \in plan.clusters}
    BY DEF Fetched
  <2> HIDE DEF P
  <2>3. Fetched(q, plan) \subseteq D
    BY <2>1, <2>2
  <2>4. Cardinality(A) <= limit
    BY <1>2 DEF KeepsAll
  <2>5. IndexCandidates(q, plan) = Shortlists(A, limit)
    BY <1>2, <2>3 DEF IndexCandidates
  <2>6. IndexCandidates(q, plan) = {A}
    BY <2>4, <2>5 DEF Shortlists
  <2>7. A \in SUBSET AllMembers
    BY <2>3 DEF Scanned, AllMembers
  <2>8. ASSUME NEW m \in AllMembers, m.id \notin tail, Match(q.filter, m.attrs) PROVE m \in A
    <3>1. PICK c \in D : m \in Members(c)
      BY DEF AllMembers
    <3>2. plan = PlanVectorQuery(q.filter, epoch.attrs) /\ q.filter \in Filters
      BY <1>2, EpochAssumption DEF Plan
    <3> HIDE DEF plan
    <3>3. plan.usable => c \in plan.clusters
      BY <1>2, <2>8, <3>1, <3>2, PlanIs
    <3>4. c \in Fetched(q, plan)
      BY <2>1, <2>2, <3>1, <3>3
    <3> QED BY <3>1, <3>4 DEF Scanned
  <2> HIDE DEF A, plan
  <2>9. Passing(q, Overlaid(A)) = Passing(q, Live)
    BY <1>2, <2>7, <2>8, OverlaidAll DEF SnapshotInv
  <2>10. Ranked(q, Overlaid(A)) = Ranked(q, Live)
    BY <2>9 DEF Ranked
  <2> QED BY <1>0, <2>6, <2>10 DEF VectorQuery, Answers, plan
<1> QED BY <1>1, <1>2

\* The invariant makes answers exact.
LEMMA SnapshotAnswers ==
  ASSUME TreeLeafCapacity = 1
  PROVE  SnapshotInv => AnswersExact
<1> SUFFICES ASSUME SnapshotInv, NEW q \in Queries
             PROVE  /\ VectorQuery(q) # {}
                    /\ Plan(q).filterFirst \/ (ProbesAll(q) /\ KeepsAll(q, Plan(q))) =>
                         VectorQuery(q) = {Exhaustive(q)}
                    /\ BM25Query(q) = ExhaustiveText(q)
  BY DEF AnswersExact
<1>1. VectorQuery(q) # {}
  BY SomeAnswer
<1>2. ASSUME Plan(q).filterFirst PROVE VectorQuery(q) = {Exhaustive(q)}
  BY <1>2, SnapshotFilterFirst DEF FilterFirstExact
<1>3. ASSUME ~ Plan(q).filterFirst, ProbesAll(q), KeepsAll(q, Plan(q)) PROVE VectorQuery(q) = {Exhaustive(q)}
  BY <1>3, ProbedExact
<1>4. BM25Query(q) = ExhaustiveText(q)
  <2>1. TextHits(q) = LiveHits(q, DOMAIN docs)
    BY QueryIs, TextHitsAre
  <2> QED BY <2>1 DEF BM25Query, ExhaustiveText
<1> QED BY <1>1, <1>2, <1>3, <1>4

(***************************************************************************)
(* With leaves of one cluster, as in the code, answers are exact: no query *)
(* fails, a vector query whose filter is resolved first, or which probes   *)
(* as many clusters as there are and cuts nothing, answers what a scan of  *)
(* all live documents would, and so does every text query                  *)
(* (runVectorQuery, probeClusters, runBM25Query).                          *)
(***************************************************************************)
THEOREM AnswersCorrect ==
  ASSUME TreeLeafCapacity = 1
  PROVE  Spec => []AnswersExact
<1>1. SnapshotInv => AnswersExact
  BY SnapshotAnswers
<1> QED BY <1>1, SnapshotInvariant, PTL
=============================================================================
