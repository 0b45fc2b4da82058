----------------------------- MODULE Clustering -----------------------------
(***************************************************************************)
(* The clustering primitives of vector.go on which the vector index is     *)
(* built: the Euclidean distance, the mean of some points, and Lloyd's     *)
(* k-means with its deterministic seeding and the reseeding of empty       *)
(* clusters.                                                               *)
(*                                                                         *)
(* Vectors have one dimension and are integers.  A mean is an integer      *)
(* division, which is exact because the positions in use are multiples of  *)
(* a number that every occurring count divides (see VectorEpoch); the      *)
(* rounding of float32 is abstracted away.  Indices start at 1.            *)
(***************************************************************************)
EXTENDS Ordering, FiniteSetsExt, SequencesExt

CONSTANT KMeansIters    \* kmeansIters, 25 in the code

ASSUME KMeansItersAssumption == KMeansIters \in Nat \ {0}

Numbers(n) == [i \in 1..n |-> i]

Distance(a, b) == IF a < b THEN b - a ELSE a - b

(* The mean of the points whose indices are in the non-empty set I.        *)
MeanOf(points, I) == SumFunctionOnSet(points, I) \div Cardinality(I)

MeanVec(points) == MeanOf(points, DOMAIN points)

(* The square root of n rounded to an integer, at least 1.                 *)
ChooseK(n) ==
  IF n = 0 THEN 1
  ELSE CHOOSE k \in 1..n : (2 * k - 1) * (2 * k - 1) <= 4 * n
                        /\ 4 * n < (2 * k + 1) * (2 * k + 1)

-----------------------------------------------------------------------------
InCluster(assign, c) == {i \in DOMAIN assign : assign[i] = c}

(* Each point goes to its nearest centroid, the first of them on a tie.    *)
AssignPoints(points, centroids) ==
  [i \in DOMAIN points |->
     CHOOSE c \in DOMAIN centroids :
       \A d \in DOMAIN centroids :
         LET dc == Distance(points[i], centroids[c])
             dd == Distance(points[i], centroids[d])
         IN  dc < dd \/ (dc = dd /\ c <= d)]

RecomputeCentroids(points, assign, centroids) ==
  [c \in DOMAIN centroids |->
     LET I == InCluster(assign, c)
     IN  IF I = {} THEN centroids[c] ELSE MeanOf(points, I)]

(* An empty cluster takes the point that is farthest from its own          *)
(* centroid, among the clusters that can spare one.  With no more          *)
(* clusters than points there always is such a point, so the random        *)
(* fallback of the code is never used.                                     *)
Reseeded(points, s, c) ==
  LET spare == {i \in DOMAIN points : Cardinality(InCluster(s.assign, s.assign[i])) > 1}
      Own(i) == Distance(points[i], s.centroids[s.assign[i]])
      far == CHOOSE i \in spare :
               \A j \in spare : Own(j) < Own(i) \/ (Own(j) = Own(i) /\ i <= j)
  IN  IF InCluster(s.assign, c) # {} THEN s
      ELSE [centroids |-> [s.centroids EXCEPT ![c] = points[far]],
            assign    |-> [s.assign EXCEPT ![far] = c],
            done      |-> s.done]

ReseedEmpty(points, s) ==
  FoldLeft(LAMBDA acc, c : Reseeded(points, acc, c), s, Numbers(Len(s.centroids)))

(* One pass of Lloyd's algorithm.  The first pass never ends the loop.     *)
Moved(points, assign, s, iter) ==
  [centroids |-> RecomputeCentroids(points, assign, s.centroids),
   assign    |-> assign,
   done      |-> assign = s.assign /\ iter > 1]

Pass(points, s, iter) ==
  IF s.done THEN s
  ELSE ReseedEmpty(points, Moved(points, AssignPoints(points, s.centroids), s, iter))

(* The passes of the loop; those after its end change nothing.             *)
Lloyd(points, start) ==
  FoldLeft(LAMBDA s, iter : Pass(points, s, iter), start, Numbers(KMeansIters))

(* KMeans for a non-empty sequence of points.                              *)
KMeans(points, k) ==
  LET seeds == SubSeq(points, 1, Min({Max({k, 1}), Len(points)}))
  IN  Lloyd(points, [centroids |-> seeds, assign |-> [i \in DOMAIN points |-> 1], done |-> FALSE])
=============================================================================
