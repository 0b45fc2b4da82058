---------------------------- MODULE CentroidTree ----------------------------
(***************************************************************************)
(* The hierarchical centroid tree of vector.go: BuildTree over the flat    *)
(* centroids of an epoch, and the beam descent that chooses the clusters a *)
(* query probes (probeClusters of query.go).                               *)
(*                                                                         *)
(* A node is [centroid, cluster, children]; a leaf has no children and     *)
(* names the cluster it routes to, cluster is 0 in an inner node.  NoTree  *)
(* is the nil of BuildTree.  A bucket is the set of the clusters of its    *)
(* items, which it holds in ascending order.  The count of comparisons is  *)
(* left out.                                                               *)
(***************************************************************************)
EXTENDS Clustering

CONSTANTS TreeFanout,        \* treeFanout, 8 in the code
          TreeLeafCapacity,  \* treeLeafCapacity, 1 in the code
          TreeBeamFactor     \* treeBeamFactor, 4 in the code

ASSUME TreeAssumption ==
  /\ TreeFanout \in Nat \ {0, 1}
  /\ TreeLeafCapacity \in Nat \ {0}
  /\ TreeBeamFactor \in Nat \ {0}

NoTree == <<>>

IsLeaf(node) == node.children = <<>>

(* A bucket sealed as a leaf: of several clusters only the lowest is       *)
(* routed to.                                                              *)
NewLeaf(centroids, bucket) ==
  [centroid |-> MeanOf(centroids, bucket), cluster |-> Min(bucket), children |-> <<>>]

(* The non-empty buckets that a k-means pass over a bucket makes of it.    *)
Groups(bucket, km) ==
  LET items == Ascending(bucket)
      all == [c \in DOMAIN km.centroids |->
                [centroid |-> km.centroids[c],
                 bucket   |-> {items[i] : i \in InCluster(km.assign, c)}]]
  IN  Selected(all, {c \in DOMAIN all : all[c].bucket # {}})

(* A child keeps the centroid of the split as its own.                     *)
InnerNode(centroids, bucket, groups, Node) ==
  IF Len(groups) <= 1 THEN NewLeaf(centroids, bucket)
  ELSE [centroid |-> MeanOf(centroids, bucket),
        cluster  |-> 0,
        children |-> [j \in DOMAIN groups |->
                        [Node[groups[j].bucket] EXCEPT !.centroid = groups[j].centroid]]]

(* The node of a bucket, given those of the smaller ones.                  *)
NodeOver(centroids, bucket, Node) ==
  IF Cardinality(bucket) <= TreeLeafCapacity \/ Cardinality(bucket) <= 1
  THEN NewLeaf(centroids, bucket)
  ELSE InnerNode(centroids, bucket,
                 Groups(bucket, KMeans(Selected(centroids, bucket), TreeFanout)), Node)

BuildCentroidTree(centroids) ==
  LET Node[bucket \in SUBSET DOMAIN centroids] == NodeOver(centroids, bucket, Node)
  IN  Node[DOMAIN centroids]

(* The tree over the centroids, nil when it would be a single leaf.        *)
UnlessLeaf(root) == IF IsLeaf(root) THEN NoTree ELSE root

BuildTree(centroids) ==
  IF centroids = <<>> THEN NoTree
  ELSE UnlessLeaf(BuildCentroidTree(centroids))

-----------------------------------------------------------------------------
(* The order of the nodes of a level: by distance, at equal distance       *)
(* leaves by cluster and inner nodes last.                                 *)
LeafFirst(m, n) == IsLeaf(m) /\ (IsLeaf(n) => m.cluster < n.cluster)

Nearer(query, m, n) ==
  LET dm == Distance(query, m.centroid)
      dn == Distance(query, n.centroid)
  IN  dm < dn \/ (dm = dn /\ LeafFirst(m, n))

Prefix(seq, n) == SubSeq(seq, 1, Min({n, Len(seq)}))

\* Mutant of Down: a leaf above the lowest level is not carried along.
DownInner(node) == node.children

(* What a node of the frontier leads to; a leaf carries itself forward.    *)
Down(node) == IF IsLeaf(node) THEN <<node>> ELSE node.children

(* One level, cut to the beam.                                             *)
NextLevel(query, frontier, beam) ==
  Prefix(Sorted(FlattenSeq([i \in DOMAIN frontier |-> Down(frontier[i])]),
                LAMBDA m, n : Nearer(query, m, n)),
         beam)

AllLeaves(frontier) == \A i \in DOMAIN frontier : IsLeaf(frontier[i])

Deeper(query, frontier, beam) ==
  IF AllLeaves(frontier) THEN frontier ELSE NextLevel(query, frontier, beam)

(* Down to the leaves: a tree over k clusters has at most k levels.        *)
Descend(query, root, beam, k) ==
  FoldLeft(LAMBDA frontier, level : Deeper(query, frontier, beam), <<root>>, Numbers(k))

(* The clusters of the leaves that are reached, nearest first, each once.  *)
BeamDescend(tree, query, beam, k) ==
  LET leaves == Sorted(Descend(query, tree, Max({beam, 1}), k),
                       LAMBDA m, n : Nearer(query, m, n))
      First(i) == \A j \in 1..(i - 1) : leaves[j].cluster # leaves[i].cluster
      kept == Selected(leaves, {i \in DOMAIN leaves : First(i)})
  IN  [j \in DOMAIN kept |-> kept[j].cluster]

(* The flat scan: every centroid, nearest first, the lower index first.    *)
NearerCentroid(query, centroids, i, j) ==
  LET di == Distance(query, centroids[i])
      dj == Distance(query, centroids[j])
  IN  di < dj \/ (di = dj /\ i < j)

NearestClusters(query, centroids, nProbe) ==
  Prefix(Ordered(DOMAIN centroids, LAMBDA i, j : NearerCentroid(query, centroids, i, j)), nProbe)

(* A beam wider than the probe budget, no wider than the index, then the   *)
(* nearest nProbe of its leaves.                                           *)
Beam(nProbe, k) == Min({nProbe * TreeBeamFactor, k})

ProbeClusters(tree, centroids, query, nProbe) ==
  IF tree = NoTree THEN NearestClusters(query, centroids, nProbe)
  ELSE Prefix(BeamDescend(tree, query, Beam(nProbe, Len(centroids)), Len(centroids)), nProbe)
=============================================================================
