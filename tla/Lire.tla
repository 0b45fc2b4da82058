-------------------------------- MODULE Lire --------------------------------
(***************************************************************************)
(* LIRE, the incremental rebalancing of lire.go, and the clustering of an  *)
(* epoch it is part of (clusterLive and incrementalCluster of indexer.go): *)
(* the clusters of the previous epoch are copied forward, members that are *)
(* no longer live are removed, new vectors go to their nearest posting,    *)
(* then postings are split, merged and reassigned.                         *)
(*                                                                         *)
(* A posting is [centroid, members]; members is a sequence of              *)
(* [id, vec, version].  The working set is a function from cluster ids to  *)
(* postings: the list of the code is always in ascending order of ids.     *)
(* Document ids are numbers, ordered as the strings of the code are.       *)
(***************************************************************************)
EXTENDS Clustering

CONSTANTS SplitCapMultiplier,  \* splitCapMultiplier, 2 in the code
          MergeMinDivisor,     \* mergeMinDivisor, 2 in the code
          ReassignTopN         \* lireIndex.reassignTopN: the indexer never sets it, 0

ASSUME LireAssumption ==
  /\ SplitCapMultiplier \in Nat \ {0}
  /\ MergeMinDivisor \in Nat \ {0}
  /\ ReassignTopN \in Nat

MembersOf(posting) == {posting.members[i].id : i \in DOMAIN posting.members}

SortedById(members) == Sorted(members, LAMBDA a, b : a.id < b.id)

Without(cl, id) == [i \in DOMAIN cl \ {id} |-> cl[i]]

With(cl, id, posting) == [i \in DOMAIN cl \cup {id} |-> IF i = id THEN posting ELSE cl[i]]

TotalMembers(cl) == SumFunction([i \in DOMAIN cl |-> Len(cl[i].members)])

(* The posting with the nearest centroid, the lowest id on a tie.          *)
NearestClusterID(cl, v, skip) ==
  LET D(i) == Distance(v, cl[i].centroid)
      S == DOMAIN cl \ skip
  IN  CHOOSE i \in S : \A j \in S : D(i) < D(j) \/ (D(i) = D(j) /\ i <= j)

(* A posting that has no members keeps its centroid.                       *)
Recenter(posting) ==
  IF posting.members = <<>> THEN posting
  ELSE [posting EXCEPT !.centroid =
          MeanVec([i \in DOMAIN posting.members |-> posting.members[i].vec])]

Recentered(cl, ids) == [i \in DOMAIN cl |-> IF i \in ids THEN Recenter(cl[i]) ELSE cl[i]]

-----------------------------------------------------------------------------
(* A working state is [cl, next, touched]: next is the next fresh id.      *)

(* Insert: into the nearest posting, or a new one when there is none.      *)
InsertNearest(w, entry) ==
  LET empty == DOMAIN w.cl = {}
      home  == IF empty THEN w.next ELSE NearestClusterID(w.cl, entry.vec, {})
      posting == IF empty THEN [centroid |-> entry.vec, members |-> <<entry>>]
                 ELSE [w.cl[home] EXCEPT !.members = Append(@, entry)]
  IN  [cl |-> With(w.cl, home, posting),
       next |-> IF empty THEN w.next + 1 ELSE w.next,
       touched |-> w.touched \cup {home}]

(* The two halves of a posting under 2-means.                              *)
Sides(m, km) == [side \in {1, 2} |-> Selected(m, InCluster(km.assign, side))]

Halves(m) == Sides(m, KMeans([i \in DOMAIN m |-> m[i].vec], 2))

(* Split: the posting is replaced by two with fresh ids, unless it is      *)
(* indivisible.                                                            *)
Split2(w, victim, halves) ==
  LET Child(side) == Recenter([w.cl[victim] EXCEPT !.members = halves[side]])
  IN  IF \E side \in {1, 2} : halves[side] = <<>> THEN w
      ELSE [cl |-> With(With(Without(w.cl, victim), w.next, Child(1)), w.next + 1, Child(2)),
            next |-> w.next + 2,
            touched |-> (w.touched \ {victim}) \cup {w.next, w.next + 1}]

(* One round of the split loop: the oversized posting with the lowest id.  *)
(* An indivisible one ends the loop.                                       *)
SplitRound(w, cap) ==
  LET over == {i \in DOMAIN w.cl : Len(w.cl[i].members) > cap}
  IN  IF over = {} THEN w
      ELSE Split2(w, Min(over), Halves(w.cl[Min(over)].members))

SplitOversized(w, cap) ==
  FoldLeft(LAMBDA acc, n : SplitRound(acc, cap), w, Numbers(TotalMembers(w.cl) + 1))

(* One round of the merge loop: the underfull posting with the lowest id   *)
(* is emptied into the posting nearest to it.                              *)
MergeRound(w, floor) ==
  LET under  == {i \in DOMAIN w.cl : Len(w.cl[i].members) < floor}
      victim == Min(under)
      target == NearestClusterID(w.cl, w.cl[victim].centroid, {victim})
      merged == Recenter([w.cl[target] EXCEPT !.members = @ \o w.cl[victim].members])
  IN  IF under = {} \/ Cardinality(DOMAIN w.cl) <= 1 THEN w
      ELSE [cl |-> Without(With(w.cl, target, merged), victim),
            next |-> w.next,
            touched |-> (w.touched \ {victim}) \cup {target}]

MergeUnderfull(w, floor) ==
  FoldLeft(LAMBDA acc, n : MergeRound(acc, floor), w, Numbers(Cardinality(DOMAIN w.cl) + 1))

-----------------------------------------------------------------------------
(* The ReassignTopN postings nearest to a centroid.                        *)
NearbyPostings(cl, center, exclude) ==
  LET D(i) == Distance(center, cl[i].centroid)
      order == Ordered(DOMAIN cl \ {exclude},
                       LAMBDA i, j : D(i) < D(j) \/ (D(i) = D(j) /\ i < j))
  IN  {order[n] : n \in 1..Min({ReassignTopN, Len(order)})}

(* The members that are checked: those whose own vector moved, those of a  *)
(* changed posting that its old centroid served at least as well (Eq. 1),  *)
(* and those of a nearby posting that a changed centroid now serves at     *)
(* least as well (Eq. 2).                                                  *)
Candidate(cl, changed, old, forced, home, m) ==
  LET D(c) == Distance(m.vec, c)
  IN  \/ m.id \in forced
      \/ /\ home \in changed
         /\ ~ (home \in DOMAIN old /\ D(cl[home].centroid) < D(old[home]))
      \/ \E c \in changed \cap DOMAIN cl :
            /\ home \in NearbyPostings(cl, cl[c].centroid, c)
            /\ D(cl[c].centroid) <= D(cl[home].centroid)

\* Mutant of Remaining: the old copy of a member that moved is not dropped.
RemainingAll(members, moved) == members

(* The members of a posting without those that moved away.                 *)
Remaining(members, moved) == Selected(members, {j \in DOMAIN members : members[j].id \notin moved})

(* Where each member of each posting belongs: a candidate to its nearest   *)
(* posting, any other where it is.                                         *)
Targets(cl, changed, old, forced) ==
  [home \in DOMAIN cl |->
     [j \in DOMAIN cl[home].members |->
        LET m == cl[home].members[j]
        IN  IF Candidate(cl, changed, old, forced, home, m) THEN NearestClusterID(cl, m.vec, {})
            ELSE home]]

Goes(cl, target, home, i) ==
  Selected(cl[home].members, {j \in DOMAIN target[home] : target[home][j] = i})

MovedFrom(cl, target, home) ==
  {cl[home].members[j].id : j \in {n \in DOMAIN target[home] : target[home][n] # home}}

Bumped(ms) == [n \in DOMAIN ms |-> [ms[n] EXCEPT !.version = @ + 1]]

(* The sequences that a function gives to some ids, joined in their order. *)
Joined(parts) ==
  FoldLeft(LAMBDA acc, home : acc \o parts[home], <<>>, Ascending(DOMAIN parts))

Gained(cl, target, i) == Joined([home \in DOMAIN cl \ {i} |-> Bumped(Goes(cl, target, home, i))])

Exchanged(cl, target) ==
  [i \in DOMAIN cl |->
     [cl[i] EXCEPT !.members = Remaining(@, MovedFrom(cl, target, i)) \o Gained(cl, target, i)]]

(* Reassign: each candidate whose nearest posting is another moves there   *)
(* with a higher version.  Centroids do not change while members move, so  *)
(* the moves do not depend on their order; every posting that changed is   *)
(* recentered at the end.                                                  *)
Reassign(cl, changed, old, forced) ==
  LET target == Targets(cl, changed, old, forced)
      dirty  == {i \in DOMAIN cl : MovedFrom(cl, target, i) # {} \/ Gained(cl, target, i) # <<>>}
  IN  Recentered(Exchanged(cl, target), changed \cup dirty)

-----------------------------------------------------------------------------
SplitCap(n, k) == Max({1, (n \div Max({k, 1})) * SplitCapMultiplier})

MergeMin(n, k) == Max({1, (n \div Max({k, 1})) \div MergeMinDivisor})

(* The previous epoch as a working set.                                    *)
LoadPrevEpoch(clusters) ==
  [i \in DOMAIN clusters |->
     [centroid |-> clusters[i].centroid,
      members |-> [j \in DOMAIN clusters[i].members |->
                     LET m == clusters[i].members[j]
                     IN  [id |-> m.id, vec |-> m.vec, version |-> m.version]]]]

(* Members that are not live are removed, the others get their current     *)
(* vector.                                                                 *)
Refreshed(cl, vecOf) ==
  [i \in DOMAIN cl |->
     LET m    == cl[i].members
         kept == Selected(m, {j \in DOMAIN m : m[j].id \in DOMAIN vecOf})
     IN  [cl[i] EXCEPT !.members =
            [j \in DOMAIN kept |-> [kept[j] EXCEPT !.vec = vecOf[kept[j].id]]]]]

(* A posting is touched when it lost a member or still holds one: the      *)
(* refresh reports the posting of every member it finds.                   *)
TouchedBy(before) == {i \in DOMAIN before : before[i].members # <<>>}

PruneEmpty(cl) == [i \in {j \in DOMAIN cl : cl[j].members # <<>>} |-> cl[i]]

(* The postings in ascending order of ids, their members sorted.           *)
Snapshot(cl) ==
  LET order == Ascending(DOMAIN cl)
  IN  [n \in DOMAIN order |-> [cl[order[n]] EXCEPT !.members = SortedById(@)]]

(* The ids of the previous epoch that are still live.                      *)
Present(before, vecOf) ==
  (UNION {MembersOf(before[i]) : i \in DOMAIN before}) \cap DOMAIN vecOf

(* The ids whose vector is not the one the previous epoch had.             *)
MovedIds(before, vecOf) ==
  DOMAIN vecOf \
    {m.id : m \in {x \in UNION {ToSet(before[i].members) : i \in DOMAIN before} :
                     x.id \in DOMAIN vecOf /\ x.vec = vecOf[x.id]}}

(* Stale members are dropped and new vectors inserted, in order of ids.    *)
NewEntry(id, vecOf) == [id |-> id, vec |-> vecOf[id], version |-> 0]

NewIds(before, vecOf) == Ascending(DOMAIN vecOf \ Present(before, vecOf))

Survivors(before, vecOf) ==
  [cl |-> Refreshed(before, vecOf), next |-> Len(before) + 1, touched |-> TouchedBy(before)]

Loaded(before, vecOf) ==
  FoldLeft(LAMBDA w, id : InsertNearest(w, NewEntry(id, vecOf)),
           Survivors(before, vecOf), NewIds(before, vecOf))

RecenterTouched(w) == [w EXCEPT !.cl = Recentered(w.cl, w.touched)]

(* Each pass of a rebalance reports the postings it touched; the           *)
(* reassignment looks at all of them.                                      *)
Untouched(w)    == [w EXCEPT !.touched = {}]
Touching(w, ids) == [w EXCEPT !.touched = @ \cup ids]

SplitPass(w, cap)   == Touching(SplitOversized(Untouched(w), cap), w.touched)
MergePass(w, floor) == Touching(MergeUnderfull(Untouched(w), floor), w.touched)

Rebalanced(w, n, k) == MergePass(SplitPass(w, SplitCap(n, k)), MergeMin(n, k))

Rebalance(w) == Rebalanced(w, TotalMembers(w.cl), Cardinality(DOMAIN w.cl))

Finished(w, old, moved) == Snapshot(PruneEmpty(Reassign(w.cl, w.touched, old, moved)))

CarriedForward(before, vecOf) ==
  Finished(Rebalance(RecenterTouched(Loaded(before, vecOf))),
           [i \in DOMAIN before |-> before[i].centroid],
           MovedIds(before, vecOf))

IncrementalCluster(prev, vecOf) == CarriedForward(LoadPrevEpoch(prev), vecOf)

(* A build from nothing: k-means over all vectors in the order of ids.     *)
Buckets(ids, km, vecOf) ==
  LET Bucket(c) == Ascending(InCluster(km.assign, c))
      Entries(I) == [j \in DOMAIN I |-> NewEntry(ids[I[j]], vecOf)]
  IN  [c \in DOMAIN km.centroids |->
         [centroid |-> km.centroids[c], members |-> Entries(Bucket(c))]]

Clustered(ids, vecOf) ==
  Buckets(ids, KMeans([i \in DOMAIN ids |-> vecOf[ids[i]]], ChooseK(Len(ids))), vecOf)

FullCluster(vecOf) == Clustered(Ascending(DOMAIN vecOf), vecOf)

(* Incremental where the previous epoch has clusters to carry forward.     *)
ClusterLive(prev, vecOf) ==
  IF prev = <<>> THEN FullCluster(vecOf) ELSE IncrementalCluster(prev, vecOf)
=============================================================================
