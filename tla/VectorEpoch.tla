---------------------------- MODULE VectorEpoch -----------------------------
(***************************************************************************)
(* What an epoch contains and what queries answer from it: the vector      *)
(* index that BuildIndex clusters, incrementally where it can (Lire), the  *)
(* centroid tree over it (CentroidTree), the bitmap attribute index        *)
(* (AttributeIndex), the full-text index (Bm25), and the vector, text and  *)
(* hybrid queries of query.go over the epoch and the unindexed tail.       *)
(*                                                                         *)
(* IndexBuild models how an epoch is written and published while others    *)
(* run, and takes its content to be the fold of a prefix of the log.  This *)
(* module takes the publication to be one step and models the content.     *)
(***************************************************************************)
EXTENDS Lire, CentroidTree, AttributeIndex, Bm25

CONSTANTS Ids,                  \* document ids, numbers
          Scale,                \* every position is a multiple of it
          NoVec,                \* a document without a vector
          Batches,              \* the calls of Upsert that are tried
          Queries,              \* the queries that are tried
          ShortlistMultiplier,  \* shortlistMultiplier, 4 in the code
          HybridMultiplier,     \* hybridShortlistMultiplier, 5 in the code
          RRFK,                 \* rrfK, 60 in the code
          MaxSegments,          \* bound on the calls of Upsert
          MaxBuilds             \* bound on the builds

(* A batch maps ids to [deleted, vec, attrs].  A query is                  *)
(* [pos, text, filter, topK, nProbe], text being the terms of its text.    *)
(* Positions are such that the mean of up to six of them, and the mean of  *)
(* up to six such means, are integers.                                     *)
ASSUME EpochAssumption ==
  /\ Ids \subseteq Nat /\ IsFiniteSet(Ids)
  /\ Scale \in Nat \ {0} /\ Scale % 3600 = 0
  /\ \A b \in Batches : DOMAIN b \subseteq Ids /\ IsFiniteSet(DOMAIN b)
  /\ \A b \in Batches : \A id \in DOMAIN b :
       b[id].vec # NoVec => b[id].vec \in Int /\ b[id].vec % Scale = 0
  /\ Queries \subseteq [pos : Int, text : Seq(STRING), filter : Filters, topK : Nat, nProbe : Nat]
  /\ ShortlistMultiplier \in Nat \ {0}
  /\ HybridMultiplier \in Nat \ {0}
  /\ RRFK \in Nat

(* No objects: IndexEpoch = 0.                                             *)
NoEpoch == <<>>

VARIABLES docs,      \* the live documents: ids to [vec, attrs]
          tail,      \* the ids mentioned in the log from IndexedUpTo on
          epoch,     \* the objects of the live epoch, or NoEpoch
          segments,  \* the calls of Upsert so far
          builds     \* the builds so far

vars == <<docs, tail, epoch, segments, builds>>

Init ==
  /\ docs = [id \in {} |-> {}]
  /\ tail = {}
  /\ epoch = NoEpoch
  /\ segments = 0
  /\ builds = 0

(* One segment: the last writer of an id wins, a tombstone removes it.     *)
Upsert(batch) ==
  LET kept   == DOMAIN docs \ DOMAIN batch
      stored == {id \in DOMAIN batch : ~ batch[id].deleted}
  IN  /\ segments < MaxSegments
      /\ segments' = segments + 1
      /\ docs' = [id \in kept \cup stored |->
                    IF id \in stored THEN [vec |-> batch[id].vec, attrs |-> batch[id].attrs]
                    ELSE docs[id]]
      /\ tail' = tail \cup DOMAIN batch
      /\ UNCHANGED <<epoch, builds>>

-----------------------------------------------------------------------------
WithVector(live) == {id \in DOMAIN live : live[id].vec # NoVec}

(* The cluster files: each member with its current vector and attributes.  *)
(* No live vector, no vector index.                                        *)
ClusterFiles(clusters, live) ==
  LET Entry(m) == [id |-> m.id, vec |-> live[m.id].vec, attrs |-> live[m.id].attrs,
                   version |-> m.version]
  IN  [c \in DOMAIN clusters |->
         [clusters[c] EXCEPT !.members = [j \in DOMAIN @ |-> Entry(@[j])]]]

BuildVectorIndex(prev, live) ==
  IF WithVector(live) = {} THEN <<>>
  ELSE ClusterFiles(ClusterLive(prev, [id \in WithVector(live) |-> live[id].vec]), live)

Centroids(clusters) == [c \in DOMAIN clusters |-> clusters[c].centroid]

ClusterOf(clusters) ==
  [id \in UNION {MembersOf(clusters[c]) : c \in DOMAIN clusters} |->
     Max({c \in DOMAIN clusters : id \in MembersOf(clusters[c])})]

AttrsOf(live) == [id \in DOMAIN live |-> live[id].attrs]

(* A text field that is missing or not a string is an empty text, which is *)
(* the number 0.                                                           *)
TextFieldValue(attrs) ==
  IF TextField \in DOMAIN attrs THEN
     IF attrs[TextField].kind = "str" THEN attrs[TextField].v ELSE 0
  ELSE 0

(* Every text has its terms, and the table of the idf reaches as far as    *)
(* there are ids.                                                          *)
ASSUME TextAssumption ==
  /\ \A b \in Batches : \A id \in DOMAIN b : TextFieldValue(b[id].attrs) \in DOMAIN Tokens
  /\ \A n \in 0..Cardinality(Ids) : \A df \in 0..n : <<n, df>> \in DOMAIN IDF

TextsOf(live) == [id \in DOMAIN live |-> TextFieldValue(live[id].attrs)]

(* The objects of an epoch; docs is docs.json.                             *)
ObjectsOver(clusters, live) ==
  [clusters |-> clusters,
   tree     |-> BuildTree(Centroids(clusters)),
   attrs    |-> BuildAttributeIndex(AttrsOf(live), ClusterOf(clusters)),
   bm25     |-> BuildBM25(TextsOf(live)),
   docs     |-> AttrsOf(live)]

Objects(prev, live) == ObjectsOver(BuildVectorIndex(prev, live), live)

(* What there is to carry forward: the clusters of the previous epoch, or  *)
(* nothing if one of its objects cannot be read or decoded.                *)
PrevClusters == IF epoch = NoEpoch THEN {<<>>} ELSE {<<>>, epoch.clusters}

BuildIndex ==
  /\ builds < MaxBuilds
  /\ builds' = builds + 1
  /\ \E prev \in PrevClusters : epoch' = Objects(prev, docs)
  /\ tail' = {}
  /\ UNCHANGED <<docs, segments>>

Next == BuildIndex \/ \E batch \in Batches : Upsert(batch)

Spec == Init /\ [][Next]_vars

-----------------------------------------------------------------------------
(* Vector queries.                                                         *)
Members(c) == {epoch.clusters[c].members[j] : j \in DOMAIN epoch.clusters[c].members}

(* The cluster files that a query reads: those of the plan if it gathers   *)
(* the candidates directly, else those it probes but for the ones that the *)
(* plan rules out.                                                         *)
Fetched(q, plan) ==
  IF plan.filterFirst THEN plan.clusters
  ELSE {c \in ToSet(ProbeClusters(epoch.tree, Centroids(epoch.clusters), q.pos, q.nProbe)) :
          plan.usable => c \in plan.clusters}

Scanned(q, plan) == UNION {Members(c) : c \in Fetched(q, plan)}

(* The prefilter keeps the best limit members by an estimate of their      *)
(* distance; any of them may be the best by the estimate.                  *)
Shortlists(gathered, limit) ==
  IF Cardinality(gathered) <= limit THEN {gathered} ELSE kSubset(limit, gathered)

FilterFirstCandidates(plan) ==
  UNION {{m \in Members(c) : <<c, m.id>> \in plan.wanted} : c \in plan.clusters}

(* The possible candidate sets of vectorCandidatesFromIndex.  There is     *)
(* none, and the query fails, if it reads a file that is not there.        *)
IndexCandidates(q, plan) ==
  IF epoch = NoEpoch THEN {{}}
  ELSE IF ~ (Fetched(q, plan) \subseteq DOMAIN epoch.clusters) THEN {}
  ELSE IF plan.filterFirst THEN {FilterFirstCandidates(plan)}
  ELSE Shortlists(Scanned(q, plan), q.topK * ShortlistMultiplier)

(* The candidates of the tail: the written documents that have a vector.   *)
FreshCandidates ==
  {[id |-> id, vec |-> docs[id].vec, attrs |-> docs[id].attrs] : id \in WithVector(docs) \cap tail}

\* Mutant of Overlaid: the tail is added to the candidates of the index without replacing any.
OverlaidStale(cands) ==
  {[id |-> m.id, vec |-> m.vec, attrs |-> m.attrs] : m \in cands} \cup FreshCandidates

(* The tail is newer than the epoch: a document it mentions counts only    *)
(* with its current vector, if it has one.                                 *)
Overlaid(cands) ==
  {[id |-> m.id, vec |-> m.vec, attrs |-> m.attrs] : m \in {x \in cands : x.id \notin tail}}
  \cup FreshCandidates

(* The hits that pass the filter, nearest first, cut to topK.              *)
NearerHit(q, a, b) ==
  LET da == Distance(q.pos, a.vec)
      db == Distance(q.pos, b.vec)
  IN  da < db \/ (da = db /\ a.id < b.id)

Passing(q, hits) == {h \in hits : Match(q.filter, h.attrs)}

Ranked(q, hits) ==
  Prefix(Sorted(SetToSeq(Passing(q, hits)), LAMBDA a, b : NearerHit(q, a, b)), q.topK)

Plan(q) == IF epoch = NoEpoch THEN NoPlan ELSE PlanVectorQuery(q.filter, epoch.attrs)

Answers(q, plan) == {Ranked(q, Overlaid(cands)) : cands \in IndexCandidates(q, plan)}

VectorQuery(q) == Answers(q, Plan(q))

-----------------------------------------------------------------------------
(* Text queries.  The statistics of the epoch score the indexed documents  *)
(* and those of the tail; a document that the tail mentions counts only    *)
(* with its current text, and only if that has a term of the query.        *)
Statistics == IF epoch = NoEpoch THEN EmptyBM25 ELSE epoch.bm25

IndexHits(q) ==
  LET scores == Score(epoch.bm25, q.text)
  IN  {[id |-> id, attrs |-> epoch.docs[id], score |-> scores[id]] : id \in DOMAIN scores \ tail}

LiveHits(q, ids) ==
  {h \in {[id |-> id, attrs |-> docs[id].attrs,
           score |-> ScoreDoc(Statistics, TextFieldValue(docs[id].attrs), q.text)] : id \in ids} :
     h.score > 0}

TextHits(q) ==
  (IF epoch = NoEpoch THEN {} ELSE IndexHits(q)) \cup LiveHits(q, DOMAIN docs \cap tail)

HigherScore(a, b) == a.score > b.score \/ (a.score = b.score /\ a.id < b.id)

RankedText(q, hits) == Prefix(Sorted(SetToSeq(Passing(q, hits)), HigherScore), q.topK)

BM25Query(q) == RankedText(q, TextHits(q))

(* Hybrid queries: both legs with a deeper window, fused by the sum of     *)
(* 1 / (RRFK + rank), as the fraction num / den.                           *)
IdsOf(results) == [i \in DOMAIN results |-> results[i].id]

Rank(ids, id) == CHOOSE i \in DOMAIN ids : ids[i] = id

Term(ids, id) ==
  IF id \in Range(ids) THEN [num |-> 1, den |-> RRFK + Rank(ids, id)] ELSE [num |-> 0, den |-> 1]

\* Mutant of Added: the second leg overwrites the first.
AddedLast(s, t) == IF t.num > 0 THEN t ELSE s

Added(s, t) == [num |-> s.num * t.den + t.num * s.den, den |-> s.den * t.den]

FuseRRF(vecIds, textIds, topK) ==
  LET S(id) == Added(Term(vecIds, id), Term(textIds, id))
      Above(a, b) == S(a).num * S(b).den > S(b).num * S(a).den
  IN  Prefix(Ordered(Range(vecIds) \cup Range(textIds),
               LAMBDA a, b : Above(a, b) \/ (~ Above(b, a) /\ a < b)),
             topK)

Deepened(q) == [q EXCEPT !.topK = @ * HybridMultiplier]

HybridLegs(q) ==
  {<<IdsOf(r), IdsOf(BM25Query(Deepened(q)))>> : r \in VectorQuery(Deepened(q))}

-----------------------------------------------------------------------------
(* Over builds that carry clusters forward, split, merge and reassign      *)
(* them: the clusters of the live epoch hold every document that had a     *)
(* vector when it was built exactly once, with a vector and attributes     *)
(* that are current unless the tail mentions it, and none is empty         *)
(* (incrementalCluster, buildVectorIndex).                                 *)
EpochPartitions ==
  epoch # NoEpoch =>
    LET places == UNION {{c} \X DOMAIN epoch.clusters[c].members : c \in DOMAIN epoch.clusters}
        At(p) == epoch.clusters[p[1]].members[p[2]]
    IN  /\ \A c \in DOMAIN epoch.clusters : epoch.clusters[c].members # <<>>
        /\ \A p, r \in places : At(p).id = At(r).id => p = r
        /\ {At(p).id : p \in places} \ tail = WithVector(docs) \ tail
        /\ \A p \in places : At(p).id \notin tail =>
              At(p).vec = docs[At(p).id].vec /\ At(p).attrs = docs[At(p).id].attrs

(* What a query would answer that looks at every live document.            *)
Exhaustive(q) ==
  Ranked(q, {[id |-> id, vec |-> docs[id].vec, attrs |-> docs[id].attrs] : id \in WithVector(docs)})

ExhaustiveText(q) == RankedText(q, LiveHits(q, DOMAIN docs))

ProbesAll(q) == epoch = NoEpoch \/ q.nProbe >= Len(epoch.clusters)

KeepsAll(q, plan) ==
  \/ epoch = NoEpoch
  \/ Cardinality(Scanned(q, plan)) <= q.topK * ShortlistMultiplier

(* No query fails.  A vector query answers what a scan of all live         *)
(* documents would if its filter is selective enough to be resolved first, *)
(* however few clusters it asks to probe, and if it probes as many         *)
(* clusters as there are and its shortlist is not cut.  Every text query   *)
(* does, the indexed documents being scored by their postings and the      *)
(* others by their text.  This is so whatever the plan, the centroid tree  *)
(* and the tail hold (runVectorQuery, filterFirstCandidates,               *)
(* runBM25Query).                                                          *)
AnswersExact ==
  \A q \in Queries :
    /\ VectorQuery(q) # {}
    /\ Plan(q).filterFirst \/ (ProbesAll(q) /\ KeepsAll(q, Plan(q))) =>
         VectorQuery(q) = {Exhaustive(q)}
    /\ BM25Query(q) = ExhaustiveText(q)

(* However few clusters are probed and whatever the estimate cuts from the *)
(* shortlist before the filter is applied, an answer is about the present: *)
(* no document twice, none that is deleted, each ranked by its current     *)
(* vector and filtered by its current attributes; and the cut costs no     *)
(* fresh write, the answer being rank by rank at least as near as the one  *)
(* that the tail alone would give (vectorCandidatesFromIndex,              *)
(* runVectorQuery).                                                        *)
PartialAnswersSound ==
  \A q \in Queries : \A answer \in VectorQuery(q) :
    LET fresh == Ranked(q, FreshCandidates)
    IN  /\ IsInjective(IdsOf(answer))
        /\ \A i \in DOMAIN answer :
             /\ answer[i].id \in DOMAIN docs
             /\ docs[answer[i].id].vec = answer[i].vec
             /\ docs[answer[i].id].attrs = answer[i].attrs
        /\ \A i \in DOMAIN fresh :
             /\ i \in DOMAIN answer
             /\ Distance(q.pos, answer[i].vec) <= Distance(q.pos, fresh[i].vec)

(* A plan only ever helps: where neither shortlist is cut, the planned     *)
(* answer of a query that probes some of the clusters is rank by rank at   *)
(* least as near, and at least as long, as the answer without a plan       *)
(* ("The plan never changes WHICH documents pass the filter", query.go).   *)
PlanLosesNothing ==
  \A q \in Queries :
    KeepsAll(q, NoPlan) =>
      \A planned \in VectorQuery(q), plain \in Answers(q, NoPlan) :
        /\ Len(planned) >= Len(plain)
        /\ \A i \in DOMAIN plain :
             Distance(q.pos, planned[i].vec) <= Distance(q.pos, plain[i].vec)

(* Fusion agrees with two legs that agree: a document that stands before   *)
(* another in each list the other is in is not fused behind it, and the    *)
(* cut to topK does not drop it while the other stays (fuseRRF).           *)
FusionRespectsLegs ==
  \A q \in Queries : \A legs \in HybridLegs(q) :
    LET fused == FuseRRF(legs[1], legs[2], q.topK)
        Before(ids, a, b) == b \in Range(ids) => a \in Range(ids) /\ Rank(ids, a) < Rank(ids, b)
    IN  \A a, b \in Range(legs[1]) \cup Range(legs[2]) :
          (a # b /\ Before(legs[1], a, b) /\ Before(legs[2], a, b)) => Before(fused, a, b)
=============================================================================
