----------------------------- MODULE IndexBuild -----------------------------
(***************************************************************************)
(* Index epochs of one root namespace: builders that fold the WAL into the *)
(* objects of index/v<epoch>/ and publish them with a manifest swap        *)
(* (internal/engine/indexer.go), and readers that join an epoch with the   *)
(* unindexed tail of the WAL (query.go).  A reader asks a query node,      *)
(* whose handlers share a cache (cmd/tpuf-node, cache.go), or runs a       *)
(* command, a process that starts with an empty cache (cmd/tpuf).          *)
(*                                                                         *)
(* An Upsert is one step here, the append of a segment with its manifest   *)
(* swap: WalCommit shows that this is what writers achieve.  Every other   *)
(* request to the store is a step of its own.                              *)
(*                                                                         *)
(* A segment holds one operation.  "vec" upserts a document with a vector, *)
(* "txt" one that only the text query matches, "del" is a tombstone.  A    *)
(* version of a document is named by its id and the seq of its operation.  *)
(* The content of an index object is a function of the WAL prefix it was   *)
(* folded from, so the length of that prefix stands for it.  There is one  *)
(* cluster, probed by every vector query, and every hit fits in the answer.*)
(* The filter of a filtered query matches every document with a vector.    *)
(***************************************************************************)
EXTENDS Integers, Sequences, FiniteSets, SequencesExt

CONSTANTS
  Builders,         \* processes that may run BuildIndex
  Readers,          \* clients, each with one request at a time
  CacheCapacity,    \* TPUF_CACHE_OBJECTS: objects in the cache of a node
  Requests,         \* the requests they make: pairs <<via, mode>>
  Ops,              \* operations writers submit: records [id, kind]
  MaxSegments,      \* bound of the model: length of the WAL
  MaxBuilds,        \* bound of the model: calls of BuildIndex
  MaxCASAttempts,   \* maxCASAttempts
  BuildsFail        \* may a build stop between two requests?

ASSUME BoundsAssumption == /\ MaxSegments \in Nat /\ MaxBuilds \in Nat
                           /\ MaxCASAttempts \in Nat \ {0}
                           /\ CacheCapacity \in Nat \ {0}
ASSUME ChoiceAssumption == BuildsFail \in BOOLEAN

\* The query node takes a vector, also with a filter, or a text, the command line
\* also both a vector and a text.
NodeModes    == {"vector", "filtered", "text", "info"}
CommandModes == NodeModes \cup {"hybrid"}
ASSUME RequestAssumption ==
  Requests \subseteq ({"node"} \X NodeModes) \cup ({"cli"} \X CommandModes)

VARIABLES
  wal,       \* the segments: segment s is wal[s + 1]
  manifest,  \* the manifest; its content stands for its ETag; Version 0 is none
  objs,      \* the index objects present: <<epoch, part>> |-> WAL prefix
  bpc,       \* what each builder does next
  build,     \* the locals of each BuildIndex
  builds,    \* number of builds started
  cache,     \* the index objects in the query node
  rpc,       \* what each request does next, or how it was answered
  query      \* the locals of each request

writeVars == <<wal, manifest>>
buildVars == <<objs, bpc, build, builds>>
readVars  == <<cache, rpc, query>>
vars == <<wal, manifest, objs, bpc, build, builds, cache, rpc, query>>

-----------------------------------------------------------------------------
\* The folds of wal.go: last writer wins per id in the window [from, to).
Window(from, to) == from..to - 1
IsLast(s, from, to) ==
  \A t \in Window(from, to) : wal[t + 1].id = wal[s + 1].id => t <= s
Latest(from, to) ==
  {<<wal[s + 1].id, s>> : s \in {t \in Window(from, to) : IsLast(t, from, to)}}
LatestOf(kinds, from, to) ==
  {v \in Latest(from, to) : wal[v[2] + 1].kind \in kinds}

\* Does no document of the prefix have a vector?
NoVector(upTo) == LatestOf({"vec"}, 0, upTo) = {}

\* buildVectorIndex writes nothing when no live document has a vector, and nothing
\* is ever deleted: what a failed build of the epoch has written stays.
Parts(upTo) ==
  IF NoVector(upTo) THEN <<"bm25", "bitmaps", "docs">>
  ELSE <<"centroids", "cluster", "bm25", "bitmaps", "docs">>

PartNames == {"centroids", "cluster", "bm25", "bitmaps", "docs"}

NoBuild == [epoch |-> 0, upTo |-> 0, todo |-> <<>>, tries |-> 0, loaded |-> <<>>]
NoManifest == [Version |-> 0, WALSeq |-> 0, IndexEpoch |-> 0, IndexedUpTo |-> 0]
NoQuery == [via |-> "none", mode |-> "none", snap |-> NoManifest, todo |-> <<>>, got |-> <<>>]

Init ==
  /\ wal = <<>>
  /\ manifest = NoManifest
  /\ objs = <<>>
  /\ bpc = [b \in Builders |-> "idle"]
  /\ build = [b \in Builders |-> NoBuild]
  /\ builds = 0
  /\ cache = <<>>
  /\ rpc = [r \in Readers |-> "idle"]
  /\ query = [r \in Readers |-> NoQuery]

\* f with x mapped to y; x may be new.
Put(f, x, y) == [z \in DOMAIN f \cup {x} |-> IF z = x THEN y ELSE f[z]]
-----------------------------------------------------------------------------
Exists == manifest.Version > 0

\* CreateManifest: a put-if-absent, so the second of two creators changes nothing.
Create ==
  /\ ~Exists
  /\ manifest' = [NoManifest EXCEPT !.Version = 1]
  /\ UNCHANGED <<wal, buildVars, readVars>>

\* A committed Upsert: a new segment, and WALSeq one further.
Upsert ==
  /\ Exists
  /\ Len(wal) < MaxSegments
  /\ \E op \in Ops : wal' = Append(wal, op)
  /\ manifest' = [manifest EXCEPT !.Version = @ + 1, !.WALSeq = @ + 1]
  /\ UNCHANGED <<buildVars, readVars>>
-----------------------------------------------------------------------------
\* Mutants: the live epoch is rebuilt in place; WALSeq is that of a cached manifest.
NewEpochInPlace == IF manifest.IndexEpoch = 0 THEN 1 ELSE manifest.IndexEpoch
SnapshotCached == 0..manifest.WALSeq

\* What BuildIndex takes from the manifest it reads.
NewEpoch == manifest.IndexEpoch + 1
Snapshot == {manifest.WALSeq}

\* BuildIndex reads the manifest and folds [0, WALSeq) of the immutable WAL.
BuildStart(b) ==
  /\ bpc[b] = "idle"
  /\ Exists
  /\ builds < MaxBuilds
  /\ \E s \in Snapshot :
       build' = [build EXCEPT ![b] = [NoBuild EXCEPT !.epoch = NewEpoch,
                                                     !.upTo = s, !.todo = Parts(s)]]
  /\ bpc' = [bpc EXCEPT ![b] = "put"]
  /\ builds' = builds + 1
  /\ UNCHANGED <<writeVars, objs, readVars>>

\* Mutant of AllPut: the publish does not wait for the last object.
AllButLastPut(rest) == Len(rest) <= 1

\* The effect of an unconditional Put, and the end of the list.
ObjsWith(k, upTo) == Put(objs, k, upTo)
AllPut(rest) == rest = <<>>

\* One unconditional Put under the epoch's prefix.
PutPart(b) ==
  LET part == Head(build[b].todo)
      rest == Tail(build[b].todo)
  IN /\ bpc[b] = "put"
     /\ objs' = ObjsWith(<<build[b].epoch, part>>, build[b].upTo)
     /\ build' = [build EXCEPT ![b].todo = rest]
     /\ bpc' = [bpc EXCEPT ![b] = IF AllPut(rest) THEN "casLoad" ELSE "put"]
     /\ UNCHANGED <<writeVars, builds, readVars>>

PublishLoad(b) ==
  /\ bpc[b] = "casLoad"
  /\ build' = [build EXCEPT ![b].loaded = manifest]
  /\ bpc' = [bpc EXCEPT ![b] = "casPut"]
  /\ UNCHANGED <<writeVars, objs, builds, readVars>>

BuildEnd(b) ==
  /\ bpc' = [bpc EXCEPT ![b] = "idle"]
  /\ build' = [build EXCEPT ![b] = NoBuild]

\* Mutant of Published: the coverage is read when the epoch is published.
PublishedLate(b) ==
  [build[b].loaded EXCEPT !.Version = @ + 1,
                          !.IndexEpoch = build[b].epoch,
                          !.IndexedUpTo = build[b].loaded.WALSeq]

\* BuildIndex's mutate: the epoch and its coverage, whatever was there before.
Published(b) ==
  [build[b].loaded EXCEPT !.Version = @ + 1,
                          !.IndexEpoch = build[b].epoch,
                          !.IndexedUpTo = build[b].upTo]

\* If-Match: does the ETag the builder read still name the stored manifest?
Matches(b) == build[b].loaded = manifest

\* The swap that makes the epoch live.
PublishStored(b) ==
  /\ bpc[b] = "casPut"
  /\ Matches(b)
  /\ manifest' = Published(b)
  /\ BuildEnd(b)
  /\ UNCHANGED <<wal, objs, builds, readVars>>

\* 412: reload and try again, or give up with the epoch unpublished.
PublishRefused(b) ==
  /\ bpc[b] = "casPut"
  /\ ~Matches(b)
  /\ \/ /\ build[b].tries + 1 < MaxCASAttempts
        /\ build' = [build EXCEPT ![b] = [build[b] EXCEPT !.tries = build[b].tries + 1,
                                                       !.loaded = <<>>]]
        /\ bpc' = [bpc EXCEPT ![b] = "casLoad"]
     \/ /\ build[b].tries + 1 >= MaxCASAttempts
        /\ BuildEnd(b)
  /\ UNCHANGED <<writeVars, objs, builds, readVars>>

\* The builder crashes, is cancelled, or a request of it fails.
BuildFail(b) ==
  /\ BuildsFail
  /\ bpc[b] # "idle"
  /\ BuildEnd(b)
  /\ UNCHANGED <<writeVars, objs, builds, readVars>>
-----------------------------------------------------------------------------
\* The legs of a query, and the objects that they read, in order.
Legs(mode) == CASE mode = "hybrid" -> {"vector", "text"}
                [] mode \in {"vector", "filtered"} -> {"vector"}
                [] mode = "text" -> {"text"}
                [] OTHER -> {}

Wanted(mode) == CASE mode = "vector" -> <<"centroids", "cluster">>
                  [] mode = "filtered" -> <<"bitmaps", "centroids", "cluster">>
                  [] mode = "text"   -> <<"bm25", "docs">>
                  [] mode = "hybrid" -> <<"centroids", "cluster", "bm25", "docs">>
                  [] OTHER -> <<>>

\* Mutant of ManifestRead: the manifest is read through the cache.
ManifestReadCached == {manifest, [NoManifest EXCEPT !.Version = 1]}

\* LoadManifest never goes through the cache.
ManifestRead == {manifest}

\* The first request to the store is for the manifest.  Info is answered by it; a
\* query of a namespace that has no epoch has only the tail to read.
QueryStart(r) ==
  /\ rpc[r] = "idle"
  /\ Exists
  /\ \E p \in Requests, m \in ManifestRead :
       LET todo == IF m.IndexEpoch > 0 THEN Wanted(p[2]) ELSE <<>>
       IN  /\ query' = [query EXCEPT ![r] = [via |-> p[1], mode |-> p[2], snap |-> m,
                                             todo |-> todo, got |-> <<>>]]
           /\ rpc' = [rpc EXCEPT ![r] = IF p[2] = "info" THEN "done"
                                        ELSE IF todo = <<>> THEN "tail" ELSE "fetch"]
  /\ UNCHANGED <<writeVars, buildVars, cache>>

\* An error that comes from a 404 of the store is answered "namespace not found",
\* whichever object the store did not have.
WriteNotFound(r) == rpc' = [rpc EXCEPT ![r] = "notFound"] /\ UNCHANGED query

QueryNotFound(r) ==
  /\ rpc[r] = "idle"
  /\ ~Exists
  /\ WriteNotFound(r)
  /\ UNCHANGED <<writeVars, buildVars, cache>>

Key(r) == <<query[r].snap.IndexEpoch, Head(query[r].todo)>>

InCache(r) == query[r].via = "node" /\ Key(r) \in DOMAIN cache

\* The objects in todo are still to be read.
Continue(r, todo, got) ==
  /\ query' = [query EXCEPT ![r] = [query[r] EXCEPT !.todo = todo, !.got = got]]
  /\ rpc' = [rpc EXCEPT ![r] = IF todo = <<>> THEN "tail" ELSE "fetch"]

\* What planVectorQuery makes of the bitmaps of a prefix.  Filter-first reads the
\* clusters of the matches alone; search-first reads the centroids, and the clusters
\* with a match; a field that no document has is not indexed, and prunes nothing.
Plans(upTo) ==
  IF NoVector(upTo) THEN {<<>>, <<"centroids">>, <<"centroids", "cluster">>}
  ELSE {<<"cluster">>, <<"centroids", "cluster">>}

\* What follows once the object named by Key(r) has arrived.
Received(r, body) ==
  LET part == Head(query[r].todo)
  IN  \E todo \in IF part = "bitmaps" THEN Plans(body) ELSE {Tail(query[r].todo)} :
        Continue(r, todo, Put(query[r].got, part, body))

\* GetCached, served from memory.
FetchHit(r) ==
  /\ rpc[r] = "fetch"
  /\ InCache(r)
  /\ Received(r, cache[Key(r)])
  /\ UNCHANGED <<writeVars, buildVars, cache>>

\* The cache with a new entry, for which another has to go if it is full.
Inserted(k, body) ==
  IF Cardinality(DOMAIN cache) < CacheCapacity THEN {Put(cache, k, body)}
  ELSE {Put([j \in DOMAIN cache \ {old} |-> cache[j]], k, body) : old \in DOMAIN cache}

\* GetCached, read from the store and kept; a command does not live to use it again.
FetchMiss(r) ==
  /\ rpc[r] = "fetch"
  /\ ~InCache(r)
  /\ Key(r) \in DOMAIN objs
  /\ Received(r, objs[Key(r)])
  /\ cache' \in IF query[r].via = "node" THEN Inserted(Key(r), objs[Key(r)]) ELSE {cache}
  /\ UNCHANGED <<writeVars, buildVars>>

\* The objects of a leg that come first, and what is left when one of them is not
\* there: without bitmaps the query has no plan, without the others no candidates.
MayLack == {"bitmaps", "centroids", "bm25"}
Without(todo) ==
  IF Head(todo) = "bitmaps" \/ Tail(todo) = <<>> THEN Tail(todo) ELSE Tail(Tail(todo))

\* 404 on a first object of a leg is no error.  On a second one the query fails.
FetchAbsent(r) ==
  /\ rpc[r] = "fetch"
  /\ ~InCache(r)
  /\ Key(r) \notin DOMAIN objs
  /\ IF Head(query[r].todo) \in MayLack
     THEN Continue(r, Without(query[r].todo), query[r].got)
     ELSE WriteNotFound(r)
  /\ UNCHANGED <<writeVars, buildVars, cache>>

\* The segments of the tail are read and overlaid; see Hits.
ReadTail(r) ==
  /\ rpc[r] = "tail"
  /\ rpc' = [rpc EXCEPT ![r] = "done"]
  /\ UNCHANGED <<writeVars, buildVars, cache, query>>

\* A request to the store fails or is cancelled: the query ends with an error.
QueryFail(r) ==
  /\ rpc[r] \in {"fetch", "tail"}
  /\ rpc' = [rpc EXCEPT ![r] = "idle"]
  /\ query' = [query EXCEPT ![r] = NoQuery]
  /\ UNCHANGED <<writeVars, buildVars, cache>>

\* The answer is sent.
QueryEnd(r) ==
  /\ rpc[r] \in {"done", "notFound"}
  /\ rpc' = [rpc EXCEPT ![r] = "idle"]
  /\ query' = [query EXCEPT ![r] = NoQuery]
  /\ UNCHANGED <<writeVars, buildVars, cache>>

\* The query node is restarted; the requests it was serving fail first.
Restart ==
  /\ cache # <<>>
  /\ \A r \in Readers : query[r].via = "node" => rpc[r] \notin {"fetch", "tail"}
  /\ cache' = <<>>
  /\ UNCHANGED <<writeVars, buildVars, rpc, query>>

Next ==
  \/ Create
  \/ Upsert
  \/ \E b \in Builders : \/ BuildStart(b) \/ PutPart(b) \/ PublishLoad(b)
                         \/ PublishStored(b) \/ PublishRefused(b) \/ BuildFail(b)
  \/ \E r \in Readers : \/ QueryStart(r) \/ QueryNotFound(r) \/ FetchHit(r)
                        \/ FetchMiss(r) \/ FetchAbsent(r) \/ ReadTail(r) \/ QueryFail(r)
                        \/ QueryEnd(r)
  \/ Restart

Spec == Init /\ [][Next]_vars
-----------------------------------------------------------------------------
(***************************************************************************)
(* What each leg of a query computes from what it read: the indexed        *)
(* candidates, minus every id the tail mentions, plus the tail's own hits. *)
(* A hit is <<leg, id, v, a>>: its rank comes from version v of the        *)
(* document and its attributes from version a.                             *)
(***************************************************************************)
HitKind(leg) == IF leg = "vector" THEN {"vec"} ELSE {"txt"}

\* Filter-first keeps the members of the cluster that the bitmaps name.
Planned(got, v) ==
  "centroids" \in DOMAIN got \/ \E u \in LatestOf({"vec"}, 0, got["bitmaps"]) : u[1] = v[1]

Indexed(r, leg) ==
  LET got == query[r].got IN
  IF leg = "vector"
  THEN IF "cluster" \notin DOMAIN got THEN {}
       ELSE {<<leg, v[1], v[2], v[2]>> :
               v \in {u \in LatestOf({"vec"}, 0, got["cluster"]) : Planned(got, u)}}
  ELSE IF ~ {"bm25", "docs"} \subseteq DOMAIN got THEN {}
  ELSE {<<leg, p[1][1], p[1][2], p[2][2]>> : p \in
          {q \in LatestOf({"txt"}, 0, got["bm25"]) \X LatestOf({"vec", "txt"}, 0, got["docs"]) :
             q[1][1] = q[2][1]}}

LegHits(r, leg) ==
  LET m == query[r].snap
      tail == Latest(m.IndexedUpTo, m.WALSeq)
      fresh == LatestOf(HitKind(leg), m.IndexedUpTo, m.WALSeq)
  IN  {h \in Indexed(r, leg) : \A v \in tail : v[1] # h[2]}
         \cup {<<leg, v[1], v[2], v[2]>> : v \in fresh}

\* The hits of a query, before hybrid queries fuse them.
Hits(r) == UNION {LegHits(r, leg) : leg \in Legs(query[r].mode)}

\* What a leg should return: the fold of the whole WAL its manifest shows.
Expected(r, leg) ==
  {<<leg, v[1], v[2], v[2]>> : v \in LatestOf(HitKind(leg), 0, query[r].snap.WALSeq)}

\* The live epoch has no vectors, and what a failed build of it has left is taken
\* for its vector index.
Haunted(m) ==
  /\ m.IndexEpoch > 0 /\ NoVector(m.IndexedUpTo)
  /\ <<m.IndexEpoch, "centroids">> \in DOMAIN objs

\* The versions such an index may show: of documents that had a vector before the
\* epoch was folded, and that the tail does not mention.
Relics(r, leg) ==
  LET m == query[r].snap IN
  IF leg # "vector" \/ ~Haunted(m) THEN {}
  ELSE {<<leg, wal[s + 1].id, s, s>> :
          s \in {t \in Window(0, m.IndexedUpTo) :
                   /\ wal[t + 1].kind = "vec"
                   /\ \A u \in Window(m.IndexedUpTo, m.WALSeq) : wal[u + 1].id # wal[t + 1].id}}
-----------------------------------------------------------------------------
(***************************************************************************)
(* Properties.                                                             *)
(***************************************************************************)
ManifestType == [Version : Nat, WALSeq : Nat, IndexEpoch : Nat, IndexedUpTo : Nat]

BuildLocals ==
  [epoch : Nat, upTo : Nat, todo : Seq(PartNames), tries : Nat,
   loaded : ManifestType \cup {<<>>}]

IsQuery(q) ==
  /\ q = [via |-> q.via, mode |-> q.mode, snap |-> q.snap, todo |-> q.todo, got |-> q.got]
  /\ q.via \in {"none", "node", "cli"} /\ q.mode \in {"none"} \cup CommandModes
  /\ q.snap \in ManifestType /\ q.todo \in Seq(PartNames)
  /\ DOMAIN q.got \subseteq PartNames /\ \A p \in DOMAIN q.got : q.got[p] \in Nat

\* The types of the variables.
TypeOK ==
  /\ wal \in Seq(Ops)
  /\ manifest \in ManifestType
  /\ DOMAIN objs \subseteq Nat \X PartNames
  /\ \A k \in DOMAIN objs : objs[k] \in Nat
  /\ bpc \in [Builders -> {"idle", "put", "casLoad", "casPut"}]
  /\ build \in [Builders -> BuildLocals]
  /\ builds \in 0..MaxBuilds
  /\ DOMAIN cache \subseteq Nat \X PartNames
  /\ \A k \in DOMAIN cache : cache[k] \in Nat
  /\ rpc \in [Readers -> {"idle", "fetch", "tail", "done", "notFound"}]
  /\ query = [r \in Readers |-> query[r]] /\ \A r \in Readers : IsQuery(query[r])

(***************************************************************************)
(* RunQuery, rule 5, "last-writer-wins, end to end": whatever is committed,*)
(* built, published or cached while a query runs, its answer is the fold   *)
(* of exactly the WAL its manifest showed: no acknowledged write missing,  *)
(* no deleted or replaced version returned, attributes of the same version *)
(* as the rank, the two legs of a hybrid query of the same moment.  And it *)
(* does not fail on an object the epoch should have.                       *)
(*                                                                         *)
(* The code keeps this with one exception, and no other: when no live      *)
(* document has a vector, the vector index that a failed build of the same *)
(* number has left is read as that of the epoch (buildVectorIndex writes   *)
(* nothing over it), and a vector query may then also return versions that *)
(* were deleted or replaced before the epoch was folded, or end with 404.  *)
(***************************************************************************)
QueryAnswersSnapshot ==
  \A r \in Readers :
    /\ rpc[r] = "done" => \A leg \in Legs(query[r].mode) :
         /\ Expected(r, leg) \subseteq LegHits(r, leg)
         /\ LegHits(r, leg) \subseteq Expected(r, leg) \cup Relics(r, leg)
    /\ rpc[r] = "notFound" =>
         \/ query[r].snap.Version = 0
         \/ "vector" \in Legs(query[r].mode) /\ Haunted(query[r].snap)

\* What a request has asked and how it was answered, in the terms of SnapshotReads.
Relic(m) == IF Haunted(m) THEN m.IndexedUpTo ELSE 0
NoQuestion == [legs |-> {}, upTo |-> 0, relic |-> 0]
Asked(r) ==
  LET m == query[r].snap
      legs == Legs(query[r].mode)
  IN  IF m = NoManifest \/ legs = {} THEN NoQuestion
      ELSE [legs |-> legs, upTo |-> m.WALSeq, relic |-> Relic(m)]
Answered(r) ==
  [status   |-> CASE rpc[r] = "done" -> "ok" [] rpc[r] = "notFound" -> "notFound"
                  [] OTHER -> "none",
   hits     |-> IF rpc[r] = "done" THEN Hits(r) ELSE {},
   segments |-> IF rpc[r] = "done" /\ query[r].mode = "info" THEN query[r].snap.WALSeq ELSE 0]

(***************************************************************************)
(* The namespace behind its nodes and commands is the one of SnapshotReads.*)
(* Every request takes effect at one moment, that of its manifest read,    *)
(* whichever process serves it and whatever it has cached: a reader who is *)
(* answered sees every write that was acknowledged before he asked, on     *)
(* every node, and never a moment before one he has seen; 404 means that   *)
(* the namespace does not exist (handleQuery, writeEngineError, runQuery). *)
(* The vector index that a failed build has left is the one exception; see *)
(* QueryAnswersSnapshot.                                                   *)
(***************************************************************************)
Reads == INSTANCE SnapshotReads WITH
  Clients   <- Readers,
  NoRequest <- NoQuestion,
  exists    <- Exists,
  log       <- SubSeq(wal, 1, manifest.WALSeq),
  relic     <- Relic(manifest),
  request   <- [r \in Readers |-> Asked(r)],
  reply     <- [r \in Readers |-> Answered(r)]

ImplementsSnapshotReads == Reads!Spec

(***************************************************************************)
(* BuildIndex, rule 4: the swap makes an epoch live whose objects are all  *)
(* there, all folded from the prefix the manifest names.  What else lies   *)
(* under its prefix is the vector index of a failed build of that number,  *)
(* of a shorter WAL in which a document still had a vector, and it has its *)
(* centroids if it has a cluster.                                          *)
(***************************************************************************)
LiveEpochWhole ==
  LET e == manifest.IndexEpoch
      n == manifest.IndexedUpTo
  IN  e > 0 =>
        /\ \A p \in ToSet(Parts(n)) : <<e, p>> \in DOMAIN objs /\ objs[<<e, p>>] = n
        /\ \A p \in PartNames \ ToSet(Parts(n)) : <<e, p>> \in DOMAIN objs =>
             /\ objs[<<e, p>>] < n /\ ~NoVector(objs[<<e, p>>])
             /\ <<e, "centroids">> \in DOMAIN objs

(***************************************************************************)
(* indexPrefix: "every object written under it is write-once and           *)
(* immutable", the licence of GetCached.  No step changes an object of an  *)
(* epoch that a manifest has published.                                    *)
(***************************************************************************)
PublishedObjectsImmutable ==
  [][\A k \in DOMAIN objs : k[1] <= manifest.IndexEpoch =>
        k \in DOMAIN objs' /\ objs'[k] = objs[k]]_vars

(***************************************************************************)
(* GetCached: "a cached body can never go stale at either tier".           *)
(***************************************************************************)
CacheNeverStale == \A k \in DOMAIN cache : cache[k] = objs[k]

(***************************************************************************)
(* No publish takes the index backwards: epochs and coverage only grow.    *)
(***************************************************************************)
IndexNeverRegresses ==
  [][/\ manifest'.IndexEpoch >= manifest.IndexEpoch
     /\ manifest'.IndexedUpTo >= manifest.IndexedUpTo]_vars
=============================================================================
