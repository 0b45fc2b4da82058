--------------------------- MODULE IndexBuildProofs --------------------------
(***************************************************************************)
(* Proofs about IndexBuild for any number of segments, builds, readers and *)
(* attempts, any cache and any operations, with failed builds and without. *)
(*                                                                         *)
(* One hypothesis is stated where it is needed.  OneBuilder: the queue     *)
(* gives the jobs of a namespace to one worker at a time (JobQueue shows   *)
(* when it does, and MCIndexBuildRace what two builders do to an epoch).   *)
(* What a failed build leaves of a vector index stays in the epoch when    *)
(* the next build of that number finds no vector; the properties say what  *)
(* a reader may then be told, and the proofs follow that case throughout.  *)
(*                                                                         *)
(* The argument goes in four layers, each an inductive invariant on top of *)
(* the one before.                                                         *)
(*   CoreInv       a build writes only the epoch after the live one, so    *)
(*                 what a manifest has shown never changes (Evolves)       *)
(*   StoreContent  the next build of an epoch overwrites what a failed one *)
(*                 left there, up to the parts it does not have itself     *)
(*                 (Leftovers), so a published epoch is whole              *)
(*   QueryInv      a reader's epoch is as whole as when it was live, and   *)
(*                 what the reader has not read is not there or holds no   *)
(*                 match (Accounted)                                       *)
(*   RefineInv     every answer is the fold of the log at one moment, with *)
(*                 no more than the relics that an epoch may have          *)
(* Published epochs never change, so the second and third layers argue     *)
(* about a snapshot as about the live manifest.                            *)
(***************************************************************************)
EXTENDS IndexBuild, SequenceTheorems, TLAPS

-----------------------------------------------------------------------------
(* Sequences of parts.                                                     *)

\* A sequence is its head and its tail, also as a set.
LEMMA ToSetHeadTail ==
  ASSUME NEW S, NEW s \in Seq(S), s # <<>>
  PROVE  /\ Head(s) \in S /\ Tail(s) \in Seq(S)
         /\ ToSet(s) = {Head(s)} \cup ToSet(Tail(s))
<1>1. /\ Head(s) \in S /\ Tail(s) \in Seq(S) /\ Len(s) \in Nat \ {0}
      /\ Len(Tail(s)) = Len(s) - 1
      /\ \A i \in 1..Len(Tail(s)) : Tail(s)[i] = s[i + 1]
  BY HeadTailProperties, EmptySeq
<1>2. /\ DOMAIN s = 1..Len(s) /\ DOMAIN Tail(s) = 1..Len(s) - 1
      /\ Head(s) = s[1]
  BY <1>1
<1>3. ASSUME NEW i \in 1..Len(s)
      PROVE  s[i] = Head(s) \/ \E j \in DOMAIN Tail(s) : s[i] = Tail(s)[j]
  <2>1. CASE i = 1
    BY <1>2, <2>1
  <2>2. CASE i # 1
    <3>1. i - 1 \in DOMAIN Tail(s) /\ Tail(s)[i - 1] = s[i]
      BY <1>1, <1>2, <2>2
    <3> QED BY <3>1
  <2> QED BY <2>1, <2>2
<1>4. \A j \in DOMAIN Tail(s) : \E i \in DOMAIN s : Tail(s)[j] = s[i]
  BY <1>1, <1>2
<1>5. 1 \in DOMAIN s
  BY <1>1, <1>2
<1>6. ToSet(s) \subseteq {Head(s)} \cup ToSet(Tail(s))
  BY <1>2, <1>3 DEF ToSet
<1>7. {Head(s)} \cup ToSet(Tail(s)) \subseteq ToSet(s)
  BY <1>2, <1>4, <1>5 DEF ToSet
<1> QED BY <1>1, <1>6, <1>7

\* The parts of an epoch: those of the vector index if there is a vector.
LEMMA PartsAre ==
  ASSUME NEW n
  PROVE  /\ Parts(n) \in Seq(PartNames) /\ Parts(n) # <<>>
         /\ ToSet(Parts(n)) = IF NoVector(n) THEN {"bm25", "bitmaps", "docs"} ELSE PartNames
<1>3. ToSet(<<"bm25", "bitmaps", "docs">>) = {"bm25", "bitmaps", "docs"}
  BY DEF ToSet
<1>4. ToSet(<<"centroids", "cluster", "bm25", "bitmaps", "docs">>) = PartNames
  BY DEF ToSet, PartNames
<1>5. /\ <<"centroids", "cluster", "bm25", "bitmaps", "docs">> \in Seq(PartNames)
      /\ <<"bm25", "bitmaps", "docs">> \in Seq(PartNames)
  BY DEF PartNames
<1>6. /\ <<"centroids", "cluster", "bm25", "bitmaps", "docs">> # <<>>
      /\ <<"bm25", "bitmaps", "docs">> # <<>>
  OBVIOUS
<1>7. CASE NoVector(n)
  BY <1>3, <1>5, <1>6, <1>7 DEF Parts
<1>8. CASE ~NoVector(n)
  BY <1>4, <1>5, <1>6, <1>8 DEF Parts
<1> QED BY <1>7, <1>8

\* What a request wants is a sequence of parts.
LEMMA WantedType ==
  ASSUME NEW m
  PROVE  Wanted(m) \in Seq(PartNames)
<1>1. /\ <<"centroids", "cluster">> \in Seq(PartNames)
      /\ <<"bm25", "docs">> \in Seq(PartNames)
      /\ <<"centroids", "cluster", "bm25", "docs">> \in Seq(PartNames)
      /\ <<"bitmaps", "centroids", "cluster">> \in Seq(PartNames)
      /\ <<>> \in Seq(PartNames)
  BY DEF PartNames
<1>6. CASE m = "filtered"
  BY <1>1, <1>6 DEF Wanted
<1>2. CASE m = "vector"
  BY <1>1, <1>2 DEF Wanted
<1>3. CASE m = "text"
  BY <1>1, <1>3 DEF Wanted
<1>4. CASE m = "hybrid"
  BY <1>1, <1>4 DEF Wanted
<1>5. CASE m \notin {"vector", "filtered", "text", "hybrid"}
  BY <1>1, <1>5 DEF Wanted
<1> QED BY <1>2, <1>3, <1>4, <1>5, <1>6

-----------------------------------------------------------------------------
\* A record of a query whose todo and got have changed is a query.
LEMMA ContinueType ==
  ASSUME TypeOK, NEW r \in Readers, NEW todo \in Seq(PartNames), NEW got,
         DOMAIN got \subseteq PartNames, \A p \in DOMAIN got : got[p] \in Nat,
         Continue(r, todo, got)
  PROVE  /\ rpc' \in [Readers -> {"idle", "fetch", "tail", "done", "notFound"}]
         /\ query' = [s \in Readers |-> query'[s]] /\ \A s \in Readers : IsQuery(query'[s])
         /\ query'[r] = [via |-> query[r].via, mode |-> query[r].mode,
                         snap |-> query[r].snap, todo |-> todo, got |-> got]
<1>1. rpc' \in [Readers -> {"idle", "fetch", "tail", "done", "notFound"}]
  BY DEF TypeOK, Continue
<1>2. query' = [query EXCEPT ![r] = [query[r] EXCEPT !.todo = todo, !.got = got]]
  BY DEF Continue
<1>3. query = [s \in Readers |-> query[s]] /\ \A s \in Readers : IsQuery(query[s])
  BY DEF TypeOK
<1>4. /\ query' = [s \in Readers |-> query'[s]]
      /\ \A s \in Readers : s # r => query'[s] = query[s]
  BY <1>2, <1>3
<1>5. query[r] = [via |-> query[r].via, mode |-> query[r].mode, snap |-> query[r].snap,
                  todo |-> query[r].todo, got |-> query[r].got]
  BY <1>3 DEF IsQuery
<1>6. query'[r] = [via |-> query[r].via, mode |-> query[r].mode, snap |-> query[r].snap,
                   todo |-> todo, got |-> got]
  BY <1>2, <1>3, <1>5
<1>7. IsQuery(query'[r])
  BY <1>3, <1>6 DEF IsQuery
<1> QED BY <1>1, <1>3, <1>4, <1>6, <1>7

\* What is left of the objects of a request, once it has begun.
Rests ==
  {<<"bitmaps", "centroids", "cluster">>, <<"centroids">>,
   <<"centroids", "cluster">>, <<"cluster">>, <<"bm25", "docs">>, <<"docs">>,
   <<"centroids", "cluster", "bm25", "docs">>, <<"cluster", "bm25", "docs">>}

\* A rest is not empty, and what follows its first objects is a rest again.
LEMMA RestsAre ==
  ASSUME NEW t \in Rests
  PROVE  /\ t \in Seq(PartNames) /\ t # <<>>
         /\ Tail(t) \in Rests \cup {<<>>}
         /\ Head(t) \in MayLack => Without(t) \in Rests \cup {<<>>}
<1>1. CASE t = <<"bitmaps", "centroids", "cluster">>
  BY <1>1 DEF Rests, PartNames, MayLack, Without
<1>2. CASE t = <<"centroids">>
  BY <1>2 DEF Rests, PartNames, MayLack, Without
<1>3. CASE t = <<"centroids", "cluster">>
  BY <1>3 DEF Rests, PartNames, MayLack, Without
<1>4. CASE t = <<"cluster">>
  BY <1>4 DEF Rests, PartNames, MayLack, Without
<1>5. CASE t = <<"bm25", "docs">>
  BY <1>5 DEF Rests, PartNames, MayLack, Without
<1>6. CASE t = <<"docs">>
  BY <1>6 DEF Rests, PartNames, MayLack, Without
<1>7. CASE t = <<"centroids", "cluster", "bm25", "docs">>
  BY <1>7 DEF Rests, PartNames, MayLack, Without
<1>8. CASE t = <<"cluster", "bm25", "docs">>
  BY <1>8 DEF Rests, PartNames, MayLack, Without
<1> QED BY <1>1, <1>2, <1>3, <1>4, <1>5, <1>6, <1>7, <1>8 DEF Rests

\* After the bitmaps a request goes on with a rest, or has read enough.
LEMMA PlansAre ==
  ASSUME NEW n
  PROVE  Plans(n) \subseteq Rests \cup {<<>>}
BY DEF Plans, Rests

\* An object that arrives leaves the locals of its request of their types.
LEMMA ReceivedType ==
  ASSUME TypeOK, NEW r \in Readers, query[r].todo # <<>>, NEW body \in Nat, Received(r, body)
  PROVE  /\ rpc' \in [Readers -> {"idle", "fetch", "tail", "done", "notFound"}]
         /\ query' = [s \in Readers |-> query'[s]] /\ \A s \in Readers : IsQuery(query'[s])
<1>1. IsQuery(query[r])
  BY DEF TypeOK
<1>2. Head(query[r].todo) \in PartNames /\ Tail(query[r].todo) \in Seq(PartNames)
  BY <1>1, ToSetHeadTail DEF IsQuery
<1>4. PICK todo \in IF Head(query[r].todo) = "bitmaps" THEN Plans(body) ELSE {Tail(query[r].todo)} :
        Continue(r, todo, Put(query[r].got, Head(query[r].todo), body))
  BY DEF Received
<1>5. todo \in Seq(PartNames)
  <2>1. Plans(body) \subseteq Seq(PartNames)
    BY PlansAre, RestsAre, EmptySeq
  <2> QED BY <1>2, <2>1
<1> DEFINE got == Put(query[r].got, Head(query[r].todo), body)
<1>3. DOMAIN got \subseteq PartNames /\ \A p \in DOMAIN got : got[p] \in Nat
  BY <1>1, <1>2 DEF IsQuery, Put
<1> QED BY <1>3, <1>4, <1>5, ContinueType

\* The cache after an insertion.
LEMMA InsertedIs ==
  ASSUME NEW k, NEW body, NEW c \in Inserted(k, body)
  PROVE  /\ k \in DOMAIN c /\ c[k] = body
         /\ DOMAIN c \subseteq DOMAIN cache \cup {k}
         /\ \A j \in DOMAIN c : j # k => c[j] = cache[j]
BY DEF Inserted, Put

-----------------------------------------------------------------------------
\* Builders and requests that are to go on have something to go on with.
Pending ==
  /\ \A b \in Builders : bpc[b] = "put" <=> build[b].todo # <<>>
  /\ \A r \in Readers : rpc[r] = "fetch" => query[r].todo \in Rests

\* The manifests that writers and builders put, and the locals of a retry.
LEMMA MutatedType ==
  ASSUME NEW m \in ManifestType, NEW v \in Nat, NEW e \in Nat, NEW n \in Nat
  PROVE  /\ [m EXCEPT !.Version = v, !.WALSeq = n] \in ManifestType
         /\ [m EXCEPT !.Version = v, !.IndexEpoch = e, !.IndexedUpTo = n] \in ManifestType
BY DEF ManifestType

\* The locals of a build whose swap was refused are those of a build.
LEMMA RetriedType ==
  ASSUME NEW l \in BuildLocals, NEW n \in Nat
  PROVE  [l EXCEPT !.tries = n, !.loaded = <<>>] \in BuildLocals
BY DEF BuildLocals

\* Every step keeps the types.
LEMMA TypeStep == TypeOK /\ Pending /\ [Next]_vars => TypeOK'
<1> SUFFICES ASSUME TypeOK, Pending, [Next]_vars PROVE TypeOK'
  OBVIOUS
<1> DEFINE Q(q) == q = [r \in Readers |-> q[r]] /\ \A r \in Readers : IsQuery(q[r])
           Stages == {"idle", "fetch", "tail", "done", "notFound"}
           Types(c) == DOMAIN c \subseteq Nat \X PartNames
                         /\ \A k \in DOMAIN c : c[k] \in Nat
<1>0. /\ Q(query) /\ rpc \in [Readers -> Stages] /\ Types(cache) /\ Types(objs)
      /\ manifest \in ManifestType /\ wal \in Seq(Ops)
  BY DEF TypeOK
<1>1. NoManifest \in ManifestType /\ IsQuery(NoQuery) /\ NoBuild \in BuildLocals
  BY DEF NoManifest, ManifestType, NoQuery, IsQuery, NoBuild, BuildLocals
<1>2. CASE Create
  BY <1>0, <1>1, <1>2 DEF TypeOK, Create, buildVars, readVars, ManifestType, NoManifest
<1>3. CASE Upsert
  <2>1. wal' \in Seq(Ops)
    BY <1>0, <1>3 DEF Upsert
  <2>2. manifest' \in ManifestType
    <3>1. manifest' = [manifest EXCEPT !.Version = @ + 1, !.WALSeq = @ + 1]
      BY <1>3 DEF Upsert
    <3>2. manifest.Version + 1 \in Nat /\ manifest.WALSeq + 1 \in Nat
      BY <1>0 DEF ManifestType
    <3> QED BY <1>0, <3>1, <3>2, MutatedType
  <2> QED BY <1>3, <2>1, <2>2 DEF TypeOK, Upsert, buildVars, readVars
<1>4. ASSUME NEW b \in Builders, BuildStart(b) PROVE TypeOK'
  <2>1. PICK s \in Snapshot :
          build' = [build EXCEPT ![b] = [NoBuild EXCEPT !.epoch = NewEpoch,
                                                       !.upTo = s, !.todo = Parts(s)]]
    BY <1>4 DEF BuildStart
  <2>2. s \in Nat /\ NewEpoch \in Nat /\ Parts(s) \in Seq(PartNames)
    BY <1>0, PartsAre DEF Snapshot, NewEpoch, ManifestType
  <2> DEFINE locals == [NoBuild EXCEPT !.epoch = NewEpoch, !.upTo = s, !.todo = Parts(s)]
  <2>5. locals \in BuildLocals
    BY <2>2 DEF BuildLocals, NoBuild
  <2>3. build' \in [Builders -> BuildLocals]
    <3> HIDE DEF locals
    <3> QED BY <2>1, <2>5 DEF TypeOK, locals
  <2>4. bpc' \in [Builders -> {"idle", "put", "casLoad", "casPut"}] /\ builds' \in 0..MaxBuilds
    BY <1>4, BoundsAssumption DEF TypeOK, BuildStart
  <2> QED BY <1>4, <2>3, <2>4 DEF TypeOK, BuildStart, writeVars, readVars
<1>5. ASSUME NEW b \in Builders, PutPart(b) PROVE TypeOK'
  <2> DEFINE part == Head(build[b].todo)
             rest == Tail(build[b].todo)
  <2>0. build[b] \in BuildLocals /\ build[b].todo # <<>>
    BY <1>5 DEF TypeOK, Pending, PutPart
  <2>1. part \in PartNames /\ rest \in Seq(PartNames)
    BY <2>0, ToSetHeadTail DEF BuildLocals
  <2>2. Types(objs')
    <3> DEFINE k == <<build[b].epoch, part>>
    <3>1. k \in Nat \X PartNames /\ build[b].upTo \in Nat
      BY <2>0, <2>1 DEF BuildLocals
    <3>2. objs' = Put(objs, k, build[b].upTo)
      BY <1>5 DEF PutPart, ObjsWith
    <3> HIDE DEF k
    <3> QED BY <1>0, <3>1, <3>2 DEF Put
  <2>3. build' \in [Builders -> BuildLocals]
    <3>1. build' = [build EXCEPT ![b].todo = rest]
      BY <1>5 DEF PutPart
    <3> HIDE DEF rest
    <3>2. [build[b] EXCEPT !.todo = rest] \in BuildLocals
      BY <2>0, <2>1 DEF BuildLocals
    <3> QED BY <3>1, <3>2 DEF TypeOK
  <2>4. bpc' \in [Builders -> {"idle", "put", "casLoad", "casPut"}]
    BY <1>5 DEF TypeOK, PutPart
  <2> QED BY <1>5, <2>2, <2>3, <2>4 DEF TypeOK, PutPart, writeVars, readVars
<1>6. ASSUME NEW b \in Builders, PublishLoad(b) PROVE TypeOK'
  <2>1. [build[b] EXCEPT !.loaded = manifest] \in BuildLocals
    BY DEF TypeOK, BuildLocals
  <2>2. build' = [build EXCEPT ![b].loaded = manifest] /\ bpc' = [bpc EXCEPT ![b] = "casPut"]
        /\ UNCHANGED <<writeVars, objs, builds, readVars>>
    BY <1>6 DEF PublishLoad
  <2>3. build' \in [Builders -> BuildLocals]
    BY <2>1, <2>2 DEF TypeOK
  <2> QED BY <2>2, <2>3 DEF TypeOK, writeVars, readVars
<1>7. ASSUME NEW b \in Builders, PublishStored(b) PROVE TypeOK'
  <2>1. manifest' \in ManifestType
    <3>1. build[b] \in BuildLocals /\ build[b].loaded \in ManifestType
      BY <1>0, <1>7 DEF TypeOK, PublishStored, Matches
    <3>2. build[b].epoch \in Nat /\ build[b].upTo \in Nat
      BY <3>1 DEF BuildLocals
    <3>3. manifest' = [build[b].loaded EXCEPT !.Version = @ + 1, !.IndexEpoch = build[b].epoch,
                                              !.IndexedUpTo = build[b].upTo]
      BY <1>7 DEF PublishStored, Published
    <3>4. build[b].loaded.Version + 1 \in Nat
      BY <3>1 DEF ManifestType
    <3> QED BY <3>1, <3>2, <3>3, <3>4, MutatedType
  <2> QED BY <1>1, <1>7, <2>1 DEF TypeOK, PublishStored, BuildEnd, readVars
<1>8. ASSUME NEW b \in Builders, PublishRefused(b) PROVE TypeOK'
  <2>1. CASE BuildEnd(b)
    BY <1>1, <1>8, <2>1 DEF TypeOK, PublishRefused, BuildEnd, writeVars, readVars
  <2>2. CASE ~BuildEnd(b)
    <3>1. build[b] \in BuildLocals
      BY DEF TypeOK
    <3>2. [build[b] EXCEPT !.tries = build[b].tries + 1, !.loaded = <<>>] \in BuildLocals
      <4>1. build[b].tries + 1 \in Nat
        BY <3>1 DEF BuildLocals
      <4> QED BY <3>1, <4>1, RetriedType
    <3>3. /\ build' = [build EXCEPT ![b] = [build[b] EXCEPT !.tries = build[b].tries + 1,
                                                          !.loaded = <<>>]]
          /\ bpc' = [bpc EXCEPT ![b] = "casLoad"]
      BY <1>8, <2>2 DEF PublishRefused
    <3> QED BY <1>8, <3>2, <3>3 DEF TypeOK, PublishRefused, writeVars, readVars
  <2> QED BY <2>1, <2>2
<1>9. ASSUME NEW b \in Builders, BuildFail(b) PROVE TypeOK'
  BY <1>1, <1>9 DEF TypeOK, BuildFail, BuildEnd, writeVars, readVars
<1>10. ASSUME NEW r \in Readers, QueryStart(r) PROVE TypeOK'
  <2>1. PICK p \in Requests, m \in ManifestRead :
          LET todo == IF m.IndexEpoch > 0 THEN Wanted(p[2]) ELSE <<>>
          IN  /\ query' = [query EXCEPT ![r] = [via |-> p[1], mode |-> p[2], snap |-> m,
                                                todo |-> todo, got |-> <<>>]]
              /\ rpc' = [rpc EXCEPT ![r] = IF p[2] = "info" THEN "done"
                                           ELSE IF todo = <<>> THEN "tail" ELSE "fetch"]
    BY <1>10 DEF QueryStart
  <2> DEFINE todo == IF m.IndexEpoch > 0 THEN Wanted(p[2]) ELSE <<>>
  <2>2. p[1] \in {"node", "cli"} /\ p[2] \in CommandModes /\ m \in ManifestType
    BY <1>0, RequestAssumption DEF NodeModes, CommandModes, ManifestRead
  <2>3. todo \in Seq(PartNames)
    BY WantedType
  <2>4. IsQuery([via |-> p[1], mode |-> p[2], snap |-> m, todo |-> todo, got |-> <<>>])
    BY <2>2, <2>3 DEF IsQuery
  <2>5. rpc' \in [Readers -> Stages]
    BY <1>0, <2>1
  <2>6. Q(query')
    <3> HIDE DEF todo
    <3>1. query' = [query EXCEPT ![r] = [via |-> p[1], mode |-> p[2], snap |-> m,
                                         todo |-> todo, got |-> <<>>]]
      BY <2>1 DEF todo
    <3> QED BY <1>0, <2>4, <3>1
  <2> QED BY <1>10, <2>5, <2>6 DEF TypeOK, QueryStart, writeVars, buildVars
<1>11. ASSUME NEW r \in Readers, QueryNotFound(r) PROVE TypeOK'
  BY <1>0, <1>11 DEF TypeOK, QueryNotFound, WriteNotFound, writeVars, buildVars
<1>12. ASSUME NEW r \in Readers, FetchHit(r) PROVE TypeOK'
  <2>1. cache[Key(r)] \in Nat
    BY <1>0, <1>12 DEF FetchHit, InCache
  <2>2. rpc' \in [Readers -> Stages] /\ Q(query')
    BY <1>12, <2>1, ReceivedType, RestsAre DEF FetchHit, Pending
  <2> QED BY <1>12, <2>2 DEF TypeOK, FetchHit, writeVars, buildVars
<1>13. ASSUME NEW r \in Readers, FetchMiss(r) PROVE TypeOK'
  <2>1. objs[Key(r)] \in Nat /\ Key(r) \in Nat \X PartNames
    BY <1>0, <1>13 DEF FetchMiss
  <2>2. rpc' \in [Readers -> Stages] /\ Q(query')
    BY <1>13, <2>1, ReceivedType, RestsAre DEF FetchMiss, Pending
  <2>3. Types(cache')
    <3>1. CASE cache' \in Inserted(Key(r), objs[Key(r)])
      <4>1. /\ DOMAIN cache' \subseteq DOMAIN cache \cup {Key(r)}
            /\ \A k \in DOMAIN cache' : cache'[k] = objs[Key(r)] \/ (cache'[k] = cache[k] /\ k \in DOMAIN cache)
        BY <3>1, InsertedIs
      <4> QED BY <1>0, <2>1, <4>1
    <3>2. CASE cache' = cache
      BY <1>0, <3>2
    <3> QED BY <1>13, <3>1, <3>2 DEF FetchMiss
  <2> QED BY <1>13, <2>2, <2>3 DEF TypeOK, FetchMiss, writeVars, buildVars
<1>14. ASSUME NEW r \in Readers, FetchAbsent(r) PROVE TypeOK'
  <2>1. CASE WriteNotFound(r)
    BY <1>0, <1>14, <2>1 DEF TypeOK, FetchAbsent, WriteNotFound, writeVars, buildVars
  <2>2. CASE ~WriteNotFound(r)
    <3>1. /\ Head(query[r].todo) \in MayLack
          /\ Continue(r, Without(query[r].todo), query[r].got)
      BY <1>14, <2>2 DEF FetchAbsent
    <3>2. Without(query[r].todo) \in Seq(PartNames)
      BY <1>14, <3>1, RestsAre, EmptySeq DEF FetchAbsent, Pending
    <3>3. DOMAIN query[r].got \subseteq PartNames /\ \A p \in DOMAIN query[r].got : query[r].got[p] \in Nat
      BY <1>0 DEF IsQuery
    <3>4. rpc' \in [Readers -> Stages] /\ Q(query')
      BY <3>1, <3>2, <3>3, ContinueType
    <3> QED BY <1>14, <3>4 DEF TypeOK, FetchAbsent, writeVars, buildVars
  <2> QED BY <2>1, <2>2
<1>15. ASSUME NEW r \in Readers, ReadTail(r) \/ QueryFail(r) \/ QueryEnd(r) PROVE TypeOK'
  BY <1>0, <1>1, <1>15 DEF TypeOK, ReadTail, QueryFail, QueryEnd, writeVars, buildVars
<1>16. CASE Restart
  BY <1>0, <1>16 DEF TypeOK, Restart, writeVars, buildVars
<1>17. CASE UNCHANGED vars
  BY <1>17 DEF TypeOK, vars
<1> QED
  BY <1>2, <1>3, <1>4, <1>5, <1>6, <1>7, <1>8, <1>9, <1>10, <1>11, <1>12, <1>13, <1>14,
     <1>15, <1>16, <1>17 DEF Next

-----------------------------------------------------------------------------
(* What the steps of a request do to its locals, and to nobody else's.     *)
Others(r) == \A s \in Readers : s # r => query'[s] = query[s] /\ rpc'[s] = rpc[s]

\* A request goes on with the objects in todo, and with got.
LEMMA ContinueIs ==
  ASSUME TypeOK, NEW r \in Readers, NEW todo, NEW got, Continue(r, todo, got)
  PROVE  /\ Others(r)
         /\ rpc'[r] = IF todo = <<>> THEN "tail" ELSE "fetch"
         /\ query'[r].via = query[r].via /\ query'[r].mode = query[r].mode
         /\ query'[r].snap = query[r].snap
         /\ query'[r].todo = todo /\ query'[r].got = got
<1>1. query = [s \in Readers |-> query[s]] /\ IsQuery(query[r])
  BY DEF TypeOK
<1>2. query' = [query EXCEPT ![r] = [query[r] EXCEPT !.todo = todo, !.got = got]]
  BY DEF Continue
<1>3. query[r] = [via |-> query[r].via, mode |-> query[r].mode, snap |-> query[r].snap,
                  todo |-> query[r].todo, got |-> query[r].got]
  BY <1>1 DEF IsQuery
<1>4. query'[r] = [via |-> query[r].via, mode |-> query[r].mode, snap |-> query[r].snap,
                   todo |-> todo, got |-> got]
  BY <1>1, <1>2, <1>3
<1>5. \A s \in Readers : s # r => query'[s] = query[s]
  BY <1>1, <1>2
<1>6. rpc' = [rpc EXCEPT ![r] = IF todo = <<>> THEN "tail" ELSE "fetch"]
  BY DEF Continue
<1>7. rpc \in [Readers -> {"idle", "fetch", "tail", "done", "notFound"}]
  BY DEF TypeOK
<1>8. Others(r) /\ rpc'[r] = IF todo = <<>> THEN "tail" ELSE "fetch"
  BY <1>5, <1>6, <1>7 DEF Others
<1> QED BY <1>4, <1>8

\* The first step of a request takes a snapshot of the manifest.
LEMMA QueryStartIs ==
  ASSUME TypeOK, NEW r \in Readers, QueryStart(r)
  PROVE  /\ Others(r)
         /\ query'[r].via \in {"node", "cli"} /\ query'[r].mode \in CommandModes
         /\ query'[r].snap = manifest /\ query'[r].got = <<>>
         /\ query'[r].todo = IF manifest.IndexEpoch > 0 THEN Wanted(query'[r].mode) ELSE <<>>
         /\ rpc'[r] = IF query'[r].mode = "info" THEN "done"
                      ELSE IF query'[r].todo = <<>> THEN "tail" ELSE "fetch"
<1>1. PICK p \in Requests, m \in ManifestRead :
        LET todo == IF m.IndexEpoch > 0 THEN Wanted(p[2]) ELSE <<>>
        IN  /\ query' = [query EXCEPT ![r] = [via |-> p[1], mode |-> p[2], snap |-> m,
                                              todo |-> todo, got |-> <<>>]]
            /\ rpc' = [rpc EXCEPT ![r] = IF p[2] = "info" THEN "done"
                                         ELSE IF todo = <<>> THEN "tail" ELSE "fetch"]
  BY DEF QueryStart
<1>2. p[1] \in {"node", "cli"} /\ p[2] \in CommandModes /\ m = manifest
  BY RequestAssumption DEF NodeModes, CommandModes, ManifestRead
<1> DEFINE todo == IF manifest.IndexEpoch > 0 THEN Wanted(p[2]) ELSE <<>>
<1>3. /\ query = [s \in Readers |-> query[s]]
      /\ rpc \in [Readers -> {"idle", "fetch", "tail", "done", "notFound"}]
  BY DEF TypeOK
<1> DEFINE new == [via |-> p[1], mode |-> p[2], snap |-> manifest, todo |-> todo, got |-> <<>>]
           stage == IF p[2] = "info" THEN "done" ELSE IF todo = <<>> THEN "tail" ELSE "fetch"
<1>4. query' = [query EXCEPT ![r] = new] /\ rpc' = [rpc EXCEPT ![r] = stage]
  BY <1>1, <1>2
<1>5. Others(r) /\ query'[r] = new /\ rpc'[r] = stage
  <2> HIDE DEF new, stage
  <2> QED BY <1>3, <1>4 DEF Others
<1> HIDE DEF todo
<1>6. /\ query'[r].via = p[1] /\ query'[r].mode = p[2] /\ query'[r].snap = manifest
      /\ query'[r].todo = todo /\ query'[r].got = <<>>
  BY <1>5
<1> QED BY <1>2, <1>5, <1>6 DEF todo

\* A request that has just begun has all it wants before it.
LEMMA WantedIsRest ==
  ASSUME NEW m \in CommandModes
  PROVE  Wanted(m) \in Rests \cup {<<>>}
BY DEF CommandModes, Wanted, Rests

\* Every step keeps Pending.
LEMMA PendingStep == TypeOK /\ Pending /\ [Next]_vars => Pending'
<1> SUFFICES ASSUME TypeOK, Pending, [Next]_vars PROVE Pending'
  OBVIOUS
<1> DEFINE Bs == \A b \in Builders : bpc[b] = "put" <=> build[b].todo # <<>>
           Rs == \A r \in Readers : rpc[r] = "fetch" => query[r].todo \in Rests
<1>0. Bs /\ Rs
  BY DEF Pending
<1>1. ASSUME NEW b \in Builders, BuildStart(b) PROVE Bs'
  <2>1. PICK s \in Snapshot :
          build' = [build EXCEPT ![b] = [NoBuild EXCEPT !.epoch = NewEpoch,
                                                       !.upTo = s, !.todo = Parts(s)]]
    BY <1>1 DEF BuildStart
  <2>2. build'[b].todo # <<>> /\ \A d \in Builders : d # b => build'[d] = build[d]
    BY <2>1, PartsAre DEF TypeOK, NoBuild
  <2> QED BY <1>0, <1>1, <2>2 DEF TypeOK, BuildStart
<1>2. ASSUME NEW b \in Builders, PutPart(b) PROVE Bs'
  BY <1>0, <1>2 DEF TypeOK, BuildLocals, PutPart, AllPut
<1>3. ASSUME NEW b \in Builders, PublishLoad(b) PROVE Bs'
  BY <1>0, <1>3 DEF TypeOK, BuildLocals, PublishLoad
<1>4. ASSUME NEW b \in Builders, PublishStored(b) \/ BuildFail(b) PROVE Bs'
  BY <1>0, <1>4 DEF TypeOK, PublishStored, BuildFail, BuildEnd, NoBuild
<1>5. ASSUME NEW b \in Builders, PublishRefused(b) PROVE Bs'
  <2>1. CASE BuildEnd(b)
    BY <1>0, <2>1 DEF TypeOK, BuildEnd, NoBuild
  <2>2. CASE ~BuildEnd(b)
    <3>1. /\ build' = [build EXCEPT ![b] = [build[b] EXCEPT !.tries = build[b].tries + 1,
                                                          !.loaded = <<>>]]
          /\ bpc' = [bpc EXCEPT ![b] = "casLoad"] /\ bpc[b] = "casPut"
      BY <1>5, <2>2 DEF PublishRefused
    <3>2. build[b] \in BuildLocals
      BY DEF TypeOK
    <3>3. build'[b].todo = build[b].todo
      BY <3>1, <3>2 DEF TypeOK, BuildLocals
    <3> QED BY <1>0, <3>1, <3>3 DEF TypeOK
  <2> QED BY <2>1, <2>2
<1>6. ASSUME NEW r \in Readers, QueryStart(r) PROVE Rs'
  <2>1. rpc'[r] = "fetch" => query'[r].todo \in Rests
    BY <1>6, QueryStartIs, WantedIsRest
  <2> QED BY <1>0, <1>6, <2>1, QueryStartIs DEF Others
<1>7. ASSUME NEW r \in Readers, NEW todo \in Rests \cup {<<>>}, NEW got, Continue(r, todo, got)
      PROVE  Rs'
  BY <1>0, <1>7, ContinueIs DEF Others
<1>8. ASSUME NEW r \in Readers, FetchHit(r) \/ FetchMiss(r) PROVE Rs'
  <2>1. Tail(query[r].todo) \in Rests \cup {<<>>}
    BY <1>0, <1>8, RestsAre DEF FetchHit, FetchMiss
  <2>2. PICK body : Received(r, body)
    BY <1>8 DEF FetchHit, FetchMiss
  <2>3. PICK todo \in Plans(body) \cup {Tail(query[r].todo)} : \E got : Continue(r, todo, got)
    BY <2>2 DEF Received
  <2>4. todo \in Rests \cup {<<>>}
    BY <2>1, <2>3, PlansAre
  <2> QED BY <1>7, <2>3, <2>4
<1>9. ASSUME NEW r \in Readers, FetchAbsent(r) PROVE Rs'
  <2>1. CASE WriteNotFound(r)
    BY <1>0, <2>1 DEF TypeOK, WriteNotFound
  <2>2. CASE ~WriteNotFound(r)
    <3>1. /\ Without(query[r].todo) \in Rests \cup {<<>>}
          /\ Continue(r, Without(query[r].todo), query[r].got)
      BY <1>0, <1>9, <2>2, RestsAre DEF FetchAbsent
    <3> QED BY <1>7, <3>1
  <2> QED BY <2>1, <2>2
<1>10. ASSUME NEW r \in Readers, QueryNotFound(r) \/ ReadTail(r) \/ QueryFail(r) \/ QueryEnd(r)
       PROVE  Rs'
  BY <1>0, <1>10 DEF TypeOK, QueryNotFound, WriteNotFound, ReadTail, QueryFail, QueryEnd
<1>11. ASSUME Create \/ Upsert \/ Restart \/ UNCHANGED vars PROVE Pending'
  BY <1>11 DEF Pending, Create, Upsert, Restart, buildVars, readVars, vars
<1>12. ASSUME NEW b \in Builders,
              \/ BuildStart(b) \/ PutPart(b) \/ PublishLoad(b)
              \/ PublishStored(b) \/ PublishRefused(b) \/ BuildFail(b)
       PROVE  Bs' /\ UNCHANGED readVars
  BY <1>1, <1>2, <1>3, <1>4, <1>5, <1>12 DEF BuildStart, PutPart, PublishLoad, PublishStored,
     PublishRefused, BuildFail
<1>13. ASSUME NEW r \in Readers,
              \/ QueryStart(r) \/ QueryNotFound(r) \/ FetchHit(r) \/ FetchMiss(r)
              \/ FetchAbsent(r) \/ ReadTail(r) \/ QueryFail(r) \/ QueryEnd(r)
       PROVE  Rs' /\ UNCHANGED buildVars
  BY <1>6, <1>8, <1>9, <1>10, <1>13 DEF QueryStart, QueryNotFound, FetchHit, FetchMiss,
     FetchAbsent, ReadTail, QueryFail, QueryEnd
<1>14. ASSUME UNCHANGED readVars, Bs' PROVE Pending'
  BY <1>0, <1>14 DEF Pending, readVars
<1>15. ASSUME UNCHANGED buildVars, Rs' PROVE Pending'
  BY <1>0, <1>15 DEF Pending, buildVars
<1> QED BY <1>11, <1>12, <1>13, <1>14, <1>15 DEF Next

-----------------------------------------------------------------------------
(* The store, when the builders are one.                                   *)

\* A namespace has one builder at a time: the job queue gives a job to one worker.
OneBuilder == \A b, d \in Builders : b = d

\* The manifest counts the segments, and covers no more than it counts.
ManifestOK ==
  /\ manifest.WALSeq = Len(wal)
  /\ manifest.IndexedUpTo <= manifest.WALSeq
  /\ manifest.IndexEpoch = 0 => manifest.IndexedUpTo = 0
  /\ manifest.Version = 0 => manifest = NoManifest

\* A build works on the epoch after the live one, and nothing lies beyond it.
Unpublished ==
  /\ \A k \in DOMAIN objs : k[1] <= manifest.IndexEpoch + 1 /\ objs[k] <= Len(wal)
  /\ \A b \in Builders : bpc[b] # "idle" =>
        /\ manifest.Version > 0 /\ build[b].epoch = manifest.IndexEpoch + 1
        /\ manifest.IndexedUpTo <= build[b].upTo /\ build[b].upTo <= Len(wal)

\* Every kind of step, by what it leaves alone.
BuilderSteps(b) ==
  \/ BuildStart(b) \/ PutPart(b) \/ PublishLoad(b)
  \/ PublishStored(b) \/ PublishRefused(b) \/ BuildFail(b)
ReaderSteps(r) ==
  \/ QueryStart(r) \/ QueryNotFound(r) \/ FetchHit(r) \/ FetchMiss(r)
  \/ FetchAbsent(r) \/ ReadTail(r) \/ QueryFail(r) \/ QueryEnd(r)

\* A step writes the namespace, or is one of a builder, or leaves the store alone.
LEMMA Steps ==
  ASSUME [Next]_vars
  PROVE  \/ (Create \/ Upsert) /\ UNCHANGED <<buildVars, readVars>>
         \/ \E b \in Builders : BuilderSteps(b) /\ UNCHANGED <<wal, readVars>>
         \/ UNCHANGED <<writeVars, buildVars>>
<1>1. ASSUME NEW b \in Builders, BuilderSteps(b) PROVE UNCHANGED <<wal, readVars>>
  BY <1>1 DEF BuilderSteps, BuildStart, PutPart, PublishLoad, PublishStored, PublishRefused,
     BuildFail, writeVars
<1>2. ASSUME NEW r \in Readers, ReaderSteps(r) PROVE UNCHANGED <<writeVars, buildVars>>
  BY <1>2 DEF ReaderSteps, QueryStart, QueryNotFound, FetchHit, FetchMiss, FetchAbsent,
     ReadTail, QueryFail, QueryEnd
<1>3. Create \/ Upsert => UNCHANGED <<buildVars, readVars>>
  BY DEF Create, Upsert
<1>4. Restart \/ UNCHANGED vars => UNCHANGED <<writeVars, buildVars>>
  BY DEF Restart, vars, writeVars, buildVars
<1>5. \/ Create \/ Upsert \/ Restart \/ UNCHANGED vars
      \/ \E b \in Builders : BuilderSteps(b)
      \/ \E r \in Readers : ReaderSteps(r)
  BY DEF Next, BuilderSteps, ReaderSteps
<1> QED BY <1>1, <1>2, <1>3, <1>4, <1>5

\* What a committed Upsert does to the manifest and to the WAL.
LEMMA UpsertIs ==
  ASSUME TypeOK, Upsert
  PROVE  /\ Exists
         /\ \E op \in Ops : wal' = Append(wal, op)
         /\ Len(wal') = Len(wal) + 1
         /\ \A s \in 1..Len(wal) : wal'[s] = wal[s]
         /\ manifest'.Version = manifest.Version + 1 /\ manifest'.WALSeq = manifest.WALSeq + 1
         /\ manifest'.IndexEpoch = manifest.IndexEpoch
         /\ manifest'.IndexedUpTo = manifest.IndexedUpTo
<1>1. wal \in Seq(Ops) /\ manifest \in ManifestType
  BY DEF TypeOK
<1>2. PICK op \in Ops : wal' = Append(wal, op)
  BY DEF Upsert
<1>3. manifest' = [manifest EXCEPT !.Version = manifest.Version + 1,
                                   !.WALSeq = manifest.WALSeq + 1]
  BY DEF Upsert
<1>4. /\ Len(wal') = Len(wal) + 1
      /\ \A s \in 1..Len(wal) : wal'[s] = wal[s]
  BY <1>1, <1>2
<1>5. /\ manifest'.Version = manifest.Version + 1 /\ manifest'.WALSeq = manifest.WALSeq + 1
      /\ manifest'.IndexEpoch = manifest.IndexEpoch
      /\ manifest'.IndexedUpTo = manifest.IndexedUpTo
  BY <1>1, <1>3 DEF ManifestType
<1> QED BY <1>2, <1>4, <1>5 DEF Upsert

\* What a publish does to the manifest.
LEMMA PublishIs ==
  ASSUME TypeOK, NEW b \in Builders, PublishStored(b)
  PROVE  /\ manifest'.Version = manifest.Version + 1 /\ manifest'.WALSeq = manifest.WALSeq
         /\ manifest'.IndexEpoch = build[b].epoch /\ manifest'.IndexedUpTo = build[b].upTo
         /\ bpc'[b] = "idle" /\ UNCHANGED objs
<1>1. manifest \in ManifestType /\ build[b].loaded = manifest
  BY DEF TypeOK, PublishStored, Matches
<1>2. manifest' = [manifest EXCEPT !.Version = manifest.Version + 1,
                                   !.IndexEpoch = build[b].epoch, !.IndexedUpTo = build[b].upTo]
  BY <1>1 DEF PublishStored, Published
<1>3. /\ manifest'.Version = manifest.Version + 1 /\ manifest'.WALSeq = manifest.WALSeq
      /\ manifest'.IndexEpoch = build[b].epoch /\ manifest'.IndexedUpTo = build[b].upTo
  BY <1>1, <1>2 DEF ManifestType
<1> QED BY <1>3 DEF PublishStored, BuildEnd, TypeOK

\* What the other steps of a build leave alone.
LEMMA BuildStepIs ==
  ASSUME TypeOK, NEW b \in Builders, BuilderSteps(b), ~PublishStored(b)
  PROVE  /\ UNCHANGED writeVars
         /\ ~PutPart(b) => UNCHANGED objs
         /\ \/ bpc'[b] = "idle"
            \/ BuildStart(b) /\ /\ build'[b].epoch = manifest.IndexEpoch + 1
                                /\ build'[b].upTo = manifest.WALSeq
                                /\ build'[b].todo = Parts(manifest.WALSeq)
                                /\ bpc'[b] = "put"
            \/ /\ bpc[b] # "idle" /\ ~BuildStart(b)
               /\ build'[b].epoch = build[b].epoch /\ build'[b].upTo = build[b].upTo
               /\ ~PutPart(b) => build'[b].todo = build[b].todo
<1>1. CASE BuildStart(b)
  <2>1. PICK s \in Snapshot :
          build' = [build EXCEPT ![b] = [NoBuild EXCEPT !.epoch = NewEpoch,
                                                       !.upTo = s, !.todo = Parts(s)]]
    BY <1>1 DEF BuildStart
  <2>2. s = manifest.WALSeq /\ NewEpoch = manifest.IndexEpoch + 1
    BY DEF Snapshot, NewEpoch
  <2> DEFINE new == [NoBuild EXCEPT !.epoch = NewEpoch, !.upTo = s, !.todo = Parts(s)]
  <2>3. new.epoch = NewEpoch /\ new.upTo = s /\ new.todo = Parts(s)
    BY DEF NoBuild
  <2>4. build'[b] = new
    <3> HIDE DEF new
    <3> QED BY <2>1 DEF TypeOK, new
  <2>5. bpc'[b] = "put" /\ UNCHANGED <<writeVars, objs>>
    BY <1>1 DEF BuildStart, TypeOK
  <2> HIDE DEF new
  <2> QED BY <1>1, <2>2, <2>3, <2>4, <2>5
<1>2. CASE PutPart(b)
  <2>1. build[b] \in BuildLocals
    BY DEF TypeOK
  <2>2. build' = [build EXCEPT ![b] = [build[b] EXCEPT !.todo = Tail(build[b].todo)]]
    BY <1>2, <2>1 DEF PutPart, TypeOK
  <2>3. build'[b].epoch = build[b].epoch /\ build'[b].upTo = build[b].upTo
    BY <2>1, <2>2 DEF TypeOK, BuildLocals
  <2> QED BY <1>2, <2>3 DEF PutPart, BuildStart
<1>3. CASE PublishLoad(b)
  <2>1. build[b] \in BuildLocals
    BY DEF TypeOK
  <2>2. build' = [build EXCEPT ![b] = [build[b] EXCEPT !.loaded = manifest]]
    BY <1>3, <2>1 DEF PublishLoad, TypeOK
  <2>3. /\ build'[b].epoch = build[b].epoch /\ build'[b].upTo = build[b].upTo
        /\ build'[b].todo = build[b].todo
    BY <2>1, <2>2 DEF TypeOK, BuildLocals
  <2> QED BY <1>3, <2>3 DEF PublishLoad, BuildStart
<1>4. CASE PublishRefused(b)
  <2>1. build[b] \in BuildLocals
    BY DEF TypeOK
  <2>2. CASE BuildEnd(b)
    BY <1>4, <2>2 DEF PublishRefused, BuildEnd, TypeOK
  <2>3. CASE ~BuildEnd(b)
    <3>1. build' = [build EXCEPT ![b] = [build[b] EXCEPT !.tries = build[b].tries + 1,
                                                       !.loaded = <<>>]]
      BY <1>4, <2>3 DEF PublishRefused
    <3>2. /\ build'[b].epoch = build[b].epoch /\ build'[b].upTo = build[b].upTo
          /\ build'[b].todo = build[b].todo
      BY <2>1, <3>1 DEF TypeOK, BuildLocals
    <3> QED BY <1>4, <3>2 DEF PublishRefused, BuildStart
  <2> QED BY <2>2, <2>3
<1>5. CASE BuildFail(b)
  BY <1>5 DEF BuildFail, BuildEnd, TypeOK
<1> QED BY <1>1, <1>2, <1>3, <1>4, <1>5 DEF BuilderSteps

\* A put adds or replaces one object.
LEMMA PutPartIs ==
  ASSUME TypeOK, NEW b \in Builders, PutPart(b)
  PROVE  LET k == <<build[b].epoch, Head(build[b].todo)>> IN
         /\ DOMAIN objs' = DOMAIN objs \cup {k}
         /\ objs'[k] = build[b].upTo
         /\ \A j \in DOMAIN objs : j # k => objs'[j] = objs[j]
         /\ build'[b].todo = Tail(build[b].todo)
         /\ bpc[b] = "put" /\ bpc'[b] # "idle"
<1>1. build[b] \in BuildLocals
  BY DEF TypeOK
<1>2. build' = [build EXCEPT ![b] = [build[b] EXCEPT !.todo = Tail(build[b].todo)]]
  BY <1>1 DEF PutPart, TypeOK
<1>3. build'[b].todo = Tail(build[b].todo)
  BY <1>1, <1>2 DEF TypeOK, BuildLocals
<1> DEFINE k == <<build[b].epoch, Head(build[b].todo)>>
<1>4. objs' = Put(objs, k, build[b].upTo)
  BY DEF PutPart, ObjsWith
<1>5. bpc[b] = "put" /\ bpc'[b] # "idle"
  BY DEF PutPart, TypeOK
<1> HIDE DEF k
<1>6. /\ DOMAIN objs' = DOMAIN objs \cup {k} /\ objs'[k] = build[b].upTo
      /\ \A j \in DOMAIN objs : j # k => objs'[j] = objs[j]
  BY <1>4 DEF Put
<1> QED BY <1>3, <1>5, <1>6 DEF k

-----------------------------------------------------------------------------
(* Why one builder is enough: what the manifest shows stays as it is.      *)
StoreInv == ManifestOK /\ Unpublished

\* What no step does to the store: the WAL and its folds, the manifest's counts
\* and the objects of a published epoch are only added to.
Evolves ==
  /\ Len(wal) <= Len(wal') /\ \A s \in 1..Len(wal) : wal'[s] = wal[s]
  /\ manifest.Version <= manifest'.Version
  /\ manifest.IndexEpoch <= manifest'.IndexEpoch
  /\ manifest.IndexedUpTo <= manifest'.IndexedUpTo
  /\ DOMAIN objs \subseteq DOMAIN objs'
  /\ \A k \in DOMAIN objs : k[1] <= manifest.IndexEpoch => objs'[k] = objs[k]
  /\ \A k \in DOMAIN objs' \ DOMAIN objs : k[1] > manifest.IndexEpoch

\* The numbers in the store and in the builds, as arithmetic needs them.
LEMMA StoreTypes ==
  ASSUME TypeOK
  PROVE  /\ Len(wal) \in Nat
         /\ manifest.Version \in Nat /\ manifest.WALSeq \in Nat
         /\ manifest.IndexEpoch \in Nat /\ manifest.IndexedUpTo \in Nat
         /\ \A k \in DOMAIN objs : k[1] \in Nat /\ k[2] \in PartNames /\ objs[k] \in Nat
         /\ \A b \in Builders : build[b].epoch \in Nat /\ build[b].upTo \in Nat
BY DEF TypeOK, ManifestType, BuildLocals

\* With one builder the manifest and the WAL stay as StoreInv says, and what a
\* manifest has shown stays as it is.
LEMMA StoreStep ==
  ASSUME OneBuilder
  PROVE  TypeOK /\ Pending /\ StoreInv /\ [Next]_vars => StoreInv' /\ Evolves
<1> SUFFICES ASSUME TypeOK, Pending, StoreInv, [Next]_vars PROVE StoreInv' /\ Evolves
  OBVIOUS
<1>0. /\ Len(wal) \in Nat
      /\ manifest.Version \in Nat /\ manifest.WALSeq \in Nat
      /\ manifest.IndexEpoch \in Nat /\ manifest.IndexedUpTo \in Nat
      /\ \A k \in DOMAIN objs : k[1] \in Nat /\ k[2] \in PartNames /\ objs[k] \in Nat
      /\ \A b \in Builders : build[b].epoch \in Nat /\ build[b].upTo \in Nat
  BY StoreTypes
<1>1. CASE Create
  <2>1. /\ manifest = NoManifest /\ Len(wal) = 0 /\ manifest'.Version = 1
        /\ manifest'.WALSeq = 0 /\ manifest'.IndexEpoch = 0 /\ manifest'.IndexedUpTo = 0
        /\ UNCHANGED <<wal, objs, bpc, build>>
    BY <1>0, <1>1 DEF Create, Exists, StoreInv, ManifestOK, NoManifest, buildVars
  <2>2. manifest.Version = 0 /\ manifest.IndexEpoch = 0 /\ manifest.IndexedUpTo = 0
    BY <2>1 DEF NoManifest
  <2> QED BY <1>0, <2>1, <2>2 DEF StoreInv, ManifestOK, Unpublished, Evolves
<1>2. CASE Upsert
  <2>1. UNCHANGED <<objs, bpc, build>>
    BY <1>2 DEF Upsert, buildVars
  <2>2. /\ manifest # NoManifest
        /\ Len(wal') = Len(wal) + 1 /\ \A s \in 1..Len(wal) : wal'[s] = wal[s]
        /\ manifest'.Version = manifest.Version + 1 /\ manifest'.WALSeq = manifest.WALSeq + 1
        /\ manifest'.IndexEpoch = manifest.IndexEpoch
        /\ manifest'.IndexedUpTo = manifest.IndexedUpTo
    <3>1. Exists /\ Len(wal') = Len(wal) + 1 /\ \A s \in 1..Len(wal) : wal'[s] = wal[s]
      BY <1>2, UpsertIs
    <3>2. /\ manifest'.Version = manifest.Version + 1 /\ manifest'.WALSeq = manifest.WALSeq + 1
          /\ manifest'.IndexEpoch = manifest.IndexEpoch
          /\ manifest'.IndexedUpTo = manifest.IndexedUpTo
      BY <1>2, UpsertIs
    <3>3. manifest # NoManifest
      BY <3>1 DEF Exists, NoManifest
    <3> QED BY <3>1, <3>2, <3>3
  <2>3. ManifestOK'
    BY <1>0, <2>2 DEF StoreInv, ManifestOK
  <2>4. Unpublished'
    BY <1>0, <2>1, <2>2 DEF StoreInv, Unpublished
  <2>5. Evolves
    BY <1>0, <2>1, <2>2 DEF Evolves
  <2> QED BY <2>3, <2>4, <2>5 DEF StoreInv
<1>3. ASSUME NEW b \in Builders, BuilderSteps(b), UNCHANGED wal PROVE StoreInv' /\ Evolves
  <2>0. \A d \in Builders : d = b
    BY DEF OneBuilder
  <2>1. CASE PublishStored(b)
    <3>1. bpc[b] # "idle" /\ bpc'[b] = "idle" /\ UNCHANGED objs
      BY <2>1, PublishIs DEF PublishStored
    <3>2. /\ manifest'.Version = manifest.Version + 1 /\ manifest'.WALSeq = manifest.WALSeq
          /\ manifest'.IndexEpoch = build[b].epoch /\ manifest'.IndexedUpTo = build[b].upTo
      BY <2>1, PublishIs
    <3>3. build[b].epoch = manifest.IndexEpoch + 1 /\ manifest.IndexedUpTo <= build[b].upTo
          /\ build[b].upTo <= Len(wal)
      BY <3>1 DEF StoreInv, Unpublished
    <3>4. ManifestOK'
      BY <1>0, <1>3, <3>2, <3>3 DEF StoreInv, ManifestOK
    <3>5. Unpublished'
      <4>1. \A d \in Builders : bpc'[d] = "idle"
        BY <2>0, <3>1
      <4>2. \A k \in DOMAIN objs : k[1] <= manifest.IndexEpoch + 1 /\ objs[k] <= Len(wal)
        BY DEF StoreInv, Unpublished
      <4> QED BY <1>0, <1>3, <3>1, <3>2, <3>3, <4>1, <4>2 DEF Unpublished
    <3>6. Evolves
      BY <1>0, <1>3, <3>1, <3>2, <3>3 DEF Evolves
    <3> QED BY <3>4, <3>5, <3>6 DEF StoreInv
  <2>2. CASE PutPart(b)
    <3> DEFINE k == <<build[b].epoch, Head(build[b].todo)>>
    <3>1. /\ DOMAIN objs' = DOMAIN objs \cup {k} /\ objs'[k] = build[b].upTo
          /\ \A j \in DOMAIN objs : j # k => objs'[j] = objs[j]
          /\ bpc[b] # "idle"
      BY <2>2, PutPartIs
    <3>2. /\ manifest' = manifest
          /\ build'[b].epoch = build[b].epoch /\ build'[b].upTo = build[b].upTo
      BY <2>2, <3>1 DEF PutPart, writeVars, TypeOK, BuildLocals
    <3>3. k[1] = manifest.IndexEpoch + 1 /\ objs'[k] <= Len(wal) /\ objs'[k] >= manifest.IndexedUpTo
      BY <3>1 DEF StoreInv, Unpublished
    <3> HIDE DEF k
    <3>4. ManifestOK'
      BY <1>3, <3>2 DEF StoreInv, ManifestOK
    <3>5. Unpublished'
      BY <1>0, <1>3, <2>0, <3>1, <3>2, <3>3 DEF StoreInv, Unpublished
    <3>6. Evolves
      BY <1>0, <1>3, <3>1, <3>2, <3>3 DEF Evolves
    <3> QED BY <3>4, <3>5, <3>6 DEF StoreInv
  <2>3. CASE ~PublishStored(b) /\ ~PutPart(b)
    <3>1. /\ UNCHANGED <<manifest, objs>>
          /\ \/ bpc'[b] = "idle"
             \/ /\ manifest.Version > 0 /\ build'[b].epoch = manifest.IndexEpoch + 1
                /\ build'[b].upTo = manifest.WALSeq
             \/ /\ bpc[b] # "idle"
                /\ build'[b].epoch = build[b].epoch /\ build'[b].upTo = build[b].upTo
      BY <1>3, <2>3, BuildStepIs DEF writeVars, BuildStart, Exists
    <3> QED BY <1>0, <1>3, <2>0, <3>1 DEF StoreInv, ManifestOK, Unpublished, Evolves
  <2> QED BY <2>1, <2>2, <2>3
<1>4. CASE UNCHANGED <<writeVars, buildVars>>
  BY <1>0, <1>4 DEF StoreInv, ManifestOK, Unpublished, Evolves, writeVars, buildVars
<1> QED BY <1>1, <1>2, <1>3, <1>4, Steps

-----------------------------------------------------------------------------
(* Readers, as far as it does not matter what the objects hold.            *)

\* A request under way, or one that was told "not found" on its way, has seen a
\* manifest that the namespace has had.
Begun(r) ==
  \/ rpc[r] \in {"fetch", "tail", "done"}
  \/ rpc[r] = "notFound" /\ query[r] # NoQuery
SnapshotsOK ==
  \A r \in Readers :
    /\ rpc[r] = "idle" => query[r] = NoQuery
    /\ Begun(r) =>
         LET s == query[r].snap IN
         /\ s.Version > 0 /\ s.IndexEpoch <= manifest.IndexEpoch
         /\ s.IndexedUpTo <= s.WALSeq /\ s.WALSeq <= Len(wal)
         /\ s.IndexEpoch = 0 => s.IndexedUpTo = 0

\* A reader that fetches reads an epoch that is published.
Fetching == \A r \in Readers : rpc[r] = "fetch" => query[r].snap.IndexEpoch > 0

\* A cached object is that of the store, and of a published epoch.
CacheOK ==
  \A k \in DOMAIN cache :
    k \in DOMAIN objs /\ k[1] <= manifest.IndexEpoch /\ cache[k] = objs[k]

\* What a step does to the locals of one request, by its effect.
LEMMA ReaderStepIs ==
  ASSUME TypeOK, Pending, NEW r \in Readers, ReaderSteps(r)
  PROVE  /\ Others(r)
         /\ \/ QueryStart(r)
            \/ rpc'[r] = "idle" /\ query'[r] = NoQuery
            \/ rpc'[r] = "notFound" /\ rpc[r] \in {"idle", "fetch"} /\ query'[r] = query[r]
            \/ /\ rpc[r] = "fetch" /\ rpc'[r] \in {"fetch", "tail"}
               /\ query'[r].snap = query[r].snap /\ query'[r].mode = query[r].mode
            \/ /\ rpc[r] = "tail" /\ rpc'[r] = "done" /\ query'[r] = query[r]
<1>1. CASE QueryStart(r)
  BY <1>1, QueryStartIs
<1>2. CASE FetchHit(r) \/ FetchMiss(r)
  <2>1. PICK todo, got : Continue(r, todo, got)
    BY <1>2 DEF FetchHit, FetchMiss, Received
  <2> QED BY <1>2, <2>1, ContinueIs DEF FetchHit, FetchMiss
<1>3. CASE FetchAbsent(r)
  <2>1. CASE WriteNotFound(r)
    BY <1>3, <2>1 DEF FetchAbsent, WriteNotFound, TypeOK, Others
  <2>2. CASE ~WriteNotFound(r)
    BY <1>3, <2>2, ContinueIs DEF FetchAbsent
  <2> QED BY <2>1, <2>2
<1>4. CASE QueryNotFound(r) \/ ReadTail(r) \/ QueryFail(r) \/ QueryEnd(r)
  BY <1>4 DEF QueryNotFound, WriteNotFound, ReadTail, QueryFail, QueryEnd, TypeOK, Others
<1> QED BY <1>1, <1>2, <1>3, <1>4 DEF ReaderSteps

\* The same of the manifests that readers hold.
LEMMA SnapshotTypes ==
  ASSUME TypeOK, NEW r \in Readers
  PROVE  /\ query[r].snap.Version \in Nat /\ query[r].snap.WALSeq \in Nat
         /\ query[r].snap.IndexEpoch \in Nat /\ query[r].snap.IndexedUpTo \in Nat
<1>1. query[r].snap \in ManifestType
  BY DEF TypeOK, IsQuery
<1> QED BY <1>1 DEF ManifestType

\* A step is one of a reader, or leaves the readers alone.
LEMMA ReadersSteps ==
  ASSUME [Next]_vars
  PROVE  \/ UNCHANGED readVars
         \/ UNCHANGED <<rpc, query, writeVars, buildVars>>
         \/ \E r \in Readers : ReaderSteps(r) /\ UNCHANGED <<writeVars, buildVars>>
<1>1. ASSUME NEW r \in Readers, ReaderSteps(r) PROVE UNCHANGED <<writeVars, buildVars>>
  BY <1>1 DEF ReaderSteps, QueryStart, QueryNotFound, FetchHit, FetchMiss, FetchAbsent,
     ReadTail, QueryFail, QueryEnd
<1>2. ASSUME NEW b \in Builders, BuilderSteps(b) PROVE UNCHANGED readVars
  BY <1>2 DEF BuilderSteps, BuildStart, PutPart, PublishLoad, PublishStored, PublishRefused,
     BuildFail, writeVars
<1>3. Create \/ Upsert => UNCHANGED readVars
  BY DEF Create, Upsert
<1>4. Restart \/ UNCHANGED vars => UNCHANGED <<rpc, query, writeVars, buildVars>>
  BY DEF Restart, vars, writeVars, buildVars
<1>5. \/ Create \/ Upsert \/ Restart \/ UNCHANGED vars
      \/ \E b \in Builders : BuilderSteps(b)
      \/ \E r \in Readers : ReaderSteps(r)
  BY DEF Next, BuilderSteps, ReaderSteps
<1> QED BY <1>1, <1>2, <1>3, <1>4, <1>5

\* What a reader has seen stays behind what there is.
LEMMA SnapshotsStep ==
  ASSUME TypeOK, Pending, StoreInv, SnapshotsOK, Fetching, Evolves, [Next]_vars
  PROVE  SnapshotsOK' /\ Fetching'
<1> DEFINE Seen(q) ==
      /\ q.snap.Version > 0 /\ q.snap.IndexEpoch <= manifest'.IndexEpoch
      /\ q.snap.IndexedUpTo <= q.snap.WALSeq /\ q.snap.WALSeq <= Len(wal')
      /\ q.snap.IndexEpoch = 0 => q.snap.IndexedUpTo = 0
<1>0. /\ Len(wal) \in Nat /\ Len(wal') \in Nat /\ manifest'.IndexEpoch \in Nat
      /\ manifest.Version \in Nat /\ manifest.IndexEpoch \in Nat
  <2>1. TypeOK'
    BY TypeStep
  <2> QED BY <2>1, StoreTypes DEF TypeOK, ManifestType
<1>1. ASSUME NEW r \in Readers, Begun(r) PROVE Seen(query[r])
  BY <1>0, <1>1, SnapshotTypes DEF SnapshotsOK, Evolves
<1>2. ASSUME NEW r \in Readers, ReaderSteps(r), UNCHANGED <<writeVars, buildVars>>
      PROVE  SnapshotsOK' /\ Fetching'
  <2>1. Begun(r)' => Seen(query'[r])
    <3>1. CASE QueryStart(r)
      <4>1. query'[r].snap = manifest /\ manifest.Version > 0
        BY <3>1, QueryStartIs DEF QueryStart, Exists
      <4> QED BY <1>0, <1>2, <4>1 DEF StoreInv, ManifestOK, writeVars
    <3>2. CASE ~QueryStart(r)
      BY <1>1, <1>2, <3>2, ReaderStepIs DEF Begun, SnapshotsOK
    <3> QED BY <3>1, <3>2
  <2>4. rpc'[r] = "idle" => query'[r] = NoQuery
    BY <1>2, ReaderStepIs, QueryStartIs
  <2>2. rpc'[r] = "fetch" => query'[r].snap.IndexEpoch > 0
    <3>1. CASE QueryStart(r)
      BY <3>1, QueryStartIs
    <3>2. CASE ~QueryStart(r)
      BY <1>2, <3>2, ReaderStepIs DEF Fetching
    <3> QED BY <3>1, <3>2
  <2>3. Others(r)
    BY <1>2, ReaderStepIs
  <2> QED BY <1>1, <2>1, <2>2, <2>3, <2>4 DEF SnapshotsOK, Fetching, Others, Begun
<1>3. CASE UNCHANGED readVars \/ UNCHANGED <<rpc, query, writeVars, buildVars>>
  BY <1>1, <1>3 DEF SnapshotsOK, Fetching, readVars, Begun
<1> QED BY <1>2, <1>3, ReadersSteps

\* A cached object is only ever one that can no longer change.
LEMMA CacheStep ==
  ASSUME TypeOK, Pending, StoreInv, SnapshotsOK, Fetching, CacheOK, Evolves, [Next]_vars
  PROVE  CacheOK'
<1>0. /\ manifest.IndexEpoch \in Nat /\ manifest'.IndexEpoch \in Nat
      /\ \A k \in DOMAIN objs : k[1] \in Nat
  <2>1. TypeOK'
    BY TypeStep
  <2> QED BY <2>1, StoreTypes DEF TypeOK, ManifestType
<1>1. \A k \in DOMAIN cache :
        k \in DOMAIN objs' /\ k[1] <= manifest'.IndexEpoch /\ cache[k] = objs'[k]
  BY <1>0 DEF CacheOK, Evolves
<1>2. CASE cache' = cache
  BY <1>1, <1>2 DEF CacheOK
<1>3. CASE Restart
  BY <1>3 DEF Restart, CacheOK
<1>4. ASSUME NEW r \in Readers, FetchMiss(r) PROVE CacheOK'
  <2>1. Key(r) \in DOMAIN objs /\ Key(r)[1] <= manifest.IndexEpoch
    BY <1>4 DEF FetchMiss, SnapshotsOK, Begun, Key
  <2>2. UNCHANGED <<objs, manifest>>
    BY <1>4 DEF FetchMiss, writeVars, buildVars
  <2>3. CASE cache' \in Inserted(Key(r), objs[Key(r)])
    BY <1>1, <2>1, <2>2, <2>3, InsertedIs DEF CacheOK
  <2> QED BY <1>2, <1>4, <2>3 DEF FetchMiss
<1>5. \/ UNCHANGED cache \/ Restart \/ \E r \in Readers : FetchMiss(r)
  BY DEF Next, Create, Upsert, BuildStart, PutPart, PublishLoad, PublishStored, PublishRefused,
     BuildFail, QueryStart, QueryNotFound, FetchHit, FetchAbsent, ReadTail, QueryFail,
     QueryEnd, vars, readVars
<1> QED BY <1>2, <1>3, <1>4, <1>5

-----------------------------------------------------------------------------
\* The inductive invariant of everything that does not depend on the content.
CoreInv == TypeOK /\ Pending /\ StoreInv /\ SnapshotsOK /\ Fetching /\ CacheOK

\* CoreInv holds at the start.
LEMMA InitCore == Init => CoreInv
<1> SUFFICES ASSUME Init PROVE CoreInv
  OBVIOUS
<1>1. NoManifest \in ManifestType /\ IsQuery(NoQuery) /\ NoBuild \in BuildLocals
  BY DEF NoManifest, ManifestType, NoQuery, IsQuery, NoBuild, BuildLocals
<1>2. TypeOK
  BY <1>1, BoundsAssumption DEF Init, TypeOK
<1>3. Pending /\ StoreInv
  BY DEF Init, Pending, NoBuild, StoreInv, ManifestOK, Unpublished, NoManifest
<1>4. SnapshotsOK /\ Fetching /\ CacheOK
  BY DEF Init, SnapshotsOK, Begun, Fetching, CacheOK
<1> QED BY <1>2, <1>3, <1>4 DEF CoreInv

\* Every step keeps CoreInv.
LEMMA CoreStep ==
  ASSUME OneBuilder
  PROVE  CoreInv /\ [Next]_vars => CoreInv' /\ Evolves
BY TypeStep, PendingStep, StoreStep, SnapshotsStep, CacheStep DEF CoreInv

\* The variables keep their types, however many processes build.
THEOREM TypeCorrect == Spec => []TypeOK
<1>1. Init => TypeOK /\ Pending
  BY InitCore DEF CoreInv
<1>2. TypeOK /\ Pending /\ [Next]_vars => TypeOK' /\ Pending'
  BY TypeStep, PendingStep
<1> QED BY <1>1, <1>2, PTL DEF Spec

\* GetCached: what a node holds of an object is what the store holds of it, for
\* as long as the cache has it.
THEOREM CacheStaysFresh ==
  ASSUME OneBuilder
  PROVE  Spec => []CacheNeverStale
<1>1. CoreInv /\ [Next]_vars => CoreInv'
  BY CoreStep
<1>2. CoreInv => CacheNeverStale
  BY DEF CoreInv, CacheOK, CacheNeverStale
<1> QED BY InitCore, <1>1, <1>2, PTL DEF Spec

\* indexPrefix: the objects of an epoch that a manifest has shown are immutable.
THEOREM PublishedStays ==
  ASSUME OneBuilder
  PROVE  Spec => PublishedObjectsImmutable
<1>1. CoreInv /\ [Next]_vars => CoreInv'
  BY CoreStep
<1>2. CoreInv /\ [Next]_vars =>
        [\A k \in DOMAIN objs : k[1] <= manifest.IndexEpoch =>
           k \in DOMAIN objs' /\ objs'[k] = objs[k]]_vars
  BY CoreStep DEF Evolves
<1> QED BY InitCore, <1>1, <1>2, PTL DEF Spec, PublishedObjectsImmutable

\* BuildIndex's mutate: no publish moves the epoch or its coverage backwards.
THEOREM IndexAdvances ==
  ASSUME OneBuilder
  PROVE  Spec => IndexNeverRegresses
<1>1. CoreInv /\ [Next]_vars => CoreInv'
  BY CoreStep
<1>2. CoreInv /\ [Next]_vars =>
        [/\ manifest'.IndexEpoch >= manifest.IndexEpoch
         /\ manifest'.IndexedUpTo >= manifest.IndexedUpTo]_vars
  <2>1. ASSUME TypeOK PROVE manifest.IndexEpoch \in Nat /\ manifest.IndexedUpTo \in Nat
    BY <2>1 DEF TypeOK, ManifestType
  <2> QED BY CoreStep, <2>1 DEF Evolves, CoreInv, TypeOK, ManifestType
<1> QED BY InitCore, <1>1, <1>2, PTL DEF Spec, IndexNeverRegresses

-----------------------------------------------------------------------------
(* The folds of the WAL.                                                   *)

\* A member of a fold, spelled out.
LEMMA InLatest ==
  ASSUME NEW i, NEW n, NEW v
  PROVE  v \in Latest(i, n) <=>
           \E s \in i..n - 1 : /\ v = <<wal[s + 1].id, s>>
                               /\ \A t \in i..n - 1 : wal[t + 1].id = wal[s + 1].id => t <= s
BY DEF Latest, IsLast, Window

\* The fold of a prefix does not change when segments are appended.
LEMMA FoldsStay ==
  ASSUME TypeOK, Evolves, TypeOK'
  PROVE  /\ \A i, n \in 0..Len(wal) : Latest(i, n)' = Latest(i, n)
         /\ \A K : \A i, n \in 0..Len(wal) : LatestOf(K, i, n)' = LatestOf(K, i, n)
         /\ \A n \in 0..Len(wal) : Parts(n)' = Parts(n)
         /\ \A n \in 0..Len(wal) : NoVector(n)' = NoVector(n)
<1>1. Len(wal) \in Nat
  BY DEF TypeOK
<1>2. ASSUME NEW i \in 0..Len(wal), NEW n \in 0..Len(wal) PROVE Latest(i, n)' = Latest(i, n)
  <2>1. \A s \in i..n - 1 : wal'[s + 1] = wal[s + 1]
    BY <1>1 DEF Evolves
  <2> QED BY <1>1, <2>1 DEF Latest, IsLast, Window
<1>3. ASSUME NEW K, NEW i \in 0..Len(wal), NEW n \in 0..Len(wal)
      PROVE  LatestOf(K, i, n)' = LatestOf(K, i, n)
  <2>1. \A v \in Latest(i, n) : wal'[v[2] + 1] = wal[v[2] + 1]
    <3> SUFFICES ASSUME NEW v \in Latest(i, n) PROVE wal'[v[2] + 1] = wal[v[2] + 1]
      OBVIOUS
    <3>1. v[2] \in i..n - 1
      BY InLatest
    <3> QED BY <1>1, <3>1 DEF Evolves
  <2> QED BY <1>2, <2>1 DEF LatestOf
<1>5. \A n \in 0..Len(wal) : NoVector(n)' = NoVector(n)
  BY <1>1, <1>3 DEF NoVector
<1>4. \A n \in 0..Len(wal) : Parts(n)' = Parts(n)
  BY <1>1, <1>3, <1>5 DEF Parts
<1> QED BY <1>2, <1>3, <1>4, <1>5

\* Every id that a window mentions has a last operation in it.
HasLast ==
  \A i, n \in 0..Len(wal) : \A t \in i..n - 1 : \E v \in Latest(i, n) : v[1] = wal[t + 1].id

\* HasLast is kept by an appended segment, which is its id's last operation.
LEMMA HasLastStep ==
  ASSUME TypeOK, HasLast, [Next]_vars
  PROVE  HasLast'
<1>1. CASE Upsert
  <2>1. PICK op \in Ops : wal' = Append(wal, op)
    BY <1>1 DEF Upsert
  <2>2. /\ wal \in Seq(Ops) /\ Len(wal) \in Nat /\ Len(wal') = Len(wal) + 1
        /\ \A s \in 1..Len(wal) : wal'[s] = wal[s]
        /\ wal'[Len(wal) + 1] = op
    BY <2>1 DEF TypeOK
  <2> DEFINE N == Len(wal)
  <2> SUFFICES ASSUME NEW i \in 0..N + 1, NEW n \in 0..N + 1, NEW t \in i..n - 1
               PROVE  \E v \in Latest(i, n)' : v[1] = wal'[t + 1].id
    BY <2>2 DEF HasLast
  <2>3. ASSUME NEW v
        PROVE  v \in Latest(i, n)' <=>
                 \E s \in i..n - 1 : /\ v = <<wal'[s + 1].id, s>>
                                     /\ \A u \in i..n - 1 : wal'[u + 1].id = wal'[s + 1].id => u <= s
    BY DEF Latest, IsLast, Window
  <2>4. CASE n <= N
    <3>1. PICK v \in Latest(i, n) : v[1] = wal[t + 1].id
      BY <2>2, <2>4 DEF HasLast
    <3>2. PICK s \in i..n - 1 : /\ v = <<wal[s + 1].id, s>>
                                /\ \A u \in i..n - 1 : wal[u + 1].id = wal[s + 1].id => u <= s
      BY InLatest
    <3>3. \A u \in i..n - 1 : wal'[u + 1] = wal[u + 1]
      BY <2>2, <2>4
    <3>4. v \in Latest(i, n)'
      BY <2>3, <3>2, <3>3
    <3> QED BY <3>1, <3>3, <3>4
  <2>5. CASE n = N + 1 /\ wal'[t + 1].id = op.id
    <3>1. N \in i..n - 1 /\ \A u \in i..n - 1 : u <= N
      BY <2>2, <2>5
    <3>2. <<wal'[N + 1].id, N>> \in Latest(i, n)'
      BY <2>3, <3>1
    <3> QED BY <2>2, <2>5, <3>2
  <2>6. CASE n = N + 1 /\ wal'[t + 1].id # op.id
    <3>1. t \in i..N - 1 /\ i \in 0..N /\ wal'[t + 1] = wal[t + 1]
      BY <2>2, <2>6
    <3>2. PICK v \in Latest(i, N) : v[1] = wal[t + 1].id
      BY <2>2, <3>1 DEF HasLast
    <3>3. PICK s \in i..N - 1 : /\ v = <<wal[s + 1].id, s>>
                                /\ \A u \in i..N - 1 : wal[u + 1].id = wal[s + 1].id => u <= s
      BY <3>2, InLatest
    <3>4. /\ wal'[s + 1] = wal[s + 1] /\ wal[s + 1].id # op.id
          /\ \A u \in i..n - 1 : (u \in i..N - 1 /\ wal'[u + 1] = wal[u + 1]) \/ u = N
      BY <2>2, <2>6, <3>1, <3>2, <3>3
    <3>5. /\ s \in i..n - 1 /\ v = <<wal'[s + 1].id, s>>
          /\ \A u \in i..n - 1 : wal'[u + 1].id = wal'[s + 1].id => u <= s
      <4>1. s \in i..n - 1 /\ v = <<wal'[s + 1].id, s>>
        BY <2>2, <2>6, <3>3, <3>4
      <4>2. ASSUME NEW u \in i..n - 1, wal'[u + 1].id = wal'[s + 1].id PROVE u <= s
        <5>1. CASE u \in i..N - 1 /\ wal'[u + 1] = wal[u + 1]
          BY <3>3, <3>4, <4>2, <5>1
        <5>2. CASE u = N
          BY <2>2, <3>4, <4>2, <5>2
        <5> QED BY <3>4, <5>1, <5>2
      <4> QED BY <4>1, <4>2
    <3>6. v \in Latest(i, n)'
      BY <2>3, <3>5
    <3> QED BY <3>1, <3>2, <3>6
  <2> QED BY <2>2, <2>4, <2>5, <2>6
<1>2. CASE UNCHANGED wal
  <2>1. ASSUME NEW i, NEW n PROVE Latest(i, n)' = Latest(i, n)
    BY <1>2 DEF Latest, IsLast, Window
  <2> QED BY <1>2, <2>1 DEF HasLast
<1>3. Create => UNCHANGED wal
  BY DEF Create
<1> QED BY <1>1, <1>2, <1>3, Steps DEF writeVars

-----------------------------------------------------------------------------
(* What the objects hold.                                                  *)

\* Epoch e is the index of the first n segments: LiveEpochWhole says so of the
\* epoch of the manifest, and of a reader's snapshot it holds as well.
WholeAt(e, n) ==
  e > 0 =>
    /\ \A p \in ToSet(Parts(n)) : <<e, p>> \in DOMAIN objs /\ objs[<<e, p>>] = n
    /\ \A p \in PartNames \ ToSet(Parts(n)) : <<e, p>> \in DOMAIN objs =>
         /\ objs[<<e, p>>] < n /\ ~NoVector(objs[<<e, p>>])
         /\ <<e, "centroids">> \in DOMAIN objs

\* What is left of the parts of a build; the centroids are written before the cluster.
PartRests ==
  {<<"centroids", "cluster", "bm25", "bitmaps", "docs">>, <<"cluster", "bm25", "bitmaps", "docs">>,
   <<"bm25", "bitmaps", "docs">>, <<"bitmaps", "docs">>, <<"docs">>, <<>>}

\* All parts are a rest, and what follows the first of a rest is a rest.
LEMMA PartRestsAre ==
  /\ \A n : Parts(n) \in PartRests
  /\ \A t \in PartRests : t # <<>> =>
       /\ Tail(t) \in PartRests
       /\ Head(t) = "cluster" => Tail(t) = <<"bm25", "bitmaps", "docs">>
<1>1. \A n : Parts(n) \in PartRests
  BY DEF Parts, PartRests
<1>2. ASSUME NEW t \in PartRests, t # <<>>
      PROVE  /\ Tail(t) \in PartRests
             /\ Head(t) = "cluster" => Tail(t) = <<"bm25", "bitmaps", "docs">>
  <2>1. CASE t = <<"centroids", "cluster", "bm25", "bitmaps", "docs">>
    BY <2>1 DEF PartRests
  <2>2. CASE t = <<"cluster", "bm25", "bitmaps", "docs">>
    BY <2>2 DEF PartRests
  <2>3. CASE t = <<"bm25", "bitmaps", "docs">>
    BY <2>3 DEF PartRests
  <2>4. CASE t = <<"bitmaps", "docs">>
    BY <2>4 DEF PartRests
  <2>5. CASE t = <<"docs">>
    BY <2>5 DEF PartRests
  <2> QED BY <1>2, <2>1, <2>2, <2>3, <2>4, <2>5 DEF PartRests
<1> QED BY <1>1, <1>2

\* What failed builds have left behind is part of what one of them had to write, and
\* a build has written the parts that it has no more to write.
Known ==
  \A k \in DOMAIN objs :
    /\ k[2] \in ToSet(Parts(objs[k]))
    /\ k[2] = "cluster" => <<k[1], "centroids">> \in DOMAIN objs
Written(b) ==
  /\ \A k \in DOMAIN objs : k[1] = build[b].epoch => objs[k] <= build[b].upTo
  /\ build[b].todo \in PartRests /\ ToSet(build[b].todo) \subseteq ToSet(Parts(build[b].upTo))
  /\ \A p \in ToSet(Parts(build[b].upTo)) : p \notin ToSet(build[b].todo) =>
       /\ <<build[b].epoch, p>> \in DOMAIN objs
       /\ objs[<<build[b].epoch, p>>] = build[b].upTo
Leftovers == Known /\ \A b \in Builders : bpc[b] # "idle" => Written(b)

\* An epoch stays whole once it is published.
LEMMA WholeStays ==
  ASSUME TypeOK, TypeOK', Evolves,
         NEW e \in Nat, NEW n \in 0..Len(wal), e <= manifest.IndexEpoch, WholeAt(e, n)
  PROVE  WholeAt(e, n)'
<1>1. Len(wal) \in Nat /\ manifest.IndexEpoch \in Nat
  BY StoreTypes
<1>2. Parts(n)' = Parts(n) /\ \A m \in 0..Len(wal) : NoVector(m)' = NoVector(m)
  BY FoldsStay
<1>3. \A p \in PartNames :
        /\ <<e, p>> \in DOMAIN objs' <=> <<e, p>> \in DOMAIN objs
        /\ <<e, p>> \in DOMAIN objs => objs'[<<e, p>>] = objs[<<e, p>>]
  <2> SUFFICES ASSUME NEW p \in PartNames
               PROVE  /\ <<e, p>> \in DOMAIN objs' <=> <<e, p>> \in DOMAIN objs
                      /\ <<e, p>> \in DOMAIN objs => objs'[<<e, p>>] = objs[<<e, p>>]
    OBVIOUS
  <2> DEFINE k == <<e, p>>
  <2>1. k[1] = e
    OBVIOUS
  <2> HIDE DEF k
  <2>2. /\ k \in DOMAIN objs' <=> k \in DOMAIN objs
        /\ k \in DOMAIN objs => objs'[k] = objs[k]
    BY <1>1, <2>1 DEF Evolves
  <2> QED BY <2>2 DEF k
<1>4. ASSUME NEW p \in PartNames, <<e, p>> \in DOMAIN objs, objs[<<e, p>>] < n
      PROVE  NoVector(objs[<<e, p>>])' = NoVector(objs[<<e, p>>])
  <2>1. ASSUME NEW m \in 0..Len(wal), m = objs[<<e, p>>], m = objs'[<<e, p>>]
        PROVE  NoVector(objs[<<e, p>>])' = NoVector(objs[<<e, p>>])
    <3>1. NoVector(m)' = NoVector(m)
      BY <1>2
    <3> QED BY <2>1, <3>1
  <2>2. objs[<<e, p>>] \in Nat
    BY <1>4 DEF TypeOK
  <2>3. objs[<<e, p>>] \in 0..Len(wal) /\ objs'[<<e, p>>] = objs[<<e, p>>]
    BY <1>1, <1>3, <1>4, <2>2
  <2> QED BY <2>1, <2>3
<1>5. ToSet(Parts(n)) \subseteq PartNames /\ "centroids" \in PartNames
  BY PartsAre DEF PartNames
<1>6. ToSet(Parts(n))' = ToSet(Parts(n))
  BY <1>2
<1>7. CASE e > 0
  <2>1. \A p \in ToSet(Parts(n)) : <<e, p>> \in DOMAIN objs' /\ objs'[<<e, p>>] = n
    BY <1>3, <1>5, <1>7 DEF WholeAt
  <2>2. ASSUME NEW p \in PartNames \ ToSet(Parts(n)), <<e, p>> \in DOMAIN objs'
        PROVE  /\ objs'[<<e, p>>] < n /\ ~(NoVector(objs[<<e, p>>])')
               /\ <<e, "centroids">> \in DOMAIN objs'
    BY <1>3, <1>4, <1>5, <1>7, <2>2 DEF WholeAt
  <2> QED BY <1>6, <2>1, <2>2 DEF WholeAt
<1> QED BY <1>7 DEF WholeAt

\* The swap: all parts of the epoch are there, those of this build, and of earlier
\* ones no more than a vector index that this build does not have.
LEMMA PublishedIsWhole ==
  ASSUME TypeOK, Pending, StoreInv, Leftovers, NEW b \in Builders, PublishStored(b)
  PROVE  WholeAt(build[b].epoch, build[b].upTo)
<1>1. /\ build[b].todo = <<>> /\ bpc[b] # "idle"
      /\ Len(wal) \in Nat /\ build[b].upTo \in 0..Len(wal)
  BY StoreTypes DEF Pending, PublishStored, StoreInv, Unpublished
<1>2. ToSet(build[b].todo) = {}
  BY <1>1 DEF ToSet
<1> DEFINE e == build[b].epoch
           n == build[b].upTo
<1>3. \A p \in ToSet(Parts(n)) : <<e, p>> \in DOMAIN objs /\ objs[<<e, p>>] = n
  BY <1>1, <1>2 DEF Leftovers, Written
<1>4. ASSUME NEW p \in PartNames \ ToSet(Parts(n)), <<e, p>> \in DOMAIN objs
      PROVE  /\ objs[<<e, p>>] < n /\ ~NoVector(objs[<<e, p>>])
             /\ <<e, "centroids">> \in DOMAIN objs
  <2> DEFINE k == <<e, p>>
  <2>1. k[1] = e /\ k[2] = p /\ k \in DOMAIN objs
    BY <1>4
  <2> HIDE DEF k
  <2>2. objs[k] \in Nat /\ objs[k] <= n /\ p \in ToSet(Parts(objs[k]))
    BY <1>1, <2>1, StoreTypes DEF Leftovers, Known, Written
  <2>3. objs[k] < n
    BY <1>1, <1>4, <2>2
  <2>4. p \in {"centroids", "cluster"}
    BY <1>4, PartsAre DEF PartNames
  <2>5. ~NoVector(objs[k])
    BY <2>2, <2>4, PartsAre
  <2>6. <<e, "centroids">> \in DOMAIN objs
    BY <1>4, <2>1, <2>4 DEF Leftovers, Known
  <2> QED BY <2>3, <2>5, <2>6 DEF k
<1> QED BY <1>3, <1>4 DEF WholeAt

\* Every step keeps Leftovers: the next build of an epoch knows at least as much
\* of the WAL as the failed ones before it.
LEMMA LeftoversStep ==
  ASSUME OneBuilder, TypeOK, TypeOK', Pending, StoreInv, Leftovers, Evolves, [Next]_vars
  PROVE  Leftovers'
<1>0. /\ Len(wal) \in Nat /\ manifest.WALSeq = Len(wal)
      /\ \A k \in DOMAIN objs : objs[k] \in 0..Len(wal)
      /\ \A b \in Builders : bpc[b] # "idle" => build[b].upTo \in 0..Len(wal)
      /\ \A n \in 0..Len(wal) : Parts(n)' = Parts(n)
  BY StoreTypes, FoldsStay DEF StoreInv, ManifestOK, Unpublished
<1>1. Known /\ \A b \in Builders : bpc[b] # "idle" => Written(b)
  BY DEF Leftovers
<1>2. ASSUME UNCHANGED objs PROVE Known'
  BY <1>0, <1>1, <1>2 DEF Known
<1>3. ASSUME NEW b \in Builders, BuilderSteps(b), UNCHANGED wal PROVE Leftovers'
  <2>0. \A d \in Builders : d = b
    BY DEF OneBuilder
  <2>1. CASE PublishStored(b)
    <3>1. bpc'[b] = "idle" /\ UNCHANGED objs
      BY <2>1, PublishIs
    <3> QED BY <1>2, <2>0, <3>1 DEF Leftovers
  <2>2. CASE BuildStart(b)
    <3>1. UNCHANGED objs
      BY <2>2 DEF BuildStart
    <3>2. build'[b].upTo = Len(wal) /\ build'[b].todo = Parts(Len(wal))
      <4>1. /\ build'[b].upTo = manifest.WALSeq /\ build'[b].todo = Parts(manifest.WALSeq)
        BY <2>2, BuildStepIs, <1>3 DEF BuildStart, PublishStored, TypeOK
      <4> QED BY <1>0, <4>1
    <3>3. Parts(Len(wal))' = Parts(Len(wal))
      BY <1>0, <1>3
    <3>4. Written(b)'
      BY <1>0, <1>3, <3>1, <3>2, <3>3, PartRestsAre DEF Written
    <3> QED BY <1>2, <2>0, <3>1, <3>4 DEF Leftovers
  <2>3. CASE PutPart(b)
    <3> DEFINE p == Head(build[b].todo)
               k == <<build[b].epoch, p>>
    <3>1. /\ DOMAIN objs' = DOMAIN objs \cup {k} /\ objs'[k] = build[b].upTo
          /\ \A j \in DOMAIN objs : j # k => objs'[j] = objs[j]
          /\ build'[b].todo = Tail(build[b].todo) /\ bpc[b] = "put"
      BY <2>3, PutPartIs
    <3>2. build'[b].epoch = build[b].epoch /\ build'[b].upTo = build[b].upTo
      BY <2>3 DEF PutPart, TypeOK, BuildLocals
    <3>3. /\ p \in PartNames /\ ToSet(build[b].todo) = {p} \cup ToSet(build'[b].todo)
      <4>1. build[b].todo \in Seq(PartNames) /\ build[b].todo # <<>>
        BY <3>1 DEF TypeOK, BuildLocals, Pending
      <4> QED BY <3>1, <4>1, ToSetHeadTail
    <3>4. Written(b) /\ build[b].upTo \in 0..Len(wal)
      BY <1>0, <1>1, <3>1
    <3>5. Parts(build[b].upTo)' = Parts(build[b].upTo)
      BY <1>0, <3>2, <3>4
    <3>6. k[1] = build[b].epoch /\ k[2] = p /\ \A q : <<build[b].epoch, q>> = k <=> q = p
      OBVIOUS
    <3> HIDE DEF k, p
    <3>9. build'[b].todo \in PartRests /\ (p = "cluster" => "centroids" \notin ToSet(build'[b].todo))
      <4>1. build[b].todo # <<>> /\ build[b].todo \in PartRests
        BY <3>1, <3>4 DEF Pending, Written
      <4>2. "centroids" \notin ToSet(<<"bm25", "bitmaps", "docs">>)
        BY DEF ToSet
      <4> QED BY <3>1, <4>1, <4>2, PartRestsAre DEF p
    <3>7. Known'
      <4> SUFFICES ASSUME NEW j \in DOMAIN objs'
                   PROVE  /\ j[2] \in ToSet(Parts(objs[j]))'
                          /\ j[2] = "cluster" => <<j[1], "centroids">> \in DOMAIN objs'
        BY DEF Known
      <4>1. CASE j = k
        <5>1. j[2] \in ToSet(Parts(objs[j]))'
          BY <1>0, <3>1, <3>3, <3>4, <3>6, <4>1 DEF Written
        <5>2. ASSUME p = "cluster" PROVE <<build[b].epoch, "centroids">> \in DOMAIN objs
          <6>1. p \in ToSet(Parts(build[b].upTo))
            BY <3>3, <3>4 DEF Written
          <6>2. "centroids" \in ToSet(Parts(build[b].upTo))
            BY <5>2, <6>1, PartsAre DEF PartNames
          <6>3. "centroids" \notin ToSet(build[b].todo)
            BY <3>3, <3>9, <5>2
          <6> QED BY <3>4, <6>2, <6>3 DEF Written
        <5> QED BY <3>1, <3>6, <4>1, <5>1, <5>2
      <4>2. CASE j # k
        BY <1>0, <1>1, <3>1, <4>2 DEF Known
      <4> QED BY <4>1, <4>2
    <3>8. Written(b)'
      <4>1. \A j \in DOMAIN objs' : j[1] = build[b].epoch => objs'[j] <= build[b].upTo
        BY <3>1, <3>4 DEF Written
      <4>2. ToSet(build'[b].todo) \subseteq ToSet(Parts(build[b].upTo))
        BY <3>3, <3>4 DEF Written
      <4>3. ASSUME NEW q \in ToSet(Parts(build[b].upTo)), q \notin ToSet(build'[b].todo)
            PROVE  /\ <<build[b].epoch, q>> \in DOMAIN objs'
                   /\ objs'[<<build[b].epoch, q>>] = build[b].upTo
        <5>1. CASE q = p
          BY <3>1, <3>6, <5>1
        <5>2. CASE q # p
          BY <3>1, <3>3, <3>4, <3>6, <4>3, <5>2 DEF Written
        <5> QED BY <5>1, <5>2
      <4> QED BY <3>2, <3>5, <3>9, <4>1, <4>2, <4>3 DEF Written
    <3> QED BY <2>0, <3>7, <3>8 DEF Leftovers
  <2>4. CASE ~PublishStored(b) /\ ~BuildStart(b) /\ ~PutPart(b)
    <3>1. /\ UNCHANGED objs
          /\ \/ bpc'[b] = "idle"
             \/ /\ bpc[b] # "idle" /\ build'[b].epoch = build[b].epoch
                /\ build'[b].upTo = build[b].upTo /\ build'[b].todo = build[b].todo
      BY <1>3, <2>4, BuildStepIs
    <3>2. bpc'[b] # "idle" => Written(b)'
      BY <1>0, <1>1, <3>1 DEF Written
    <3> QED BY <1>2, <2>0, <3>1, <3>2 DEF Leftovers
  <2> QED BY <2>1, <2>2, <2>3, <2>4
<1>4. CASE UNCHANGED buildVars
  <2>1. UNCHANGED <<objs, bpc, build>>
    BY <1>4 DEF buildVars
  <2>2. ASSUME NEW b \in Builders, bpc'[b] # "idle" PROVE Written(b)'
    BY <1>0, <1>1, <2>1, <2>2 DEF Written
  <2> QED BY <1>2, <2>1, <2>2 DEF Leftovers
<1> QED BY <1>3, <1>4, Steps

\* A publish makes a whole epoch live, and no step takes anything from it.
LEMMA LiveStep ==
  ASSUME TypeOK, TypeOK', Pending, StoreInv, Leftovers, LiveEpochWhole,
         Evolves, [Next]_vars
  PROVE  LiveEpochWhole'
<1>0. /\ Len(wal) \in Nat /\ manifest.IndexEpoch \in Nat
      /\ manifest.IndexedUpTo \in 0..Len(wal)
  BY StoreTypes DEF StoreInv, ManifestOK
<1>1. WholeAt(manifest.IndexEpoch, manifest.IndexedUpTo)
  BY DEF WholeAt, LiveEpochWhole
<1>2. CASE /\ manifest'.IndexEpoch = manifest.IndexEpoch
           /\ manifest'.IndexedUpTo = manifest.IndexedUpTo
  <2>1. WholeAt(manifest.IndexEpoch, manifest.IndexedUpTo)'
    <3>1. ASSUME NEW e \in Nat, NEW n \in 0..Len(wal), e = manifest.IndexEpoch,
                 n = manifest.IndexedUpTo
          PROVE  WholeAt(e, n)'
      BY <1>0, <1>1, <3>1, WholeStays
    <3> QED BY <1>0, <1>2, <3>1
  <2> QED BY <2>1 DEF WholeAt, LiveEpochWhole
<1>3. ASSUME NEW b \in Builders, PublishStored(b) PROVE LiveEpochWhole'
  <2>1. /\ manifest'.IndexEpoch = build[b].epoch /\ manifest'.IndexedUpTo = build[b].upTo
        /\ UNCHANGED <<objs, wal>>
    BY <1>3, PublishIs DEF PublishStored
  <2>2. WholeAt(build[b].epoch, build[b].upTo)
    BY <1>3, PublishedIsWhole
  <2>4. \A m : NoVector(m)' = NoVector(m)
    BY <2>1 DEF NoVector, LatestOf, Latest, IsLast, Window
  <2>3. Parts(build[b].upTo) = Parts(manifest.IndexedUpTo)'
    <3>1. build[b].upTo \in 0..Len(wal)
      BY <1>0, <1>3, StoreTypes DEF StoreInv, Unpublished, PublishStored
    <3>2. ASSUME NEW n \in 0..Len(wal) PROVE Parts(n)' = Parts(n)
      BY FoldsStay
    <3> QED BY <2>1, <3>1, <3>2
  <2> QED BY <2>1, <2>2, <2>3, <2>4 DEF WholeAt, LiveEpochWhole
<1>4. ASSUME NEW b \in Builders, BuilderSteps(b), ~PublishStored(b) PROVE LiveEpochWhole'
  BY <1>2, <1>4, BuildStepIs DEF writeVars
<1>5. CASE Create
  BY <1>2, <1>5 DEF Create, Exists, StoreInv, ManifestOK, NoManifest, TypeOK, ManifestType
<1>6. CASE Upsert
  BY <1>2, <1>6, UpsertIs
<1>7. CASE UNCHANGED writeVars
  BY <1>2, <1>7 DEF writeVars
<1> QED BY <1>3, <1>4, <1>5, <1>6, <1>7, Steps

-----------------------------------------------------------------------------
\* The inductive invariant of the content of the store.
StoreContent == CoreInv /\ HasLast /\ Leftovers /\ LiveEpochWhole

\* StoreContent holds at the start.
LEMMA InitContent == Init => StoreContent
<1> SUFFICES ASSUME Init PROVE StoreContent
  OBVIOUS
<1>1. Len(wal) = 0 /\ objs = <<>> /\ DOMAIN objs = {} /\ manifest.IndexEpoch = 0
  BY DEF Init, NoManifest
<1>2. HasLast
  BY <1>1 DEF HasLast
<1>3. Leftovers
  BY <1>1 DEF Init, Leftovers, Known
<1>4. LiveEpochWhole
  BY <1>1 DEF LiveEpochWhole
<1> QED BY InitCore, <1>2, <1>3, <1>4 DEF StoreContent

\* Every step keeps StoreContent.
LEMMA ContentStep ==
  ASSUME OneBuilder
  PROVE  StoreContent /\ [Next]_vars => StoreContent' /\ Evolves
<1> SUFFICES ASSUME StoreContent, [Next]_vars PROVE StoreContent' /\ Evolves
  OBVIOUS
<1>1. CoreInv /\ CoreInv' /\ Evolves
  BY CoreStep DEF StoreContent
<1>2. HasLast' /\ Leftovers' /\ LiveEpochWhole'
  BY <1>1, HasLastStep, LeftoversStep, LiveStep DEF CoreInv, StoreContent
<1> QED BY <1>1, <1>2 DEF StoreContent

\* BuildIndex, rule 4: the epoch of the manifest has all its objects, of the prefix
\* that the manifest names, whatever earlier builds of its number left behind, and
\* what is left of them is a vector index of a shorter WAL, where there is no vector.
THEOREM EpochIsWhole ==
  ASSUME OneBuilder
  PROVE  Spec => []LiveEpochWhole
<1>1. StoreContent /\ [Next]_vars => StoreContent'
  BY ContentStep
<1>2. StoreContent => LiveEpochWhole
  BY DEF StoreContent
<1> QED BY InitContent, <1>1, <1>2, PTL DEF Spec

-----------------------------------------------------------------------------
(* What a request has read.                                                *)

\* The objects that a leg cannot do without.
Needs(leg) == IF leg = "vector" THEN {"cluster"} ELSE {"bm25", "docs"}
VectorParts == {"bitmaps", "centroids", "cluster"}

\* The objects of the snapshot's epoch that the legs of a request need are read, or
\* still to be read, or not part of the epoch, or the epoch has no vectors.  WholeAt
\* of a snapshot says that the epoch of its manifest is still there, though the live
\* one may be another.
Accounted(r) ==
  LET e == query[r].snap.IndexEpoch
      n == query[r].snap.IndexedUpTo
      todo == query[r].todo
      got == query[r].got
  IN
  /\ WholeAt(e, n)
  /\ \A p \in DOMAIN got : e > 0 /\ <<e, p>> \in DOMAIN objs /\ got[p] = objs[<<e, p>>]
  /\ rpc[r] = "fetch" /\ Head(todo) = "cluster" =>
       \/ "centroids" \in DOMAIN got
       \/ "bitmaps" \in DOMAIN got /\ ~NoVector(n)
  /\ "cluster" \in DOMAIN got => "centroids" \in DOMAIN got \/ "bitmaps" \in DOMAIN got
  /\ rpc[r] # "fetch" => todo = <<>>
  /\ e > 0 => \A leg \in Legs(query[r].mode) : \A p \in Needs(leg) :
                \/ p \in DOMAIN got \/ p \in ToSet(todo) \/ <<e, p>> \notin DOMAIN objs
                \/ p = "cluster" /\ NoVector(n)
  /\ ToSet(todo) \cap VectorParts # {} => "vector" \in Legs(query[r].mode)

\* A request has a vector leg, and its epoch a relic.
Excused(r) == "vector" \in Legs(query[r].mode) /\ Haunted(query[r].snap)

\* A request is accounted for, and only an excused one is told "not found" on its way.
Progress ==
  \A r \in Readers :
    /\ rpc[r] \in {"fetch", "tail", "done"} => Accounted(r)
    /\ rpc[r] = "notFound" /\ query[r] # NoQuery => Excused(r)

\* The lists of objects, as sets.
LEMMA RestSets ==
  /\ ToSet(<<>>) = {} /\ ToSet(<<"cluster">>) = {"cluster"} /\ ToSet(<<"docs">>) = {"docs"}
  /\ ToSet(<<"centroids">>) = {"centroids"}
  /\ ToSet(<<"centroids", "cluster">>) = {"centroids", "cluster"}
  /\ ToSet(<<"bitmaps", "centroids", "cluster">>) = VectorParts
  /\ ToSet(<<"bm25", "docs">>) = {"bm25", "docs"}
  /\ ToSet(<<"centroids", "cluster", "bm25", "docs">>) = {"centroids", "cluster", "bm25", "docs"}
  /\ ToSet(<<"cluster", "bm25", "docs">>) = {"cluster", "bm25", "docs"}
BY DEF ToSet, VectorParts

\* The legs of a request need nothing that the request does not want.
LEMMA LegsAreWanted ==
  ASSUME NEW m \in CommandModes
  PROVE  /\ \A leg \in Legs(m) : /\ leg \in {"vector", "text"} /\ Needs(leg) \subseteq ToSet(Wanted(m))
                                 /\ Wanted(m) # <<>> /\ Head(Wanted(m)) # "cluster"
         /\ ToSet(Wanted(m)) \cap VectorParts # {} => "vector" \in Legs(m)
<1>1. CASE m = "vector"
  BY <1>1, RestSets DEF Legs, Wanted, Needs
<1>2. CASE m = "text"
  BY <1>2, RestSets DEF Legs, Wanted, Needs, VectorParts
<1>3. CASE m = "hybrid"
  BY <1>3, RestSets DEF Legs, Wanted, Needs
<1>4. CASE m = "info"
  BY <1>4, RestSets DEF Legs, Wanted
<1>5. CASE m = "filtered"
  BY <1>5, RestSets DEF Legs, Wanted, Needs, VectorParts
<1> QED BY <1>1, <1>2, <1>3, <1>4, <1>5 DEF CommandModes, NodeModes

\* What is left after the first object, and without what the first one announces.
LEMMA RestSteps ==
  ASSUME NEW t \in Rests
  PROVE  /\ Head(t) \in PartNames
         /\ ToSet(t) = {Head(t)} \cup ToSet(Tail(t))
         /\ Tail(t) # <<>> /\ Head(Tail(t)) = "cluster" => Head(t) = "centroids"
         /\ Head(t) = "bitmaps" => ToSet(t) = VectorParts
         /\ Head(t) = "centroids" => /\ Without(t) \in {<<>>, <<"bm25", "docs">>}
                                     /\ ToSet(t) \subseteq {"centroids", "cluster"} \cup ToSet(Without(t))
<1>1. CASE t = <<"centroids", "cluster">>
  BY <1>1, RestSets DEF PartNames, Without
<1>2. CASE t = <<"cluster">>
  BY <1>2, RestSets DEF PartNames
<1>3. CASE t = <<"bm25", "docs">>
  BY <1>3, RestSets DEF PartNames
<1>4. CASE t = <<"docs">>
  BY <1>4, RestSets DEF PartNames
<1>5. CASE t = <<"centroids", "cluster", "bm25", "docs">>
  <2>1. /\ Head(t) = "centroids" /\ Tail(t) = <<"cluster", "bm25", "docs">>
        /\ Tail(Tail(t)) = <<"bm25", "docs">>
    BY <1>5
  <2> QED BY <1>5, <2>1, RestSets DEF PartNames, Without
<1>6. CASE t = <<"cluster", "bm25", "docs">>
  <2>1. /\ Head(t) = "cluster" /\ Tail(t) = <<"bm25", "docs">>
    BY <1>6
  <2> QED BY <1>6, <2>1, RestSets DEF PartNames
<1>7. CASE t = <<"centroids">>
  BY <1>7, RestSets DEF PartNames, Without
<1>8. CASE t = <<"bitmaps", "centroids", "cluster">>
  <2>1. /\ Head(t) = "bitmaps" /\ Tail(t) = <<"centroids", "cluster">>
    BY <1>8
  <2> QED BY <1>8, <2>1, RestSets DEF PartNames, VectorParts
<1> QED BY <1>1, <1>2, <1>3, <1>4, <1>5, <1>6, <1>7, <1>8 DEF Rests

\* An object of a published epoch does not change, and no new one comes.
LEMMA EpochStays ==
  ASSUME TypeOK, Evolves, NEW e \in Nat, e <= manifest.IndexEpoch, NEW p
  PROVE  /\ <<e, p>> \in DOMAIN objs' <=> <<e, p>> \in DOMAIN objs
         /\ <<e, p>> \in DOMAIN objs => objs'[<<e, p>>] = objs[<<e, p>>]
<1> DEFINE k == <<e, p>>
<1>1. k[1] = e /\ manifest.IndexEpoch \in Nat
  BY StoreTypes
<1> HIDE DEF k
<1>2. /\ k \in DOMAIN objs' <=> k \in DOMAIN objs
      /\ k \in DOMAIN objs => objs'[k] = objs[k]
  BY <1>1 DEF Evolves
<1> QED BY <1>2 DEF k

\* An epoch of the past is as haunted as it was.
LEMMA HauntedStays ==
  ASSUME TypeOK, TypeOK', Evolves, NEW m, m.IndexEpoch \in Nat, m.IndexedUpTo \in 0..Len(wal),
         m.IndexEpoch <= manifest.IndexEpoch
  PROVE  Haunted(m)' = Haunted(m) /\ Relic(m)' = Relic(m)
<1>1. NoVector(m.IndexedUpTo)' = NoVector(m.IndexedUpTo)
  BY FoldsStay
<1>2. Haunted(m)' = Haunted(m)
  BY <1>1, EpochStays DEF Haunted
<1> QED BY <1>2 DEF Relic

\* The same of the epoch that a request reads.
LEMMA SnapshotStays ==
  ASSUME TypeOK, TypeOK', Evolves, SnapshotsOK, NEW r \in Readers, Begun(r), query'[r] = query[r]
  PROVE  /\ Haunted(query[r].snap)' = Haunted(query[r].snap)
         /\ Relic(query[r].snap)' = Relic(query[r].snap)
<1>1. /\ query[r].snap.IndexEpoch \in Nat /\ query[r].snap.IndexedUpTo \in 0..Len(wal)
      /\ query[r].snap.IndexEpoch <= manifest.IndexEpoch
  BY SnapshotTypes, StoreTypes DEF SnapshotsOK
<1>2. ASSUME NEW m, m = query[r].snap
      PROVE  Haunted(m)' = Haunted(m) /\ Relic(m)' = Relic(m)
  BY <1>1, <1>2, HauntedStays
<1> QED BY <1>2

\* What a request has read stays what its snapshot names, while others act.
LEMMA AccountedStays ==
  ASSUME TypeOK, TypeOK', Evolves, SnapshotsOK, NEW r \in Readers,
         rpc[r] \in {"fetch", "tail", "done"}, Accounted(r), query'[r] = query[r],
         rpc'[r] = rpc[r] \/ (rpc[r] = "tail" /\ rpc'[r] = "done")
  PROVE  Accounted(r)'
<1> DEFINE e == query[r].snap.IndexEpoch
           n == query[r].snap.IndexedUpTo
<1>1. /\ e \in Nat /\ n \in 0..Len(wal) /\ e <= manifest.IndexEpoch
      /\ manifest.IndexEpoch \in Nat
  BY SnapshotTypes, StoreTypes DEF SnapshotsOK, Begun
<1>2. /\ WholeAt(query[r].snap.IndexEpoch, query[r].snap.IndexedUpTo)'
      /\ NoVector(query[r].snap.IndexedUpTo)' = NoVector(n)
  <2>1. ASSUME NEW f \in Nat, NEW m \in 0..Len(wal), f = e, m = n
        PROVE  WholeAt(f, m)' /\ NoVector(m)' = NoVector(m)
    BY <1>1, <2>1, WholeStays, FoldsStay DEF Accounted
  <2> QED BY <1>1, <2>1
<1>3. \A p : /\ <<e, p>> \in DOMAIN objs' <=> <<e, p>> \in DOMAIN objs
             /\ <<e, p>> \in DOMAIN objs => objs'[<<e, p>>] = objs[<<e, p>>]
  BY <1>1, EpochStays
<1> QED BY <1>2, <1>3 DEF Accounted

\* A request that begins has read nothing, and all it wants is before it.
LEMMA StartIsAccounted ==
  ASSUME TypeOK, StoreInv, LiveEpochWhole, NEW r \in Readers, QueryStart(r)
  PROVE  Accounted(r)'
<1>1. /\ query'[r].mode \in CommandModes
      /\ query'[r].snap = manifest /\ query'[r].got = <<>>
      /\ query'[r].todo = IF manifest.IndexEpoch > 0 THEN Wanted(query'[r].mode) ELSE <<>>
      /\ rpc'[r] = IF query'[r].mode = "info" THEN "done"
                   ELSE IF query'[r].todo = <<>> THEN "tail" ELSE "fetch"
      /\ UNCHANGED <<objs, wal>>
  BY QueryStartIs DEF QueryStart, writeVars, buildVars
<1>2. WholeAt(query[r].snap.IndexEpoch, query[r].snap.IndexedUpTo)'
  <2>1. \A n : Parts(n)' = Parts(n) /\ NoVector(n)' = NoVector(n)
    BY <1>1 DEF Parts, NoVector, LatestOf, Latest, IsLast, Window
  <2> QED BY <1>1, <2>1 DEF WholeAt, LiveEpochWhole
<1>3. rpc'[r] # "fetch" => query'[r].todo = <<>>
  BY <1>1 DEF Wanted
<1>4. rpc'[r] = "fetch" => Head(query'[r].todo) # "cluster"
  <2>1. query'[r].mode # "info" => \E leg : leg \in Legs(query'[r].mode)
    BY <1>1 DEF CommandModes, NodeModes, Legs
  <2> QED BY <1>1, <2>1, LegsAreWanted
<1>5. manifest.IndexEpoch > 0 =>
        \A leg \in Legs(query'[r].mode) : \A p \in Needs(leg) : p \in ToSet(query'[r].todo)
  BY <1>1, LegsAreWanted
<1>6. ToSet(query'[r].todo) \cap VectorParts # {} => "vector" \in Legs(query'[r].mode)
  BY <1>1, LegsAreWanted, RestSets
<1> QED BY <1>1, <1>2, <1>3, <1>4, <1>5, <1>6 DEF Accounted

\* The locals of a request after an object has arrived or was found to be absent.
LEMMA ContinueIsAccounted ==
  ASSUME TypeOK, NEW r \in Readers, rpc[r] = "fetch", Accounted(r), UNCHANGED <<objs, wal>>,
         NEW todo \in Rests \cup {<<>>}, NEW got, Continue(r, todo, got),
         \A p \in DOMAIN got : /\ query[r].snap.IndexEpoch > 0
                               /\ <<query[r].snap.IndexEpoch, p>> \in DOMAIN objs
                               /\ got[p] = objs[<<query[r].snap.IndexEpoch, p>>],
         DOMAIN query[r].got \subseteq DOMAIN got,
         todo # <<>> /\ Head(todo) = "cluster" =>
           \/ "centroids" \in DOMAIN got
           \/ "bitmaps" \in DOMAIN got /\ ~NoVector(query[r].snap.IndexedUpTo),
         "cluster" \in DOMAIN got => "centroids" \in DOMAIN got \/ "bitmaps" \in DOMAIN got,
         \A p \in ToSet(query[r].todo) :
            \/ p \in ToSet(todo) \/ p \in DOMAIN got
            \/ <<query[r].snap.IndexEpoch, p>> \notin DOMAIN objs
            \/ p = "centroids"
            \/ p = "cluster" /\ NoVector(query[r].snap.IndexedUpTo),
         ToSet(todo) \cap VectorParts # {} => ToSet(query[r].todo) \cap VectorParts # {}
  PROVE  Accounted(r)'
<1>1. /\ rpc'[r] = IF todo = <<>> THEN "tail" ELSE "fetch"
      /\ query'[r].mode = query[r].mode /\ query'[r].snap = query[r].snap
      /\ query'[r].todo = todo /\ query'[r].got = got
  BY ContinueIs
<1>2. \A n : Parts(n)' = Parts(n) /\ NoVector(n)' = NoVector(n)
  BY DEF Parts, NoVector, LatestOf, Latest, IsLast, Window
<1>3. WholeAt(query[r].snap.IndexEpoch, query[r].snap.IndexedUpTo)'
  BY <1>1, <1>2 DEF Accounted, WholeAt
<1>4. \A leg : "centroids" \notin Needs(leg)
  BY DEF Needs
<1> QED BY <1>1, <1>2, <1>3, <1>4 DEF Accounted

\* An object of the snapshot's epoch arrives.
LEMMA ReceivedIsAccounted ==
  ASSUME TypeOK, Pending, NEW r \in Readers, rpc[r] = "fetch", Accounted(r), Fetching,
         UNCHANGED <<objs, wal>>, Key(r) \in DOMAIN objs, Received(r, objs[Key(r)])
  PROVE  Accounted(r)'
<1> DEFINE e == query[r].snap.IndexEpoch
           n == query[r].snap.IndexedUpTo
           p == Head(query[r].todo)
           body == objs[Key(r)]
           got == Put(query[r].got, p, body)
<1>1. query[r].todo \in Rests /\ e > 0 /\ Key(r) = <<e, p>>
  BY DEF Pending, Fetching, Key
<1>2. /\ p \in PartNames /\ Tail(query[r].todo) \in Rests \cup {<<>>}
      /\ ToSet(query[r].todo) = {p} \cup ToSet(Tail(query[r].todo))
      /\ Tail(query[r].todo) # <<>> /\ Head(Tail(query[r].todo)) = "cluster" => p = "centroids"
      /\ p = "bitmaps" => ToSet(query[r].todo) = VectorParts
  BY <1>1, RestsAre, RestSteps
<1>3. PICK todo \in IF p = "bitmaps" THEN Plans(body) ELSE {Tail(query[r].todo)} :
        Continue(r, todo, got)
  BY DEF Received
<1>4. DOMAIN got = DOMAIN query[r].got \cup {p}
  BY DEF Put
<1>5. \A q \in DOMAIN got : e > 0 /\ <<e, q>> \in DOMAIN objs /\ got[q] = objs[<<e, q>>]
  BY <1>1 DEF Put, Accounted
<1>6. /\ p = "cluster" => "centroids" \in DOMAIN got \/ "bitmaps" \in DOMAIN got
      /\ "cluster" \in DOMAIN query[r].got => "centroids" \in DOMAIN got \/ "bitmaps" \in DOMAIN got
  BY <1>4 DEF Accounted
<1> HIDE DEF got
<1>7. CASE p = "bitmaps"
  <2>1. "bitmaps" \in ToSet(Parts(n))
    BY PartsAre DEF PartNames
  <2>2. todo \in Plans(n)
    BY <1>1, <1>3, <1>7, <2>1 DEF Accounted, WholeAt
  <2>3. todo \in Rests \cup {<<>>}
    BY <2>2, PlansAre
  <2>4. CASE NoVector(n)
    <3>1. todo # <<>> => Head(todo) = "centroids"
      BY <2>2, <2>4 DEF Plans
    <3>2. \A q \in ToSet(query[r].todo) : q \in DOMAIN got \/ q = "centroids" \/ q = "cluster"
      BY <1>2, <1>4, <1>7 DEF VectorParts
    <3>3. ToSet(query[r].todo) \cap VectorParts # {}
      BY <1>2, <1>7 DEF VectorParts
    <3> QED BY <1>3, <1>4, <1>5, <1>6, <1>7, <2>3, <2>4, <3>1, <3>2, <3>3, ContinueIsAccounted
  <2>5. CASE ~NoVector(n)
    <3>1. "cluster" \in ToSet(todo)
      BY <2>2, <2>5, RestSets DEF Plans
    <3>2. \A q \in ToSet(query[r].todo) : q \in DOMAIN got \/ q = "centroids" \/ q \in ToSet(todo)
      BY <1>2, <1>4, <1>7, <3>1 DEF VectorParts
    <3>3. ToSet(query[r].todo) \cap VectorParts # {} /\ "bitmaps" \in DOMAIN got
      BY <1>2, <1>4, <1>7 DEF VectorParts
    <3> QED BY <1>3, <1>4, <1>5, <1>6, <1>7, <2>3, <2>5, <3>2, <3>3, ContinueIsAccounted
  <2> QED BY <2>4, <2>5
<1>8. CASE p # "bitmaps"
  <2>1. todo = Tail(query[r].todo)
    BY <1>3, <1>8
  <2>2. todo # <<>> /\ Head(todo) = "cluster" => "centroids" \in DOMAIN got
    BY <1>2, <1>4, <2>1
  <2>3. /\ \A q \in ToSet(query[r].todo) : q \in DOMAIN got \/ q \in ToSet(todo)
        /\ ToSet(todo) \subseteq ToSet(query[r].todo)
    BY <1>2, <1>4, <2>1
  <2>4. "cluster" \in DOMAIN got => "centroids" \in DOMAIN got \/ "bitmaps" \in DOMAIN got
    BY <1>4, <1>6
  <2> QED BY <1>2, <1>3, <1>4, <1>5, <2>1, <2>2, <2>3, <2>4, ContinueIsAccounted
<1> QED BY <1>7, <1>8

\* Only an epoch without vectors lacks an object that a request asks for: centroids,
\* then there are no candidates, or the cluster of a relic, then the query fails.
LEMMA AbsentIsAccounted ==
  ASSUME TypeOK, Pending, NEW r \in Readers, Accounted(r), Fetching, FetchAbsent(r)
  PROVE  \/ rpc'[r] # "notFound" /\ Accounted(r)'
         \/ /\ rpc'[r] = "notFound" /\ query'[r] = query[r]
            /\ "vector" \in Legs(query[r].mode) /\ Haunted(query[r].snap)
<1> DEFINE e == query[r].snap.IndexEpoch
           n == query[r].snap.IndexedUpTo
           todo == query[r].todo
<1>1. /\ todo \in Rests /\ e > 0 /\ Key(r) = <<e, Head(todo)>> /\ rpc[r] = "fetch"
      /\ <<e, Head(todo)>> \notin DOMAIN objs /\ UNCHANGED <<objs, wal>>
  BY DEF Pending, Fetching, Key, FetchAbsent, writeVars, buildVars
<1>2. Head(todo) \in PartNames /\ Head(todo) \in ToSet(todo)
  BY <1>1, RestSteps
<1>3. Head(todo) \notin ToSet(Parts(n))
  BY <1>1, <1>2 DEF Accounted, WholeAt
<1>4. NoVector(n) /\ Head(todo) \in {"centroids", "cluster"}
  BY <1>2, <1>3, PartsAre DEF PartNames
<1>5. CASE Head(todo) = "centroids"
  <2> DEFINE rest == Without(todo)
  <2>1. Continue(r, rest, query[r].got)
    BY <1>5 DEF FetchAbsent, MayLack
  <2>2. /\ rest \in {<<>>, <<"bm25", "docs">>}
        /\ ToSet(todo) \subseteq {"centroids", "cluster"} \cup ToSet(rest)
    BY <1>1, <1>5, RestSteps
  <2>3. /\ rest \in Rests \cup {<<>>} /\ (rest # <<>> => Head(rest) = "bm25")
        /\ ToSet(rest) \cap VectorParts = {}
    BY <2>2, RestSets DEF Rests, VectorParts
  <2> HIDE DEF rest
  <2>4. Accounted(r)'
    <3>1. \A p \in DOMAIN query[r].got :
            e > 0 /\ <<e, p>> \in DOMAIN objs /\ query[r].got[p] = objs[<<e, p>>]
      BY DEF Accounted
    <3>2. "cluster" \in DOMAIN query[r].got =>
            "centroids" \in DOMAIN query[r].got \/ "bitmaps" \in DOMAIN query[r].got
      BY DEF Accounted
    <3> QED BY <1>1, <1>4, <2>1, <2>2, <2>3, <3>1, <3>2, ContinueIsAccounted
  <2>5. rpc'[r] # "notFound"
    BY <2>1, ContinueIs
  <2> QED BY <2>4, <2>5
<1>6. CASE Head(todo) = "cluster"
  <2>1. rpc'[r] = "notFound" /\ query'[r] = query[r]
    BY <1>6 DEF FetchAbsent, MayLack, WriteNotFound, TypeOK
  <2>2. <<e, "centroids">> \in DOMAIN objs
    BY <1>1, <1>4, <1>6 DEF Accounted
  <2>3. Haunted(query[r].snap)
    BY <1>1, <1>4, <2>2 DEF Haunted
  <2>4. "vector" \in Legs(query[r].mode)
    BY <1>2, <1>6 DEF Accounted, VectorParts
  <2> QED BY <2>1, <2>3, <2>4
<1> QED BY <1>4, <1>5, <1>6

\* Every step keeps Progress.
LEMMA ProgressStep ==
  ASSUME OneBuilder, StoreContent, StoreContent', Evolves, Progress, [Next]_vars
  PROVE  Progress'
<1>0. /\ TypeOK /\ TypeOK' /\ Pending /\ StoreInv /\ SnapshotsOK /\ Fetching /\ CacheOK
      /\ LiveEpochWhole
  BY DEF StoreContent, CoreInv
<1>1. ASSUME NEW r \in Readers, query'[r] = query[r], rpc'[r] = rpc[r]
      PROVE  /\ rpc'[r] \in {"fetch", "tail", "done"} => Accounted(r)'
             /\ rpc'[r] = "notFound" /\ query'[r] # NoQuery => Excused(r)'
  <2>1. rpc[r] \in {"fetch", "tail", "done"} => Accounted(r)
    BY DEF Progress
  <2>2. ASSUME rpc'[r] \in {"fetch", "tail", "done"} PROVE Accounted(r)'
    <3>1. rpc[r] \in {"fetch", "tail", "done"} /\ rpc'[r] = rpc[r] /\ query'[r] = query[r]
      BY <1>1, <2>2
    <3>2. Accounted(r)
      BY <2>1, <3>1
    <3> QED BY <1>0, <3>1, <3>2, AccountedStays
  <2>3. ASSUME rpc'[r] = "notFound", query'[r] # NoQuery PROVE Excused(r)'
    <3>1. Excused(r) /\ Begun(r)
      BY <1>1, <2>3 DEF Progress, Begun
    <3> QED BY <1>0, <1>1, <3>1, SnapshotStays DEF Excused
  <2> QED BY <2>2, <2>3
<1>2. CASE UNCHANGED <<rpc, query>>
  BY <1>1, <1>2 DEF Progress
<1>3. ASSUME NEW r \in Readers, Others(r),
             rpc'[r] \in {"fetch", "tail", "done"} => Accounted(r)',
             rpc'[r] = "notFound" /\ query'[r] # NoQuery => Excused(r)'
      PROVE  Progress'
  BY <1>1, <1>3 DEF Others, Progress
<1>4. ASSUME NEW r \in Readers, ReaderSteps(r), UNCHANGED <<writeVars, buildVars>>
      PROVE  Progress'
  <2>0. Others(r) /\ UNCHANGED <<objs, wal>>
    BY <1>0, <1>4, ReaderStepIs DEF writeVars, buildVars
  <2>1. CASE QueryStart(r)
    <3>1. Accounted(r)'
      BY <1>0, <2>1, StartIsAccounted
    <3>2. rpc'[r] # "notFound"
      BY <1>0, <2>1, QueryStartIs
    <3> QED BY <1>3, <2>0, <3>1, <3>2
  <2>2. CASE FetchHit(r) \/ FetchMiss(r)
    <3>1. rpc[r] = "fetch" /\ Key(r) \in DOMAIN objs /\ Received(r, objs[Key(r)])
      <4>1. CASE FetchHit(r)
        BY <1>0, <4>1 DEF FetchHit, InCache, CacheOK
      <4>2. CASE FetchMiss(r)
        BY <4>2 DEF FetchMiss
      <4> QED BY <2>2, <4>1, <4>2
    <3>2. Accounted(r)
      BY <3>1 DEF Progress
    <3>3. Accounted(r)'
      BY <1>0, <2>0, <3>1, <3>2, ReceivedIsAccounted
    <3>4. rpc'[r] # "notFound"
      BY <1>0, <3>1, ContinueIs DEF Received
    <3> QED BY <1>3, <2>0, <3>3, <3>4
  <2>3. CASE FetchAbsent(r)
    <3>1. Accounted(r)
      BY <2>3 DEF Progress, FetchAbsent
    <3>2. CASE rpc'[r] # "notFound" /\ Accounted(r)'
      BY <1>3, <2>0, <3>2
    <3>3. CASE rpc'[r] = "notFound" /\ query'[r] = query[r] /\ Excused(r)
      <4>1. Begun(r)
        BY <2>3 DEF FetchAbsent, Begun
      <4>2. Excused(r)'
        BY <1>0, <3>3, <4>1, SnapshotStays DEF Excused
      <4> QED BY <1>3, <2>0, <3>3, <4>2
    <3> QED BY <1>0, <2>3, <3>1, <3>2, <3>3, AbsentIsAccounted DEF Excused
  <2>4. CASE QueryNotFound(r)
    <3>1. rpc'[r] = "notFound" /\ query'[r] = NoQuery
      BY <1>0, <2>4 DEF QueryNotFound, WriteNotFound, TypeOK, SnapshotsOK
    <3> QED BY <1>3, <2>0, <3>1
  <2>5. CASE ReadTail(r)
    <3>1. rpc[r] = "tail" /\ rpc'[r] = "done" /\ query'[r] = query[r]
      BY <1>0, <2>5 DEF ReadTail, TypeOK
    <3>2. Accounted(r)'
      BY <1>0, <3>1, AccountedStays DEF Progress
    <3> QED BY <1>3, <2>0, <3>1, <3>2
  <2>6. CASE QueryFail(r) \/ QueryEnd(r)
    <3>1. rpc'[r] = "idle" /\ query'[r] = NoQuery
      BY <1>0, <2>6 DEF QueryFail, QueryEnd, TypeOK
    <3> QED BY <1>3, <2>0, <3>1
  <2> QED BY <1>4, <2>1, <2>2, <2>3, <2>4, <2>5, <2>6 DEF ReaderSteps
<1> QED BY <1>2, <1>4, ReadersSteps DEF readVars

-----------------------------------------------------------------------------
(* A query answers with the fold of the WAL of its snapshot.               *)

\* Members of a fold of one kind.
LEMMA InLatestOf ==
  ASSUME TypeOK, NEW K, NEW i \in Nat, NEW n \in 0..Len(wal), NEW v
  PROVE  v \in LatestOf(K, i, n) <=>
           \E s \in i..n - 1 : /\ v = <<wal[s + 1].id, s>> /\ wal[s + 1].kind \in K
                               /\ \A t \in i..n - 1 : wal[t + 1].id = wal[s + 1].id => t <= s
<1>1. ASSUME NEW s \in i..n - 1, v = <<wal[s + 1].id, s>> PROVE v[2] = s
  BY <1>1
<1> QED BY <1>1, InLatest DEF LatestOf

\* The fold of a prefix and of the rest give the fold of the whole: what the rest
\* does not mention is as the prefix left it.
LEMMA FoldSplits ==
  ASSUME TypeOK, HasLast, NEW K, NEW i \in 0..Len(wal), NEW n \in 0..Len(wal), i <= n
  PROVE  LatestOf(K, 0, n) =
           {v \in LatestOf(K, 0, i) : \A u \in Latest(i, n) : u[1] # v[1]} \cup LatestOf(K, i, n)
<1>0. Len(wal) \in Nat /\ i \in Nat /\ n \in Nat
  BY DEF TypeOK
<1>1. ASSUME NEW v \in LatestOf(K, 0, n)
      PROVE  \/ v \in LatestOf(K, i, n)
             \/ v \in LatestOf(K, 0, i) /\ \A u \in Latest(i, n) : u[1] # v[1]
  <2>1. PICK s \in 0..n - 1 : /\ v = <<wal[s + 1].id, s>> /\ wal[s + 1].kind \in K
                              /\ \A t \in 0..n - 1 : wal[t + 1].id = wal[s + 1].id => t <= s
    BY <1>0, InLatestOf
  <2>2. CASE s >= i
    <3>1. s \in i..n - 1 /\ \A t \in i..n - 1 : t \in 0..n - 1
      BY <1>0, <2>2
    <3>2. \A t \in i..n - 1 : wal[t + 1].id = wal[s + 1].id => t <= s
      BY <2>1, <3>1
    <3> QED BY <1>0, <2>1, <3>1, <3>2, InLatestOf
  <2>3. CASE s < i
    <3>1. s \in 0..i - 1 /\ \A t \in 0..i - 1 : t \in 0..n - 1
      BY <1>0, <2>3
    <3>2. v \in LatestOf(K, 0, i)
      BY <1>0, <2>1, <3>1, InLatestOf
    <3>3. ASSUME NEW u \in Latest(i, n) PROVE u[1] # v[1]
      <4>1. PICK t \in i..n - 1 : u = <<wal[t + 1].id, t>>
        BY InLatest
      <4>2. t \in 0..n - 1 /\ ~(t <= s)
        BY <1>0, <2>3
      <4> QED BY <2>1, <4>1, <4>2
    <3> QED BY <3>2, <3>3
  <2> QED BY <1>0, <2>2, <2>3
<1>2. ASSUME NEW v \in LatestOf(K, i, n) PROVE v \in LatestOf(K, 0, n)
  <2>1. PICK s \in i..n - 1 : /\ v = <<wal[s + 1].id, s>> /\ wal[s + 1].kind \in K
                              /\ \A t \in i..n - 1 : wal[t + 1].id = wal[s + 1].id => t <= s
    BY <1>0, InLatestOf
  <2>2. s \in 0..n - 1 /\ \A t \in 0..n - 1 : t \in i..n - 1 \/ t <= s
    BY <1>0
  <2> QED BY <1>0, <2>1, <2>2, InLatestOf
<1>3. ASSUME NEW v \in LatestOf(K, 0, i), \A u \in Latest(i, n) : u[1] # v[1]
      PROVE  v \in LatestOf(K, 0, n)
  <2>1. PICK s \in 0..i - 1 : /\ v = <<wal[s + 1].id, s>> /\ wal[s + 1].kind \in K
                              /\ \A t \in 0..i - 1 : wal[t + 1].id = wal[s + 1].id => t <= s
    BY <1>0, InLatestOf
  <2>2. ASSUME NEW t \in i..n - 1 PROVE wal[t + 1].id # wal[s + 1].id
    <3>1. PICK u \in Latest(i, n) : u[1] = wal[t + 1].id
      BY DEF HasLast
    <3> QED BY <1>3, <2>1, <3>1
  <2>3. s \in 0..n - 1 /\ \A t \in 0..n - 1 : t \in 0..i - 1 \/ t \in i..n - 1
    BY <1>0
  <2> QED BY <1>0, <2>1, <2>2, <2>3, InLatestOf
<1> QED BY <1>1, <1>2, <1>3

\* A document has one last version.
LEMMA LastIsUnique ==
  ASSUME TypeOK, NEW n \in 0..Len(wal), NEW u \in Latest(0, n), NEW v \in Latest(0, n), u[1] = v[1]
  PROVE  u = v
<1>1. PICK s \in 0..n - 1 : /\ u = <<wal[s + 1].id, s>>
                            /\ \A t \in 0..n - 1 : wal[t + 1].id = wal[s + 1].id => t <= s
  BY InLatest
<1>2. PICK t \in 0..n - 1 : /\ v = <<wal[t + 1].id, t>>
                            /\ \A m \in 0..n - 1 : wal[m + 1].id = wal[t + 1].id => m <= t
  BY InLatest
<1>3. s <= t /\ t <= s /\ Len(wal) \in Nat
  BY <1>1, <1>2 DEF TypeOK
<1>4. s = t
  BY <1>3
<1> QED BY <1>1, <1>2, <1>4

\* The hit that a version is of a leg, and the versions that had a vector in a prefix.
Hit(leg, v) == <<leg, v[1], v[2], v[2]>>
Vectors(n) == {<<wal[s + 1].id, s>> : s \in {t \in Window(0, n) : wal[t + 1].kind = "vec"}}

\* With its objects read, a leg has the fold of the indexed prefix.  If the epoch has
\* no vectors but a relic, there is nothing in that fold, and the vector leg has some
\* of the versions that had one.
LEMMA IndexedIs ==
  ASSUME TypeOK, NEW r \in Readers, Accounted(r), rpc[r] = "done",
         NEW leg \in Legs(query[r].mode),
         query[r].snap.IndexedUpTo \in 0..Len(wal), query[r].snap.IndexEpoch \in Nat,
         query[r].snap.IndexEpoch = 0 => query[r].snap.IndexedUpTo = 0
  PROVE  \/ Indexed(r, leg) =
              {Hit(leg, v) : v \in LatestOf(HitKind(leg), 0, query[r].snap.IndexedUpTo)}
         \/ /\ leg = "vector" /\ Haunted(query[r].snap)
            /\ LatestOf(HitKind(leg), 0, query[r].snap.IndexedUpTo) = {}
            /\ Indexed(r, leg) \subseteq {Hit(leg, v) : v \in Vectors(query[r].snap.IndexedUpTo)}
<1> DEFINE e == query[r].snap.IndexEpoch
           n == query[r].snap.IndexedUpTo
           got == query[r].got
<1>0. leg \in {"vector", "text"}
  <2>1. query[r].mode \in {"none"} \cup CommandModes
    BY DEF TypeOK, IsQuery
  <2>2. query[r].mode # "none"
    BY DEF Legs
  <2> QED BY <2>1, <2>2, LegsAreWanted
<1>1. /\ \A p \in DOMAIN got : /\ e > 0 /\ p \in PartNames
                              /\ <<e, p>> \in DOMAIN objs /\ got[p] = objs[<<e, p>>]
      /\ \A p \in DOMAIN got : p \in ToSet(Parts(n)) => got[p] = n
  <2>1. DOMAIN got \subseteq PartNames
    BY DEF TypeOK, IsQuery
  <2> QED BY <2>1 DEF Accounted, WholeAt
<1>2. e > 0 => \A p \in Needs(leg) : \/ p \in DOMAIN got \/ <<e, p>> \notin DOMAIN objs
                                     \/ p = "cluster" /\ NoVector(n)
  <2>1. ToSet(query[r].todo) = {}
    BY RestSets DEF Accounted
  <2> QED BY <2>1 DEF Accounted
<1>3. e = 0 => \A K : LatestOf(K, 0, n) = {}
  BY DEF LatestOf, Latest, Window
<1>4. CASE leg = "vector"
  <2>0. HitKind(leg) = {"vec"} /\ Needs(leg) = {"cluster"}
    BY <1>4 DEF HitKind, Needs
  <2>1. CASE "cluster" \notin DOMAIN got
    <3>1. Indexed(r, leg) = {}
      BY <1>4, <2>1 DEF Indexed
    <3>2. e > 0 => <<e, "cluster">> \notin DOMAIN objs \/ NoVector(n)
      BY <1>2, <2>0, <2>1
    <3>3. e > 0 => NoVector(n)
      BY <3>2, PartsAre DEF Accounted, WholeAt, PartNames
    <3>4. LatestOf({"vec"}, 0, n) = {}
      BY <1>3, <3>3 DEF NoVector
    <3> QED BY <2>0, <3>1, <3>4
  <2>2. CASE "cluster" \in DOMAIN got /\ ~NoVector(n)
    <3>1. \A p \in DOMAIN got : got[p] = n
      BY <1>1, <2>2, PartsAre
    <3>2. "centroids" \in DOMAIN got \/ "bitmaps" \in DOMAIN got
      BY <2>2 DEF Accounted
    <3>3. \A u \in LatestOf({"vec"}, 0, n) : Planned(got, u)
      BY <3>1, <3>2 DEF Planned
    <3>4. Indexed(r, leg) = {<<leg, v[1], v[2], v[2]>> :
                               v \in {u \in LatestOf({"vec"}, 0, n) : Planned(got, u)}}
      BY <1>4, <2>2, <3>1 DEF Indexed
    <3>5. {u \in LatestOf({"vec"}, 0, n) : Planned(got, u)} = LatestOf({"vec"}, 0, n)
      BY <3>3
    <3> HIDE DEF n, got
    <3> QED BY <2>0, <3>4, <3>5 DEF Hit, n
  <2>3. CASE "cluster" \in DOMAIN got /\ NoVector(n)
    <3> DEFINE m == got["cluster"]
    <3>1. "cluster" \notin ToSet(Parts(n)) /\ "cluster" \in PartNames
      BY <2>3, PartsAre DEF PartNames
    <3>2. m \in Nat /\ m < n /\ e > 0 /\ <<e, "centroids">> \in DOMAIN objs
      BY <1>1, <2>3, <3>1, StoreTypes DEF Accounted, WholeAt
    <3>3. Haunted(query[r].snap)
      BY <2>3, <3>2 DEF Haunted
    <3>4. LatestOf({"vec"}, 0, m) \subseteq Vectors(n)
      <4> SUFFICES ASSUME NEW v \in LatestOf({"vec"}, 0, m) PROVE v \in Vectors(n)
        OBVIOUS
      <4>1. m \in 0..Len(wal) /\ Len(wal) \in Nat
        BY <3>2, StoreTypes
      <4> HIDE DEF m
      <4>2. PICK s \in 0..m - 1 : v = <<wal[s + 1].id, s>> /\ wal[s + 1].kind \in {"vec"}
        BY <4>1, InLatestOf
      <4>3. s \in 0..n - 1
        BY <3>2, <4>1
      <4> QED BY <4>2, <4>3 DEF Vectors, Window
    <3>5. Indexed(r, leg) = {<<leg, v[1], v[2], v[2]>> :
                               v \in {u \in LatestOf({"vec"}, 0, m) : Planned(got, u)}}
      BY <1>4, <2>3 DEF Indexed
    <3>6. LatestOf(HitKind(leg), 0, n) = {}
      BY <2>0, <2>3 DEF NoVector
    <3> HIDE DEF m, got
    <3>7. Indexed(r, leg) \subseteq {Hit(leg, v) : v \in Vectors(n)}
      BY <3>4, <3>5 DEF Hit
    <3> QED BY <1>4, <3>3, <3>6, <3>7
  <2> QED BY <2>1, <2>2, <2>3
<1>5. CASE leg = "text"
  <2>1. Needs(leg) = {"bm25", "docs"} /\ HitKind(leg) = {"txt"} /\ leg # "vector"
    BY <1>5 DEF Needs, HitKind
  <2>2. /\ "bm25" \in ToSet(Parts(n)) /\ "docs" \in ToSet(Parts(n))
        /\ e > 0 => <<e, "bm25">> \in DOMAIN objs /\ <<e, "docs">> \in DOMAIN objs
    BY PartsAre DEF Accounted, WholeAt, PartNames
  <2>3. CASE {"bm25", "docs"} \subseteq DOMAIN got
    <3>1. got["bm25"] = n /\ got["docs"] = n
      BY <1>1, <2>2, <2>3
    <3> DEFINE T == LatestOf({"txt"}, 0, n)
               D == LatestOf({"vec", "txt"}, 0, n)
    <3>2. Indexed(r, leg) = {<<leg, p[1][1], p[1][2], p[2][2]>> : p \in {q \in T \X D : q[1][1] = q[2][1]}}
      BY <2>1, <2>3, <3>1 DEF Indexed
    <3>3. T \subseteq Latest(0, n) /\ D \subseteq Latest(0, n) /\ T \subseteq D
      BY DEF LatestOf
    <3>4. ASSUME NEW u \in T, NEW v \in D, u[1] = v[1] PROVE u = v
      BY <3>3, <3>4, LastIsUnique
    <3> HIDE DEF T, D
    <3>5. {q \in T \X D : q[1][1] = q[2][1]} = {<<u, u>> : u \in T}
      BY <3>3, <3>4
    <3>6. Indexed(r, leg) = {<<leg, u[1], u[2], u[2]>> : u \in T}
      <4> DEFINE Pairs == {<<u, u>> : u \in T}
      <4>1. Indexed(r, leg) = {<<leg, p[1][1], p[1][2], p[2][2]>> : p \in Pairs}
        BY <3>2, <3>5
      <4>2. ASSUME NEW p \in Pairs
            PROVE  \E u \in T : <<leg, p[1][1], p[1][2], p[2][2]>> = <<leg, u[1], u[2], u[2]>>
        OBVIOUS
      <4>3. ASSUME NEW u \in T
            PROVE  \E p \in Pairs : <<leg, p[1][1], p[1][2], p[2][2]>> = <<leg, u[1], u[2], u[2]>>
        <5>1. <<u, u>> \in Pairs /\ <<u, u>>[1] = u /\ <<u, u>>[2] = u
          OBVIOUS
        <5> HIDE DEF Pairs
        <5> QED BY <5>1
      <4> HIDE DEF Pairs
      <4> QED BY <4>1, <4>2, <4>3
    <3> QED BY <2>1, <3>6 DEF Hit, T
  <2>4. CASE ~ {"bm25", "docs"} \subseteq DOMAIN got
    <3>1. e = 0
      BY <1>2, <2>1, <2>2, <2>4
    <3> QED BY <1>3, <2>1, <2>4, <3>1 DEF Indexed
  <2> QED BY <2>3, <2>4
<1> QED BY <1>0, <1>4, <1>5

\* The overlay of the tail on the index gives the fold of the whole snapshot, and no
\* more than the relics that the tail does not mention.
LEMMA AnswerIsFold ==
  ASSUME TypeOK, HasLast, SnapshotsOK, NEW r \in Readers, Accounted(r), rpc[r] = "done",
         NEW leg \in Legs(query[r].mode)
  PROVE  /\ Expected(r, leg) \subseteq LegHits(r, leg)
         /\ LegHits(r, leg) \subseteq Expected(r, leg) \cup Relics(r, leg)
<1> DEFINE n == query[r].snap.IndexedUpTo
           N == query[r].snap.WALSeq
           K == HitKind(leg)
<1>1. /\ n \in 0..Len(wal) /\ N \in 0..Len(wal) /\ n <= N /\ query[r].snap.IndexEpoch \in Nat
      /\ query[r].snap.IndexEpoch = 0 => n = 0
  BY SnapshotTypes, StoreTypes DEF SnapshotsOK, Begun
<1>2. \/ Indexed(r, leg) = {Hit(leg, v) : v \in LatestOf(K, 0, n)}
      \/ /\ leg = "vector" /\ Haunted(query[r].snap) /\ LatestOf(K, 0, n) = {}
         /\ Indexed(r, leg) \subseteq {Hit(leg, v) : v \in Vectors(n)}
  BY <1>1, IndexedIs
<1>3. LatestOf(K, 0, N) =
        {v \in LatestOf(K, 0, n) : \A u \in Latest(n, N) : u[1] # v[1]} \cup LatestOf(K, n, N)
  <2> HIDE DEF n, N, K
  <2> QED BY <1>1, FoldSplits
<1>4. LegHits(r, leg) = {h \in Indexed(r, leg) : \A v \in Latest(n, N) : v[1] # h[2]}
                          \cup {Hit(leg, v) : v \in LatestOf(K, n, N)}
  BY DEF LegHits, Hit
<1>5. Expected(r, leg) = {Hit(leg, v) : v \in LatestOf(K, 0, N)}
  BY DEF Expected, Hit
<1>6. \A v : Hit(leg, v)[2] = v[1]
  BY DEF Hit
<1>7. CASE Indexed(r, leg) = {Hit(leg, v) : v \in LatestOf(K, 0, n)}
  <2> HIDE DEF n, N, K
  <2> QED BY <1>3, <1>4, <1>5, <1>6, <1>7
<1>8. CASE /\ leg = "vector" /\ Haunted(query[r].snap) /\ LatestOf(K, 0, n) = {}
           /\ Indexed(r, leg) \subseteq {Hit(leg, v) : v \in Vectors(n)}
  <2>1. LatestOf(K, 0, N) = LatestOf(K, n, N)
    <3> HIDE DEF n, N, K
    <3> QED BY <1>3, <1>8
  <2>2. ASSUME NEW h \in Indexed(r, leg), \A v \in Latest(n, N) : v[1] # h[2]
        PROVE  h \in Relics(r, leg)
    <3>1. PICK v \in Vectors(n) : h = Hit(leg, v)
      BY <1>8
    <3>2. PICK s \in Window(0, n) : v = <<wal[s + 1].id, s>> /\ wal[s + 1].kind = "vec"
      BY <3>1 DEF Vectors
    <3>3. h = <<leg, wal[s + 1].id, s, s>> /\ h[2] = wal[s + 1].id
      BY <3>1, <3>2 DEF Hit
    <3>4. ASSUME NEW u \in Window(n, N) PROVE wal[u + 1].id # wal[s + 1].id
      <4>1. PICK w \in Latest(n, N) : w[1] = wal[u + 1].id
        BY <1>1 DEF HasLast, Window
      <4> QED BY <2>2, <3>3, <4>1
    <3> QED BY <1>8, <3>2, <3>3, <3>4 DEF Relics
  <2> HIDE DEF n, N, K
  <2> QED BY <1>4, <1>5, <2>1, <2>2
<1> QED BY <1>2, <1>7, <1>8

-----------------------------------------------------------------------------
\* The inductive invariant of the readers.
QueryInv == StoreContent /\ Progress

\* QueryInv holds at the start.
LEMMA InitQuery == Init => QueryInv
<1>1. Init => Progress
  BY DEF Init, Progress
<1> QED BY <1>1, InitContent DEF QueryInv

\* Every step keeps QueryInv.
LEMMA QueryStep ==
  ASSUME OneBuilder
  PROVE  QueryInv /\ [Next]_vars => QueryInv' /\ Evolves
BY ContentStep, ProgressStep DEF QueryInv

\* QueryInv is enough for the answers to be right.
LEMMA AnswersFollow == QueryInv => QueryAnswersSnapshot
<1> SUFFICES ASSUME QueryInv, NEW r \in Readers
             PROVE  /\ rpc[r] = "done" => \A leg \in Legs(query[r].mode) :
                         /\ Expected(r, leg) \subseteq LegHits(r, leg)
                         /\ LegHits(r, leg) \subseteq Expected(r, leg) \cup Relics(r, leg)
                    /\ rpc[r] = "notFound" => query[r].snap.Version = 0 \/ Excused(r)
  BY DEF QueryAnswersSnapshot, Excused
<1>1. /\ TypeOK /\ HasLast /\ SnapshotsOK
      /\ rpc[r] = "done" => Accounted(r)
      /\ rpc[r] = "notFound" => query[r] = NoQuery \/ Excused(r)
  BY DEF QueryInv, StoreContent, CoreInv, Progress
<1> QED BY <1>1, AnswerIsFold DEF NoQuery, NoManifest

\* RunQuery, rule 5: whatever is committed, built, published, cached or left behind
\* while a query runs, its answer is the fold of the WAL its manifest showed; an epoch
\* without vectors may add the relics of a failed build, or end the query with 404.
THEOREM AnswersAreExact ==
  ASSUME OneBuilder
  PROVE  Spec => []QueryAnswersSnapshot
<1>1. QueryInv /\ [Next]_vars => QueryInv'
  BY QueryStep
<1> QED BY InitQuery, <1>1, AnswersFollow, PTL DEF Spec

-----------------------------------------------------------------------------
(* Refinement of SnapshotReads.                                            *)

\* A request under way that still reads has asked something.
Asking == \A r \in Readers : rpc[r] \in {"fetch", "tail"} => Legs(query[r].mode) # {}

\* Only info has no legs.
LEMMA LegsOf ==
  /\ Legs("info") = {}
  /\ \A m \in CommandModes : m # "info" => Legs(m) # {} /\ Legs(m) \subseteq {"vector", "text"}
BY DEF Legs, CommandModes, NodeModes

\* Every step keeps Asking.
LEMMA AskingStep ==
  ASSUME TypeOK, Pending, Asking, [Next]_vars
  PROVE  Asking'
<1>1. ASSUME NEW r \in Readers, ReaderSteps(r) PROVE Asking'
  <2>1. rpc'[r] \in {"fetch", "tail"} => Legs(query'[r].mode) # {}
    <3>1. CASE QueryStart(r)
      BY <3>1, QueryStartIs, LegsOf
    <3>2. CASE ~QueryStart(r)
      BY <1>1, <3>2, ReaderStepIs DEF Asking
    <3> QED BY <3>1, <3>2
  <2> QED BY <1>1, <2>1, ReaderStepIs DEF Asking, Others
<1>2. CASE UNCHANGED <<rpc, query>>
  BY <1>2 DEF Asking
<1> QED BY <1>1, <1>2, ReadersSteps DEF readVars

\* The abstract fold of the log is that of the segments.
LEMMA FoldIs ==
  ASSUME TypeOK, ManifestOK, NEW leg \in {"vector", "text"}, NEW n \in 0..Len(wal)
  PROVE  Reads!Fold(leg, n) = {Hit(leg, v) : v \in LatestOf(HitKind(leg), 0, n)}
<1> DEFINE kind == IF leg = "vector" THEN "vec" ELSE "txt"
           last == {s \in 1..n : \A t \in s + 1..n : wal[t].id # wal[s].id}
<1>1. wal \in Seq(Ops) /\ Len(wal) \in Nat /\ SubSeq(wal, 1, manifest.WALSeq) = wal
  BY SubSeqFull DEF TypeOK, ManifestOK
<1>2. Reads!Fold(leg, n) =
        {<<leg, wal[s].id, s - 1, s - 1>> : s \in {t \in last : wal[t].kind = kind}}
  BY <1>1 DEF Reads!Fold
<1>3. HitKind(leg) = {kind}
  BY DEF HitKind
<1>4. ASSUME NEW s \in last, wal[s].kind = kind
      PROVE  <<leg, wal[s].id, s - 1, s - 1>> \in {Hit(leg, v) : v \in LatestOf(HitKind(leg), 0, n)}
  <2> DEFINE m == s - 1
  <2>1. m \in 0..n - 1 /\ m + 1 = s
    BY <1>1
  <2>2. ASSUME NEW t \in 0..n - 1, wal[t + 1].id = wal[m + 1].id PROVE t <= m
    <3>1. t + 1 \in 1..n /\ ~(t + 1 \in s + 1..n)
      BY <1>1, <2>1, <2>2
    <3> QED BY <1>1, <2>1, <3>1
  <2>3. <<wal[m + 1].id, m>> \in LatestOf(HitKind(leg), 0, n)
    BY <1>1, <1>3, <1>4, <2>1, <2>2, InLatestOf
  <2> QED BY <2>1, <2>3 DEF Hit
<1>5. ASSUME NEW v \in LatestOf(HitKind(leg), 0, n)
      PROVE  \E s \in last : wal[s].kind = kind /\ Hit(leg, v) = <<leg, wal[s].id, s - 1, s - 1>>
  <2>1. PICK m \in 0..n - 1 : /\ v = <<wal[m + 1].id, m>> /\ wal[m + 1].kind \in HitKind(leg)
                              /\ \A t \in 0..n - 1 : wal[t + 1].id = wal[m + 1].id => t <= m
    BY <1>1, InLatestOf
  <2> DEFINE s == m + 1
  <2>2. s \in 1..n /\ s - 1 = m
    BY <1>1
  <2>3. ASSUME NEW t \in s + 1..n PROVE wal[t].id # wal[s].id
    <3>1. t - 1 \in 0..n - 1 /\ (t - 1) + 1 = t /\ ~(t - 1 <= m)
      BY <1>1, <2>2
    <3> QED BY <2>1, <3>1
  <2>4. s \in last
    BY <2>2, <2>3
  <2>5. v[1] = wal[s].id /\ v[2] = s - 1
    BY <2>1, <2>2
  <2> HIDE DEF s, last
  <2> QED BY <1>3, <2>1, <2>4, <2>5 DEF Hit, s
<1> HIDE DEF last, kind
<1> QED BY <1>2, <1>4, <1>5

\* The folds of the snapshot, for the legs of a request, and what may come with them.
Sure(r) == UNION {{Hit(leg, v) : v \in LatestOf(HitKind(leg), 0, query[r].snap.WALSeq)} :
                    leg \in Legs(query[r].mode)}
MayCome(r) == IF "vector" \in Legs(query[r].mode) THEN Relics(r, "vector") ELSE {}

\* What an answered query has answered: each leg the fold of its snapshot, and relics.
AnswersAre ==
  \A r \in Readers : rpc[r] = "done" =>
    /\ query[r].snap.WALSeq \in 0..Len(wal) /\ query[r].mode \in {"none"} \cup CommandModes
    /\ \A leg \in Legs(query[r].mode) : leg \in {"vector", "text"}
    /\ Sure(r) \subseteq Hits(r) /\ Hits(r) \subseteq Sure(r) \cup MayCome(r)

\* AnswersAre follows from QueryInv ...
LEMMA HitsAre == QueryInv => AnswersAre
<1> SUFFICES ASSUME QueryInv, NEW r \in Readers, rpc[r] = "done"
             PROVE  /\ query[r].snap.WALSeq \in 0..Len(wal)
                    /\ query[r].mode \in {"none"} \cup CommandModes
                    /\ \A leg \in Legs(query[r].mode) : leg \in {"vector", "text"}
                    /\ Sure(r) \subseteq Hits(r) /\ Hits(r) \subseteq Sure(r) \cup MayCome(r)
  BY DEF AnswersAre
<1> DEFINE legs == Legs(query[r].mode)
<1>1. TypeOK /\ SnapshotsOK
  BY DEF QueryInv, StoreContent, CoreInv
<1>2. query[r].snap.WALSeq \in 0..Len(wal)
  BY <1>1, SnapshotTypes, StoreTypes DEF SnapshotsOK, Begun
<1>3. query[r].mode \in {"none"} \cup CommandModes
  BY <1>1 DEF TypeOK, IsQuery
<1>4. \A leg \in legs : leg \in {"vector", "text"}
  BY <1>3, LegsOf DEF Legs
<1>5. \A leg \in legs : /\ Expected(r, leg) \subseteq LegHits(r, leg)
                        /\ LegHits(r, leg) \subseteq Expected(r, leg) \cup Relics(r, leg)
  BY AnswersFollow DEF QueryAnswersSnapshot
<1>6. Hits(r) = UNION {LegHits(r, leg) : leg \in legs} /\ Sure(r) = UNION {Expected(r, leg) : leg \in legs}
  BY DEF Hits, Sure, Expected, Hit
<1>7. \A leg \in legs : Relics(r, leg) \subseteq MayCome(r)
  <2>1. Relics(r, "text") = {}
    BY DEF Relics
  <2> QED BY <1>4, <2>1 DEF MayCome
<1> HIDE DEF legs
<1> QED BY <1>2, <1>3, <1>4, <1>5, <1>6, <1>7 DEF legs

\* ... also after a step.
LEMMA HitsAreNext == QueryInv' => AnswersAre'
BY HitsAre, PTL

\* The three kinds of reply.
RepliesAre ==
  \A r \in Readers :
    Answered(r) = IF rpc[r] = "done"
                  THEN Reads!Found(Hits(r), IF query[r].mode = "info" THEN query[r].snap.WALSeq ELSE 0)
                  ELSE IF rpc[r] = "notFound" THEN Reads!Missing ELSE Reads!NoReply

\* Every reply is one of the three ...
LEMMA Replies == RepliesAre
<1> SUFFICES ASSUME NEW r \in Readers
             PROVE  Answered(r) = IF rpc[r] = "done"
                      THEN Reads!Found(Hits(r), IF query[r].mode = "info" THEN query[r].snap.WALSeq ELSE 0)
                      ELSE IF rpc[r] = "notFound" THEN Reads!Missing ELSE Reads!NoReply
  BY DEF RepliesAre
<1>1. CASE rpc[r] = "done"
  BY <1>1 DEF Answered, Reads!Found
<1>2. CASE rpc[r] = "notFound"
  BY <1>2 DEF Answered, Reads!Missing, Reads!NoReply
<1>3. CASE rpc[r] \notin {"done", "notFound"}
  BY <1>3 DEF Answered, Reads!NoReply
<1> QED BY <1>1, <1>2, <1>3

\* ... also after a step.
LEMMA RepliesNext == RepliesAre'
BY Replies, PTL

\* What an answered query has read stays, and so do its hits.
LEMMA HitsStay ==
  ASSUME TypeOK, TypeOK', Evolves, SnapshotsOK, NEW r \in Readers, rpc[r] = "done", Accounted(r),
         query'[r] = query[r]
  PROVE  Hits(r)' = Hits(r)
<1> DEFINE e == query[r].snap.IndexEpoch
           n == query[r].snap.IndexedUpTo
           N == query[r].snap.WALSeq
           got == query[r].got
<1>1. n \in 0..Len(wal) /\ N \in 0..Len(wal) /\ Len(wal) \in Nat
  BY SnapshotTypes, StoreTypes DEF SnapshotsOK, Begun
<1>2. \A p \in DOMAIN got : got[p] \in 0..Len(wal)
  <2> SUFFICES ASSUME NEW p \in DOMAIN got PROVE got[p] \in 0..Len(wal)
    OBVIOUS
  <2>1. /\ e > 0 /\ p \in PartNames /\ got[p] \in Nat
        /\ <<e, p>> \in DOMAIN objs /\ got[p] = objs[<<e, p>>]
    BY DEF Accounted, TypeOK, IsQuery
  <2>2. got[p] = n \/ got[p] < n
    BY <2>1 DEF Accounted, WholeAt
  <2> QED BY <1>1, <2>1, <2>2
<1>3. \A K : \A i, j \in 0..Len(wal) : LatestOf(K, i, j)' = LatestOf(K, i, j)
  BY FoldsStay
<1>4. ASSUME NEW p \in DOMAIN got, NEW K
      PROVE  LatestOf(K, 0, query[r].got[p])' = LatestOf(K, 0, got[p])
  <2>1. ASSUME NEW i \in 0..Len(wal), i = got[p] PROVE LatestOf(K, 0, i)' = LatestOf(K, 0, i)
    BY <1>1, <1>3
  <2> QED BY <1>2, <2>1
<1>5. ASSUME NEW K
      PROVE  LatestOf(K, query[r].snap.IndexedUpTo, query[r].snap.WALSeq)' = LatestOf(K, n, N)
  <2>1. ASSUME NEW i \in 0..Len(wal), NEW j \in 0..Len(wal), i = n, j = N
        PROVE  LatestOf(K, i, j)' = LatestOf(K, i, j)
    BY <1>3
  <2> QED BY <1>1, <2>1
<1>6. Latest(query[r].snap.IndexedUpTo, query[r].snap.WALSeq)' = Latest(n, N)
  <2>1. ASSUME NEW i \in 0..Len(wal), NEW j \in 0..Len(wal), i = n, j = N
        PROVE  Latest(i, j)' = Latest(i, j)
    BY FoldsStay
  <2> QED BY <1>1, <2>1
<1>7. ASSUME NEW leg PROVE Indexed(r, leg)' = Indexed(r, leg)
  <2>1. CASE leg = "vector" /\ "cluster" \in DOMAIN got
    <3>1. "centroids" \in DOMAIN got \/ "bitmaps" \in DOMAIN got
      BY <2>1 DEF Accounted
    <3>2. ASSUME NEW v PROVE Planned(query[r].got, v)' <=> Planned(got, v)
      BY <1>4, <3>1 DEF Planned
    <3> QED BY <1>4, <2>1, <3>2 DEF Indexed
  <2>2. CASE leg # "vector" /\ {"bm25", "docs"} \subseteq DOMAIN got
    <3>1. "bm25" \in DOMAIN got /\ "docs" \in DOMAIN got
      BY <2>2
    <3> QED BY <1>4, <2>2, <3>1 DEF Indexed
  <2>3. CASE ~(leg = "vector" /\ "cluster" \in DOMAIN got)
             /\ ~(leg # "vector" /\ {"bm25", "docs"} \subseteq DOMAIN got)
    BY <2>3 DEF Indexed
  <2> QED BY <2>1, <2>2, <2>3
<1>8. ASSUME NEW leg PROVE LegHits(r, leg)' = LegHits(r, leg)
  BY <1>5, <1>6, <1>7 DEF LegHits
<1> QED BY <1>8 DEF Hits

\* A request that does nothing asks and answers what it did.
LEMMA OthersStay ==
  ASSUME QueryInv, QueryInv', Evolves, NEW r \in Readers, query'[r] = query[r], rpc'[r] = rpc[r]
  PROVE  Asked(r)' = Asked(r) /\ Answered(r)' = Answered(r)
<1>0. TypeOK /\ TypeOK' /\ SnapshotsOK /\ Progress
  BY DEF QueryInv, StoreContent, CoreInv
<1>1. Asked(r)' = Asked(r)
  <2>1. CASE query[r] = NoQuery
    BY <2>1 DEF Asked, NoQuery
  <2>2. CASE query[r] # NoQuery
    <3>1. Begun(r)
      <4>1. rpc[r] \in {"idle", "fetch", "tail", "done", "notFound"}
        BY <1>0 DEF TypeOK
      <4> QED BY <1>0, <2>2, <4>1 DEF SnapshotsOK, Begun
    <3> QED BY <1>0, <3>1, SnapshotStays DEF Asked
  <2> QED BY <2>1, <2>2
<1>2. CASE rpc[r] # "done"
  BY <1>1, <1>2, Replies, RepliesNext DEF RepliesAre
<1>3. CASE rpc[r] = "done"
  <2>1. Hits(r)' = Hits(r)
    BY <1>0, <1>3, HitsStay DEF Progress
  <2> QED BY <1>1, <1>3, <2>1, Replies, RepliesNext DEF RepliesAre
<1> QED BY <1>2, <1>3

\* What a request has asked, by the stage it is at.
Question(r) ==
  IF Legs(query[r].mode) = {} THEN NoQuestion
  ELSE [legs |-> Legs(query[r].mode), upTo |-> query[r].snap.WALSeq, relic |-> Relic(query[r].snap)]
QuestionsAre ==
  \A r \in Readers :
    /\ query[r] = NoQuery => Asked(r) = NoQuestion
    /\ rpc[r] = "idle" => Asked(r) = NoQuestion
    /\ Begun(r) => Asked(r) = Question(r)
    /\ rpc[r] \in {"fetch", "tail"} => Asked(r) # NoQuestion

RefineInv == QueryInv /\ Asking

\* QuestionsAre follows from RefineInv ...
LEMMA Questions == RefineInv => QuestionsAre
<1> SUFFICES ASSUME RefineInv, NEW r \in Readers
             PROVE  /\ query[r] = NoQuery => Asked(r) = NoQuestion
                    /\ rpc[r] = "idle" => Asked(r) = NoQuestion
                    /\ Begun(r) => Asked(r) = Question(r)
                    /\ rpc[r] \in {"fetch", "tail"} => Asked(r) # NoQuestion
  BY DEF QuestionsAre
<1>1. TypeOK /\ SnapshotsOK /\ Asking
  BY DEF RefineInv, QueryInv, StoreContent, CoreInv
<1>2. query[r] = NoQuery => Asked(r) = NoQuestion
  BY DEF Asked, NoQuery
<1>3. rpc[r] = "idle" => query[r] = NoQuery
  BY <1>1 DEF SnapshotsOK
<1>4. ASSUME Begun(r) PROVE Asked(r) = Question(r)
  <2>1. query[r].snap.Version > 0 /\ NoManifest.Version = 0
    BY <1>1, <1>4 DEF SnapshotsOK, NoManifest
  <2>2. query[r].snap # NoManifest
    BY <2>1
  <2> QED BY <2>2 DEF Asked, Question
<1>5. ASSUME rpc[r] \in {"fetch", "tail"} PROVE Asked(r) # NoQuestion
  <2>1. Legs(query[r].mode) # {} /\ Begun(r)
    BY <1>1, <1>5 DEF Asking, Begun
  <2>2. Asked(r).legs = Legs(query[r].mode) /\ NoQuestion.legs = {}
    BY <1>4, <2>1 DEF NoQuestion, Question
  <2> QED BY <2>1, <2>2
<1> QED BY <1>2, <1>3, <1>4, <1>5

\* ... also after a step.
LEMMA QuestionsNext == RefineInv' => QuestionsAre'
BY Questions, PTL

\* The log of the namespace is its WAL.
LogIs == SubSeq(wal, 1, manifest.WALSeq) = wal

\* LogIs follows from RefineInv ...
LEMMA Log == RefineInv => LogIs
BY SubSeqFull DEF LogIs, RefineInv, QueryInv, StoreContent, CoreInv, StoreInv, ManifestOK, TypeOK

\* ... also after a step.
LEMMA LogNext == RefineInv' => LogIs'
BY Log, PTL

\* NoReply is none of the answers.
LEMMA NoReplyIs ==
  /\ Reads!Missing = [status |-> "notFound", hits |-> {}, segments |-> 0]
  /\ Reads!NoReply = [status |-> "none", hits |-> {}, segments |-> 0]
  /\ Reads!Missing # Reads!NoReply
  /\ \A h, s : Reads!Found(h, s) # Reads!NoReply
<1>1. /\ Reads!Missing = [status |-> "notFound", hits |-> {}, segments |-> 0]
      /\ Reads!NoReply = [status |-> "none", hits |-> {}, segments |-> 0]
  BY DEF Reads!Missing, Reads!NoReply
<1>2. Reads!Missing.status # Reads!NoReply.status
  BY <1>1
<1>3. ASSUME NEW h, NEW s PROVE Reads!Found(h, s) # Reads!NoReply
  <2>1. Reads!Found(h, s).status # Reads!NoReply.status
    BY <1>1 DEF Reads!Found
  <2> QED BY <2>1
<1> QED BY <1>1, <1>2, <1>3

\* An epoch that has a relic was folded from a WAL that was not empty.
LEMMA RelicsNumber ==
  ASSUME TypeOK, NEW m, m.IndexEpoch \in Nat, m.IndexedUpTo \in Nat, Haunted(m),
         WholeAt(m.IndexEpoch, m.IndexedUpTo)
  PROVE  m.IndexedUpTo > 0
<1> DEFINE k == <<m.IndexEpoch, "centroids">>
<1>1. "centroids" \in PartNames \ ToSet(Parts(m.IndexedUpTo))
  BY PartsAre DEF Haunted, PartNames
<1>2. k \in DOMAIN objs /\ objs[k] < m.IndexedUpTo
  BY <1>1 DEF WholeAt, Haunted
<1>3. objs[k] \in Nat
  <2> HIDE DEF k
  <2> QED BY <1>2, StoreTypes
<1> QED BY <1>2, <1>3

\* ... also after a step.
NumbersAre ==
  \A m : (/\ m.IndexEpoch \in Nat /\ m.IndexedUpTo \in Nat /\ Haunted(m)
          /\ WholeAt(m.IndexEpoch, m.IndexedUpTo)) => m.IndexedUpTo > 0
LEMMA RelicsNumberNext == TypeOK' => NumbersAre'
<1>1. TypeOK => NumbersAre
  BY RelicsNumber DEF NumbersAre
<1> QED BY <1>1, PTL

\* The relics of an answered query are those of its question.
LEMMA RelicsAre ==
  ASSUME TypeOK, LogIs, NEW r \in Readers, NEW q, "vector" \in q.legs,
         q.upTo = query[r].snap.WALSeq, q.relic = query[r].snap.IndexedUpTo,
         q.upTo \in 0..Len(wal), q.relic \in 1..Len(wal)
  PROVE  Relics(r, "vector") \subseteq Reads!Relics(q)
<1>0. Len(wal) \in Nat
  BY DEF TypeOK
<1>1. Reads!Relics(q) =
        {<<"vector", wal[s].id, s - 1, s - 1>> :
           s \in {t \in 1..q.relic : /\ wal[t].kind = "vec"
                                     /\ \A u \in q.relic + 1..q.upTo : wal[u].id # wal[t].id}}
  <2>1. Reads!Haunted(q)
    BY DEF Reads!Haunted
  <2>2. SubSeq(wal, 1, manifest.WALSeq) = wal
    BY DEF LogIs
  <2> QED BY <2>1, <2>2 DEF Reads!Relics
<1> SUFFICES ASSUME NEW h \in Relics(r, "vector") PROVE h \in Reads!Relics(q)
  OBVIOUS
<1>2. PICK s \in Window(0, q.relic) :
        /\ h = <<"vector", wal[s + 1].id, s, s>> /\ wal[s + 1].kind = "vec"
        /\ \A u \in Window(q.relic, q.upTo) : wal[u + 1].id # wal[s + 1].id
  BY DEF Relics
<1> DEFINE t == s + 1
<1>3. t \in 1..q.relic /\ t - 1 = s
  BY <1>0, <1>2 DEF Window
<1>4. ASSUME NEW u \in q.relic + 1..q.upTo PROVE wal[u].id # wal[t].id
  <2>1. u - 1 \in Window(q.relic, q.upTo) /\ (u - 1) + 1 = u
    BY <1>0 DEF Window
  <2> QED BY <1>2, <2>1
<1>5. h = <<"vector", wal[t].id, t - 1, t - 1>> /\ wal[t].kind = "vec"
  BY <1>2, <1>3
<1> HIDE DEF t
<1> QED BY <1>1, <1>3, <1>4, <1>5

\* As long as the manifest names the same epoch, it has the same relic.
LEMMA RelicStays ==
  ASSUME RefineInv, RefineInv', Evolves, manifest'.IndexEpoch = manifest.IndexEpoch,
         manifest'.IndexedUpTo = manifest.IndexedUpTo
  PROVE  Relic(manifest)' = Relic(manifest)
<1>1. /\ TypeOK /\ TypeOK' /\ manifest.IndexEpoch \in Nat /\ manifest.IndexedUpTo \in 0..Len(wal)
  BY StoreTypes DEF RefineInv, QueryInv, StoreContent, CoreInv, StoreInv, ManifestOK
<1>2. NoVector(manifest.IndexedUpTo)' = NoVector(manifest.IndexedUpTo)
  <2>1. ASSUME NEW i \in 0..Len(wal), i = manifest.IndexedUpTo PROVE NoVector(i)' = NoVector(i)
    BY <1>1, FoldsStay
  <2> QED BY <1>1, <2>1
<1>3. <<manifest.IndexEpoch, "centroids">> \in DOMAIN objs' <=>
        <<manifest.IndexEpoch, "centroids">> \in DOMAIN objs
  BY <1>1, EpochStays
<1> QED BY <1>2, <1>3 DEF Relic, Haunted

\* When an epoch is published, a relic comes with it or the last one goes.
LEMMA PublishHaunts ==
  ASSUME RefineInv, RefineInv', NEW b \in Builders, PublishStored(b)
  PROVE  \/ Relic(manifest)' = 0
         \/ Relic(manifest)' \in {n \in 1..Len(wal) : Reads!Fold("vector", n) = {}}
<1> DEFINE n == build[b].upTo
<1>1. /\ TypeOK /\ TypeOK' /\ ManifestOK /\ ManifestOK' /\ LiveEpochWhole' /\ UNCHANGED wal
  BY DEF RefineInv, QueryInv, StoreContent, CoreInv, StoreInv, PublishStored
<1>2. manifest'.IndexedUpTo = n /\ n \in 0..Len(wal)
  BY <1>1, PublishIs, StoreTypes DEF ManifestOK
<1> SUFFICES ASSUME Haunted(manifest)' PROVE n \in 1..Len(wal) /\ Reads!Fold("vector", n) = {}
  BY <1>2 DEF Relic
<1>3. n > 0
  <2>1. manifest'.IndexEpoch \in Nat /\ manifest'.IndexedUpTo \in Nat
    BY <1>1 DEF TypeOK, ManifestType
  <2>2. WholeAt(manifest.IndexEpoch, manifest.IndexedUpTo)'
    BY <1>1 DEF LiveEpochWhole, WholeAt
  <2>3. \A m : (/\ m.IndexEpoch \in Nat /\ m.IndexedUpTo \in Nat /\ Haunted(m)'
                /\ WholeAt(m.IndexEpoch, m.IndexedUpTo)') => m.IndexedUpTo > 0
    BY <1>1, RelicsNumberNext DEF NumbersAre
  <2> QED BY <1>2, <2>1, <2>2, <2>3
<1>4. LatestOf({"vec"}, 0, n) = {}
  <2>1. NoVector(manifest.IndexedUpTo)'
    BY DEF Haunted
  <2> QED BY <1>1, <1>2, <2>1 DEF NoVector, LatestOf, Latest, IsLast, Window
<1>5. Reads!Fold("vector", n) = {Hit("vector", v) : v \in LatestOf(HitKind("vector"), 0, n)}
  BY <1>1, <1>2, FoldIs
<1> HIDE DEF n
<1> QED BY <1>2, <1>3, <1>4, <1>5 DEF HitKind

\* A step of the store is one of the namespace: it is created or written, a relic
\* comes or goes, or nothing changes for anybody who reads it.
LEMMA StoreRefines ==
  ASSUME RefineInv, RefineInv', Evolves, [Next]_vars, UNCHANGED <<rpc, query>>
  PROVE  [Reads!Next]_(Reads!vars)
<1>0. TypeOK /\ TypeOK' /\ LogIs /\ LogIs' /\ ManifestOK
  BY Log, LogNext DEF RefineInv, QueryInv, StoreContent, CoreInv, StoreInv
<1>1. ASSUME NEW r \in Readers PROVE Asked(r)' = Asked(r) /\ Answered(r)' = Answered(r)
  BY OthersStay DEF RefineInv
<1>2. CASE Create
  <2>1. ~Exists /\ Exists' /\ UNCHANGED wal
    BY <1>2 DEF Create, Exists, NoManifest
  <2>2. manifest = NoManifest
    BY <1>0, <2>1, StoreTypes DEF ManifestOK, Exists
  <2>3. Relic(manifest)' = Relic(manifest)
    BY <1>2, <2>2, RelicStays DEF Create, NoManifest
  <2> QED BY <1>0, <1>1, <2>1, <2>3 DEF Reads!Next, Reads!Create, LogIs
<1>3. CASE Upsert
  <2>1. Exists /\ Exists' /\ \E op \in Ops : wal' = Append(wal, op)
    BY <1>0, <1>3, UpsertIs, StoreTypes DEF Exists
  <2>2. Relic(manifest)' = Relic(manifest)
    BY <1>0, <1>3, UpsertIs, RelicStays
  <2> QED BY <1>0, <1>1, <2>1, <2>2 DEF Reads!Next, Reads!Write, LogIs
<1>4. CASE UNCHANGED <<wal, manifest>>
  <2>1. Relic(manifest)' = Relic(manifest) /\ (Exists' <=> Exists)
    BY <1>4, RelicStays DEF Exists
  <2> QED BY <1>0, <1>1, <1>4, <2>1 DEF Reads!vars, LogIs
<1>5. ASSUME NEW b \in Builders, PublishStored(b) PROVE Reads!Next
  <2>1. manifest'.Version = manifest.Version + 1 /\ manifest.Version \in Nat
    BY <1>0, <1>5, PublishIs, StoreTypes
  <2>2. manifest.Version > 0
    BY <1>5 DEF RefineInv, QueryInv, StoreContent, CoreInv, StoreInv, Unpublished, PublishStored
  <2>3. UNCHANGED wal /\ (Exists' <=> Exists)
    BY <1>5, <2>1, <2>2 DEF Exists, PublishStored
  <2>4. \/ Relic(manifest)' = 0
        \/ Relic(manifest)' \in {n \in 1..Len(wal) : Reads!Fold("vector", n) = {}}
    BY <1>5, PublishHaunts
  <2>5. Reads!Haunt
    BY <1>0, <1>1, <2>3, <2>4 DEF Reads!Haunt, LogIs
  <2> QED BY <2>5 DEF Reads!Next
<1>6. ASSUME NEW b \in Builders, BuilderSteps(b), ~PublishStored(b) PROVE UNCHANGED <<wal, manifest>>
  BY <1>0, <1>6, BuildStepIs DEF writeVars
<1> QED
  BY <1>2, <1>3, <1>4, <1>5, <1>6, Steps DEF writeVars

\* A step of a reader is one of its client, or says nothing to it.
LEMMA ReaderRefines ==
  ASSUME RefineInv, RefineInv', Evolves, NEW r \in Readers, ReaderSteps(r),
         UNCHANGED <<writeVars, buildVars>>
  PROVE  [Reads!Next]_(Reads!vars)
<1> DEFINE request == [q \in Readers |-> Asked(q)]
           reply == [q \in Readers |-> Answered(q)]
<1>0. /\ TypeOK /\ TypeOK' /\ Pending /\ Progress /\ Fetching /\ CacheOK /\ SnapshotsOK /\ HasLast
      /\ LogIs /\ LogIs' /\ ManifestOK /\ UNCHANGED <<wal, manifest, objs>>
      /\ UNCHANGED <<Exists, SubSeq(wal, 1, manifest.WALSeq), Relic(manifest)>>
      /\ \A m : Relic(m)' = Relic(m)
  <2>1. UNCHANGED <<wal, manifest, objs>>
    BY DEF writeVars, buildVars
  <2>2. \A m : Relic(m)' = Relic(m)
    BY <2>1 DEF Relic, Haunted, NoVector, LatestOf, Latest, IsLast, Window
  <2>3. Relic(manifest)' = Relic(manifest)
    BY <2>1, RelicStays
  <2> QED BY <2>1, <2>2, <2>3, Log, LogNext DEF RefineInv, QueryInv, StoreContent, CoreInv, StoreInv, Exists
<1>1. ASSUME NEW q \in Readers, q # r PROVE Asked(q)' = Asked(q) /\ Answered(q)' = Answered(q)
  BY <1>0, <1>1, ReaderStepIs, OthersStay DEF RefineInv, Others
<1>2. /\ request' = [request EXCEPT ![r] = Asked(r)']
      /\ reply' = [reply EXCEPT ![r] = Answered(r)']
  BY <1>1
<1>3. /\ Asked(r)' = Asked(r) => request' = request
      /\ Answered(r)' = Answered(r) => reply' = reply
  BY <1>1
<1>4. /\ rpc[r] = "idle" => Asked(r) = NoQuestion
      /\ Begun(r) => Asked(r) = Question(r)
      /\ rpc[r] \in {"fetch", "tail"} => Asked(r) # NoQuestion /\ Begun(r)
  BY Questions DEF QuestionsAre, Begun
<1>5. /\ query'[r] = NoQuery => Asked(r)' = NoQuestion
      /\ rpc'[r] = "idle" => Asked(r)' = NoQuestion
      /\ rpc'[r] \in {"fetch", "tail", "done"} =>
           Asked(r)' = IF Legs(query'[r].mode) = {} THEN NoQuestion
                       ELSE [legs |-> Legs(query'[r].mode), upTo |-> query'[r].snap.WALSeq,
                             relic |-> Relic(query'[r].snap)]
  <2>1. Question(r)' = IF Legs(query'[r].mode) = {} THEN NoQuestion
                       ELSE [legs |-> Legs(query'[r].mode), upTo |-> query'[r].snap.WALSeq,
                             relic |-> Relic(query'[r].snap)]
    BY <1>0 DEF Question, NoQuestion, Relic, Haunted, NoVector, LatestOf, Latest, IsLast, Window
  <2> QED BY <2>1, QuestionsNext DEF QuestionsAre, Begun
<1>6. /\ rpc[r] = "notFound" => Answered(r) = Reads!Missing
      /\ rpc[r] \notin {"done", "notFound"} => Answered(r) = Reads!NoReply
      /\ rpc[r] \in {"done", "notFound"} => Answered(r) # Reads!NoReply
  BY Replies, NoReplyIs DEF RepliesAre
<1>7. /\ rpc'[r] = "done" =>
           Answered(r)' = Reads!Found(Hits(r)', IF query'[r].mode = "info"
                                                THEN query'[r].snap.WALSeq ELSE 0)
      /\ rpc'[r] = "notFound" => Answered(r)' = Reads!Missing
      /\ rpc'[r] \notin {"done", "notFound"} => Answered(r)' = Reads!NoReply
  BY RepliesNext DEF RepliesAre
<1>8. request[r] = Asked(r) /\ reply[r] = Answered(r)
  OBVIOUS
<1> HIDE DEF request, reply
<1>9. CASE QueryStart(r)
  <2>1. /\ rpc[r] = "idle" /\ Exists /\ query'[r].snap = manifest
        /\ query'[r].mode \in CommandModes
        /\ rpc'[r] \in {"fetch", "tail", "done"}
        /\ rpc'[r] = "done" <=> query'[r].mode = "info"
    BY <1>0, <1>9, QueryStartIs DEF QueryStart
  <2>2. Asked(r) = NoQuestion /\ Answered(r) = Reads!NoReply /\ manifest.WALSeq = Len(wal)
    BY <1>0, <1>4, <1>6, <2>1 DEF ManifestOK
  <2>3. CASE query'[r].mode = "info"
    <3>1. Asked(r)' = NoQuestion
      BY <1>5, <2>1, <2>3, LegsOf
    <3>2. Hits(r)' = {}
      BY <2>3, LegsOf DEF Hits
    <3>3. Answered(r)' = Reads!Found({}, Len(wal))
      BY <1>7, <2>1, <2>2, <2>3, <3>2
    <3>4. Reads!Info(r)
      BY <1>0, <1>2, <1>3, <1>8, <2>1, <2>2, <3>1, <3>3
      DEF Reads!Info, Reads!Free, LogIs, request, reply
    <3> QED BY <3>4 DEF Reads!Next
  <2>4. CASE query'[r].mode # "info"
    <3> DEFINE legs == Legs(query'[r].mode)
    <3>1. legs \in (SUBSET Reads!Legs) \ {{}}
      BY <2>1, <2>4, LegsOf DEF Reads!Legs
    <3>2. /\ Asked(r)' = [legs |-> legs, upTo |-> Len(wal), relic |-> Relic(manifest)]
          /\ Answered(r)' = Answered(r)
      BY <1>5, <1>7, <2>1, <2>2, <2>4, <3>1
    <3> HIDE DEF legs
    <3>3. /\ request' = [request EXCEPT ![r] = [legs |-> legs, upTo |-> Len(SubSeq(wal, 1, manifest.WALSeq)),
                                              relic |-> Relic(manifest)]]
          /\ reply' = reply /\ request[r] = NoQuestion /\ reply[r] = Reads!NoReply
      BY <1>0, <1>2, <1>3, <1>8, <2>2, <3>2 DEF LogIs
    <3>4. Reads!Read(r)
      BY <1>0, <2>1, <3>1, <3>3 DEF Reads!Read, Reads!Free, request, reply
    <3> QED BY <3>4 DEF Reads!Next
  <2> QED BY <2>3, <2>4
<1>10. CASE QueryNotFound(r)
  <2>1. rpc[r] = "idle" /\ rpc'[r] = "notFound" /\ ~Exists /\ query'[r] = NoQuery
    BY <1>0, <1>10 DEF QueryNotFound, WriteNotFound, TypeOK, SnapshotsOK
  <2>2. /\ Asked(r) = NoQuestion /\ Asked(r)' = NoQuestion
        /\ Answered(r) = Reads!NoReply /\ Answered(r)' = Reads!Missing
    BY <1>4, <1>5, <1>6, <1>7, <2>1
  <2>3. Reads!NotFound(r)
    BY <1>0, <1>2, <1>3, <1>8, <2>1, <2>2 DEF Reads!NotFound, Reads!Free, request, reply
  <2> QED BY <2>3 DEF Reads!Next
<1>11. CASE FetchHit(r) \/ FetchMiss(r) \/ FetchAbsent(r)
  <2>1. /\ rpc[r] = "fetch" /\ ~QueryStart(r)
        /\ rpc'[r] = "notFound" => query'[r] = query[r] /\ Excused(r)
    <3>1. CASE FetchAbsent(r)
      BY <1>0, <3>1, AbsentIsAccounted DEF FetchAbsent, Progress, QueryStart, Excused
    <3>2. CASE FetchHit(r) \/ FetchMiss(r)
      BY <1>0, <3>2, ContinueIs DEF FetchHit, FetchMiss, Received, QueryStart
    <3> QED BY <1>11, <3>1, <3>2
  <2>2. rpc'[r] # "idle"
    <3>1. CASE WriteNotFound(r)
      BY <1>0, <2>1, <3>1 DEF WriteNotFound, TypeOK
    <3>2. CASE ~WriteNotFound(r)
      BY <1>0, <1>11, <3>2, ContinueIs DEF FetchHit, FetchMiss, FetchAbsent, Received
    <3> QED BY <3>1, <3>2
  <2>3. CASE rpc'[r] # "notFound"
    <3>1. /\ rpc'[r] \in {"fetch", "tail"} /\ query'[r].snap = query[r].snap
          /\ query'[r].mode = query[r].mode
      BY <1>0, <2>1, <2>2, <2>3, ReaderStepIs
    <3>2. Asked(r)' = Asked(r) /\ Answered(r)' = Answered(r)
      BY <1>4, <1>5, <1>6, <1>7, <2>1, <3>1 DEF Question
    <3> QED BY <1>0, <1>3, <3>2 DEF Reads!vars, request, reply
  <2>4. CASE rpc'[r] = "notFound"
    <3>1. query'[r] = query[r] /\ Excused(r)
      BY <2>1, <2>4
    <3>2. Asked(r)' = Asked(r)
      BY <1>0, <2>1, <3>1, SnapshotStays DEF Asked, Begun
    <3>3. Asked(r) # NoQuestion /\ Answered(r) = Reads!NoReply /\ Answered(r)' = Reads!Missing
      BY <1>4, <1>6, <1>7, <2>1, <2>4
    <3>4. Asked(r).relic > 0 /\ "vector" \in Asked(r).legs
      <4>1. /\ Asked(r) = Question(r) /\ Legs(query[r].mode) # {} /\ "vector" \in Legs(query[r].mode)
            /\ Haunted(query[r].snap)
        BY <1>4, <2>1, <3>1 DEF Excused
      <4>2. query[r].snap.IndexedUpTo > 0
        BY <1>0, <2>1, <4>1, RelicsNumber, SnapshotTypes DEF Progress, Accounted
      <4> QED BY <4>1, <4>2 DEF Question, Relic
    <3>5. Reads!Reply(r)
      BY <1>0, <1>2, <1>3, <1>8, <3>2, <3>3, <3>4 DEF Reads!Reply, Reads!Haunted, request, reply
    <3> QED BY <3>5 DEF Reads!Next
  <2> QED BY <2>3, <2>4
<1>12. CASE ReadTail(r)
  <2>1. rpc[r] = "tail" /\ rpc'[r] = "done" /\ query'[r] = query[r]
    BY <1>0, <1>12 DEF ReadTail, TypeOK
  <2>2. /\ Asked(r) # NoQuestion /\ Asked(r)' = Asked(r) /\ Answered(r) = Reads!NoReply
        /\ Asked(r) = [legs |-> Legs(query[r].mode), upTo |-> query[r].snap.WALSeq,
                       relic |-> Relic(query[r].snap)]
        /\ Legs(query[r].mode) # {}
    <3>1. Asked(r) # NoQuestion /\ Answered(r) = Reads!NoReply /\ Asked(r) = Question(r)
      BY <1>4, <1>6, <2>1
    <3>2. Asked(r)' = Asked(r)
      BY <1>0, <2>1, SnapshotStays DEF Asked, Begun
    <3> QED BY <3>1, <3>2 DEF Question
  <2>3. \E extra \in SUBSET Reads!Relics(Asked(r)) : Answered(r)' = Reads!Answer(Asked(r), extra)
    <3> DEFINE N == query[r].snap.WALSeq
               legs == Legs(query[r].mode)
    <3>1. /\ N \in 0..Len(wal) /\ \A leg \in legs : leg \in {"vector", "text"}
          /\ Sure(r)' \subseteq Hits(r)' /\ Hits(r)' \subseteq Sure(r)' \cup MayCome(r)'
      BY <1>0, <2>1, HitsAreNext DEF AnswersAre, RefineInv
    <3>2. ASSUME NEW K PROVE LatestOf(K, 0, query[r].snap.WALSeq)' = LatestOf(K, 0, N)
      BY <1>0, <2>1 DEF LatestOf, Latest, IsLast, Window
    <3>3. \A leg \in legs : Reads!Fold(leg, N) = {Hit(leg, v) : v \in LatestOf(HitKind(leg), 0, N)}
      BY <1>0, <3>1, FoldIs
    <3>4. Asked(r).legs = legs /\ Asked(r).upTo = N /\ query[r].mode # "info"
      BY <1>4, <2>1, <2>2, LegsOf
    <3>5. Sure(r)' = UNION {Reads!Fold(leg, N) : leg \in legs}
      <4>1. Sure(r)' = UNION {{Hit(leg, v) : v \in LatestOf(HitKind(leg), 0, query[r].snap.WALSeq)'} :
                              leg \in legs}
        BY <2>1 DEF Sure, Hit, HitKind
      <4> HIDE DEF N, legs
      <4> QED BY <3>2, <3>3, <4>1
    <3>6. Answered(r)' = Reads!Found(Hits(r)', 0)
      BY <1>7, <2>1, <3>4
    <3>7. MayCome(r)' \subseteq Reads!Relics(Asked(r))
      <4>1. CASE "vector" \in legs /\ Haunted(query[r].snap)
        <5>1. Accounted(r)
          BY <1>0, <2>1 DEF Progress
        <5>2. query[r].snap.IndexedUpTo \in 1..Len(wal)
          BY <1>0, <2>1, <4>1, <5>1, RelicsNumber, SnapshotTypes, StoreTypes
          DEF Accounted, SnapshotsOK, Begun
        <5>3. Asked(r).relic = query[r].snap.IndexedUpTo
          BY <2>2, <4>1 DEF Relic
        <5>4. Relics(r, "vector") \subseteq Reads!Relics(Asked(r))
          BY <1>0, <3>1, <3>4, <4>1, <5>2, <5>3, RelicsAre
        <5>5. Relics(r, "vector")' = Relics(r, "vector")
          BY <1>0, <2>1 DEF Relics, Haunted, NoVector, LatestOf, Latest, IsLast, Window
        <5> QED BY <2>1, <4>1, <5>4, <5>5 DEF MayCome
      <4>2. CASE ~("vector" \in legs /\ Haunted(query[r].snap))
        <5>1. Haunted(query[r].snap)' = Haunted(query[r].snap)
          BY <1>0, <2>1, SnapshotStays DEF Begun
        <5> QED BY <2>1, <4>2, <5>1 DEF MayCome, Relics
      <4> QED BY <4>1, <4>2
    <3> DEFINE extra == Hits(r)' \ Sure(r)'
    <3>8. extra \in SUBSET Reads!Relics(Asked(r)) /\ Hits(r)' = Sure(r)' \cup extra
      BY <3>1, <3>7
    <3>9. \A x : Reads!Answer(Asked(r), x) =
                   Reads!Found(x \cup UNION {Reads!Fold(leg, N) : leg \in legs}, 0)
      BY <3>4 DEF Reads!Answer
    <3> HIDE DEF N, legs, extra
    <3> QED BY <3>5, <3>6, <3>8, <3>9
  <2>4. Reads!Reply(r)
    BY <1>0, <1>2, <1>3, <1>8, <2>2, <2>3 DEF Reads!Reply, request, reply
  <2> QED BY <2>4 DEF Reads!Next
<1>13. CASE QueryFail(r)
  <2>1. rpc[r] \in {"fetch", "tail"} /\ rpc'[r] = "idle"
    BY <1>0, <1>13 DEF QueryFail, TypeOK
  <2>2. /\ Asked(r) # NoQuestion /\ Asked(r)' = NoQuestion
        /\ Answered(r) = Reads!NoReply /\ Answered(r)' = Reads!NoReply
    BY <1>4, <1>5, <1>6, <1>7, <2>1
  <2>3. Reads!Fail(r)
    BY <1>0, <1>2, <1>3, <1>8, <2>2 DEF Reads!Fail, request, reply
  <2> QED BY <2>3 DEF Reads!Next
<1>14. CASE QueryEnd(r)
  <2>1. rpc[r] \in {"done", "notFound"} /\ rpc'[r] = "idle"
    BY <1>0, <1>14 DEF QueryEnd, TypeOK
  <2>2. /\ Asked(r)' = NoQuestion
        /\ Answered(r) # Reads!NoReply /\ Answered(r)' = Reads!NoReply
    BY <1>5, <1>6, <1>7, <2>1
  <2>3. Reads!Done(r)
    BY <1>0, <1>2, <1>3, <1>8, <2>2 DEF Reads!Done, request, reply
  <2> QED BY <2>3 DEF Reads!Next
<1> QED BY <1>9, <1>10, <1>11, <1>12, <1>13, <1>14 DEF ReaderSteps

\* The initial state is one of SnapshotReads.
LEMMA RefineInit == Init => RefineInv /\ Reads!Init
<1> SUFFICES ASSUME Init PROVE RefineInv /\ Reads!Init
  OBVIOUS
<1>1. RefineInv
  BY InitQuery DEF Init, RefineInv, Asking
<1>2. /\ ~Exists /\ SubSeq(wal, 1, manifest.WALSeq) = <<>> /\ Relic(manifest) = 0
  BY <1>1, Log DEF Init, LogIs, Exists, NoManifest, Relic, Haunted
<1>3. ASSUME NEW r \in Readers PROVE Asked(r) = NoQuestion /\ Answered(r) = Reads!NoReply
  BY <1>1, Questions, Replies DEF QuestionsAre, RepliesAre, Init
<1> QED BY <1>1, <1>2, <1>3 DEF Reads!Init

\* Every step is one of SnapshotReads or changes nothing there.
LEMMA RefineStep ==
  ASSUME OneBuilder
  PROVE  RefineInv /\ [Next]_vars => RefineInv' /\ [Reads!Next]_(Reads!vars)
<1> SUFFICES ASSUME RefineInv, [Next]_vars PROVE RefineInv' /\ [Reads!Next]_(Reads!vars)
  OBVIOUS
<1>1. RefineInv' /\ Evolves
  BY QueryStep, AskingStep DEF RefineInv, QueryInv, StoreContent, CoreInv
<1> QED BY <1>1, StoreRefines, ReaderRefines, ReadersSteps DEF readVars

(***************************************************************************)
(* The namespace behind its nodes and commands implements SnapshotReads: a *)
(* request takes effect at the moment of its manifest read (handleQuery,   *)
(* runQuery), and "not found" means that there is no namespace             *)
(* (writeEngineError).  The relics of a failed build are the exception: a  *)
(* vector query may return them, or end with 404 over them, while no       *)
(* document has a vector.                                                  *)
(***************************************************************************)
THEOREM Linearizable ==
  ASSUME OneBuilder
  PROVE  Spec => ImplementsSnapshotReads
<1>1. RefineInv /\ [Next]_vars => RefineInv'
  BY RefineStep
<1>2. RefineInv /\ [Next]_vars => [Reads!Next]_(Reads!vars)
  BY RefineStep
<1> QED BY RefineInit, <1>1, <1>2, PTL DEF Spec, ImplementsSnapshotReads, Reads!Spec
=============================================================================
