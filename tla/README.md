# A TLA+ model of the turbopuffer-style search engine

The repository is a vector and full-text search engine whose only durable state
is an object store: stateless processes append WAL segments, swing one manifest
per namespace with compare-and-swap, fold the WAL into immutable index epochs,
and answer queries from the newest epoch joined with the unindexed tail. Its
correctness rests on the order of a few conditional requests made by processes
that share nothing else. That is what the modules in this directory model, what
TLC checks on small instances, and what TLAPS proves for all sizes.

Contents: [Inventory](#inventory) · [Modules](#modules) · [Runs](#runs) ·
[Findings](#findings) · [Proofs](#proofs) · [Abstractions](#abstractions-and-assumptions) ·
[Observations](#observations-without-a-run) · [Not modelled](#not-modelled) · [Plan](#plan)

Paths below are relative to `src/internal/engine/` unless they say otherwise.
`PROJECT.json` maps every definition to the lines it stands for, lists the
hazards by line, and names for each property a mutation of the modelled code
that breaks it.

## Inventory

| Component | State | Operations | Hard behaviour | Correct when |
|---|---|---|---|---|
| Write path: `namespace.go`, `wal.go`, `manifest.go` | manifest object and its ETag, WAL segments | `Create`, `Upsert`, `SaveManifestCAS` | any number of writers in any number of processes; stale hints; crash between append and swap; lost replies; requests resent by the client library; bounded retry loops | `[0,WALSeq)` exists, acknowledged batches stay visible, the log is append-only and in real-time order, no update of the count is lost |
| Group commit: `commit.go` | the gate (RWMutex), the unbuffered inbox, `accepting`, result channels, the batch | `Upsert`, flusher loop, `Close` | Close against senders, cancellation of a write already in a batch, failing commits, appends that are resent | no send on a closed channel, nobody stranded, order kept, batches bounded, everything returns |
| Index build: `indexer.go` | objects of `index/v<epoch>/`, manifest fields `IndexEpoch`, `IndexedUpTo` | `BuildIndex`: snapshot, puts, publish | builds that stop half-way and what they leave, two builders, writers that go on | the epoch a manifest names has all its objects, of the prefix it names |
| Vector index: `lire.go`, `vector.go` | clusters, centroids, centroid tree | full and incremental clustering, split, merge, reassign, tree descent | long sequences of incremental builds, equal centroids, cut beams | clusters partition the documents; every cluster is reachable |
| Attribute index and filters: `bitmap.go`, `types.go`, parts of `indexer.go`, `query.go` | bitmaps per field, value and cluster | build, `compileFilter`, plan, `Filter.Match` | two notions of equality, container forms, attributes that the tail has replaced | a plan never loses a match |
| Queries: `query.go`, `bm25.go` | none of their own (reads through the cache) | vector, text, hybrid | manifest, epoch and tail read at different times | the answer is the fold of the snapshot; a partial answer is still about the present |
| Branches: `branch.go` | manifest fields `Parent`, `ForkWALSeq`, `ForkIndexEpoch` | `BranchFrom`, `resolveReadView`, `resolveIndex`, flattening build | parents that go on after the fork, chains | point-in-time isolation in both directions |
| Indexing queue: `queue.go` | one JSON object of jobs | enqueue, claim, heartbeat, complete | read-modify-write by everybody, failing and resent puts, takeover after a timeout | one job and one punctual builder per namespace, no stored position overwritten, notifications delivered |
| Broker: `cmd/tpuf-broker/main.go` | inbox, batch of waiting handlers | collect, flush as one CAS | crash with requests in flight, failing flush, answers long after the store | a 200 means that the notification was stored; everybody is answered |
| Indexer daemon: `cmd/tpuf-indexer/main.go` | current job, heartbeat goroutine | poll, build, complete | crash, failed build, stall past the timeout | owners only remove what they built |
| Read cache: `internal/cache/` | LRU list, ring of slot files, `index.json` | `GetCached`, `put`, `get`, reload | concurrent misses on a key, kill inside a file write, full disk, restart with another capacity | ring consistent, warm after restart, bounded, no torn body after a failed write |
| Object store: `internal/storage/` | objects with ETags | get, put, conditional puts | lost replies, resends | (environment of all others) |
| Query node: `cmd/tpuf-node/main.go` | the cache its handlers share | `/query`, `/info` | restarts, requests served while epochs are replaced, 404s of the store turned into 404s of the API | each request reads one moment; "not found" means no namespace |
| Command line: `cmd/tpuf/main.go` | none beyond the process | create, upsert, branch, index, query, info | runs next to nodes and daemons with nothing cached | the same as the node and the write path |
| Benchmark: `cmd/tpuf-bench/` | local timing and display | load, query, report | – | – (not modelled) |

Interactions. A writer's `Upsert` appends a segment and swaps the manifest; it
may then notify the queue, directly or through the broker. A daemon claims a
job, runs `BuildIndex` on that namespace, which swaps the same manifest the
writers swap, and completes the job. Queries read manifest, epoch objects (through
the cache, which never revalidates) and tail. A branch reads the manifests, WAL
and epochs of its parents by reference. No component calls back into another;
the store is the only shared state between processes, and inside a process there
are the Committer's channels and the cache's mutexes. A query node keeps one cache
for all its handlers; a command is a process that starts with an empty one, and
both call the same `RunQuery`.

## Modules

| Module | Models | State ↔ code | Actions ↔ code |
|---|---|---|---|
| `DurableLog` | the contract of `Upsert`: an append-only log | `submitted`, `log`, `acked`; `resent`, after which a batch not yet acknowledged may be repeated | submit, append, acknowledge, resend |
| `WalCommit` | the write path, one step per request | `manifest`, `wal` in the store; `pc`, `seq`, `tries`, `loaded` are the locals of an `Upsert` | `Create`; `Begin`, `LoadHint`, `AppendStored`/`AppendRefused`, `CASLoad`, `CASStored`/`CASRefused` are the body of `Upsert`; `Abandon` is crash or error; lost replies and resends are in the request they hit; `count`, `landed`, `acked` and `resent` are history |
| `Committer` | group commit | `readers`, `closed` for the gate and the inbox; `batch`, `ops`, `lpc` for the flusher; `result` for the reply channels | callers, flusher and `Close`, one step per operation on gate, channel or store; `Commit` is `commitBatch`, after any number of `StoredUnseen`, the segments that resent appends leave before it |
| `SnapshotReads` | what a namespace promises its readers | `log`, `exists`; each client's `request` and `reply`; `relic`, the vector index a failed build has left | create, write; read, reply, info, not found, fail; haunt |
| `IndexBuild` | epochs of one namespace, and its readers: query node and commands | `objs`, `manifest` in the store (`Version` 0: there is none); `cache` is the node's; `build`, `query` are locals | `Create`, `Upsert`; `BuildStart`, `PutPart`, `PublishLoad`, `PublishStored`/`PublishRefused`, `BuildFail`; `QueryStart`, `QueryNotFound`, `FetchHit`/`FetchMiss`/`FetchAbsent`, `ReadTail`, `QueryFail`, `QueryEnd`; `Restart` |
| `JobQueue` | queue, broker, daemons, notifiers | `jobs` is the object; `fresh` its ETag; `stale` the clock; `cas` every agent's loop; `req` the request of each notifier with its reply | `Notify`, `Return`, `Collect`, `Flush`, `Poll`, `Heartbeat`, `BuildSnapshot`, `BuildPublish`, `CASStep` (`CASLoad`, `CASNothing`, `CASStored`, `CASRefused`), `CASError`, `CASUnheard`, and the other faults |
| `Branch` | branches | `man`, `wal`, `index` in the store; `task` a query or build that walks the chain; `truth` is a history variable, the logical WAL | `ForkLoad`, `ForkStore`, `ResolveSources`, `ResolveIndex`, `QueryEnd`, `Publish` |
| `NvmeCache` | both cache tiers | `lru`; `slots`, `byKey`, `cursor`; `file`, `index` are on disk and survive `Crash`; `capacity` is the process's option; `held` and `cut` are history, what the ring held at the last kill and whether it fell into the write of `index.json` | the steps of `GetCached`, with every file operation of `put` a step; `Crash`, `Restart`, `RestartRefused` |
| `Ordering` | `sort.Slice` and its like: the place of an element is the number of those before it | pure operators | – |
| `Clustering`, `Lire`, `CentroidTree` | k-means; LIRE; the tree | pure operators | – |
| `Bitmap`, `AttributeIndex` | containers; attribute index, filters and plan | pure operators | – |
| `Bm25` | full-text index, scores of indexed documents and of tail documents | pure operators | – |
| `VectorEpoch` | what an epoch contains and what queries answer | `docs` and `tail` are the fold and the unindexed ids, `epoch` the published objects | `Upsert`, `BuildIndex`; queries are operators over the state |
| `MC…` | instances for TLC | | |
| `WalCommitProofs`, `CommitterProofs`, `IndexBuildProofs`, `JobQueueProofs`, `BranchProofs`, `NvmeCacheProofs`, `VectorEpochProofs` | theorems about the module of that name | | |
| `DataInduction` | lemmas on naturals, sequences, folds, sums and maxima, and on ranking by sorted place, that several of them cite | | |

Composition. `WalCommit` and `Committer` both implement `DurableLog` (`INSTANCE
DurableLog WITH …`). That result is what lets the layers above take an `Upsert`
as one step: `IndexBuild`, `Branch` and `JobQueue` do, and `Committer` takes
`commitBatch` as one step. `IndexBuild` takes the content of an object to be a
function of the WAL prefix it was folded from; `VectorEpoch` shows that the
documents an epoch holds are (`EpochPartitions`, and for all its objects the
invariant of `VectorEpochProofs`), over builds that carry the previous epoch's
clusters forward. `IndexBuild` in turn implements `SnapshotReads`
(`INSTANCE SnapshotReads WITH …`), a log that answers every request at one moment:
with `DurableLog` on the writers' side that is the whole contract of a namespace.
`JobQueue` reduces a build to its snapshot and its publish, the two steps of
`IndexBuild` that the queue depends on.
`VectorEpoch` extends `Lire`, `CentroidTree`, `AttributeIndex` and `Bm25`; the first
three stand on `Clustering` and `Bitmap`, and all that sorts on `Ordering`. No module
declares a recursive operator: what the code computes by loops and recursion is
written with folds and recursive functions, so that it can be proved about.

## Runs

Bounds are named in the configurations. A bound of the model is commented as
such where it is declared; the others are the code's own constants, scaled down.

**MCWalCommit** – three writers with one call each, three attempts in each loop,
inserts and deletes, crashes, lost replies, and up to three requests that the client
library sends again. `SegmentsExist`: however the probes climbed over orphans and
whichever order the swaps took, no manifest points past a missing segment.
`AckedIsVisible`: what returned nil stays below `WALSeq`. `ImplementsDurableLog` is the
refinement, with every fault: a resent append that meets its own segment stores the
batch twice, and the copies are all visible before `Upsert` returns nil, so that none
comes into view later, over newer writes. `EveryUpdateIsCounted` compares `DocCount` with
a counter that each batch changes once, and `RetriesSuffice` says that contention and
orphans never exhaust attempts that are no fewer than the calls; both end with the first
resend, by which the code does apply a `mutate` twice and lets a writer compete with
itself. Both are about writers: an index publish, which competes for the same ETag and
recomputes `DocCount`, is not part of this model. Three writers are what it takes for
one to publish the orphan of a second while a third probes; with two resends one writer
may store its batch three times, or two writers theirs twice, among each other.

**MCCommitter** – two callers with two calls, two concurrent `Close`, cancellation,
invalid input, commits that fail, and an append that is resent, so that its batch is
stored twice. The size (2) and the cap (3) let one batch pass the cap and another stop
before it. `NoSendOnClosed`, `CloseDrains`, `OrderKept`, the refinement, and, with
fairness, `CallsReturn` for both kinds of callers. `OrderKept` with a resend: an older
write may then follow a newer one of the same caller, but the newer one comes again
after it. `BatchBounded` is weaker than the comment on `flush`: the cap is tested before
a call of unknown size is taken, so a batch may exceed `maxBatchDocs`, by less than its
last call. A segment that is stored although its batch is answered with an error comes
about by a resend and a failure after it; the direct way (`"lost"` in `Faults`) would make
the run four times as large and is left to the theorems.

**MCIndexBuild** – one builder, whose builds may stop between any two requests, one
writer that also creates the namespace and may take the last vector away, one client that
asks a query node (vector, filtered vector, text) or runs commands (hybrid, info), a cache
of two objects and a node that restarts; three segments and two builds, so a second epoch
replaces the first, a failed build's objects are overwritten or left, and the objects of
the kinds of query evict each other. A filtered query reads the bitmaps first, and then
what its plan wants: the cluster alone (filter-first), or centroids and cluster.
`QueryAnswersSnapshot`; live epochs are whole; published objects and cached bodies never
change; publishing never goes backwards. `ImplementsSnapshotReads`: every request takes
effect when it reads the manifest, so no answer is older than a write acknowledged before
it was asked for, no client goes back in time between a warm node and a command, both
legs of a hybrid query are of one moment, and 404 is answered only for a namespace that
does not exist. Clients meet only in the cache, whose bodies are checked to be those of
the store (`CacheNeverStale`), so one client that alternates between the two ways adds
what several would.

One builder is not enough for these properties as the comments of the code put them. A
build that fails leaves its objects behind; when the next build of that epoch number finds
no document with a vector, it writes no vector index, and what is left is published with
the epoch. The properties have this as an explicit exception (`Haunted`, `Relics`;
`relic` in `SnapshotReads`) and bound it: only vector legs, only versions that had a
vector before the epoch and that the tail does not mention, or a 404, and only when the
epoch has no vectors at all. See Observations.

**MCIndexBuildRace** (violation) – two builders, and documents that gain and lose their
vector (`TwoDocuments`).

**MCJobQueue** – two workers, two notifiers, the broker, one namespace, one fault of any
kind: a crash, a failed build, a stall, a failed request, a put whose reply is lost or
that is sent again. One job and one punctual builder per namespace; a notification is
sent when the unindexed tail has reached the threshold of `EnqueueReindexIfBehind`;
`RemovedWhenBuilt` across takeovers. `BuildersExclusive` is about workers that build or
publish and whose stamps came in time. A notification is answered in a step after the
one that stored it, when its job may have been claimed, built and removed:
`AckMeansQueued` says that success is only answered when a stored queue has asked for
its position since the request was sent, and `QueuedIsKept` that no later write, made
from an older copy, takes a stored position back. Namespaces meet only in the array of
jobs and in the order of claims, so a second one adds length and no new interference
between owners of a job.

**MCJobQueueLive** – one notifier, fairness, no symmetry: `WaitingIsIndexed`,
`RequestsAnswered`.

**MCJobQueueLost** (violation) – no faults at all.

**MCBranch** – a chain of three namespaces, one document, three segments, two epochs,
one query and one build in progress at once, so that a parent is written, indexed
and published in the middle of a branch's walk. `ViewIsLogicalWAL`,
`QueryIsIsolated`, `InheritedEpochFits`. Queries do not act on each other, so one
is enough. The instance forks only parents that have an epoch of their own
(`ForkUnindexed = FALSE`), because of the second finding.

**MCBranchFork** (violation) – the same with any parent.

**MCNvmeCache** – three readers and keys, two slots, two entries in memory, two
faults, and a process that comes back with one slot or with two. Three keys in two
slots make the ring evict; three readers let two of them miss on one key while a
third evicts it. `WarmRestart` is about every restart after a kill at any step: with the
same capacity all that the ring held is there again in its old slots, but for the object
that was being put; or the start is refused, and then the kill fell between truncation
and write of `index.json`, or the disk had been full. `TiersBounded` and `RingConsistent`
hold for the new ring after a change of capacity, whose old index is not adopted.
`BodyIsWhole` is about failed writes and says nothing after a kill.

**MCNvmeTorn** (violation) – two readers and keys, one kill.

**MCVectorEpoch** – five ids, three loads followed by single upserts and deletes,
three segments, two builds, 18 queries: six filters, each narrow, wide and in
between, with texts of which one repeats a term and another has a term nobody
wrote. The code's thresholds are scaled so that five documents pass them: splits,
merges, reassignments, a tree of several levels, filter-first plans, pruned
clusters, cut shortlists and equal centroids all occur in the run. A build may find
the previous epoch unreadable and cluster from nothing. `EpochPartitions`;
`AnswersExact`: selective filters are exact however few clusters are probed, full
probes are exact, and text queries rank as if every document were scored from its
own text, although indexed ones are scored from postings; `PartialAnswersSound`:
where a probe or a shortlist is cut, and the filter only applied to what is left,
an answer still holds no document twice, none that is deleted or replaced, and
loses no fresh write to the cut; `PlanLosesNothing`; `FusionRespectsLegs`.

| Constant | Code | Run | | Constant | Code | Run |
|---|---|---|---|---|---|---|
| `MaxUpsertAttempts` | 64 | 3 | | `ChunkSize` | 65536 | 2 |
| `MaxCASAttempts` | 10 | 3, 2 | | `ArrayMax` | 4096 | 1 |
| `MaxBatchDocs` | 10,000 | 3 | | `MinFieldCardinality` | 64 | 1 |
| `KMeansIters` | 25 | 4 | | `FilterFirstPercent` | 5 | 40 |
| `SplitCapMultiplier` | 2 | 1 | | `ShortlistMultiplier` | 4 | 2 |
| `MergeMinDivisor` | 2 | 1 | | `HybridMultiplier` | 5 | 2 |
| `TreeFanout` | 8 | 2 | | `TreeBeamFactor` | 4 | 1 |
| `ReassignTopN` | 0 | 0 | | `RRFK` | 60 | 60 |
| `CacheCapacity` | option | 2 | | `Unit` (a score of 1) | float64 | 1000 |
| `Capacities` (ring slots) | option | 1, 2 | | `Threshold` (indexer lag) | option | 1 |

**Fairness.** `Committer`: weak fairness of the flusher, of every caller that is
inside `Upsert` and of every `Close` that has begun; these are goroutines, and the
Go scheduler runs every one that can run. Nobody has to call, to cancel or to
close. `JobQueue`: weak fairness of every CAS loop, of polling and building by
daemons, of the broker's two loops, of the return of an answered notifier, and of
time passing (`Expire`); the daemons
and the broker are services that are restarted, and crashes are bounded by
`MaxFaults`. Heartbeats, new writes, notifications and faults are under no
obligation. No liveness is claimed elsewhere.

**Deadlock** is checked in the runs of `JobQueue`, whose daemons poll for ever. The
other models stop when their bounded calls are used up, and nothing else: that
no call hangs is `CallsReturn`, `RequestsAnswered` and `RetriesSuffice`.

## Findings

1. *Two builders of one namespace* (`indexer.go:102`, run MCIndexBuildRace). Both
   read the same manifest, take the same epoch number and put different objects
   under the same keys, without a condition. The publish that wins names an epoch
   that mixes two snapshots: queries lose or resurrect documents, and the cache
   keeps what it read. `queue.go:53` calls two indexers "wasteful, though still
   correct". `MCJobQueue` shows that daemons meet in this way only after a missed
   heartbeat (`BuildersExclusive`), but nothing stops a build started by hand.
2. *Fork of an unindexed parent* (`branch.go:212`, run MCBranchFork). `resolveIndex`
   passes over a parent that had no epoch at the fork to the epoch that parent has
   now; the branch then reads what the parent wrote after the fork, which
   `branch.go:181` excludes.
3. *A notification merged into a job that is being built* (`queue.go:340`, run
   MCJobQueueLost). `CompleteJob` removes the job whatever its `RequestedUpTo` has
   become, so an accepted notification is dropped, where `queue.go:331` says
   "at-least-once is preserved". The segments stay readable from the tail and are
   indexed when the next notification comes.
4. *A kill inside the write of `index.json`* (`internal/cache/nvme.go:119`, run MCNvmeTorn).
   `persist` truncates the file before it writes it. Killed in between, the process does
   not start again on this directory: `load` returns the parse error. The comment at
   `internal/cache/nvme.go:138` expects "a stale index after a crash, which load
   tolerates". A full disk has the same effect at the next restart.

## Proofs

Every theorem holds for any value of the constants that the named assumptions of
its module admit: any number of writers, callers, builders, readers, workers,
namespaces or keys, and bounds of any size. Each inductive invariant was checked by
TLC on the instance of its module's run (that of `VectorEpoch` with a history variable
for the documents of the last build) before it was proved. A hypothesis beyond
the module's assumptions is listed, and justified below the table.

| Module | Theorem | Property | Hypothesis |
|---|---|---|---|
| `WalCommitProofs` | `TypeCorrect`, `NoMissingSegment`, `Durability` | `TypeOK`, `SegmentsExist`, `AckedIsVisible` | – |
| | `NoLostUpdate`, `Refinement` | `EveryUpdateIsCounted`, `ImplementsDurableLog` | – |
| | `NoStarvation` | `RetriesSuffice` | finitely many writers |
| `CommitterProofs` | `TypeCorrect`, `NoPanic`, `ShutdownDrains`, `OwnOrder`, `SegmentsBounded`, `Contract` | `TypeOK`, `NoSendOnClosed`, `CloseDrains`, `OrderKept`, `BatchBounded`, `ImplementsDurableLog` | – |
| `IndexBuildProofs` | `TypeCorrect` | `TypeOK` | – |
| | `CacheStaysFresh`, `PublishedStays`, `IndexAdvances` | `CacheNeverStale`, `PublishedObjectsImmutable`, `IndexNeverRegresses` | one builder |
| | `EpochIsWhole`, `AnswersAreExact`, `Linearizable` | `LiveEpochWhole`, `QueryAnswersSnapshot`, `ImplementsSnapshotReads` | one builder |
| `JobQueueProofs` | `TypeCorrect`, `OneJob`, `OneBuilder`, `OnlyBuiltJobsLeave`, `Acknowledged`, `NothingOverwritten` | `TypeOK`, `OneJobPerNamespace`, `BuildersExclusive`, `RemovedWhenBuilt`, `AckMeansQueued`, `QueuedIsKept` | – |
| `BranchProofs` | `TypeCorrect`, `ViewComplete`, `PinnedEpochFits` | `TypeOK`, `ViewIsLogicalWAL`, `InheritedEpochFits` | – |
| | `Isolated` | `QueryIsIsolated` | `ForkUnindexed = FALSE` |
| `NvmeCacheProofs` | `TypeCorrect`, `Synchronised`, `StaysWarm`, `Bounded`, `NeverTorn` | `TypeOK`, `RingConsistent`, `WarmRestart`, `TiersBounded`, `BodyIsWhole` | – |
| `VectorEpochProofs` | `EpochPartitioned`, `PartialSound`, `PlanSound`, `FusionSound` | `EpochPartitions`, `PartialAnswersSound`, `PlanLosesNothing`, `FusionRespectsLegs` | – |
| | `AnswersCorrect` | `AnswersExact` | `TreeLeafCapacity = 1` |
| | `TextExact`, `FilteredExact`, `CompileExact`, `EpochInvariant`, `SnapshotInvariant` | (the parts of `AnswersExact` that need no hypothesis, filters, and the invariants) | – |

**The hypotheses are necessary.** With two builders an epoch mixes two snapshots:
MCIndexBuildRace violates `QueryAnswersSnapshot`. That a namespace has one builder
is what `JobQueueProofs!OneBuilder` establishes for workers whose heartbeats arrive
in time. With `ForkUnindexed` MCBranchFork violates `QueryIsIsolated`;
the other three theorems about branches hold for either value. Infinitely many
writers could leave more orphans than any number of attempts climbs over. A leaf of the
centroid tree routes to the lowest of its clusters only, so with a
`TreeLeafCapacity` above the code's 1 the others are out of a probe's reach; that no
query fails holds for every capacity (lemma `SomeAnswer`).

**WalCommit.** `SegmentsExist` is not inductive: a swap sets `WALSeq` to `seq[w] + 1`,
and nothing in the stored state says that the slots below `seq[w]` are taken. The writer
knows it from its own past: its hint was vouched for by a manifest, and it climbed from
there by one 412 per slot. `Climbed` says so, `Owned` that the slot the writer commits
holds its own batch, `InCall` that whoever is inside `Upsert` is in a call; their
conjunction with the properties is inductive, one lemma per conjunct. For the refinement
`RInv` adds `Known` (nothing is stored before it is submitted), `Settled` and `Once`.
`Settled` is what keeps the contract when appends are resent: all copies of a batch lie
below the slot at which its writer stands, so the swap that acknowledges the batch makes
every one of them visible. `Once` says that until the first resend there is one copy at
most. A swap maps to an append of the segments between the old and the new `WALSeq`,
orphans included; `Begin` maps to a submission; all else stutters. The count is compared
with one that every batch changes once, until the first resend (`Counted`): a call in
progress has not landed, so its `mutate` counts it once. `NoStarvation` counts what
stood in a call's way: `Landings` and `Attempts` say that every slot it climbed over
holds the batch of another call, and that every swap it lost made way for one that
landed, no call being charged twice. The calls ever made bound both, again until the
first resend: then a writer can climb over its own segment.

**Committer.** Four layers: `Base` (as many read locks as pending sends, none once
the inbox is closed; whoever waits is in the batch or answered), `OrderInv` (the
calls of a caller in the log, then in the batch, ascending, with what a resend repeats
repeated as a whole), `AckInv` (who is told
nil is in the log) and `CapInv` (`ops` counts the documents of the batch). The log
is the segments flattened, and the batch's documents are a sum: both are recursive
definitions, about which the library's induction theorems cannot be used, since
they take an operator as a parameter. `DataInduction` derives what is needed from
the existence of a least element in every non-empty *set* of naturals.

**IndexBuild.** `CoreInv`: a build writes only the epoch after the live one, so what a
manifest has shown never changes. `StoreContent`: the next build of an epoch number
overwrites what a failed one left there, hence a published epoch is whole, but for the
vector index when the next build has none to write; `Leftovers` says what can then be
there. `QueryInv`:
a reader's epoch is as whole as when it was live, and what the reader has not read
although it is past it is not there; `Accounted` says so for every plan of a filtered
query. `RefineInv`: every answer is the fold of the log at the moment of
the manifest read, which is the refinement.

**JobQueue.** `Shape` says where each agent is in its protocol. `CopyInv` is why
read-modify-conditional-write works: as long as the ETag of an agent names the
stored queue, the copy it is about to write is what its closure makes of that
queue. With it `OwnInv` follows swap by swap: a worker in time owns a job that
nobody else may take. For the answers, `Remembered` says that whatever the stored queue
covers is in the history variable `queued`; a closure that changes nothing, and so is
answered without a write, has seen the position in a queue that was stored.

**Branch.** A walk reads one manifest after another while all of them move on. `Grows`
says what moving on can be: segments and epochs are written once, a logical WAL only
gets longer, and where a namespace was forked never changes. Whatever a walk has
learnt (`Kin`: this was a manifest of that namespace, perhaps clamped; `Past`: as it
was, with the epoch it names) is stable under `Grows`, and `Walked` says that what
it has collected is the logical WAL above the head it has come to. A query's answer
is then the fold of a prefix patched by a tail, which is the fold of the whole
(`LiveJoins`).

**NvmeCache.** The properties speak of the ring outside its mutex. What makes them true
is said of every moment: `Held` is what each slot counts for in the middle of a put,
when the slot under the cursor has been given up and not yet claimed again, and
`byKey` is always the inverse of that. The rest follows the put from the file to
`index.json`, for files (`FileInv`), kills (`KilledInv`) and bodies (`WholeInv`).
`WarmRestart` compares the ring after a restart with the one at the kill (`held`):
`WarmInv` says where `index.json` may differ from the ring while a put is under way, and
that it is cut short only at `indexWrite` or on a full disk.

**VectorEpoch.** Two inductive invariants. `IInv`: the clusters of the live epoch share out
some ids, none is empty, and but for what the tail mentions these are the documents that
have a vector, each member as it is now. Its proof goes up the calls of a build: k-means
puts every point into one cluster and reseeds the empty ones; refreshing drops the ids
that are gone, insertion adds one, a split or a merge moves the members of one posting,
a reassignment moves many at once; each takes a partition to a partition, and a fold of
such steps keeps what each of them keeps (`FoldTable` of `DataInduction`). `SnapshotInv`
adds the other indexes: all objects of the epoch are those of a build over *one* set of
documents, which agrees with the present one on every id outside the tail.

What queries answer follows from these two, state by state. *Partial answers:* an answer
is the beginning of the live candidates in the order of their distance, and the fresh
ones are among these, so its n-th is no farther than the n-th of the fresh ones
(`RankAgainst`). *Text:* the postings of a document give the score that its text gives.
*Filters:* bitmaps, in whichever container, stand for sets of ordinals; by induction on
the parts of a filter one that compiles gives what `Filter.Match` accepts
(`CompileExact`), so a plan wants every match. *Fusion:* with exact fractions a better
rank in both legs is a larger sum. *Tree:* the nodes of a level share out the
clusters, every level has smaller buckets, so the descent ends; a beam as wide as the
index cuts none (`DescendIs`, `ProbeIs`), so a full probe fetches every cluster.

**Only model-checked.** Liveness, since fairness is outside this prover's reach:
`CallsReturn`, `WaitingIsIndexed`, `RequestsAnswered`. Every other property of a passing
run is stated by a theorem. The type invariants of `Committer` and `IndexBuild` are
theorems that no run checks.

## Abstractions and assumptions

- *Store.* A manifest is identified with its ETag (every swap raises `Version`).
  The queue's ETag is the set `fresh` of agents whose last read is still stored.
  `Committer` writes `closed` for the negation of `accepting`: both change under
  the same lock.
- *Write path.* A batch is the pair of writer and call; of its documents only
  `liveDelta` is kept. `validateDocs` decides whether a call starts.
- *IndexBuild.* One operation per segment, one cluster that every vector query
  probes, answers that hold every hit. The cache is the memory tier of a node, with
  any victim (`NvmeCache` has the tiers and the LRU order). A request that fails tells the
  client nothing and may fail at any read. A node restarts when the requests it was
  serving have ended, since they fail with it. The
  filter of a filtered vector query matches every document with a vector; whether its
  plan is filter-first, search-first or none is left open. Filtered text and hybrid
  queries are not made: they read the same objects, and their filter is applied to
  what was read.
- *JobQueue.* Time is only the set of jobs that have not been stamped for longer
  than the timeout; clocks of enqueuers agree. A heartbeat cancelled at the end of
  a build has reached the store by then or never does; a worker has one heartbeat
  in flight. A put of an agent that crashes has arrived by then or never does. The
  queue object exists (every agent calls `EnsureQueue`). The namespace's
  threshold is the same for all notifiers.
- *Branch.* An `Upsert` and the publish of an epoch are single steps; builds of one
  namespace do not overlap. The limit of 64 ancestors is above the bound. A query
  does not fail here: the 404 rules of the reads are in `IndexBuild`.
- *NvmeCache.* A body is whole or torn; files are named by key (the code hashes it).
  `TPUF_NVME_DIR` belongs to one process. Hit counters are left out.
- *VectorEpoch.* Positions are exact multiples of `Scale` on a line, with Euclidean
  distance; means are exact for the sizes that occur. The RaBitQ prefilter keeps
  *some* shortlist of its size, a superset of what any estimate would choose.
  Scores of text are in fixed point, each term's share rounded down in both ways of
  scoring, which is what lets postings and texts be compared for equality; the idf
  is a table of the logarithm. `Bm25Assumption` takes the unit to be so fine that no
  share of a term that occurs is rounded to 0, as none is in a float64. Ids are
  numbers, so ties sort by number; there are finitely many. Filters are finite trees
  (`FilterAssumption`). Sorting is by place (`Ordering`): the orders of the code
  tell all elements apart, but for inner nodes of the tree at equal distance, which
  keep their order where `sort.Slice` promises none. A query is the set of answers
  it may give, and one that fetches a cluster the epoch does not have gives none;
  that every query has an answer is part of `AnswersExact`.
  Sequences count from 1. Publication is one step (`IndexBuild` has the rest).
  `AnswersExact` asks for all clusters and an uncut shortlist; a partial probe or
  a cut shortlist is an approximation by design, and there `PlanLosesNothing`
  compares the planned with the unplanned answer.

## Observations without a run

Places where the modelled code does less than a reader may expect. Most are kept
out of a property by a named restriction of the model.

- A resend of a put-if-absent that had taken effect answers 412; the writer takes
  it for a competitor's slot, probes on and stores the batch twice
  (`namespace.go:120`). A resend of a swap that had taken effect applies the
  change of `DocCount` twice. Upserts are idempotent per document, the count is not.
  `ImplementsDurableLog` and `OrderKept` say what still holds.
- Orphan segments of dead writers fill the probe window: 64 in a row above
  `WALSeq` make every `Upsert` fail (`namespace.go:128`). `RetriesSuffice` states
  the condition under which this cannot happen.
- The comment at `namespace.go:75` says that a 412 reloads the manifest; the code
  probes the next slot.
- A batch can exceed `maxBatchDocs` by all but one document of one call
  (`commit.go:205`; `BatchBounded` is the bound that does hold).
- A slower builder overwrites objects of an epoch that is already published
  (`indexer.go:833`); this is the other half of the first finding.
- `writeEngineError` answers 404 "namespace not found" for any error that wraps a
  404 of the store (`cmd/tpuf-node/main.go:178`), also one for an epoch object that
  is missing; with whole epochs that does not happen, which is part of
  `ImplementsSnapshotReads`.
- A node that is sent a vector and a text ranks by the vector and ignores the text
  (`cmd/tpuf-node/main.go:140`); hybrid queries exist on the command line only.
- A 409 of a conditional put is not mapped to `ErrPreconditionFailed`
  (`internal/storage/s3.go`), so a writer or builder that meets one ends with an
  error instead of retrying. In the models that is `Abandon` or `BuildFail`.
- A failed build leaves a vector index behind; when the next build of that epoch
  number finds no document with a vector, it writes none (`indexer.go:220`) and the
  leftover is published with the epoch, whose vector queries then return deleted or
  replaced versions, or end with 404 when a filter's plan or a missing cluster sends
  them astray. The comments at `indexer.go:197` ("the namespace simply has no vector index
  for this epoch") and `query.go:451`, and `docs/spfresh-lire/02-implementation-in-tpuf.md:263`
  take the prefix of an unpublished epoch to be fresh. One builder suffices. The properties of
  MCIndexBuild name the case (`Haunted`) and bound what it can do.
- A branch of a branch that has no epoch of its own starts with the parent's
  `IndexedUpTo` and `ForkIndexEpoch = 0` (`branch.go:85`, `branch.go:94`): until
  the parent builds, its walk finds an epoch further up; afterwards it finds one
  that covers more. It is the second finding in another form.
- After a kill inside the write of a slot file, the file is torn and `index.json` may
  still name it; `get` does not validate what it reads, although the comment on `persist`
  (`internal/cache/nvme.go:138`) says so of `load`. Slot files that no index names are never
  removed, among them those of a ring with another capacity. `BodyIsWhole` and the file
  bound of `TiersBounded` are stated for the time before a kill. (That a torn `index.json`
  stops the start is finding 4.)
- `HeartbeatJob` may report ownership from the attempt before the one that was
  stored (`queue.go:307`).
- `reassignTopN` is never set, so the scan for the second reassignment condition
  is empty and an epoch need not satisfy the nearest-centroid property the
  comments at `lire.go:53` claim; answers are unaffected when all clusters are
  probed. A merge that follows the splits of a build can exceed the cap, with no
  later split pass in that build.
- `treeLeafCapacity` is 1, so a tree is built for two clusters or more, although
  the comment says `BuildTree` returns nil at this scale.
- `valueKey` and `equalValues` differ on -0: `Filter.Match` takes it to equal 0 and the bitmap
  key does not, so a match can be lost. The workload has no -0.
- With a cut shortlist a planned query may return *more* than an unplanned one:
  results are then not "identical with or without the bitmaps", as `query.go` says.

## Not modelled

The benchmark and its terminal display (it drives the modelled operations and keeps
only timings). Of the object store: the S3 client, HTTP, `List` and the in-memory
backend as such; their conditional puts and their failures are in the
requests of every module that makes them, and nothing in the engine depends on
`List`. Of the vector index and the bitmaps: cosine distance, float32 rounding, the
RaBitQ codes and the byte formats (numerics and encodings out of TLC's reach). Of
the read cache: its statistics, and two processes that share one directory. Option
parsing, the wording of errors, and logs.

## Plan

Built so far, in this order: `DurableLog` and `WalCommit`; `Committer`; `IndexBuild`;
`JobQueue`; `Branch`; `NvmeCache`; the contents of epochs (`Clustering`, `Lire`,
`CentroidTree`, `Bitmap`, `AttributeIndex`, `Bm25`, `VectorEpoch`); the readers'
contract `SnapshotReads`, with query nodes and commands in `IndexBuild`; then the
proofs about all of these, those about the contents of epochs last.

What is left:

1. State and prove `Branch` as an implementation of `SnapshotReads` without its
   restriction, once the second finding is settled.
2. A workload with -0 for `VectorEpoch`, once the two notions of equality agree.
3. The three liveness properties for every value of the constants, with a prover
   that has rules for fairness.
