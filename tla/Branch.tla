------------------------------- MODULE Branch -------------------------------
(***************************************************************************)
(* Copy-on-write branches (internal/engine/branch.go): a branch is a       *)
(* manifest that points into its parent's WAL and index.  Readers and      *)
(* builders first walk the chain of parents, one manifest read at a time,  *)
(* while every namespace of the chain goes on being written, indexed and   *)
(* forked.                                                                 *)
(*                                                                         *)
(* An Upsert is one step here (see WalCommit) and so is the publish of an  *)
(* epoch with its objects; no two builds of one namespace overlap (see     *)
(* IndexBuild for what happens when they do).  A segment holds one         *)
(* operation, the upsert or the deletion of a document.  A version of a    *)
(* document is named by the segment that wrote it, <<namespace, seq>>, and *)
(* an epoch is the set of the versions live when it was built.             *)
(***************************************************************************)
EXTENDS Integers, Sequences, FiniteSets

CONSTANTS
  Names,          \* names of namespaces
  Roots,          \* those that are created, besides being forked
  NoName,         \* the empty Parent field
  Ids,            \* names of documents
  Forkers,        \* callers of BranchFrom
  Readers,        \* queries that may be in progress at once
  Builders,       \* builds that may be in progress at once
  ForkUnindexed,  \* may a namespace without an epoch of its own be forked?
  MaxSegments,    \* bound of the model: segments of all namespaces together
  MaxEpochs       \* bound of the model: epochs of all namespaces together

ASSUME NamesAssumption == /\ Roots \subseteq Names /\ NoName \notin Names
                          /\ Readers \cap Builders = {}
ASSUME BoundsAssumption == MaxSegments \in Nat /\ MaxEpochs \in Nat
ASSUME ForkUnindexedAssumption == ForkUnindexed \in BOOLEAN

VARIABLES
  man,     \* the manifest of each namespace
  wal,     \* the operation in each segment <<namespace, seq>>
  index,   \* the versions in each epoch <<namespace, epoch>>
  fork,    \* the BranchFrom each forker is in
  task,    \* the query or build in progress
  truth    \* history: the segments of each namespace's logical WAL, in order

vars == <<man, wal, index, fork, task, truth>>

Tasks == Readers \cup Builders
Op == [id : Ids, deleted : BOOLEAN]

\* ErrNotFound: no manifest.  Of Version only this is kept, 0 or not.
Absent == [Version |-> 0, WALSeq |-> 0, IndexedUpTo |-> 0, IndexEpoch |-> 0,
           Parent |-> NoName, ForkWALSeq |-> 0, ForkIndexEpoch |-> 0]
IsBranch(m) == m.Parent # NoName

NoFork == [parent |-> NoName, child |-> NoName, pm |-> Absent]
NoTask == [at |-> "end", ns |-> NoName, m |-> Absent,
           cur |-> NoName, curM |-> Absent, sources |-> <<>>, ix |-> <<NoName, 0>>]

Init ==
  /\ man = [n \in Names |-> Absent]
  /\ wal = [v \in {} |-> 0]
  /\ index = [e \in {} |-> {}]
  /\ fork = [f \in Forkers |-> NoFork]
  /\ task = [t \in Tasks |-> NoTask]
  /\ truth = [n \in Names |-> <<>>]

Put(f, x, y) == [z \in DOMAIN f \cup {x} |-> IF z = x THEN y ELSE f[z]]
Smaller(a, b) == IF a < b THEN a ELSE b
Larger(a, b)  == IF a > b THEN a ELSE b
-----------------------------------------------------------------------------
\* CreateManifest.
Create(n) ==
  /\ man[n] = Absent
  /\ man' = [man EXCEPT ![n].Version = 1]
  /\ UNCHANGED <<wal, index, fork, task, truth>>

\* A committed Upsert: the branch's own segments continue the parent's seqs.
Upsert(n) ==
  LET s == man[n].WALSeq IN
  /\ man[n] # Absent
  /\ Cardinality(DOMAIN wal) < MaxSegments
  /\ \E op \in Op : wal' = Put(wal, <<n, s>>, op)
  /\ man' = [man EXCEPT ![n].WALSeq = s + 1]
  /\ truth' = [truth EXCEPT ![n] = Append(@, <<n, s>>)]
  /\ UNCHANGED <<index, fork, task>>

\* BranchFrom reads the parent's manifest.
ForkLoad(f, parent, child) ==
  /\ fork[f] = NoFork
  /\ parent # child
  /\ man[parent] # Absent
  /\ ForkUnindexed \/ man[parent].IndexEpoch > 0
  /\ fork' = [fork EXCEPT ![f] = [parent |-> parent, child |-> child,
                                  pm |-> man[parent]]]
  /\ UNCHANGED <<man, wal, index, task, truth>>

\* Mutants of ChildManifest: it is the parent's with a new Version; it counts
\* the whole inherited WAL as indexed.
ChildManifestCopied(parent, pm) ==
  [pm EXCEPT !.Version = @ + 1, !.Parent = parent, !.ForkWALSeq = pm.WALSeq,
             !.ForkIndexEpoch = pm.IndexEpoch]

ChildManifestAllIndexed(parent, pm) ==
  [Version |-> 1, WALSeq |-> pm.WALSeq, IndexedUpTo |-> pm.WALSeq,
   IndexEpoch |-> 0, Parent |-> parent, ForkWALSeq |-> pm.WALSeq,
   ForkIndexEpoch |-> pm.IndexEpoch]

ChildManifest(parent, pm) ==
  [Version |-> 1, WALSeq |-> pm.WALSeq, IndexedUpTo |-> pm.IndexedUpTo,
   IndexEpoch |-> 0, Parent |-> parent, ForkWALSeq |-> pm.WALSeq,
   ForkIndexEpoch |-> pm.IndexEpoch]

\* BranchFrom writes the child's manifest if there is none.
ForkStore(f) ==
  LET c == fork[f] IN
  /\ c # NoFork
  /\ \/ /\ man[c.child] = Absent
        /\ man' = [man EXCEPT ![c.child] = ChildManifest(c.parent, c.pm)]
        /\ truth' = [truth EXCEPT ![c.child] = SubSeq(truth[c.parent], 1, c.pm.WALSeq)]
     \/ /\ man[c.child] # Absent
        /\ UNCHANGED <<man, truth>>
  /\ fork' = [fork EXCEPT ![f] = NoFork]
  /\ UNCHANGED <<wal, index, task>>
-----------------------------------------------------------------------------
\* A query or a build reads the manifest of n and sets out from it.
Start(t, n) ==
  /\ task[t] = NoTask
  /\ man[n] # Absent
  /\ t \in Builders => /\ Cardinality(DOMAIN index) < MaxEpochs
                       /\ \A b \in Builders : task[b].ns # n
  /\ task' = [task EXCEPT ![t] = [NoTask EXCEPT !.at = "sources",
                                    !.ns = n, !.m = man[n], !.cur = n, !.curM = man[n]]]
  /\ UNCHANGED <<man, wal, index, fork, truth>>

\* resolveReadView takes the current namespace's own run, then goes on to the
\* parent, whose head it clamps to the fork point.
Own(ns, m) ==
  LET from == IF IsBranch(m) THEN m.ForkWALSeq ELSE 0
  IN  IF m.WALSeq > from THEN <<[ns |-> ns, from |-> from, to |-> m.WALSeq]>>
                         ELSE <<>>

\* Mutant: the parent's head is not clamped.
Unclamped(pm, m) == pm

Clamped(pm, m) == [pm EXCEPT !.WALSeq = Smaller(@, m.ForkWALSeq)]

ResolveSources(t) ==
  LET k == task[t]
      pm == man[k.curM.Parent]
      here == [k EXCEPT !.sources = Own(k.cur, k.curM) \o @]
  IN /\ k.at = "sources"
     /\ task' = [task EXCEPT ![t] =
          IF IsBranch(k.curM)
          THEN [here EXCEPT !.cur = k.curM.Parent,
                               !.curM = Clamped(pm, k.curM)]
          ELSE [here EXCEPT !.at = "index", !.cur = k.ns, !.curM = k.m]]
     /\ UNCHANGED <<man, wal, index, fork, truth>>

\* resolveIndex: the own epoch, else the one frozen at the fork, else walk up.
ResolveIndex(t) ==
  LET k == task[t] IN
  /\ k.at = "index"
  /\ task' = [task EXCEPT ![t] =
       IF k.curM.IndexEpoch > 0 \/ ~IsBranch(k.curM)
       THEN [k EXCEPT !.at = "read", !.ix = <<k.cur, k.curM.IndexEpoch>>]
       ELSE IF k.curM.ForkIndexEpoch > 0
       THEN [k EXCEPT !.at = "read", !.ix = <<k.curM.Parent, k.curM.ForkIndexEpoch>>]
       ELSE [k EXCEPT !.cur = k.curM.Parent, !.curM = man[k.curM.Parent]]]
  /\ UNCHANGED <<man, wal, index, fork, truth>>
-----------------------------------------------------------------------------
\* MaterializeView: the versions that survive a fold of [from, to), and the ids
\* it mentions.  Segments and epochs are immutable, so when they are read within
\* a query or build makes no difference.
Segments(sources, from, to) ==
  UNION {{<<src.ns, s>> : s \in Larger(from, src.from)..Smaller(to, src.to) - 1} :
           src \in {sources[i] : i \in DOMAIN sources}}

Live(S) ==
  {v \in S : ~wal[v].deleted /\ \A u \in S : wal[u].id = wal[v].id => u[2] <= v[2]}

Mentioned(S) == {wal[v].id : v \in S}

\* The answer of a query that asks for every document.
Answer(t) ==
  LET k == task[t]
      tail == Segments(k.sources, k.m.IndexedUpTo, k.m.WALSeq)
      indexed == IF k.ix[2] = 0 THEN {} ELSE index[k.ix]
  IN  {v \in indexed : wal[v].id \notin Mentioned(tail)} \cup Live(tail)

QueryEnd(t) ==
  /\ task[t].at = "read"
  /\ task' = [task EXCEPT ![t] = NoTask]
  /\ UNCHANGED <<man, wal, index, fork, truth>>

\* Mutant of Coverage: it is read when the epoch is published.
CoverageLate(k) == man[k.ns].WALSeq

\* What the published epoch covers: the snapshot the build started from.
Coverage(k) == k.m.WALSeq

\* BuildIndex flattens the view into an epoch of the namespace's own.
Publish(t) ==
  LET k == task[t]
      e == k.m.IndexEpoch + 1
  IN /\ k.at = "read"
     /\ index' = Put(index, <<k.ns, e>>, Live(Segments(k.sources, 0, k.m.WALSeq)))
     /\ man' = [man EXCEPT ![k.ns].IndexEpoch = e,
                           ![k.ns].IndexedUpTo = Coverage(k)]
     /\ task' = [task EXCEPT ![t] = NoTask]
     /\ UNCHANGED <<wal, fork, truth>>

Next ==
  \/ \E n \in Roots : Create(n)
  \/ \E n \in Names : Upsert(n)
  \/ \E f \in Forkers : \/ \E p, c \in Names : ForkLoad(f, p, c)
                        \/ ForkStore(f)
  \/ \E t \in Tasks : \/ \E n \in Names : Start(t, n)
                      \/ ResolveSources(t) \/ ResolveIndex(t)
  \/ \E t \in Readers : QueryEnd(t)
  \/ \E t \in Builders : Publish(t)

Spec == Init /\ [][Next]_vars
-----------------------------------------------------------------------------
(***************************************************************************)
(* Properties.                                                             *)
(***************************************************************************)
Name == Names \cup {NoName}
Manifest == [Version : {0, 1}, WALSeq : Nat, IndexedUpTo : Nat, IndexEpoch : Nat,
             Parent : Name, ForkWALSeq : Nat, ForkIndexEpoch : Nat]

Source == [ns : Names, from : Nat, to : Nat]
Fork == [parent : Name, child : Name, pm : Manifest]
Task == [at : {"end", "sources", "index", "read"}, ns : Name, m : Manifest,
         cur : Name, curM : Manifest, sources : Seq(Source), ix : Name \X Nat]

\* The types of the variables.
TypeOK ==
  /\ man \in [Names -> Manifest]
  /\ DOMAIN wal \subseteq Names \X Nat /\ wal \in [DOMAIN wal -> Op]
  /\ DOMAIN index \subseteq Names \X Nat /\ index \in [DOMAIN index -> SUBSET DOMAIN wal]
  /\ fork \in [Forkers -> Fork]
  /\ task \in [Tasks -> Task]
  /\ truth \in [Names -> Seq(DOMAIN wal)]

(***************************************************************************)
(* resolveReadView: the runs it returns are exactly the logical WAL        *)
(* [0, WALSeq) of the manifest it started from, the parents' segments up   *)
(* to each fork point and none they wrote later, every one of them stored. *)
(***************************************************************************)
ViewIsLogicalWAL ==
  \A t \in Tasks : task[t].at \in {"index", "read"} =>
     LET k == task[t]
         S == Segments(k.sources, 0, k.m.WALSeq)
     IN  /\ S = {truth[k.ns][i] : i \in 1..k.m.WALSeq}
         /\ S \subseteq DOMAIN wal
         /\ Cardinality(S) = k.m.WALSeq

Expected(t) ==
  Live({truth[task[t].ns][i] : i \in 1..task[t].m.WALSeq})

(***************************************************************************)
(* resolveReadView: "a branch is a point-in-time fork and must not see     *)
(* writes the parent made after the fork"; nor does a parent see those of  *)
(* its branches, and nobody misses or keeps what the logical WAL does not. *)
(***************************************************************************)
QueryIsIsolated ==
  \A t \in Readers : task[t].at = "read" =>
     Answer(t) = Expected(t)

(***************************************************************************)
(* The pin of a branch on its parent: an epoch it reads by reference       *)
(* exists and holds the fold of the branch's own logical WAL up to its     *)
(* IndexedUpTo, long after the parent has moved on.                        *)
(***************************************************************************)
InheritedEpochFits ==
  \A n \in Names :
    LET m == man[n]
        e == IF m.IndexEpoch > 0 THEN <<n, m.IndexEpoch>>
                                 ELSE <<m.Parent, m.ForkIndexEpoch>>
    IN  e[2] > 0 =>
          /\ e \in DOMAIN index
          /\ index[e] = Live({truth[n][i] : i \in 1..m.IndexedUpTo})
=============================================================================
