---------------------------- MODULE BranchProofs ----------------------------
(***************************************************************************)
(* Branches, for any number of namespaces, chains of any depth, and any    *)
(* number of documents, segments, epochs, forks, queries and builds.       *)
(*                                                                         *)
(* A walk along the chain of parents reads one manifest after another,     *)
(* while all of them move on.  "Grows" says what moving on can be:         *)
(* segments and epochs are written once, the logical WAL of a namespace    *)
(* only gets longer, and the fields that say where it was forked never     *)
(* change.  Whatever a walk has learnt ("Kin", "Past") is stable under     *)
(* that, and so is the part of the view it has collected.                  *)
(***************************************************************************)
EXTENDS Branch, DataInduction, FiniteSetTheorems, FunctionTheorems

\* The segments of n's logical WAL with sequence numbers in [a, b).
Stretch(n, a, b) == {truth[n][i] : i \in a + 1..b}

\* The segments of a list of runs.
Runs(sources) ==
  UNION {{<<src.ns, s>> : s \in src.from..src.to - 1} : src \in {sources[i] : i \in DOMAIN sources}}

\* The epoch that a manifest m of n names, its own or a parent's, holds the
\* fold of n's logical WAL up to IndexedUpTo.
Fits(n, m) ==
  LET e == IF m.IndexEpoch > 0 THEN <<n, m.IndexEpoch>> ELSE <<m.Parent, m.ForkIndexEpoch>>
  IN  e[2] > 0 => e \in DOMAIN index /\ index[e] = Live(Stretch(n, 0, m.IndexedUpTo))

\* m is a manifest of n from now or earlier, perhaps with its head clamped.
Kin(n, m) ==
  /\ n \in Names /\ man[n].Version = 1
  /\ m \in Manifest /\ m.Version = 1
  /\ m.Parent = man[n].Parent /\ m.ForkWALSeq = man[n].ForkWALSeq
  /\ m.ForkIndexEpoch = man[n].ForkIndexEpoch
  /\ m.ForkWALSeq <= m.WALSeq /\ m.WALSeq <= man[n].WALSeq

\* m is a manifest of n from now or earlier, as it was.
Past(n, m) ==
  /\ Kin(n, m)
  /\ m.IndexedUpTo <= m.WALSeq /\ m.IndexEpoch <= man[n].IndexEpoch
  /\ m.IndexEpoch = 0 /\ ~IsBranch(m) => m.IndexedUpTo = 0
  /\ Fits(n, m)

\* The manifest of n, and the chain: up to the fork its logical WAL is the
\* parent's, from there it is its own, and forks further up came earlier.
Rooted(n) ==
  LET m == man[n] IN ~IsBranch(m) => m.ForkWALSeq = 0 /\ m.ForkIndexEpoch = 0

Chained(n) ==
  LET m == man[n]
      p == man[n].Parent
  IN IsBranch(m) => /\ p \in Names /\ man[p].Version = 1
                    /\ m.ForkWALSeq <= man[p].WALSeq /\ man[p].ForkWALSeq <= m.ForkWALSeq
                    /\ \A i \in 1..m.ForkWALSeq : truth[n][i] = truth[p][i]
                    /\ ~ForkUnindexed => m.ForkIndexEpoch > 0

Logged(n) ==
  LET m == man[n]
  IN /\ Len(truth[n]) = m.WALSeq
     /\ \A i \in m.ForkWALSeq + 1..m.WALSeq : truth[n][i] = <<n, i - 1>>
     /\ \A i \in 1..m.WALSeq : truth[n][i][2] = i - 1

Kept(n) ==
  /\ man[n].Version = 0 => man[n] = Absent
  /\ \A m \in Manifest : man[n] = m /\ m.Version = 1 => Past(n, m)
  /\ Rooted(n) /\ Chained(n) /\ Logged(n)

ManInv == \A n \in Names : Kept(n)

\* No segment is above its namespace's head, no epoch above its manifest's.
StoreInv ==
  /\ \A v \in DOMAIN wal : v[2] < man[v[1]].WALSeq
  /\ \A e \in DOMAIN index : e[2] <= man[e[1]].IndexEpoch

\* A forker has a manifest of the parent as it once was.
ForkInv ==
  \A f \in Forkers : \A c \in Fork :
    fork[f] = c /\ c # NoFork =>
      /\ c.child \in Names
      /\ Past(c.parent, c.pm)
      /\ ~ForkUnindexed => c.pm.IndexEpoch > 0

\* The epoch a query should read.
Chosen(n, m) ==
  IF m.IndexEpoch > 0 THEN <<n, m.IndexEpoch>>
  ELSE IF IsBranch(m) THEN <<m.Parent, m.ForkIndexEpoch>> ELSE <<n, 0>>

\* A walk: what it has collected is the logical WAL above the head it has come
\* to, and below that head the namespace it has come to is the same.
Walked(k) ==
  /\ k.at = "end" => k = NoTask
  /\ k.at # "end" => Past(k.ns, k.m)
  /\ k.at = "sources" => /\ Kin(k.cur, k.curM)
                         /\ k.curM.WALSeq <= k.m.WALSeq
                         /\ \A i \in 1..k.curM.WALSeq : truth[k.ns][i] = truth[k.cur][i]
                         /\ Runs(k.sources) = Stretch(k.ns, k.curM.WALSeq, k.m.WALSeq)
  /\ k.at \in {"index", "read"} => Runs(k.sources) = Stretch(k.ns, 0, k.m.WALSeq)
  /\ k.at = "index" => Kin(k.cur, k.curM) /\ (~ForkUnindexed => k.cur = k.ns /\ k.curM = k.m)
  /\ k.at = "read" /\ ~ForkUnindexed => k.ix = Chosen(k.ns, k.m)

TaskInv == \A t \in Tasks : \A k \in Task : task[t] = k => Walked(k)

\* Builds of one namespace do not overlap, so each is on the live epoch.
BuildInv ==
  \A t \in Builders :
    task[t].at # "end" =>
      /\ task[t].m.IndexEpoch = man[task[t].ns].IndexEpoch
      /\ \A b \in Builders : task[b].ns = task[t].ns => b = t

Core == TypeOK /\ ManInv /\ StoreInv /\ ForkInv /\ TaskInv /\ BuildInv

USE NamesAssumption, BoundsAssumption, ForkUnindexedAssumption

\* The versions of S that survive when the segments hold what w says.
LiveIn(w, S) ==
  {v \in S : ~w[v].deleted /\ \A u \in S : w[u].id = w[v].id => u[2] <= v[2]}

-----------------------------------------------------------------------------
(***************************************************************************)
(* Types.                                                                  *)
(***************************************************************************)
\* The empty values are of their types.
LEMMA EmptyTypes ==
  /\ Absent \in Manifest /\ Absent.Version = 0 /\ Absent.WALSeq = 0 /\ ~IsBranch(Absent)
  /\ NoFork \in Fork /\ NoTask \in Task /\ NoTask.at = "end" /\ NoTask.ns = NoName
  /\ \A m \in Manifest : m.Version = 1 => m # Absent
  BY DEF Absent, Manifest, Name, IsBranch, NoFork, Fork, NoTask, Task, Source

\* The initial state has its types.
LEMMA TypeInit == Init => TypeOK
<1> SUFFICES ASSUME Init PROVE TypeOK
  OBVIOUS
<1>1. man \in [Names -> Manifest] /\ fork \in [Forkers -> Fork] /\ task \in [Tasks -> Task]
  BY EmptyTypes DEF Init
<1>2. DOMAIN wal = {} /\ DOMAIN index = {} /\ truth \in [Names -> Seq(DOMAIN wal)]
  BY DEF Init
<1>3. wal \in [DOMAIN wal -> Op] /\ index \in [DOMAIN index -> SUBSET DOMAIN wal]
  BY DEF Init
<1> QED BY <1>1, <1>2, <1>3 DEF TypeOK

\* Manifests that differ from a manifest in one field, and that of a child.
LEMMA ManifestTypes ==
  ASSUME NEW m \in Manifest, NEW s \in Nat, NEW p \in Names
  PROVE /\ [m EXCEPT !.Version = 1] \in Manifest
        /\ [m EXCEPT !.WALSeq = s] \in Manifest
        /\ ChildManifest(p, m) \in Manifest
        /\ ChildManifest(p, m).Version = 1 /\ ChildManifest(p, m).Parent = p
        /\ ChildManifest(p, m).WALSeq = m.WALSeq /\ ChildManifest(p, m).ForkWALSeq = m.WALSeq
        /\ ChildManifest(p, m).IndexedUpTo = m.IndexedUpTo
        /\ ChildManifest(p, m).IndexEpoch = 0
        /\ ChildManifest(p, m).ForkIndexEpoch = m.IndexEpoch
  BY DEF Manifest, ChildManifest, Name

\* The manifest of a new branch, without the parts that do not depend on it.
LEMMA ChildIs ==
  ASSUME NEW m \in Manifest, NEW p \in Names
  PROVE /\ ChildManifest(p, m).Version = 1 /\ ChildManifest(p, m).Parent = p
        /\ ChildManifest(p, m).WALSeq = m.WALSeq /\ ChildManifest(p, m).ForkWALSeq = m.WALSeq
        /\ ChildManifest(p, m).IndexedUpTo = m.IndexedUpTo
        /\ ChildManifest(p, m).IndexEpoch = 0
        /\ ChildManifest(p, m).ForkIndexEpoch = m.IndexEpoch
  BY DEF Manifest, ChildManifest, Name

\* The head of a parent, clamped to the fork.
LEMMA ClampedIs ==
  ASSUME NEW pm \in Manifest, NEW m \in Manifest
  PROVE /\ Clamped(pm, m) \in Manifest
        /\ Clamped(pm, m).WALSeq = Smaller(pm.WALSeq, m.ForkWALSeq)
        /\ Clamped(pm, m).Version = pm.Version /\ Clamped(pm, m).Parent = pm.Parent
        /\ Clamped(pm, m).ForkWALSeq = pm.ForkWALSeq
        /\ Clamped(pm, m).ForkIndexEpoch = pm.ForkIndexEpoch
<1>1. Smaller(pm.WALSeq, m.ForkWALSeq) \in Nat
  BY DEF Smaller, Manifest
<1> DEFINE w == Smaller(pm.WALSeq, m.ForkWALSeq)
<1>2. Clamped(pm, m) = [pm EXCEPT !.WALSeq = w]
  BY DEF Clamped
<1>3. w = Smaller(pm.WALSeq, m.ForkWALSeq)
  OBVIOUS
<1> HIDE DEF w
<1> QED BY <1>1, <1>2, <1>3 DEF Manifest

\* The members of a list of runs.
LEMMA RunsAre ==
  ASSUME NEW ss
  PROVE \A v : v \in Runs(ss) <=>
          \E i \in DOMAIN ss : \E s \in ss[i].from..ss[i].to - 1 : v = <<ss[i].ns, s>>
  BY DEF Runs

\* The runs of two lists, one after the other.
LEMMA RunsConcat ==
  ASSUME NEW a \in Seq(Source), NEW b \in Seq(Source)
  PROVE a \o b \in Seq(Source) /\ Runs(a \o b) = Runs(a) \cup Runs(b)
<1> DEFINE c == a \o b
<1>1. /\ c \in Seq(Source) /\ Len(c) = Len(a) + Len(b)
      /\ Len(a) \in Nat /\ Len(b) \in Nat
      /\ \A i \in 1..Len(a) : c[i] = a[i]
      /\ \A i \in 1..Len(b) : c[Len(a) + i] = b[i]
      /\ \A i \in 1..Len(a) + Len(b) : i \notin 1..Len(a) =>
            i - Len(a) \in 1..Len(b) /\ c[i] = b[i - Len(a)]
  BY ConcatParts
<1>2. DOMAIN a = 1..Len(a) /\ DOMAIN b = 1..Len(b) /\ DOMAIN c = 1..Len(a) + Len(b)
  BY <1>1
<1> HIDE DEF c
<1>3. ASSUME NEW v PROVE v \in Runs(c) <=> v \in Runs(a) \/ v \in Runs(b)
  <2>1. ASSUME v \in Runs(c) PROVE v \in Runs(a) \/ v \in Runs(b)
    <3>1. PICK i \in DOMAIN c : \E s \in c[i].from..c[i].to - 1 : v = <<c[i].ns, s>>
      BY <2>1, RunsAre
    <3>2. CASE i \in 1..Len(a)
      BY <1>1, <1>2, <3>1, <3>2, RunsAre
    <3>3. CASE i \notin 1..Len(a)
      <4>1. i - Len(a) \in DOMAIN b /\ c[i] = b[i - Len(a)]
        BY <1>1, <1>2, <3>1, <3>3
      <4> QED BY <3>1, <4>1, RunsAre
    <3> QED BY <3>2, <3>3
  <2>2. ASSUME v \in Runs(a) PROVE v \in Runs(c)
    <3>1. PICK i \in DOMAIN a : \E s \in a[i].from..a[i].to - 1 : v = <<a[i].ns, s>>
      BY <2>2, RunsAre
    <3>2. i \in DOMAIN c /\ c[i] = a[i]
      BY <1>1, <1>2
    <3> QED BY <3>1, <3>2, RunsAre
  <2>3. ASSUME v \in Runs(b) PROVE v \in Runs(c)
    <3>1. PICK i \in DOMAIN b : \E s \in b[i].from..b[i].to - 1 : v = <<b[i].ns, s>>
      BY <2>3, RunsAre
    <3>2. Len(a) + i \in DOMAIN c /\ c[Len(a) + i] = b[i]
      BY <1>1, <1>2
    <3> QED BY <3>1, <3>2, RunsAre
  <2> QED BY <2>1, <2>2, <2>3
<1> QED BY <1>1, <1>3 DEF c

\* The run of one namespace is a list of runs.
LEMMA OwnTypes ==
  ASSUME NEW n \in Names, NEW m \in Manifest
  PROVE /\ Own(n, m) \in Seq(Source)
        /\ IsBranch(m) => Runs(Own(n, m)) = {<<n, s>> : s \in m.ForkWALSeq..m.WALSeq - 1}
        /\ ~IsBranch(m) => Runs(Own(n, m)) = {<<n, s>> : s \in 0..m.WALSeq - 1}
<1> DEFINE from == IF IsBranch(m) THEN m.ForkWALSeq ELSE 0
           r == [ns |-> n, from |-> from, to |-> m.WALSeq]
<1>1. from \in Nat /\ m.WALSeq \in Nat /\ r \in Source
  BY DEF Manifest, Source
<1>2. Runs(Own(n, m)) = {<<n, s>> : s \in from..m.WALSeq - 1}
  <2>1. CASE m.WALSeq > from
    <3>1. Own(n, m) = <<r>>
      BY <2>1 DEF Own
    <3> HIDE DEF r
    <3>2. DOMAIN <<r>> = {1} /\ <<r>>[1] = r
      OBVIOUS
    <3>3. \A v : v \in Runs(<<r>>) <=> \E s \in r.from..r.to - 1 : v = <<r.ns, s>>
      BY <3>2, RunsAre
    <3>4. r.ns = n /\ r.from = from /\ r.to = m.WALSeq
      BY DEF r
    <3> QED BY <3>1, <3>3, <3>4
  <2>2. CASE ~(m.WALSeq > from)
    <3>1. Own(n, m) = <<>>
      BY <2>2 DEF Own
    <3>2. from..m.WALSeq - 1 = {}
      BY <1>1, <2>2
    <3> QED BY <3>1, <3>2, RunsAre
  <2> QED BY <2>1, <2>2
<1>3. Own(n, m) \in Seq(Source)
  BY <1>1 DEF Own
<1> QED BY <1>2, <1>3

\* What MaterializeView reads is the part of the runs between two numbers.
LEMMA SegmentsAre ==
  ASSUME NEW ss \in Seq(Source), NEW a \in Nat, NEW b \in Nat
  PROVE Segments(ss, a, b) = {v \in Runs(ss) : a <= v[2] /\ v[2] < b}
<1> DEFINE low(i) == Larger(a, ss[i].from)
           high(i) == Smaller(b, ss[i].to)
<1>1. \A v : v \in Segments(ss, a, b) <=>
        \E i \in DOMAIN ss : \E s \in low(i)..high(i) - 1 : v = <<ss[i].ns, s>>
  BY DEF Segments
<1>2. ASSUME NEW i \in DOMAIN ss, NEW s
      PROVE s \in low(i)..high(i) - 1 <=> s \in ss[i].from..ss[i].to - 1 /\ a <= s /\ s < b
  <2>1. ss[i].from \in Nat /\ ss[i].to \in Nat
    <3>1. ss[i] \in Source
      OBVIOUS
    <3> QED BY <3>1 DEF Source
  <2> QED BY <2>1 DEF Larger, Smaller
<1> HIDE DEF low, high
<1>3. ASSUME NEW v
      PROVE v \in Segments(ss, a, b) <=> v \in Runs(ss) /\ a <= v[2] /\ v[2] < b
  <2>1. ASSUME v \in Segments(ss, a, b) PROVE v \in Runs(ss) /\ a <= v[2] /\ v[2] < b
    <3>1. PICK i \in DOMAIN ss : \E s \in low(i)..high(i) - 1 : v = <<ss[i].ns, s>>
      BY <1>1, <2>1
    <3> QED BY <1>2, <3>1, RunsAre
  <2>2. ASSUME v \in Runs(ss), a <= v[2], v[2] < b PROVE v \in Segments(ss, a, b)
    <3>1. PICK i \in DOMAIN ss : \E s \in ss[i].from..ss[i].to - 1 : v = <<ss[i].ns, s>>
      BY <2>2, RunsAre
    <3> QED BY <1>1, <1>2, <2>2, <3>1
  <2> QED BY <2>1, <2>2
<1> QED BY <1>3

\* A stretch of the logical WAL below the head is stored, in the order of its numbers.
LEMMA StretchIs ==
  ASSUME TypeOK, NEW n \in Names, Logged(n), NEW a \in Nat, NEW b \in Nat, b <= man[n].WALSeq
  PROVE /\ \A i \in a + 1..b : truth[n][i] \in DOMAIN wal /\ truth[n][i][2] = i - 1
        /\ Stretch(n, a, b) \subseteq DOMAIN wal
<1>1. truth[n] \in Seq(DOMAIN wal) /\ man[n].WALSeq \in Nat /\ Len(truth[n]) = man[n].WALSeq
  BY DEF TypeOK, Logged, Manifest
<1>2. ASSUME NEW i \in a + 1..b PROVE truth[n][i] \in DOMAIN wal /\ truth[n][i][2] = i - 1
  <2>1. i \in 1..Len(truth[n])
    BY <1>1
  <2> QED BY <1>1, <2>1 DEF Logged
<1> QED BY <1>2 DEF Stretch

\* A walk that has ended has the whole view, and any tail of it.
LEMMA ViewIs ==
  ASSUME TypeOK, ManInv, NEW k \in Task, Walked(k), k.at \in {"index", "read"}, NEW a \in Nat
  PROVE /\ Segments(k.sources, a, k.m.WALSeq) = Stretch(k.ns, a, k.m.WALSeq)
        /\ Segments(k.sources, a, k.m.WALSeq) \subseteq DOMAIN wal
<1>1. /\ k.ns \in Names /\ k.m.WALSeq \in Nat /\ k.m.WALSeq <= man[k.ns].WALSeq
      /\ Logged(k.ns) /\ k.sources \in Seq(Source)
      /\ Runs(k.sources) = Stretch(k.ns, 0, k.m.WALSeq)
  BY DEF Walked, Past, Kin, ManInv, Kept, Manifest, Task
<1> DEFINE b == k.m.WALSeq
           n == k.ns
<1>2. \A i \in 1..b : truth[n][i] \in DOMAIN wal /\ truth[n][i][2] = i - 1
  BY <1>1, StretchIs
<1>3. Stretch(n, a, b) \subseteq DOMAIN wal
  BY <1>1, StretchIs
<1>4. Segments(k.sources, a, b) = {v \in Stretch(n, 0, b) : a <= v[2] /\ v[2] < b}
  BY <1>1, SegmentsAre
<1>5. \A v : v \in Stretch(n, a, b) <=> v \in Stretch(n, 0, b) /\ a <= v[2] /\ v[2] < b
  BY <1>1, <1>2 DEF Stretch
<1> QED BY <1>3, <1>4, <1>5

\* More segments only add to the sequences of segments.
LEMMA SeqGrows ==
  ASSUME NEW S, NEW T, S \subseteq T, NEW s \in Seq(S)
  PROVE s \in Seq(T) /\ \A x \in T : Append(s, x) \in Seq(T)
  OBVIOUS

\* A step that stores a segment, and what a task may become.
LEMMA WalTypes ==
  ASSUME TypeOK, NEW n \in Names, NEW s \in Nat, NEW op \in Op, wal' = Put(wal, <<n, s>>, op)
  PROVE /\ DOMAIN wal' = DOMAIN wal \cup {<<n, s>>} /\ DOMAIN wal' \subseteq Names \X Nat
        /\ wal' \in [DOMAIN wal' -> Op]
        /\ \A v \in DOMAIN wal : v # <<n, s>> => wal'[v] = wal[v]
  BY DEF TypeOK, Put

\* Starting, and every step of a walk, make tasks of tasks.
LEMMA TaskTypes ==
  ASSUME TypeOK, ManInv, TaskInv, NEW t \in Tasks,
         (\E n \in Names : Start(t, n)) \/ ResolveSources(t) \/ ResolveIndex(t)
  PROVE /\ task' \in [Tasks -> Task]
        /\ \A u \in Tasks : u # t => task'[u] = task[u]
<1>1. task \in [Tasks -> Task] /\ man \in [Names -> Manifest]
  BY DEF TypeOK
<1>2. \E k \in Task : task' = [task EXCEPT ![t] = k]
  <2>1. ASSUME NEW n \in Names, Start(t, n) PROVE \E k \in Task : task' = [task EXCEPT ![t] = k]
    <3> DEFINE k == [NoTask EXCEPT !.at = "sources", !.ns = n, !.m = man[n], !.cur = n, !.curM = man[n]]
    <3>1. k \in Task
      BY <1>1, EmptyTypes DEF Task, Name
    <3> HIDE DEF k
    <3>2. task' = [task EXCEPT ![t] = k]
      BY <2>1 DEF Start, k
    <3> QED BY <3>1, <3>2
  <2>2. CASE ResolveSources(t)
    <3> DEFINE k == task[t]
               pm == man[k.curM.Parent]
               ss == Own(k.cur, k.curM) \o k.sources
               here == [k EXCEPT !.sources = ss]
               next == IF IsBranch(k.curM)
                       THEN [here EXCEPT !.cur = k.curM.Parent, !.curM = Clamped(pm, k.curM)]
                       ELSE [here EXCEPT !.at = "index", !.cur = k.ns, !.curM = k.m]
    <3>1. k \in Task /\ k.at = "sources" /\ Kin(k.cur, k.curM)
      BY <1>1, <2>2 DEF ResolveSources, TaskInv, Walked
    <3>2. ss \in Seq(Source)
      BY <3>1, OwnTypes, RunsConcat DEF Task, Kin
    <3>3. IsBranch(k.curM) => k.curM.Parent \in Names /\ Clamped(pm, k.curM) \in Manifest
      <4>1. IsBranch(k.curM) => k.curM.Parent \in Names
        BY <3>1 DEF Kin, ManInv, Kept, Chained, IsBranch
      <4> QED BY <1>1, <3>1, <4>1, ClampedIs DEF Kin
    <3>4. task' = [task EXCEPT ![t] = next]
      BY <2>2 DEF ResolveSources
    <3> HIDE DEF pm, ss
    <3>5. here \in Task
      BY <3>1, <3>2 DEF Task
    <3>6. next \in Task
      <4> HIDE DEF here, k
      <4> QED BY <3>1, <3>3, <3>5 DEF Task, Name
    <3> QED BY <3>4, <3>6
  <2>3. CASE ResolveIndex(t)
    <3> DEFINE k == task[t]
               next == IF k.curM.IndexEpoch > 0 \/ ~IsBranch(k.curM)
                       THEN [k EXCEPT !.at = "read", !.ix = <<k.cur, k.curM.IndexEpoch>>]
                       ELSE IF k.curM.ForkIndexEpoch > 0
                       THEN [k EXCEPT !.at = "read", !.ix = <<k.curM.Parent, k.curM.ForkIndexEpoch>>]
                       ELSE [k EXCEPT !.cur = k.curM.Parent, !.curM = man[k.curM.Parent]]
    <3>1. k \in Task /\ k.at = "index" /\ Kin(k.cur, k.curM)
      BY <1>1, <2>3 DEF ResolveIndex, TaskInv, Walked
    <3>2. IsBranch(k.curM) => k.curM.Parent \in Names /\ man[k.curM.Parent] \in Manifest
      BY <1>1, <3>1 DEF Kin, ManInv, Kept, Chained, IsBranch
    <3>3. task' = [task EXCEPT ![t] = next]
      BY <2>3 DEF ResolveIndex
    <3>4. k.curM \in Manifest /\ k.cur \in Names
      BY <3>1 DEF Kin
    <3>5. next \in Task
      <4> HIDE DEF k
      <4>1. /\ k.curM.IndexEpoch \in Nat /\ k.curM.ForkIndexEpoch \in Nat /\ k.cur \in Name
            /\ IsBranch(k.curM) => k.curM.Parent \in Name /\ man[k.curM.Parent] \in Manifest
        BY <3>2, <3>4 DEF Manifest, Name
      <4>2. ASSUME NEW x \in Name \X Nat PROVE [k EXCEPT !.at = "read", !.ix = x] \in Task
        BY <3>1 DEF Task
      <4>3. ASSUME NEW n \in Name, NEW m \in Manifest PROVE [k EXCEPT !.cur = n, !.curM = m] \in Task
        BY <3>1 DEF Task
      <4>4. CASE k.curM.IndexEpoch > 0 \/ ~IsBranch(k.curM)
        <5>1. <<k.cur, k.curM.IndexEpoch>> \in Name \X Nat
          BY <4>1
        <5> QED BY <4>2, <4>4, <5>1
      <4>5. CASE ~(k.curM.IndexEpoch > 0 \/ ~IsBranch(k.curM)) /\ k.curM.ForkIndexEpoch > 0
        <5>1. <<k.curM.Parent, k.curM.ForkIndexEpoch>> \in Name \X Nat
          BY <4>1, <4>5
        <5> QED BY <4>2, <4>5, <5>1
      <4>6. CASE ~(k.curM.IndexEpoch > 0 \/ ~IsBranch(k.curM)) /\ ~(k.curM.ForkIndexEpoch > 0)
        BY <4>1, <4>3, <4>6
      <4> QED BY <4>4, <4>5, <4>6
    <3> QED BY <3>3, <3>5
  <2> QED BY <2>1, <2>2, <2>3
<1> QED BY <1>1, <1>2

\* Every step keeps the types.
LEMMA TypeStep ==
  ASSUME TypeOK, ManInv, ForkInv, TaskInv, [Next]_vars
  PROVE TypeOK'
<1>0. /\ man \in [Names -> Manifest] /\ fork \in [Forkers -> Fork] /\ task \in [Tasks -> Task]
      /\ truth \in [Names -> Seq(DOMAIN wal)]
      /\ DOMAIN wal \subseteq Names \X Nat /\ wal \in [DOMAIN wal -> Op]
      /\ DOMAIN index \subseteq Names \X Nat /\ index \in [DOMAIN index -> SUBSET DOMAIN wal]
  BY DEF TypeOK
<1>1. ASSUME NEW n \in Roots, Create(n) PROVE TypeOK'
  <2>1. n \in Names
    OBVIOUS
  <2>2. man' = [man EXCEPT ![n] = [man[n] EXCEPT !.Version = 1]]
    BY <1>1 DEF Create
  <2>3. man' \in [Names -> Manifest]
    <3>1. [man[n] EXCEPT !.Version = 1] \in Manifest
      BY <1>0, <2>1, ManifestTypes
    <3> QED BY <1>0, <2>1, <2>2, <3>1
  <2> QED BY <1>0, <1>1, <2>3 DEF Create, TypeOK
<1>2. ASSUME NEW n \in Names, Upsert(n) PROVE TypeOK'
  <2> DEFINE s == man[n].WALSeq
  <2>1. s \in Nat
    BY <1>0 DEF Manifest
  <2>2. PICK op \in Op : wal' = Put(wal, <<n, s>>, op)
    BY <1>2 DEF Upsert
  <2>3. /\ DOMAIN wal' = DOMAIN wal \cup {<<n, s>>} /\ DOMAIN wal' \subseteq Names \X Nat
        /\ wal' \in [DOMAIN wal' -> Op]
    BY <2>1, <2>2, WalTypes
  <2>4. man' \in [Names -> Manifest]
    <3>1. man' = [man EXCEPT ![n] = [man[n] EXCEPT !.WALSeq = s + 1]]
      BY <1>2 DEF Upsert
    <3>2. [man[n] EXCEPT !.WALSeq = s + 1] \in Manifest
      <4>1. s + 1 \in Nat /\ man[n] \in Manifest
        BY <1>0, <2>1
      <4> HIDE DEF s
      <4> QED BY <4>1, ManifestTypes
    <3> QED BY <1>0, <3>1, <3>2
  <2>5. truth' \in [Names -> Seq(DOMAIN wal')]
    <3>1. truth' = [truth EXCEPT ![n] = Append(truth[n], <<n, s>>)]
      BY <1>2 DEF Upsert
    <3>2. Append(truth[n], <<n, s>>) \in Seq(DOMAIN wal')
      BY <1>0, <2>3, SeqGrows
    <3>3. \A x \in Names : truth[x] \in Seq(DOMAIN wal')
      BY <1>0, <2>3, SeqGrows
    <3> QED BY <1>0, <3>1, <3>2, <3>3
  <2>6. index' = index /\ index' \in [DOMAIN index' -> SUBSET DOMAIN wal']
    BY <1>0, <1>2, <2>3 DEF Upsert
  <2> QED BY <1>0, <1>2, <2>3, <2>4, <2>5, <2>6 DEF Upsert, TypeOK
<1>3. ASSUME NEW f \in Forkers, NEW p \in Names, NEW c \in Names, ForkLoad(f, p, c) PROVE TypeOK'
  <2> DEFINE r == [parent |-> p, child |-> c, pm |-> man[p]]
  <2>1. r \in Fork
    BY <1>0 DEF Fork, Name
  <2> HIDE DEF r
  <2>2. fork' = [fork EXCEPT ![f] = r]
    BY <1>3 DEF ForkLoad, r
  <2>3. fork' \in [Forkers -> Fork]
    BY <1>0, <2>1, <2>2
  <2> QED BY <1>0, <1>3, <2>3 DEF ForkLoad, TypeOK
<1>4. ASSUME NEW f \in Forkers, ForkStore(f) PROVE TypeOK'
  <2> DEFINE c == fork[f]
  <2>1. c \in Fork /\ c # NoFork /\ c.child \in Names /\ Past(c.parent, c.pm)
    <3>1. c \in Fork /\ c # NoFork
      BY <1>0, <1>4 DEF ForkStore
    <3> QED BY <3>1 DEF ForkInv
  <2>2. c.parent \in Names /\ c.pm \in Manifest /\ c.pm.WALSeq \in Nat
        /\ c.pm.WALSeq <= Len(truth[c.parent])
    BY <2>1 DEF Past, Kin, Manifest, ManInv, Kept, Logged
  <2>3. ChildManifest(c.parent, c.pm) \in Manifest
    <3>1. 0 \in Nat
      OBVIOUS
    <3> QED BY <2>2, <3>1, ManifestTypes
  <2>4. SubSeq(truth[c.parent], 1, c.pm.WALSeq) \in Seq(DOMAIN wal)
    <3> DEFINE q == truth[c.parent]
               w == c.pm.WALSeq
    <3>1. q \in Seq(DOMAIN wal) /\ w \in 0..Len(q)
      BY <1>0, <2>2
    <3> HIDE DEF q, w
    <3>2. \A i \in 1..w : q[i] \in DOMAIN wal
      BY <3>1
    <3>3. SubSeq(q, 1, w) \in Seq(DOMAIN wal)
      BY <3>1, <3>2
    <3> QED BY <3>3 DEF q, w
  <2>5. man' \in [Names -> Manifest] /\ truth' \in [Names -> Seq(DOMAIN wal)]
    <3>1. \/ man' = man /\ truth' = truth
          \/ /\ man' = [man EXCEPT ![c.child] = ChildManifest(c.parent, c.pm)]
             /\ truth' = [truth EXCEPT ![c.child] = SubSeq(truth[c.parent], 1, c.pm.WALSeq)]
      BY <1>4 DEF ForkStore
    <3> DEFINE m == ChildManifest(c.parent, c.pm)
               q == SubSeq(truth[c.parent], 1, c.pm.WALSeq)
    <3>2. /\ m \in Manifest /\ q \in Seq(DOMAIN wal) /\ c.child \in Names
          /\ \/ man' = man /\ truth' = truth
             \/ man' = [man EXCEPT ![c.child] = m] /\ truth' = [truth EXCEPT ![c.child] = q]
      BY <2>1, <2>3, <2>4, <3>1
    <3> DEFINE x == c.child
    <3>3. \/ man' = man /\ truth' = truth
          \/ man' = [man EXCEPT ![x] = m] /\ truth' = [truth EXCEPT ![x] = q]
      BY <3>2
    <3>4. x \in Names /\ m \in Manifest /\ q \in Seq(DOMAIN wal)
      BY <3>2
    <3> HIDE DEF c, m, q, x
    <3>5. CASE man' = man /\ truth' = truth
      BY <1>0, <3>5
    <3>6. CASE man' = [man EXCEPT ![x] = m] /\ truth' = [truth EXCEPT ![x] = q]
      <4>1. man' \in [Names -> Manifest]
        BY <1>0, <3>4, <3>6
      <4>2. truth' \in [Names -> Seq(DOMAIN wal)]
        BY <1>0, <3>4, <3>6
      <4> QED BY <4>1, <4>2
    <3> QED BY <3>3, <3>5, <3>6
  <2>6. fork' \in [Forkers -> Fork]
    BY <1>0, <1>4, EmptyTypes DEF ForkStore
  <2> QED BY <1>0, <1>4, <2>5, <2>6 DEF ForkStore, TypeOK
<1>5. ASSUME NEW t \in Tasks, (\E n \in Names : Start(t, n)) \/ ResolveSources(t) \/ ResolveIndex(t)
      PROVE TypeOK'
  <2>1. task' \in [Tasks -> Task]
    BY <1>5, TaskTypes
  <2> QED BY <1>0, <1>5, <2>1 DEF Start, ResolveSources, ResolveIndex, TypeOK
<1>6. ASSUME NEW t \in Readers, QueryEnd(t) PROVE TypeOK'
  <2>1. task' \in [Tasks -> Task]
    BY <1>0, <1>6, EmptyTypes DEF QueryEnd
  <2> QED BY <1>0, <1>6, <2>1 DEF QueryEnd, TypeOK
<1>7. ASSUME NEW t \in Builders, Publish(t) PROVE TypeOK'
  <2> DEFINE k == task[t]
             e == k.m.IndexEpoch + 1
             w == k.m.WALSeq
             L == Live(Segments(k.sources, 0, w))
  <2>1. /\ t \in Tasks /\ k \in Task /\ k.at = "read" /\ Walked(k) /\ k.ns \in Names
        /\ k.m \in Manifest /\ w \in Nat /\ e \in Nat
    <3>1. t \in Tasks /\ k \in Task /\ k.at = "read" /\ Walked(k)
      BY <1>0, <1>7 DEF Publish, Tasks, TaskInv
    <3>2. k.ns \in Names /\ k.m \in Manifest
      BY <3>1 DEF Walked, Past, Kin
    <3> HIDE DEF k
    <3>3. w \in Nat /\ e \in Nat
      BY <3>2 DEF Manifest
    <3> QED BY <3>1, <3>2, <3>3
  <2>2. L \subseteq DOMAIN wal
    BY <2>1, ViewIs DEF Live
  <2>3. DOMAIN index' \subseteq Names \X Nat /\ index' \in [DOMAIN index' -> SUBSET DOMAIN wal]
    <3>1. index' = Put(index, <<k.ns, e>>, L)
      BY <1>7 DEF Publish
    <3> HIDE DEF L, k, e
    <3> QED BY <1>0, <2>1, <2>2, <3>1 DEF Put
  <2>4. man' \in [Names -> Manifest]
    <3>1. man' = [man EXCEPT ![k.ns] = [man[k.ns] EXCEPT !.IndexEpoch = e, !.IndexedUpTo = w]]
      BY <1>7 DEF Publish, Coverage
    <3>2. [man[k.ns] EXCEPT !.IndexEpoch = e, !.IndexedUpTo = w] \in Manifest
      <4> HIDE DEF k, e, w
      <4> QED BY <1>0, <2>1 DEF Manifest
    <3> HIDE DEF k
    <3> QED BY <1>0, <2>1, <3>1, <3>2
  <2>5. task' \in [Tasks -> Task]
    BY <1>0, <1>7, EmptyTypes DEF Publish
  <2> QED BY <1>0, <1>7, <2>3, <2>4, <2>5 DEF Publish, TypeOK
<1>8. CASE UNCHANGED vars
  BY <1>8 DEF vars, TypeOK
<1> QED BY <1>1, <1>2, <1>3, <1>4, <1>5, <1>6, <1>7, <1>8 DEF Next, Tasks

-----------------------------------------------------------------------------
(***************************************************************************)
(* What every step leaves as it was.                                       *)
(***************************************************************************)
\* Segments and epochs are written once; a namespace that exists keeps its
\* fork, and its logical WAL and its epoch only grow.
Grows ==
  /\ \A v \in DOMAIN wal : v \in DOMAIN wal' /\ wal'[v] = wal[v]
  /\ \A e \in DOMAIN index : e \in DOMAIN index' /\ index'[e] = index[e]
  /\ \A n \in Names :
       man[n].Version = 1 =>
         /\ man'[n].Version = 1
         /\ man'[n].Parent = man[n].Parent /\ man'[n].ForkWALSeq = man[n].ForkWALSeq
         /\ man'[n].ForkIndexEpoch = man[n].ForkIndexEpoch
         /\ man[n].WALSeq <= man'[n].WALSeq /\ man[n].IndexEpoch <= man'[n].IndexEpoch
         /\ \A i \in 1..man[n].WALSeq : truth'[n][i] = truth[n][i]

\* Every step of the system only lets it grow.
LEMMA GrowsStep ==
  ASSUME Core, [Next]_vars
  PROVE Grows
<1> USE DEF Core
<1>0. /\ man \in [Names -> Manifest] /\ truth \in [Names -> Seq(DOMAIN wal)]
      /\ \A n \in Names : man[n].WALSeq \in Nat /\ man[n].IndexEpoch \in Nat
                          /\ Len(truth[n]) = man[n].WALSeq
  BY DEF TypeOK, Manifest, ManInv, Kept, Logged
<1>1. ASSUME UNCHANGED <<man, wal, index, truth>> PROVE Grows
  BY <1>0, <1>1 DEF Grows
<1>2. ASSUME NEW n \in Roots, Create(n) PROVE Grows
  <2>1. n \in Names /\ man[n].Version = 0 /\ man' = [man EXCEPT ![n].Version = 1]
    BY <1>2, EmptyTypes DEF Create
  <2>2. \A x \in Names : man[x].Version = 1 => man'[x] = man[x]
    BY <1>0, <2>1
  <2> QED BY <1>0, <1>2, <2>2 DEF Create, Grows
<1>3. ASSUME NEW n \in Names, Upsert(n) PROVE Grows
  <2> DEFINE s == man[n].WALSeq
  <2>1. PICK op \in Op : wal' = Put(wal, <<n, s>>, op)
    BY <1>3 DEF Upsert
  <2>2. <<n, s>> \notin DOMAIN wal
    BY <1>0 DEF StoreInv
  <2>3. \A v \in DOMAIN wal : v \in DOMAIN wal' /\ wal'[v] = wal[v]
    <3>1. n \in Names /\ s \in Nat
      BY <1>0
    <3> HIDE DEF s
    <3> QED BY <2>1, <2>2, <3>1, WalTypes
  <2>4. man' = [man EXCEPT ![n].WALSeq = s + 1] /\ index' = index
        /\ truth' = [truth EXCEPT ![n] = Append(truth[n], <<n, s>>)]
    BY <1>3 DEF Upsert
  <2>5. \A x \in Names : \A i \in 1..man[x].WALSeq : truth'[x][i] = truth[x][i]
    BY <1>0, <2>4
  <2>6. ASSUME NEW x \in Names
        PROVE /\ man'[x].Version = man[x].Version
              /\ man'[x].Parent = man[x].Parent /\ man'[x].ForkWALSeq = man[x].ForkWALSeq
              /\ man'[x].ForkIndexEpoch = man[x].ForkIndexEpoch
              /\ man[x].WALSeq <= man'[x].WALSeq /\ man[x].IndexEpoch = man'[x].IndexEpoch
    <3>1. CASE x # n
      BY <1>0, <2>4, <3>1 DEF Manifest
    <3>2. CASE x = n
      <4>1. man'[n] = [man[n] EXCEPT !.WALSeq = s + 1] /\ man[n] \in Manifest
        BY <1>0, <2>4
      <4> QED BY <3>2, <4>1 DEF Manifest
    <3> QED BY <3>1, <3>2
  <2> QED BY <1>0, <2>3, <2>4, <2>5, <2>6 DEF Grows
<1>4. ASSUME NEW f \in Forkers, ForkStore(f) PROVE Grows
  <2>1. wal' = wal /\ index' = index
    BY <1>4 DEF ForkStore
  <2>2. \A x \in Names : man[x].Version = 1 => man'[x] = man[x] /\ truth'[x] = truth[x]
    BY <1>0, <1>4, EmptyTypes DEF ForkStore
  <2> QED BY <1>0, <2>1, <2>2 DEF Grows
<1>5. ASSUME NEW t \in Builders, Publish(t) PROVE Grows
  <2> DEFINE n == task[t].ns
             e == task[t].m.IndexEpoch + 1
  <2>1. n \in Names /\ task[t].at = "read" /\ task[t].m.IndexEpoch = man[n].IndexEpoch
    <3>1. t \in Tasks /\ task[t] \in Task /\ task[t].at = "read"
      BY <1>5 DEF TypeOK, Publish, Tasks
    <3>2. Walked(task[t])
      BY <3>1 DEF TaskInv
    <3>3. n \in Names
      BY <3>1, <3>2 DEF Walked, Past, Kin
    <3> QED BY <3>1, <3>3 DEF BuildInv
  <2>2. <<n, e>> \notin DOMAIN index
    BY <1>0, <2>1 DEF StoreInv
  <2>3. PICK L : index' = Put(index, <<n, e>>, L)
    BY <1>5 DEF Publish
  <2>4. \A x \in DOMAIN index : x \in DOMAIN index' /\ index'[x] = index[x]
    BY <2>2, <2>3 DEF Put
  <2>5. /\ man' = [man EXCEPT ![n].IndexEpoch = e, ![n].IndexedUpTo = Coverage(task[t])]
        /\ wal' = wal /\ truth' = truth
    BY <1>5 DEF Publish
  <2>6. ASSUME NEW x \in Names
        PROVE /\ man'[x].Version = man[x].Version
              /\ man'[x].Parent = man[x].Parent /\ man'[x].ForkWALSeq = man[x].ForkWALSeq
              /\ man'[x].ForkIndexEpoch = man[x].ForkIndexEpoch
              /\ man[x].WALSeq <= man'[x].WALSeq /\ man[x].IndexEpoch <= man'[x].IndexEpoch
    <3>1. CASE x # n
      BY <1>0, <2>5, <3>1 DEF Manifest
    <3>2. CASE x = n
      <4>1. man'[n] = [man[n] EXCEPT !.IndexEpoch = e, !.IndexedUpTo = Coverage(task[t])]
        BY <1>0, <2>1, <2>5
      <4>2. man[n] \in Manifest /\ man[n].IndexEpoch \in Nat /\ e = man[n].IndexEpoch + 1
        BY <1>0, <2>1
      <4> HIDE DEF e
      <4> QED BY <3>2, <4>1, <4>2 DEF Manifest
    <3> QED BY <3>1, <3>2
  <2> QED BY <2>4, <2>5, <2>6 DEF Grows
<1>6. ASSUME NEW f \in Forkers, NEW p \in Names, NEW c \in Names, ForkLoad(f, p, c) PROVE Grows
  BY <1>1, <1>6 DEF ForkLoad
<1>7. ASSUME NEW t \in Tasks, (\E n \in Names : Start(t, n)) \/ ResolveSources(t) \/ ResolveIndex(t)
      PROVE Grows
  BY <1>1, <1>7 DEF Start, ResolveSources, ResolveIndex
<1>8. ASSUME NEW t \in Readers, QueryEnd(t) PROVE Grows
  BY <1>1, <1>8 DEF QueryEnd
<1>9. CASE UNCHANGED vars
  BY <1>1, <1>9 DEF vars
<1> QED BY <1>2, <1>3, <1>4, <1>5, <1>6, <1>7, <1>8, <1>9 DEF Next

\* A stretch that exists stays.
LEMMA StretchStable ==
  ASSUME TypeOK, Grows, NEW n \in Names, man[n].Version = 1, NEW a \in Nat, NEW b \in Nat,
         b <= man[n].WALSeq
  PROVE Stretch(n, a, b)' = Stretch(n, a, b)
<1>1. \A i \in a + 1..b : truth'[n][i] = truth[n][i]
  <2>1. \A i \in a + 1..b : i \in 1..man[n].WALSeq
    BY DEF TypeOK, Manifest
  <2> QED BY <2>1 DEF Grows
<1> QED BY <1>1 DEF Stretch

\* Who survives depends only on what the segments hold.
LEMMA LiveSame ==
  ASSUME NEW w, NEW x, NEW S, \A v \in S : x[v] = w[v]
  PROVE LiveIn(x, S) = LiveIn(w, S)
  BY DEF LiveIn

\* A relative stays one.
LEMMA KinStable ==
  ASSUME TypeOK, TypeOK', Grows, NEW n, NEW m, Kin(n, m)
  PROVE Kin(n, m)'
<1>1. n \in Names /\ m.WALSeq \in Nat /\ man[n].WALSeq \in Nat /\ man'[n].WALSeq \in Nat
  BY DEF Kin, TypeOK, Manifest
<1> QED BY <1>1 DEF Kin, Grows

\* A fold that an epoch holds stays.
LEMMA FitsStable ==
  ASSUME TypeOK, Grows, NEW n \in Names, Logged(n), man[n].Version = 1, NEW m \in Manifest,
         Fits(n, m), m.IndexedUpTo <= man[n].WALSeq
  PROVE Fits(n, m)'
<1> DEFINE b == m.IndexedUpTo
           S == Stretch(n, 0, b)
           e == IF m.IndexEpoch > 0 THEN <<n, m.IndexEpoch>> ELSE <<m.Parent, m.ForkIndexEpoch>>
<1> SUFFICES ASSUME e[2] > 0 PROVE e \in DOMAIN index' /\ index'[e] = (Live(Stretch(n, 0, b)))'
  BY DEF Fits
<1>1. e \in DOMAIN index /\ index[e] = Live(S)
  BY DEF Fits
<1>2. e \in DOMAIN index' /\ index'[e] = index[e]
  BY <1>1 DEF Grows
<1>3. b \in Nat /\ S \subseteq DOMAIN wal /\ Stretch(n, 0, b)' = S
  BY StretchStable, StretchIs DEF Manifest
<1>4. (Live(Stretch(n, 0, b)))' = LiveIn(wal', S)
  <2>1. (Live(Stretch(n, 0, b)))' = LiveIn(wal', Stretch(n, 0, b)')
    BY DEF Live, LiveIn
  <2> QED BY <1>3, <2>1
<1>5. Live(S) = LiveIn(wal, S)
  BY DEF Live, LiveIn
<1>6. LiveIn(wal', S) = LiveIn(wal, S)
  <2>1. \A v \in S : wal'[v] = wal[v]
    BY <1>3 DEF Grows
  <2> HIDE DEF S
  <2> QED BY <2>1, LiveSame
<1> QED BY <1>1, <1>2, <1>4, <1>5, <1>6

\* A former manifest stays one.
LEMMA PastStable ==
  ASSUME TypeOK, TypeOK', Grows, ManInv, NEW n, NEW m, Past(n, m)
  PROVE Past(n, m)'
<1>1. n \in Names /\ m \in Manifest /\ man[n].Version = 1 /\ Kin(n, m) /\ Logged(n)
  BY DEF Past, Kin, ManInv, Kept
<1>2. m.IndexedUpTo \in Nat /\ m.WALSeq \in Nat /\ man[n].WALSeq \in Nat /\ m.IndexEpoch \in Nat
      /\ man[n].IndexEpoch \in Nat /\ man'[n].IndexEpoch \in Nat
  BY <1>1 DEF Manifest, TypeOK
<1>3. m.IndexedUpTo <= man[n].WALSeq
  BY <1>1, <1>2 DEF Past, Kin
<1>4. Fits(n, m)'
  BY <1>1, <1>3, FitsStable DEF Past
<1>5. m.IndexEpoch <= man'[n].IndexEpoch
  BY <1>1, <1>2 DEF Past, Grows
<1> QED BY <1>1, <1>4, <1>5, KinStable DEF Past

\* And so does all that a walk has learnt.
LEMMA WalkedStable ==
  ASSUME TypeOK, TypeOK', Grows, ManInv, NEW k \in Task, Walked(k)
  PROVE Walked(k)'
<1>1. k.at = "end" => k = NoTask
  BY DEF Walked
<1>2. k.at # "end" => Past(k.ns, k.m) /\ Past(k.ns, k.m)'
  BY PastStable DEF Walked
<1>3. ASSUME k.at # "end", NEW a \in Nat, a <= k.m.WALSeq
      PROVE Stretch(k.ns, a, k.m.WALSeq)' = Stretch(k.ns, a, k.m.WALSeq)
  <2>1. /\ k.ns \in Names /\ man[k.ns].Version = 1 /\ k.m.WALSeq \in Nat
        /\ k.m.WALSeq <= man[k.ns].WALSeq
    BY <1>2, <1>3 DEF Past, Kin, Manifest
  <2> QED BY <2>1, StretchStable
<1>4. Runs(k.sources)' = Runs(k.sources)
  BY DEF Runs
<1>5. ASSUME k.at = "sources"
      PROVE /\ Kin(k.cur, k.curM)'
            /\ k.curM.WALSeq <= k.m.WALSeq
            /\ \A i \in 1..k.curM.WALSeq : truth'[k.ns][i] = truth'[k.cur][i]
            /\ Runs(k.sources) = Stretch(k.ns, k.curM.WALSeq, k.m.WALSeq)'
  <2>1. Kin(k.cur, k.curM) /\ k.curM.WALSeq <= k.m.WALSeq /\ Past(k.ns, k.m)
    BY <1>2, <1>5 DEF Walked
  <2>2. /\ k.cur \in Names /\ k.ns \in Names /\ k.curM.WALSeq \in Nat /\ k.m.WALSeq \in Nat
        /\ man[k.cur].Version = 1 /\ man[k.ns].Version = 1
        /\ k.curM.WALSeq <= man[k.cur].WALSeq /\ k.m.WALSeq <= man[k.ns].WALSeq
        /\ man[k.cur].WALSeq \in Nat /\ man[k.ns].WALSeq \in Nat
    BY <2>1 DEF Past, Kin, Manifest, TypeOK
  <2>3. \A i \in 1..k.curM.WALSeq : i \in 1..man[k.cur].WALSeq /\ i \in 1..man[k.ns].WALSeq
    BY <2>1, <2>2
  <2>4. \A i \in 1..k.curM.WALSeq : truth'[k.ns][i] = truth'[k.cur][i]
    BY <1>5, <2>2, <2>3 DEF Grows, Walked
  <2>5. Runs(k.sources) = Stretch(k.ns, k.curM.WALSeq, k.m.WALSeq)'
    BY <1>3, <1>5, <2>1, <2>2 DEF Walked
  <2> QED BY <2>1, <2>4, <2>5, KinStable
<1>6. ASSUME k.at \in {"index", "read"} PROVE Runs(k.sources) = Stretch(k.ns, 0, k.m.WALSeq)'
  <2>1. k.m.WALSeq \in Nat
    BY DEF Task, Manifest
  <2> QED BY <1>3, <1>6, <2>1 DEF Walked
<1>7. ASSUME k.at = "index" PROVE Kin(k.cur, k.curM)' /\ (~ForkUnindexed => k.cur = k.ns /\ k.curM = k.m)
  BY <1>7, KinStable DEF Walked
<1>8. k.at = "read" /\ ~ForkUnindexed => k.ix = Chosen(k.ns, k.m)
  BY DEF Walked
<1> QED BY <1>1, <1>2, <1>4, <1>5, <1>6, <1>7, <1>8 DEF Walked, Chosen

-----------------------------------------------------------------------------
(***************************************************************************)
(* Every step keeps the invariant, one part after the other.               *)
(***************************************************************************)
\* A namespace that a step leaves alone: its parent may have moved on.
LEMMA ManKept ==
  ASSUME TypeOK, ManInv, TypeOK', Grows, NEW n \in Names, man'[n] = man[n], truth'[n] = truth[n]
  PROVE Kept(n)'
<1>1. man[n] \in Manifest /\ Kept(n)
  BY DEF ManInv, TypeOK
<1>2. man'[n].Version = 0 => man'[n] = Absent
  BY <1>1 DEF Kept
<1>3. ASSUME NEW m \in Manifest, man'[n] = m, m.Version = 1 PROVE Past(n, m)'
  BY <1>1, <1>3, PastStable DEF Kept
<1>4. Rooted(n)' /\ Logged(n)'
  BY <1>1 DEF Kept, Rooted, Logged
<1>5. Chained(n)'
  <2> SUFFICES ASSUME IsBranch(man[n]) PROVE Chained(n)'
    BY DEF Chained
  <2> DEFINE m == man[n]
             p == man[n].Parent
  <2>1. /\ p \in Names /\ man[p].Version = 1
        /\ m.ForkWALSeq <= man[p].WALSeq /\ man[p].ForkWALSeq <= m.ForkWALSeq
        /\ \A i \in 1..m.ForkWALSeq : truth[n][i] = truth[p][i]
        /\ ~ForkUnindexed => m.ForkIndexEpoch > 0
    BY <1>1 DEF Kept, Chained
  <2>2. m.ForkWALSeq \in Nat /\ man[p].WALSeq \in Nat /\ man'[p].WALSeq \in Nat
    BY <1>1, <2>1 DEF TypeOK, Manifest
  <2>3. /\ man'[p].Version = 1 /\ man'[p].ForkWALSeq = man[p].ForkWALSeq
        /\ man[p].WALSeq <= man'[p].WALSeq
        /\ \A i \in 1..man[p].WALSeq : truth'[p][i] = truth[p][i]
    BY <2>1 DEF Grows
  <2>4. \A i \in 1..m.ForkWALSeq : truth'[n][i] = truth'[p][i]
    BY <2>1, <2>2, <2>3
  <2>5. m.ForkWALSeq <= man'[p].WALSeq
    BY <2>1, <2>2, <2>3
  <2> HIDE DEF m, p
  <2>6. man'[n] = m /\ man'[n].Parent = p
    BY DEF m, p
  <2> QED BY <2>1, <2>3, <2>4, <2>5, <2>6 DEF Chained
<1> QED BY <1>2, <1>3, <1>4, <1>5 DEF Kept

\* A namespace that an upsert or a publish moves on.
LEMMA ManMoved ==
  ASSUME TypeOK, ManInv, TypeOK', Grows, NEW n \in Names, man[n].Version = 1,
         Logged(n)', NEW m \in Manifest, man'[n] = m, Fits(n, m)',
         m.IndexedUpTo <= m.WALSeq,
         m.IndexEpoch = 0 /\ ~IsBranch(m) => m.IndexedUpTo = 0
  PROVE Kept(n)'
<1>1. man[n] \in Manifest /\ Kept(n)
  BY DEF ManInv, TypeOK
<1>2. /\ m.Version = 1 /\ m.Parent = man[n].Parent /\ m.ForkWALSeq = man[n].ForkWALSeq
      /\ m.ForkIndexEpoch = man[n].ForkIndexEpoch /\ man[n].WALSeq <= m.WALSeq
      /\ m.WALSeq \in Nat /\ m.IndexEpoch \in Nat /\ m.ForkWALSeq \in Nat /\ man[n].WALSeq \in Nat
  BY <1>1 DEF Grows, Manifest
<1>3. man[n].ForkWALSeq <= man[n].WALSeq
  BY <1>1 DEF Kept, Past, Kin
<1>4. Past(n, m)'
  BY <1>2, <1>3 DEF Past, Kin
<1>5. Rooted(n)'
  BY <1>1, <1>2 DEF Kept, Rooted, IsBranch
<1>6. Chained(n)'
  <2> SUFFICES ASSUME IsBranch(m) PROVE Chained(n)'
    BY DEF Chained
  <2> DEFINE p == m.Parent
  <2>1. /\ p \in Names /\ man[p].Version = 1
        /\ m.ForkWALSeq <= man[p].WALSeq /\ man[p].ForkWALSeq <= m.ForkWALSeq
        /\ \A i \in 1..m.ForkWALSeq : truth[n][i] = truth[p][i]
        /\ ~ForkUnindexed => m.ForkIndexEpoch > 0
    BY <1>1, <1>2 DEF Kept, Chained, IsBranch
  <2>2. man[p].WALSeq \in Nat /\ man'[p].WALSeq \in Nat
    BY <2>1 DEF TypeOK, Manifest
  <2>3. /\ man'[p].Version = 1 /\ man'[p].ForkWALSeq = man[p].ForkWALSeq
        /\ man[p].WALSeq <= man'[p].WALSeq
        /\ \A i \in 1..man[p].WALSeq : truth'[p][i] = truth[p][i]
    BY <2>1 DEF Grows
  <2>4. \A i \in 1..m.ForkWALSeq : truth'[n][i] = truth'[p][i]
    <3>1. \A i \in 1..m.ForkWALSeq : i \in 1..man[n].WALSeq /\ i \in 1..man[p].WALSeq
      BY <1>2, <1>3, <2>1, <2>2
    <3>2. \A i \in 1..man[n].WALSeq : truth'[n][i] = truth[n][i]
      BY DEF Grows
    <3> QED BY <2>1, <2>3, <3>1, <3>2
  <2>5. m.ForkWALSeq <= man'[p].WALSeq
    BY <1>2, <2>1, <2>2, <2>3
  <2> HIDE DEF p
  <2>6. man'[n] = m /\ man'[n].Parent = p
    BY DEF p
  <2> QED BY <2>1, <2>3, <2>4, <2>5, <2>6 DEF Chained
<1> QED BY <1>2, <1>4, <1>5, <1>6 DEF Kept

\* CreateManifest: the first manifest of a root.
LEMMA ManCreate ==
  ASSUME TypeOK, ManInv, TypeOK', Grows, NEW n \in Roots, Create(n)
  PROVE ManInv'
<1>1. /\ n \in Names /\ man \in [Names -> Manifest] /\ man[n] = Absent
      /\ man' = [man EXCEPT ![n] = [Absent EXCEPT !.Version = 1]]
      /\ wal' = wal /\ index' = index /\ truth' = truth
  BY DEF Create, TypeOK
<1>2. ASSUME NEW x \in Names, x # n PROVE Kept(x)'
  BY <1>1, <1>2, ManKept
<1>3. Kept(n)'
  <2> DEFINE m == [Absent EXCEPT !.Version = 1]
  <2>1. man'[n] = m /\ m \in Manifest
    BY <1>1, EmptyTypes, ManifestTypes
  <2>2. /\ m.Version = 1 /\ m.WALSeq = 0 /\ m.IndexedUpTo = 0 /\ m.IndexEpoch = 0
        /\ m.Parent = NoName /\ m.ForkWALSeq = 0 /\ m.ForkIndexEpoch = 0
    BY DEF Absent
  <2> HIDE DEF m
  <2>3. Len(truth'[n]) = 0
    BY <1>1 DEF ManInv, Kept, Logged, Absent
  <2>4. Past(n, m)'
    <3>1. Kin(n, m)'
      <4>1. n \in Names /\ man'[n] = m /\ m \in Manifest
        BY <1>1, <2>1
      <4> QED BY <2>2, <4>1 DEF Kin
    <3>2. Fits(n, m)'
      BY <2>2 DEF Fits
    <3> QED BY <2>1, <2>2, <3>1, <3>2 DEF Past
  <2> QED BY <2>1, <2>2, <2>3, <2>4 DEF Kept, Rooted, Chained, Logged, IsBranch
<1> QED BY <1>2, <1>3 DEF ManInv

\* An upsert: the namespace's own segments continue the sequence.
LEMMA ManUpsert ==
  ASSUME TypeOK, ManInv, TypeOK', Grows, NEW n \in Names, Upsert(n)
  PROVE ManInv'
<1>0. man \in [Names -> Manifest] /\ truth \in [Names -> Seq(DOMAIN wal)] /\ Kept(n)
      /\ man[n] \in Manifest
  BY DEF TypeOK, ManInv
<1>1. PICK s \in Nat : s = man[n].WALSeq
  BY <1>0 DEF Manifest
<1>2. PICK m \in Manifest : m = [man[n] EXCEPT !.WALSeq = s + 1]
  <2>1. s + 1 \in Nat
    OBVIOUS
  <2> QED BY <1>0, <2>1, ManifestTypes
<1>3. /\ man[n] # Absent /\ man' = [man EXCEPT ![n] = m]
      /\ truth' = [truth EXCEPT ![n] = Append(truth[n], <<n, s>>)]
  BY <1>1, <1>2 DEF Upsert
<1>4. ASSUME NEW x \in Names, x # n PROVE Kept(x)'
  BY <1>0, <1>3, <1>4, ManKept
<1>5. Kept(n)'
  <2>1. man[n].Version = 1 /\ man'[n] = m
    BY <1>0, <1>3 DEF Kept, Manifest
  <2>2. /\ m.WALSeq = s + 1 /\ m.Version = 1 /\ m.IndexedUpTo = man[n].IndexedUpTo
        /\ m.IndexEpoch = man[n].IndexEpoch /\ m.Parent = man[n].Parent
        /\ m.ForkWALSeq = man[n].ForkWALSeq /\ m.ForkIndexEpoch = man[n].ForkIndexEpoch
    BY <1>0, <1>2, <2>1 DEF Manifest
  <2>3. Past(n, man[n])
    BY <1>0, <2>1 DEF Kept
  <2>4. m.IndexedUpTo <= s /\ m.IndexedUpTo \in Nat
        /\ (m.IndexEpoch = 0 /\ ~IsBranch(m) => m.IndexedUpTo = 0)
    BY <1>1, <2>2, <2>3 DEF Past, IsBranch, Manifest
  <2>5. Fits(n, m)'
    <3>1. Fits(n, m)
      BY <2>2, <2>3 DEF Past, Fits
    <3>2. Logged(n) /\ m.IndexedUpTo <= man[n].WALSeq
      BY <1>0, <1>1, <2>4 DEF Kept
    <3> QED BY <2>1, <3>1, <3>2, FitsStable
  <2>6. Logged(n)'
    <3> DEFINE q == truth'[n]
    <3>1. /\ Len(truth[n]) = s /\ q = Append(truth[n], <<n, s>>) /\ truth[n] \in Seq(DOMAIN wal)
          /\ \A i \in man[n].ForkWALSeq + 1..s : truth[n][i] = <<n, i - 1>>
          /\ \A i \in 1..s : truth[n][i][2] = i - 1
      BY <1>0, <1>1, <1>3 DEF Kept, Logged
    <3> HIDE DEF q
    <3>2. Len(q) = s + 1 /\ q[s + 1] = <<n, s>> /\ \A i \in 1..s : q[i] = truth[n][i]
      BY <3>1
    <3>3. man[n].ForkWALSeq \in Nat
      BY <1>0 DEF Manifest
    <3>4. ASSUME NEW i \in man[n].ForkWALSeq + 1..s + 1 PROVE q[i] = <<n, i - 1>>
      <4>1. s \in Nat
        BY <1>1
      <4>2. CASE i = s + 1
        BY <3>2, <4>1, <4>2
      <4>3. CASE i # s + 1
        <5>1. i \in man[n].ForkWALSeq + 1..s /\ i \in 1..s
          BY <3>3, <4>1, <4>3
        <5> QED BY <3>1, <3>2, <5>1
      <4> QED BY <4>2, <4>3
    <3>5. \A i \in 1..s + 1 : q[i][2] = i - 1
      <4> SUFFICES ASSUME NEW i \in 1..s + 1 PROVE q[i][2] = i - 1
        OBVIOUS
      <4>1. CASE i = s + 1
        BY <3>2, <4>1
      <4>2. CASE i # s + 1
        BY <3>1, <3>2, <4>2
      <4> QED BY <4>1, <4>2
    <3> QED BY <2>1, <2>2, <3>2, <3>4, <3>5 DEF Logged, q
  <2>7. m.IndexedUpTo <= m.WALSeq
    BY <2>2, <2>4
  <2> QED BY <2>1, <2>4, <2>5, <2>6, <2>7, ManMoved
<1> QED BY <1>4, <1>5 DEF ManInv

\* What a build that publishes has: a view of the namespace's logical WAL.
LEMMA PublishIs ==
  ASSUME TypeOK, ManInv, TaskInv, NEW t \in Builders, Publish(t)
  PROVE \E n \in Names, w \in Nat, e \in Nat \ {0} :
          /\ task[t].ns = n /\ man[n].Version = 1 /\ w <= man[n].WALSeq
          /\ e = task[t].m.IndexEpoch + 1 /\ task[t].at = "read"
          /\ man' = [man EXCEPT ![n] = [man[n] EXCEPT !.IndexEpoch = e, !.IndexedUpTo = w]]
          /\ index' = Put(index, <<n, e>>, Live(Stretch(n, 0, w)))
          /\ wal' = wal /\ truth' = truth /\ fork' = fork
          /\ task' = [task EXCEPT ![t] = NoTask]
<1>1. task[t] \in Task /\ task[t].at = "read" /\ Walked(task[t])
  <2>1. task[t] \in Task /\ task[t].at = "read"
    BY DEF TypeOK, Publish, Tasks
  <2> QED BY <2>1 DEF TaskInv, Tasks
<1> DEFINE n == task[t].ns
           w == task[t].m.WALSeq
           e == task[t].m.IndexEpoch + 1
<1>2. n \in Names /\ man[n].Version = 1 /\ w \in Nat /\ w <= man[n].WALSeq /\ e \in Nat \ {0}
  BY <1>1 DEF Walked, Past, Kin, Manifest
<1>3. Segments(task[t].sources, 0, w) = Stretch(n, 0, w)
  BY <1>1, ViewIs
<1>4. /\ man' = [man EXCEPT ![n] = [man[n] EXCEPT !.IndexEpoch = e, !.IndexedUpTo = w]]
      /\ index' = Put(index, <<n, e>>, Live(Segments(task[t].sources, 0, w)))
      /\ wal' = wal /\ truth' = truth /\ fork' = fork
      /\ task' = [task EXCEPT ![t] = NoTask]
  BY DEF Publish, Coverage
<1>5. index' = Put(index, <<n, e>>, Live(Stretch(n, 0, w)))
  BY <1>3, <1>4
<1> QED BY <1>1, <1>2, <1>4, <1>5

\* A publish: the new epoch is the fold of the view the build has collected.
LEMMA ManPublish ==
  ASSUME TypeOK, ManInv, TaskInv, TypeOK', Grows, NEW t \in Builders, Publish(t)
  PROVE ManInv'
<1>0. man \in [Names -> Manifest] /\ truth \in [Names -> Seq(DOMAIN wal)]
  BY DEF TypeOK
<1>1. PICK n \in Names, w \in Nat, e \in Nat \ {0} :
          /\ man[n].Version = 1 /\ w <= man[n].WALSeq
          /\ man' = [man EXCEPT ![n] = [man[n] EXCEPT !.IndexEpoch = e, !.IndexedUpTo = w]]
          /\ index' = Put(index, <<n, e>>, Live(Stretch(n, 0, w)))
          /\ wal' = wal /\ truth' = truth
  BY PublishIs
<1>2. man[n] \in Manifest /\ Kept(n)
  BY <1>0 DEF ManInv
<1>3. PICK m \in Manifest : m = [man[n] EXCEPT !.IndexEpoch = e, !.IndexedUpTo = w]
  BY <1>2 DEF Manifest
<1>4. man' = [man EXCEPT ![n] = m]
  BY <1>1, <1>3
<1>5. ASSUME NEW x \in Names, x # n PROVE Kept(x)'
  BY <1>0, <1>1, <1>4, <1>5, ManKept
<1>6. Kept(n)'
  <2>1. /\ man'[n] = m
        /\ m.IndexedUpTo = w /\ m.IndexEpoch = e /\ m.WALSeq = man[n].WALSeq
        /\ m.ForkWALSeq = man[n].ForkWALSeq
    BY <1>0, <1>2, <1>3, <1>4 DEF Manifest
  <2>2. Logged(n)'
    <3>1. truth'[n] = truth[n] /\ Logged(n)
      BY <1>1, <1>2 DEF Kept
    <3> QED BY <2>1, <3>1 DEF Logged
  <2>3. Fits(n, m)'
    <3>1. <<n, e>> \in DOMAIN index' /\ index'[<<n, e>>] = Live(Stretch(n, 0, w))
      BY <1>1 DEF Put
    <3>2. (Live(Stretch(n, 0, w)))' = Live(Stretch(n, 0, w))
      BY <1>1 DEF Live, Stretch
    <3>3. e > 0
      OBVIOUS
    <3> QED BY <2>1, <3>1, <3>2, <3>3 DEF Fits
  <2>4. m.IndexedUpTo <= m.WALSeq /\ m.IndexEpoch # 0
    BY <1>1, <2>1
  <2> QED BY <1>1, <2>1, <2>2, <2>3, <2>4, ManMoved
<1> QED BY <1>5, <1>6 DEF ManInv

\* BranchFrom's write: the child's logical WAL is the parent's up to the head
\* that the forker read, and so is the epoch the child names.
LEMMA ManFork ==
  ASSUME TypeOK, ManInv, ForkInv, TypeOK', Grows, NEW f \in Forkers, ForkStore(f)
  PROVE ManInv'
<1>0. man \in [Names -> Manifest] /\ truth \in [Names -> Seq(DOMAIN wal)]
      /\ wal' = wal /\ index' = index
  BY DEF TypeOK, ForkStore
<1>1. PICK c \in Fork : fork[f] = c /\ c # NoFork
  BY DEF TypeOK, ForkStore
<1>2. /\ c.child \in Names /\ Past(c.parent, c.pm)
      /\ ~ForkUnindexed => c.pm.IndexEpoch > 0
  BY <1>1 DEF ForkInv
<1>3. CASE man[c.child] # Absent
  <2>1. man' = man /\ truth' = truth
    BY <1>1, <1>3 DEF ForkStore
  <2> QED BY <2>1, ManKept DEF ManInv
<1>4. CASE man[c.child] = Absent
  <2>0. PICK n \in Names, p \in Names, pm \in Manifest : n = c.child /\ p = c.parent /\ pm = c.pm
    BY <1>2 DEF Past, Kin
  <2>1. PICK m \in Manifest : m = ChildManifest(p, pm)
    <3>1. 0 \in Nat
      OBVIOUS
    <3> QED BY <3>1, ManifestTypes
  <2>2. PICK w \in Nat : w = pm.WALSeq
    BY DEF Manifest
  <2>3. /\ man' = [man EXCEPT ![n] = m]
        /\ truth' = [truth EXCEPT ![n] = SubSeq(truth[p], 1, w)]
    BY <1>1, <1>4, <2>0, <2>1, <2>2 DEF ForkStore
  <2>4. ASSUME NEW x \in Names, x # n PROVE Kept(x)'
    BY <1>0, <2>3, <2>4, ManKept
  <2>5. Kept(n)'
    <3>1. /\ Past(p, pm) /\ man[p].Version = 1 /\ p # n /\ man[p] \in Manifest /\ Kept(p)
          /\ w <= man[p].WALSeq /\ pm.ForkWALSeq = man[p].ForkWALSeq /\ pm.ForkWALSeq <= w
      BY <1>0, <1>2, <1>4, <2>0, <2>2, EmptyTypes DEF Past, Kin, ManInv
    <3>2. /\ man'[n] = m /\ m.Version = 1 /\ m.Parent = p /\ m.WALSeq = w /\ m.ForkWALSeq = w
          /\ m.IndexedUpTo = pm.IndexedUpTo /\ m.IndexEpoch = 0
          /\ m.ForkIndexEpoch = pm.IndexEpoch
      <4>1. man'[n] = m
        BY <1>0, <2>3
      <4>3. /\ ChildManifest(p, pm).Version = 1 /\ ChildManifest(p, pm).Parent = p
            /\ ChildManifest(p, pm).WALSeq = pm.WALSeq
            /\ ChildManifest(p, pm).ForkWALSeq = pm.WALSeq
            /\ ChildManifest(p, pm).IndexedUpTo = pm.IndexedUpTo
            /\ ChildManifest(p, pm).IndexEpoch = 0
            /\ ChildManifest(p, pm).ForkIndexEpoch = pm.IndexEpoch
        BY ChildIs
      <4> QED BY <2>1, <2>2, <4>1, <4>3
    <3>3. IsBranch(m) /\ man'[p] = man[p] /\ truth'[p] = truth[p]
      BY <1>0, <2>3, <3>1, <3>2 DEF IsBranch
    <3> DEFINE q == truth'[n]
    <3>4. /\ Len(q) = w /\ \A i \in 1..w : q[i] = truth[p][i]
      <4>1. q = SubSeq(truth[p], 1, w) /\ truth[p] \in Seq(DOMAIN wal) /\ Len(truth[p]) = man[p].WALSeq
        BY <1>0, <2>3, <3>1 DEF Kept, Logged
      <4>2. w <= Len(truth[p])
        BY <3>1, <4>1
      <4> HIDE DEF q
      <4> QED BY <4>1, <4>2
    <3>5. Logged(n)'
      <4>1. \A i \in 1..w : truth[p][i][2] = i - 1
        <5>1. \A i \in 1..man[p].WALSeq : truth[p][i][2] = i - 1
          BY <3>1 DEF Kept, Logged
        <5>2. man[p].WALSeq \in Nat
          BY <3>1 DEF Manifest
        <5> QED BY <3>1, <5>1, <5>2
      <4>2. \A i \in 1..w : q[i][2] = i - 1
        BY <3>4, <4>1
      <4> QED BY <3>2, <3>4, <4>2 DEF Logged
    <3>6. Fits(n, m)'
      <4> SUFFICES ASSUME pm.IndexEpoch > 0
                   PROVE /\ <<p, pm.IndexEpoch>> \in DOMAIN index
                         /\ index[<<p, pm.IndexEpoch>>] = (Live(Stretch(n, 0, pm.IndexedUpTo)))'
        BY <1>0, <3>2 DEF Fits
      <4>1. PICK u \in Nat : u = pm.IndexedUpTo
        BY DEF Manifest
      <4>2. u <= w /\ <<p, pm.IndexEpoch>> \in DOMAIN index
            /\ index[<<p, pm.IndexEpoch>>] = Live(Stretch(p, 0, u))
        BY <2>2, <3>1, <4>1 DEF Past, Fits
      <4>3. Stretch(n, 0, u)' = Stretch(p, 0, u)
        <5>1. \A i \in 0 + 1..u : truth'[n][i] = truth[p][i]
          BY <3>4, <4>2
        <5> QED BY <5>1 DEF Stretch
      <4>4. (Live(Stretch(n, 0, u)))' = Live(Stretch(p, 0, u))
        <5>1. (Live(Stretch(n, 0, u)))' = LiveIn(wal', Stretch(n, 0, u)')
          BY DEF Live, LiveIn
        <5>2. LiveIn(wal', Stretch(n, 0, u)') = LiveIn(wal, Stretch(p, 0, u))
          BY <1>0, <4>3
        <5> QED BY <5>1, <5>2 DEF Live, LiveIn
      <4> QED BY <4>1, <4>2, <4>4
    <3>7. Past(n, m)'
      <4>1. Kin(n, m)'
        <5>1. w <= w
          OBVIOUS
        <5> QED BY <3>2, <5>1 DEF Kin
      <4>2. m.IndexedUpTo <= m.WALSeq
        BY <2>2, <3>1, <3>2 DEF Past
      <4> QED BY <3>2, <3>3, <3>6, <4>1, <4>2 DEF Past
    <3>8. Chained(n)'
      <4>1. \A i \in 1..w : truth'[n][i] = truth'[p][i]
        BY <3>3, <3>4
      <4>2. ~ForkUnindexed => m.ForkIndexEpoch > 0
        BY <1>2, <2>0, <3>2
      <4>3. w <= man'[p].WALSeq /\ man'[p].ForkWALSeq <= w /\ man'[p].Version = 1
        BY <3>1, <3>3
      <4> QED BY <3>2, <4>1, <4>2, <4>3 DEF Chained
    <3>9. Rooted(n)'
      BY <3>2, <3>3 DEF Rooted
    <3> QED BY <3>2, <3>5, <3>7, <3>8, <3>9 DEF Kept
  <2> QED BY <2>4, <2>5 DEF ManInv
<1> QED BY <1>3, <1>4

\* Every step keeps the manifests' part of the invariant.
LEMMA ManStep ==
  ASSUME Core, TypeOK', Grows, [Next]_vars
  PROVE ManInv'
<1> USE DEF Core
<1>1. ASSUME man' = man, truth' = truth PROVE ManInv'
  BY <1>1, ManKept DEF ManInv
<1>2. ASSUME NEW f \in Forkers, NEW p \in Names, NEW c \in Names, ForkLoad(f, p, c) PROVE ManInv'
  BY <1>1, <1>2 DEF ForkLoad
<1>3. ASSUME NEW t \in Tasks, (\E n \in Names : Start(t, n)) \/ ResolveSources(t) \/ ResolveIndex(t)
      PROVE ManInv'
  BY <1>1, <1>3 DEF Start, ResolveSources, ResolveIndex
<1>4. ASSUME NEW t \in Readers, QueryEnd(t) PROVE ManInv'
  BY <1>1, <1>4 DEF QueryEnd
<1>5. CASE UNCHANGED vars
  BY <1>1, <1>5 DEF vars
<1> QED BY <1>2, <1>3, <1>4, <1>5, ManCreate, ManUpsert, ManFork, ManPublish DEF Next

\* Every step keeps segments below the heads and epochs below the manifests'.
LEMMA StoreStep ==
  ASSUME Core, TypeOK', Grows, [Next]_vars
  PROVE StoreInv'
<1> USE DEF Core
<1>0. /\ man \in [Names -> Manifest] /\ man' \in [Names -> Manifest]
      /\ DOMAIN wal \subseteq Names \X Nat /\ DOMAIN index \subseteq Names \X Nat
  BY DEF TypeOK
<1>1. \A n \in Names : /\ man[n].WALSeq \in Nat /\ man[n].IndexEpoch \in Nat
                       /\ man'[n].WALSeq \in Nat /\ man'[n].IndexEpoch \in Nat
  BY <1>0 DEF Manifest
<1>2. \A n \in Names : man[n].WALSeq <= man'[n].WALSeq /\ man[n].IndexEpoch <= man'[n].IndexEpoch
  <2> SUFFICES ASSUME NEW n \in Names
               PROVE man[n].WALSeq <= man'[n].WALSeq /\ man[n].IndexEpoch <= man'[n].IndexEpoch
    OBVIOUS
  <2>1. CASE man[n].Version = 1
    BY <2>1 DEF Grows
  <2>2. CASE man[n].Version = 0
    <3>1. man[n] = Absent
      BY <2>2 DEF ManInv, Kept
    <3> QED BY <1>1, <3>1 DEF Absent
  <2>3. man[n].Version \in {0, 1}
    BY <1>0 DEF Manifest
  <2> QED BY <2>1, <2>2, <2>3
<1>3. \A v \in DOMAIN wal : v[2] < man'[v[1]].WALSeq
  BY <1>0, <1>1, <1>2 DEF StoreInv
<1>4. \A e \in DOMAIN index : e[2] <= man'[e[1]].IndexEpoch
  BY <1>0, <1>1, <1>2 DEF StoreInv
<1>5. ASSUME wal' = wal, index' = index PROVE StoreInv'
  BY <1>3, <1>4, <1>5 DEF StoreInv
<1>6. ASSUME NEW n \in Names, Upsert(n) PROVE StoreInv'
  <2>1. PICK s \in Nat : s = man[n].WALSeq
    BY <1>1
  <2>2. DOMAIN wal' = DOMAIN wal \cup {<<n, s>>} /\ index' = index
    BY <1>6, <2>1 DEF Upsert, Put
  <2>3. man'[n].WALSeq = s + 1
    BY <1>0, <1>6, <2>1 DEF Upsert, Manifest
  <2> QED BY <1>3, <1>4, <2>2, <2>3 DEF StoreInv
<1>7. ASSUME NEW t \in Builders, Publish(t) PROVE StoreInv'
  <2>1. PICK n \in Names, w \in Nat, e \in Nat \ {0} :
          /\ man' = [man EXCEPT ![n] = [man[n] EXCEPT !.IndexEpoch = e, !.IndexedUpTo = w]]
          /\ index' = Put(index, <<n, e>>, Live(Stretch(n, 0, w)))
          /\ wal' = wal
    BY <1>7, PublishIs
  <2>2. DOMAIN index' = DOMAIN index \cup {<<n, e>>}
    BY <2>1 DEF Put
  <2>3. man'[n].IndexEpoch = e
    BY <1>0, <2>1 DEF Manifest
  <2> QED BY <1>3, <1>4, <2>1, <2>2, <2>3 DEF StoreInv
<1>8. ASSUME NEW t \in Tasks, (\E n \in Names : Start(t, n)) \/ ResolveSources(t) \/ ResolveIndex(t)
      PROVE StoreInv'
  BY <1>5, <1>8 DEF Start, ResolveSources, ResolveIndex
<1>9. ASSUME NEW f \in Forkers, ForkStore(f) \/ \E p, c \in Names : ForkLoad(f, p, c) PROVE StoreInv'
  BY <1>5, <1>9 DEF ForkStore, ForkLoad
<1>10. ASSUME NEW t \in Readers, QueryEnd(t) PROVE StoreInv'
  BY <1>5, <1>10 DEF QueryEnd
<1>11. ASSUME NEW n \in Roots, Create(n) PROVE StoreInv'
  BY <1>5, <1>11 DEF Create
<1>12. CASE UNCHANGED vars
  BY <1>5, <1>12 DEF vars
<1> QED BY <1>6, <1>7, <1>8, <1>9, <1>10, <1>11, <1>12 DEF Next

\* Every step keeps what the forkers know.
LEMMA ForkStep ==
  ASSUME Core, TypeOK', Grows, [Next]_vars
  PROVE ForkInv'
<1> USE DEF Core
<1>0. fork \in [Forkers -> Fork] /\ man \in [Names -> Manifest]
  BY DEF TypeOK
<1>1. ASSUME NEW f \in Forkers, NEW c \in Fork, fork[f] = c, c # NoFork
      PROVE /\ c.child \in Names /\ Past(c.parent, c.pm)'
            /\ ~ForkUnindexed => c.pm.IndexEpoch > 0
  BY <1>1, PastStable DEF ForkInv
<1>2. ASSUME fork' = fork PROVE ForkInv'
  BY <1>1, <1>2 DEF ForkInv
<1>3. ASSUME NEW f \in Forkers, NEW p \in Names, NEW n \in Names, ForkLoad(f, p, n) PROVE ForkInv'
  <2>1. PICK pm \in Manifest : pm = man[p]
    BY <1>0
  <2>2. PICK r : r = [parent |-> p, child |-> n, pm |-> pm]
    OBVIOUS
  <2>3. r.child \in Names /\ r.parent = p /\ r.pm = pm
    BY <2>2
  <2>4. fork' = [fork EXCEPT ![f] = r] /\ (~ForkUnindexed => pm.IndexEpoch > 0) /\ pm # Absent
    BY <1>3, <2>1, <2>2 DEF ForkLoad
  <2>5. Past(p, pm)'
    <3>1. Kept(p) /\ pm.Version = 1
      BY <2>1, <2>4 DEF ManInv, Kept, Manifest
    <3> QED BY <2>1, <3>1, PastStable DEF Kept
  <2>6. ASSUME NEW g \in Forkers, NEW c \in Fork, fork'[g] = c, c # NoFork
        PROVE /\ c.child \in Names /\ Past(c.parent, c.pm)'
              /\ ~ForkUnindexed => c.pm.IndexEpoch > 0
    <3>1. CASE g = f
      <4>1. c = r
        BY <1>0, <2>4, <2>6, <3>1
      <4>2. c.child \in Names /\ c.parent = p /\ c.pm = pm
        BY <2>3, <4>1
      <4> HIDE DEF Past
      <4> QED BY <2>4, <2>5, <4>2
    <3>2. CASE g # f
      <4>1. fork[g] = c
        BY <1>0, <2>4, <2>6, <3>2
      <4> QED BY <1>1, <2>6, <4>1
    <3> QED BY <3>1, <3>2
  <2> QED BY <2>6 DEF ForkInv
<1>4. ASSUME NEW f \in Forkers, ForkStore(f) PROVE ForkInv'
  <2>1. fork' = [fork EXCEPT ![f] = NoFork]
    BY <1>4 DEF ForkStore
  <2>2. ASSUME NEW g \in Forkers, NEW c \in Fork, fork'[g] = c, c # NoFork
        PROVE /\ c.child \in Names /\ Past(c.parent, c.pm)'
              /\ ~ForkUnindexed => c.pm.IndexEpoch > 0
    <3>1. fork[g] = c
      BY <1>0, <2>1, <2>2
    <3> QED BY <1>1, <2>2, <3>1
  <2> QED BY <2>2 DEF ForkInv
<1>5. ASSUME NEW n \in Names, Upsert(n) \/ Create(n) PROVE ForkInv'
  BY <1>2, <1>5 DEF Upsert, Create
<1>6. ASSUME NEW t \in Tasks, (\E n \in Names : Start(t, n)) \/ ResolveSources(t) \/ ResolveIndex(t)
      PROVE ForkInv'
  BY <1>2, <1>6 DEF Start, ResolveSources, ResolveIndex
<1>7. ASSUME NEW t \in Tasks, QueryEnd(t) \/ Publish(t) PROVE ForkInv'
  BY <1>2, <1>7 DEF QueryEnd, Publish
<1>8. CASE UNCHANGED vars
  BY <1>2, <1>8 DEF vars
<1> QED BY <1>3, <1>4, <1>5, <1>6, <1>7, <1>8 DEF Next, Tasks

\* Every step keeps the builds of a namespace apart, each on the live epoch.
LEMMA BuildStep ==
  ASSUME Core, TypeOK', Grows, [Next]_vars
  PROVE BuildInv'
<1> USE DEF Core
<1>0. /\ task \in [Tasks -> Task] /\ task' \in [Tasks -> Task] /\ man \in [Names -> Manifest]
      /\ Builders \subseteq Tasks
  BY DEF TypeOK, Tasks
<1>1. ASSUME NEW t \in Builders, task[t].at # "end"
      PROVE task[t].ns \in Names /\ man[task[t].ns].Version = 1
  <2>1. task[t] \in Task /\ Walked(task[t])
    BY <1>0 DEF TaskInv
  <2> QED BY <1>1, <2>1 DEF Walked, Past, Kin
<1>2. ASSUME \A n \in Names : man[n].Version = 1 => man'[n].IndexEpoch = man[n].IndexEpoch,
             \A t \in Builders : task'[t] = task[t]
      PROVE BuildInv'
  BY <1>1, <1>2 DEF BuildInv
<1>3. ASSUME NEW n \in Names, Create(n) \/ Upsert(n) PROVE BuildInv'
  <2>1. task' = task
    BY <1>3 DEF Create, Upsert
  <2>2. \A x \in Names : man'[x].IndexEpoch = man[x].IndexEpoch
    <3>1. man[n] \in Manifest
      BY <1>0
    <3>2. \E m : man' = [man EXCEPT ![n] = m] /\ m.IndexEpoch = man[n].IndexEpoch
      <4>1. CASE Create(n)
        <5> DEFINE m == [man[n] EXCEPT !.Version = 1]
        <5>1. man' = [man EXCEPT ![n] = m]
          BY <4>1 DEF Create
        <5>2. m.IndexEpoch = man[n].IndexEpoch
          BY <3>1 DEF Manifest
        <5> HIDE DEF m
        <5> QED BY <5>1, <5>2
      <4>2. CASE Upsert(n)
        <5> DEFINE m == [man[n] EXCEPT !.WALSeq = man[n].WALSeq + 1]
        <5>1. man' = [man EXCEPT ![n] = m]
          BY <4>2 DEF Upsert
        <5>2. m.IndexEpoch = man[n].IndexEpoch
          BY <3>1 DEF Manifest
        <5> HIDE DEF m
        <5> QED BY <5>1, <5>2
      <4> QED BY <1>3, <4>1, <4>2
    <3> QED BY <1>0, <3>2
  <2> QED BY <1>2, <2>1, <2>2
<1>4. ASSUME NEW f \in Forkers, ForkStore(f) \/ \E p, c \in Names : ForkLoad(f, p, c) PROVE BuildInv'
  <2>1. task' = task
    BY <1>4 DEF ForkStore, ForkLoad
  <2>2. \A x \in Names : man[x].Version = 1 => man'[x] = man[x]
    BY <1>0, <1>4, EmptyTypes DEF ForkStore, ForkLoad
  <2> QED BY <1>2, <2>1, <2>2
<1>5. ASSUME NEW t \in Readers, QueryEnd(t) PROVE BuildInv'
  <2>1. t \notin Builders /\ task' = [task EXCEPT ![t] = NoTask] /\ man' = man
    BY <1>5 DEF QueryEnd
  <2> QED BY <1>0, <1>2, <2>1
<1>6. ASSUME NEW t \in Tasks, NEW n \in Names, Start(t, n) PROVE BuildInv'
  <2>1. /\ man' = man /\ task[t] = NoTask
        /\ t \in Builders => \A b \in Builders : task[b].ns # n
        /\ \A u \in Tasks : u # t => task'[u] = task[u]
        /\ task'[t].ns = n /\ task'[t].m.IndexEpoch = man[n].IndexEpoch
    BY <1>0, <1>6 DEF Start, NoTask
  <2>2. CASE t \notin Builders
    BY <1>0, <1>2, <2>1, <2>2
  <2>3. CASE t \in Builders
    <3>1. ASSUME NEW u \in Builders, task'[u].at # "end"
          PROVE /\ task'[u].m.IndexEpoch = man'[task'[u].ns].IndexEpoch
                /\ \A b \in Builders : task'[b].ns = task'[u].ns => b = u
      <4>1. CASE u = t
        BY <1>0, <2>1, <2>3, <4>1
      <4>2. CASE u # t
        <5>1. task'[u] = task[u] /\ task[u].ns # n
          BY <1>0, <2>1, <2>3, <4>2
        <5> QED BY <1>0, <2>1, <3>1, <4>2, <5>1 DEF BuildInv
      <4> QED BY <4>1, <4>2
    <3> QED BY <3>1 DEF BuildInv
  <2> QED BY <2>2, <2>3
<1>7. ASSUME NEW t \in Tasks, ResolveSources(t) \/ ResolveIndex(t) PROVE BuildInv'
  <2>1. /\ man' = man /\ task[t].at # "end"
        /\ \A u \in Tasks : u # t => task'[u] = task[u]
    BY <1>0, <1>7 DEF ResolveSources, ResolveIndex
  <2>2. task'[t].ns = task[t].ns /\ task'[t].m = task[t].m
    <3>1. PICK k \in Task : task[t] = k
      BY <1>0
    <3>2. CASE ResolveSources(t)
      BY <1>0, <3>1, <3>2 DEF ResolveSources, Task
    <3>3. CASE ResolveIndex(t)
      BY <1>0, <3>1, <3>3 DEF ResolveIndex, Task
    <3> QED BY <1>7, <3>2, <3>3
  <2>3. \A u \in Tasks : /\ task'[u].ns = task[u].ns /\ task'[u].m = task[u].m
                         /\ task'[u].at # "end" => task[u].at # "end"
    BY <2>1, <2>2
  <2> QED BY <1>0, <2>1, <2>3 DEF BuildInv
<1>8. ASSUME NEW t \in Builders, Publish(t) PROVE BuildInv'
  <2>1. PICK n \in Names, w \in Nat, e \in Nat \ {0} :
          /\ task[t].ns = n /\ man[n].Version = 1 /\ w <= man[n].WALSeq
          /\ e = task[t].m.IndexEpoch + 1 /\ task[t].at = "read"
          /\ man' = [man EXCEPT ![n] = [man[n] EXCEPT !.IndexEpoch = e, !.IndexedUpTo = w]]
          /\ index' = Put(index, <<n, e>>, Live(Stretch(n, 0, w)))
          /\ wal' = wal /\ truth' = truth /\ fork' = fork
          /\ task' = [task EXCEPT ![t] = NoTask]
    BY <1>8, PublishIs
  <2>2. \A x \in Names : x # n => man'[x] = man[x]
    BY <1>0, <2>1
  <2>3. task'[t].at = "end" /\ task'[t].ns = NoName
    BY <1>0, <2>1, EmptyTypes
  <2>4. ASSUME NEW u \in Builders, task'[u].at # "end"
        PROVE /\ task'[u].m.IndexEpoch = man'[task'[u].ns].IndexEpoch
              /\ \A b \in Builders : task'[b].ns = task'[u].ns => b = u
    <3>1. u # t /\ task'[u] = task[u] /\ task[u].at # "end"
      BY <1>0, <2>1, <2>3, <2>4
    <3>2. task[u].ns \in Names /\ task[u].ns # n
      BY <1>1, <2>1, <3>1 DEF BuildInv
    <3>3. ASSUME NEW b \in Builders, task'[b].ns = task'[u].ns PROVE b = u
      <4>1. b # t
        BY <2>3, <3>1, <3>2, <3>3
      <4>2. task'[b] = task[b]
        BY <1>0, <2>1, <4>1
      <4> QED BY <3>1, <3>3, <4>2 DEF BuildInv
    <3> QED BY <2>2, <3>1, <3>2, <3>3 DEF BuildInv
  <2> QED BY <2>4 DEF BuildInv
<1>9. CASE UNCHANGED vars
  BY <1>2, <1>9 DEF vars
<1> QED BY <1>3, <1>4, <1>5, <1>6, <1>7, <1>8, <1>9 DEF Next, Tasks

-----------------------------------------------------------------------------
(***************************************************************************)
(* The walk.                                                               *)
(***************************************************************************)
\* What a task that is walking has, by the names of the values.
LEMMA WalkIs ==
  ASSUME TypeOK, ManInv, NEW k \in Task, Walked(k), k.at = "sources"
  PROVE /\ k.ns \in Names /\ k.cur \in Names /\ k.curM \in Manifest
        /\ Kin(k.cur, k.curM) /\ Past(k.ns, k.m)
        /\ k.curM.ForkWALSeq \in Nat /\ k.curM.WALSeq \in Nat /\ k.m.WALSeq \in Nat
        /\ k.curM.ForkWALSeq <= k.curM.WALSeq /\ k.curM.WALSeq <= k.m.WALSeq
        /\ \A i \in 1..k.curM.WALSeq : truth[k.ns][i] = truth[k.cur][i]
        /\ \A i \in k.curM.ForkWALSeq + 1..k.curM.WALSeq : truth[k.ns][i] = <<k.cur, i - 1>>
        /\ Runs(k.sources) = Stretch(k.ns, k.curM.WALSeq, k.m.WALSeq)
<1>1. Kin(k.cur, k.curM) /\ Past(k.ns, k.m) /\ k.curM.WALSeq <= k.m.WALSeq
  BY DEF Walked
<1>2. /\ k.ns \in Names /\ k.cur \in Names /\ k.curM \in Manifest /\ k.m \in Manifest
      /\ Logged(k.cur) /\ man[k.cur] \in Manifest
      /\ k.curM.ForkWALSeq = man[k.cur].ForkWALSeq /\ k.curM.WALSeq <= man[k.cur].WALSeq
      /\ k.curM.ForkWALSeq <= k.curM.WALSeq
  BY <1>1 DEF Past, Kin, ManInv, Kept, TypeOK
<1>3. /\ k.curM.ForkWALSeq \in Nat /\ k.curM.WALSeq \in Nat /\ k.m.WALSeq \in Nat
      /\ man[k.cur].WALSeq \in Nat
  BY <1>2 DEF Manifest
<1>4. \A i \in 1..k.curM.WALSeq : truth[k.ns][i] = truth[k.cur][i]
  BY DEF Walked
<1>5. ASSUME NEW i \in k.curM.ForkWALSeq + 1..k.curM.WALSeq
      PROVE truth[k.ns][i] = <<k.cur, i - 1>>
  <2>1. i \in 1..k.curM.WALSeq /\ i \in man[k.cur].ForkWALSeq + 1..man[k.cur].WALSeq
    BY <1>2, <1>3
  <2> QED BY <1>2, <1>4, <2>1 DEF Logged
<1> QED BY <1>1, <1>2, <1>3, <1>4, <1>5 DEF Walked

\* A namespace's own run joins what the walk has collected.
LEMMA OwnJoins ==
  ASSUME TypeOK, ManInv, NEW k \in Task, Walked(k), k.at = "sources",
         NEW low \in Nat, low = IF IsBranch(k.curM) THEN k.curM.ForkWALSeq ELSE 0
  PROVE /\ Own(k.cur, k.curM) \o k.sources \in Seq(Source)
        /\ Runs(Own(k.cur, k.curM) \o k.sources) = Stretch(k.ns, low, k.m.WALSeq)
<1> DEFINE n == k.cur
           m == k.curM
           own == Own(n, m)
<1>1. /\ k.ns \in Names /\ n \in Names /\ m \in Manifest /\ Kin(n, m)
      /\ m.WALSeq \in Nat /\ k.m.WALSeq \in Nat
      /\ m.ForkWALSeq <= m.WALSeq /\ m.WALSeq <= k.m.WALSeq
      /\ \A i \in m.ForkWALSeq + 1..m.WALSeq : truth[k.ns][i] = <<n, i - 1>>
      /\ Runs(k.sources) = Stretch(k.ns, m.WALSeq, k.m.WALSeq)
  BY WalkIs
<1>2. low = m.ForkWALSeq
  BY <1>1 DEF Kin, ManInv, Kept, Rooted, IsBranch
<1>3. own \in Seq(Source) /\ Runs(own) = {<<n, s>> : s \in low..m.WALSeq - 1}
  BY <1>1, OwnTypes
<1>4. own \o k.sources \in Seq(Source) /\ Runs(own \o k.sources) = Runs(own) \cup Runs(k.sources)
  BY <1>3, RunsConcat DEF Task
<1> HIDE DEF own, n, m
<1>5. ASSUME NEW v PROVE v \in Runs(own) \cup Runs(k.sources) <=> v \in Stretch(k.ns, low, k.m.WALSeq)
  <2> DEFINE a == m.WALSeq
             b == k.m.WALSeq
  <2>1. ASSUME v \in Runs(own) PROVE v \in Stretch(k.ns, low, b)
    <3>1. PICK s \in low..a - 1 : v = <<n, s>>
      BY <1>3, <2>1
    <3>2. s + 1 \in low + 1..a /\ s + 1 \in low + 1..b /\ s + 1 - 1 = s
      BY <1>1, <3>1
    <3>3. truth[k.ns][s + 1] = <<n, s>>
      BY <1>1, <1>2, <3>2
    <3> QED BY <3>1, <3>2, <3>3 DEF Stretch
  <2>2. ASSUME v \in Runs(k.sources) PROVE v \in Stretch(k.ns, low, b)
    <3>1. \A i \in a + 1..b : i \in low + 1..b
      BY <1>1, <1>2
    <3> QED BY <1>1, <2>2, <3>1 DEF Stretch
  <2>3. ASSUME v \in Stretch(k.ns, low, b) PROVE v \in Runs(own) \cup Runs(k.sources)
    <3>1. PICK i \in low + 1..b : v = truth[k.ns][i]
      BY <2>3 DEF Stretch
    <3>2. CASE i \in a + 1..b
      BY <1>1, <3>1, <3>2 DEF Stretch
    <3>3. CASE i \notin a + 1..b
      <4>1. i \in m.ForkWALSeq + 1..a /\ i - 1 \in low..a - 1
        BY <1>1, <1>2, <3>3
      <4> QED BY <1>1, <1>3, <3>1, <4>1
    <3> QED BY <3>2, <3>3
  <2> QED BY <2>1, <2>2, <2>3
<1>6. Runs(own) \cup Runs(k.sources) = Stretch(k.ns, low, k.m.WALSeq)
  BY <1>5
<1> QED BY <1>4, <1>6 DEF own, n, m

\* One step up the chain, to the parent clamped at the fork.
LEMMA SourcesUp ==
  ASSUME TypeOK, ManInv, NEW k \in Task, Walked(k), k.at = "sources", IsBranch(k.curM),
         NEW ss, ss = Own(k.cur, k.curM) \o k.sources,
         NEW cm, cm = Clamped(man[k.curM.Parent], k.curM),
         NEW q, q = [k EXCEPT !.sources = ss, !.cur = k.curM.Parent, !.curM = cm]
  PROVE Walked(q)
<1>1. /\ q.at = "sources" /\ q.ns = k.ns /\ q.m = k.m /\ q.cur = k.curM.Parent
      /\ q.curM = cm /\ q.sources = ss
  BY DEF Task
<1>2. PICK p \in Names, low \in Nat, n \in Names, m \in Manifest :
        p = k.curM.Parent /\ low = k.curM.ForkWALSeq /\ n = k.cur /\ m = k.curM
  BY WalkIs DEF Kin, ManInv, Kept, Chained, IsBranch
<1>3. /\ man[p] \in Manifest /\ Kin(n, m) /\ Kept(n) /\ Past(k.ns, k.m)
      /\ low <= m.WALSeq /\ m.WALSeq <= k.m.WALSeq /\ m.WALSeq \in Nat /\ k.m.WALSeq \in Nat
      /\ \A i \in 1..m.WALSeq : truth[k.ns][i] = truth[n][i]
  BY <1>2, WalkIs DEF ManInv, TypeOK
<1>4. /\ man[p].Version = 1 /\ low <= man[p].WALSeq /\ man[p].ForkWALSeq <= low
      /\ \A i \in 1..low : truth[n][i] = truth[p][i]
  BY <1>2, <1>3 DEF Kin, Kept, Chained, IsBranch
<1>5. /\ cm \in Manifest /\ cm.WALSeq = low /\ cm.Version = 1 /\ cm.Parent = man[p].Parent
      /\ cm.ForkWALSeq = man[p].ForkWALSeq /\ cm.ForkIndexEpoch = man[p].ForkIndexEpoch
  <2>1. Smaller(man[p].WALSeq, low) = low
    BY <1>3, <1>4 DEF Smaller, Manifest
  <2> QED BY <1>2, <1>3, <1>4, <2>1, ClampedIs
<1>6. Kin(p, cm)
  BY <1>4, <1>5 DEF Kin
<1>7. Runs(ss) = Stretch(k.ns, low, k.m.WALSeq)
  BY <1>2, OwnJoins
<1>8. low <= k.m.WALSeq /\ \A i \in 1..low : truth[k.ns][i] = truth[p][i]
  <2>1. \A i \in 1..low : i \in 1..m.WALSeq
    BY <1>3
  <2> QED BY <1>3, <1>4, <2>1
<1>9. /\ Past(q.ns, q.m) /\ Kin(q.cur, q.curM) /\ q.curM.WALSeq <= q.m.WALSeq
      /\ \A i \in 1..q.curM.WALSeq : truth[q.ns][i] = truth[q.cur][i]
      /\ Runs(q.sources) = Stretch(q.ns, q.curM.WALSeq, q.m.WALSeq)
  <2>1. Past(q.ns, q.m) /\ Kin(q.cur, q.curM)
    BY <1>1, <1>2, <1>3, <1>6
  <2>2. q.curM.WALSeq <= q.m.WALSeq
    BY <1>1, <1>5, <1>8
  <2>3. \A i \in 1..q.curM.WALSeq : truth[q.ns][i] = truth[q.cur][i]
    BY <1>1, <1>2, <1>5, <1>8
  <2>4. Runs(q.sources) = Stretch(q.ns, q.curM.WALSeq, q.m.WALSeq)
    BY <1>1, <1>5, <1>7
  <2> QED BY <2>1, <2>2, <2>3, <2>4
<1>10. q.at # "end" /\ q.at \notin {"index", "read"}
  BY <1>1
<1> HIDE DEF Kin, Past, Stretch, Runs
<1> QED BY <1>9, <1>10 DEF Walked

\* The end of the chain: the view is complete, and the walk starts over for the epoch.
LEMMA SourcesDone ==
  ASSUME TypeOK, ManInv, NEW k \in Task, Walked(k), k.at = "sources", ~IsBranch(k.curM),
         NEW ss, ss = Own(k.cur, k.curM) \o k.sources,
         NEW q, q = [k EXCEPT !.sources = ss, !.at = "index", !.cur = k.ns, !.curM = k.m]
  PROVE Walked(q)
<1>1. /\ q.at = "index" /\ q.ns = k.ns /\ q.m = k.m /\ q.cur = k.ns
      /\ q.curM = k.m /\ q.sources = ss
  BY DEF Task
<1>2. Past(k.ns, k.m) /\ Kin(k.ns, k.m)
  BY WalkIs DEF Past
<1>3. Runs(ss) = Stretch(k.ns, 0, k.m.WALSeq)
  <2>1. 0 \in Nat
    OBVIOUS
  <2> QED BY <2>1, OwnJoins
<1> QED BY <1>1, <1>2, <1>3 DEF Walked

\* The search for the epoch: it ends at the namespace's own, or at the fork's.
LEMMA IndexWalked ==
  ASSUME TypeOK, ManInv, NEW k \in Task, Walked(k), k.at = "index", NEW q,
         q = IF k.curM.IndexEpoch > 0 \/ ~IsBranch(k.curM)
             THEN [k EXCEPT !.at = "read", !.ix = <<k.cur, k.curM.IndexEpoch>>]
             ELSE IF k.curM.ForkIndexEpoch > 0
             THEN [k EXCEPT !.at = "read", !.ix = <<k.curM.Parent, k.curM.ForkIndexEpoch>>]
             ELSE [k EXCEPT !.cur = k.curM.Parent, !.curM = man[k.curM.Parent]]
  PROVE Walked(q)
<1>1. /\ Past(k.ns, k.m) /\ Kin(k.cur, k.curM) /\ k.curM \in Manifest /\ k.cur \in Names
      /\ Runs(k.sources) = Stretch(k.ns, 0, k.m.WALSeq)
      /\ ~ForkUnindexed => k.cur = k.ns /\ k.curM = k.m
  BY DEF Walked, Kin
<1>2. k.curM.IndexEpoch \in Nat
  BY <1>1 DEF Manifest
<1>3. CASE k.curM.IndexEpoch > 0 \/ ~IsBranch(k.curM)
  <2>1. /\ q.at = "read" /\ q.ns = k.ns /\ q.m = k.m /\ q.sources = k.sources
        /\ q.ix = <<k.cur, k.curM.IndexEpoch>>
    BY <1>3 DEF Task
  <2>2. ~ForkUnindexed => q.ix = Chosen(k.ns, k.m)
    BY <1>1, <1>2, <1>3, <2>1 DEF Chosen
  <2> QED BY <1>1, <2>1, <2>2 DEF Walked
<1>4. CASE ~(k.curM.IndexEpoch > 0) /\ IsBranch(k.curM) /\ k.curM.ForkIndexEpoch > 0
  <2>1. /\ q.at = "read" /\ q.ns = k.ns /\ q.m = k.m /\ q.sources = k.sources
        /\ q.ix = <<k.curM.Parent, k.curM.ForkIndexEpoch>>
    BY <1>4 DEF Task
  <2>2. ~ForkUnindexed => q.ix = Chosen(k.ns, k.m)
    BY <1>1, <1>4, <2>1 DEF Chosen
  <2> QED BY <1>1, <2>1, <2>2 DEF Walked
<1>5. CASE ~(k.curM.IndexEpoch > 0) /\ IsBranch(k.curM) /\ ~(k.curM.ForkIndexEpoch > 0)
  <2>1. PICK p : p = k.curM.Parent
    OBVIOUS
  <2>2. /\ p \in Names /\ man[p].Version = 1 /\ Kept(p) /\ man[p] \in Manifest
        /\ ~ForkUnindexed => k.curM.ForkIndexEpoch > 0
    <3>1. Kept(k.cur) /\ man[k.cur].Parent = p /\ IsBranch(man[k.cur])
          /\ man[k.cur].ForkIndexEpoch = k.curM.ForkIndexEpoch
      BY <1>1, <1>5, <2>1 DEF Kin, ManInv, IsBranch
    <3>2. p \in Names /\ man[p].Version = 1 /\ (~ForkUnindexed => k.curM.ForkIndexEpoch > 0)
      BY <3>1 DEF Kept, Chained
    <3> QED BY <3>2 DEF ManInv, TypeOK
  <2>3. Kin(p, man[p])
    BY <2>2 DEF Kept, Past
  <2>4. /\ q.at = "index" /\ q.ns = k.ns /\ q.m = k.m /\ q.sources = k.sources
        /\ q.cur = p /\ q.curM = man[p]
    BY <1>5, <2>1 DEF Task
  <2> QED BY <1>1, <1>5, <2>2, <2>3, <2>4 DEF Walked
<1> QED BY <1>3, <1>4, <1>5

\* Every step keeps what the tasks know.
LEMMA TaskStep ==
  ASSUME Core, TypeOK', Grows, [Next]_vars
  PROVE TaskInv'
<1> USE DEF Core
<1>0. task \in [Tasks -> Task] /\ task' \in [Tasks -> Task] /\ man \in [Names -> Manifest]
  BY DEF TypeOK
<1>1. ASSUME NEW t \in Tasks, NEW k \in Task, task[t] = k PROVE Walked(k) /\ Walked(k)'
  <2>1. Walked(k)
    BY <1>1 DEF TaskInv
  <2> QED BY <2>1, WalkedStable
<1>2. ASSUME task' = task PROVE TaskInv'
  BY <1>1, <1>2 DEF TaskInv
<1>3. ASSUME NEW t \in Tasks, NEW q \in Task, Walked(q), \A u \in Tasks : u # t => task'[u] = task[u],
             task'[t] = q
      PROVE TaskInv'
  <2>1. Walked(q)'
    BY <1>3, WalkedStable
  <2>2. ASSUME NEW u \in Tasks, NEW k \in Task, task'[u] = k PROVE Walked(k)'
    <3>1. CASE u = t
      <4>1. k = q
        BY <1>3, <2>2, <3>1
      <4> QED BY <2>1, <4>1
    <3>2. CASE u # t
      <4>1. task[u] = k
        BY <1>3, <2>2, <3>2
      <4> QED BY <1>1, <4>1
    <3> QED BY <3>1, <3>2
  <2> QED BY <2>2 DEF TaskInv
<1>4. Walked(NoTask)
  BY EmptyTypes DEF Walked
<1>5. ASSUME NEW t \in Tasks, NEW n \in Names, Start(t, n) PROVE TaskInv'
  <2>1. PICK m \in Manifest : m = man[n]
    BY <1>0
  <2>2. PICK q : q = [NoTask EXCEPT !.at = "sources", !.ns = n, !.m = m, !.cur = n, !.curM = m]
    OBVIOUS
  <2>3. q.at = "sources" /\ q.ns = n /\ q.m = m /\ q.cur = n /\ q.curM = m /\ q.sources = <<>>
    BY <2>2 DEF NoTask
  <2>4. task' = [task EXCEPT ![t] = q] /\ m # Absent
    BY <1>5, <2>1, <2>2 DEF Start
  <2>5. task'[t] = q /\ q \in Task /\ \A u \in Tasks : u # t => task'[u] = task[u]
    BY <1>0, <2>4
  <2>6. Past(n, m)
    <3>1. Kept(n) /\ m.Version = 1
      BY <2>1, <2>4 DEF ManInv, Kept, Manifest
    <3> QED BY <2>1, <3>1 DEF Kept
  <2>7. Runs(<<>>) = Stretch(n, m.WALSeq, m.WALSeq)
    <3>1. m.WALSeq + 1..m.WALSeq = {}
      BY DEF Manifest
    <3>2. Stretch(n, m.WALSeq, m.WALSeq) = {}
      BY <3>1 DEF Stretch
    <3>3. Runs(<<>>) = {}
      BY RunsAre
    <3> QED BY <3>2, <3>3
  <2>8. m.WALSeq <= m.WALSeq
    BY DEF Manifest
  <2>9. Walked(q)
    BY <2>3, <2>6, <2>7, <2>8 DEF Walked, Past
  <2> QED BY <1>3, <2>5, <2>9
<1>6. ASSUME NEW t \in Tasks, ResolveSources(t) PROVE TaskInv'
  <2>1. PICK k \in Task : task[t] = k
    BY <1>0
  <2>2. Walked(k) /\ k.at = "sources"
    BY <1>1, <1>6, <2>1 DEF ResolveSources
  <2>3. PICK ss : ss = Own(k.cur, k.curM) \o k.sources
    OBVIOUS
  <2>4. \A u \in Tasks : u # t => task'[u] = task[u]
    BY <1>0, <1>6, TaskTypes
  <2>5. CASE IsBranch(k.curM)
    <3>1. PICK cm : cm = Clamped(man[k.curM.Parent], k.curM)
      OBVIOUS
    <3>2. PICK q : q = [k EXCEPT !.sources = ss, !.cur = k.curM.Parent, !.curM = cm]
      OBVIOUS
    <3>3. task'[t] = q
      BY <1>0, <1>6, <2>1, <2>3, <2>5, <3>1, <3>2 DEF ResolveSources
    <3>4. Walked(q)
      BY <2>2, <2>3, <2>5, <3>1, <3>2, SourcesUp
    <3>5. q \in Task
      BY <1>0, <3>3
    <3> QED BY <1>3, <2>4, <3>3, <3>4, <3>5
  <2>6. CASE ~IsBranch(k.curM)
    <3>1. PICK q : q = [k EXCEPT !.sources = ss, !.at = "index", !.cur = k.ns, !.curM = k.m]
      OBVIOUS
    <3>2. task'[t] = q
      BY <1>0, <1>6, <2>1, <2>3, <2>6, <3>1 DEF ResolveSources
    <3>3. Walked(q)
      BY <2>2, <2>3, <2>6, <3>1, SourcesDone
    <3>4. q \in Task
      BY <1>0, <3>2
    <3> QED BY <1>3, <2>4, <3>2, <3>3, <3>4
  <2> QED BY <2>5, <2>6
<1>7. ASSUME NEW t \in Tasks, ResolveIndex(t) PROVE TaskInv'
  <2>1. PICK k \in Task : task[t] = k
    BY <1>0
  <2>2. Walked(k) /\ k.at = "index"
    BY <1>1, <1>7, <2>1 DEF ResolveIndex
  <2>3. PICK q : q = IF k.curM.IndexEpoch > 0 \/ ~IsBranch(k.curM)
                 THEN [k EXCEPT !.at = "read", !.ix = <<k.cur, k.curM.IndexEpoch>>]
                 ELSE IF k.curM.ForkIndexEpoch > 0
                 THEN [k EXCEPT !.at = "read", !.ix = <<k.curM.Parent, k.curM.ForkIndexEpoch>>]
                 ELSE [k EXCEPT !.cur = k.curM.Parent, !.curM = man[k.curM.Parent]]
    OBVIOUS
  <2>4. task'[t] = q
    BY <1>0, <1>7, <2>1, <2>3 DEF ResolveIndex
  <2>5. \A u \in Tasks : u # t => task'[u] = task[u]
    BY <1>0, <1>7, TaskTypes
  <2>6. q \in Task
    BY <1>0, <2>4
  <2>7. Walked(q)
    BY <2>2, <2>3, IndexWalked
  <2> QED BY <1>3, <2>4, <2>5, <2>6, <2>7
<1>8. ASSUME NEW t \in Tasks, QueryEnd(t) \/ Publish(t) PROVE TaskInv'
  <2>1. task' = [task EXCEPT ![t] = NoTask]
    BY <1>8 DEF QueryEnd, Publish
  <2>2. task'[t] = NoTask /\ NoTask \in Task /\ \A u \in Tasks : u # t => task'[u] = task[u]
    BY <1>0, <2>1, EmptyTypes
  <2> QED BY <1>3, <1>4, <2>2
<1>9. ASSUME NEW n \in Names, Upsert(n) \/ Create(n) PROVE TaskInv'
  BY <1>2, <1>9 DEF Upsert, Create
<1>10. ASSUME NEW f \in Forkers, ForkStore(f) \/ \E p, c \in Names : ForkLoad(f, p, c) PROVE TaskInv'
  BY <1>2, <1>10 DEF ForkStore, ForkLoad
<1>11. CASE UNCHANGED vars
  BY <1>2, <1>11 DEF vars
<1> QED BY <1>5, <1>6, <1>7, <1>8, <1>9, <1>10, <1>11 DEF Next, Tasks

\* The invariant holds at the start.
LEMMA CoreInit == Init => Core
<1> SUFFICES ASSUME Init PROVE Core
  OBVIOUS
<1>1. TypeOK
  BY TypeInit
<1>2. ManInv
  <2>1. \A n \in Names : man[n] = Absent /\ truth[n] = <<>>
    BY DEF Init
  <2>2. Absent.Parent = NoName /\ Absent.ForkWALSeq = 0 /\ Absent.ForkIndexEpoch = 0
        /\ Absent.Version = 0 /\ Absent.WALSeq = 0
    BY DEF Absent
  <2>3. ASSUME NEW n \in Names PROVE Kept(n)
    BY <2>1, <2>2 DEF Kept, Rooted, Chained, Logged, IsBranch
  <2> QED BY <2>3 DEF ManInv
<1>3. StoreInv
  BY DEF Init, StoreInv
<1>4. ForkInv
  BY DEF Init, ForkInv
<1>5. TaskInv
  <2>1. Walked(NoTask)
    BY EmptyTypes DEF Walked
  <2> QED BY <2>1 DEF Init, TaskInv
<1>6. BuildInv
  BY EmptyTypes DEF Init, BuildInv, Tasks
<1> QED BY <1>1, <1>2, <1>3, <1>4, <1>5, <1>6 DEF Core

\* Every step keeps it.
LEMMA CoreStep == Core /\ [Next]_vars => Core'
<1> SUFFICES ASSUME Core, [Next]_vars PROVE Core'
  OBVIOUS
<1>1. Grows
  BY GrowsStep
<1>2. TypeOK'
  BY TypeStep DEF Core
<1> QED BY <1>1, <1>2, ManStep, StoreStep, ForkStep, TaskStep, BuildStep DEF Core

-----------------------------------------------------------------------------
(***************************************************************************)
(* The theorems.                                                           *)
(***************************************************************************)
\* A fold of a prefix, patched by what comes after it, is the fold of the whole.
LEMMA LiveJoins ==
  ASSUME NEW P, NEW T, \A v \in P \cup T : v[2] \in Nat,
         \A v \in P : \A u \in T : v[2] < u[2]
  PROVE {v \in Live(P) : wal[v].id \notin Mentioned(T)} \cup Live(T) = Live(P \cup T)
<1>1. ASSUME NEW v
      PROVE v \in {x \in Live(P) : wal[x].id \notin Mentioned(T)} \cup Live(T)
            <=> v \in Live(P \cup T)
  <2>1. CASE v \in T
    <3>1. v \notin Live(P)
      <4>1. v \notin P
        <5> SUFFICES ASSUME v \in P PROVE FALSE
          OBVIOUS
        <5>1. v[2] < v[2] /\ v[2] \in Nat
          BY <2>1
        <5> QED BY <5>1
      <4> QED BY <4>1 DEF Live
    <3>2. \A u \in P : u[2] <= v[2]
      BY <2>1
    <3>3. v \in Live(T) <=> v \in Live(P \cup T)
      BY <2>1, <3>2 DEF Live
    <3> QED BY <3>1, <3>3
  <2>2. CASE v \notin T /\ v \in P
    <3>1. v \notin Live(T)
      BY <2>2 DEF Live
    <3>2. \A u \in T : ~(u[2] <= v[2])
      BY <2>2
    <3>3. wal[v].id \notin Mentioned(T) <=> \A u \in T : wal[u].id # wal[v].id
      BY DEF Mentioned
    <3>4. v \in Live(P) <=> ~wal[v].deleted /\ \A u \in P : wal[u].id = wal[v].id => u[2] <= v[2]
      BY <2>2 DEF Live
    <3>5. v \in Live(P \cup T) <=>
            ~wal[v].deleted /\ \A u \in P \cup T : wal[u].id = wal[v].id => u[2] <= v[2]
      BY <2>2 DEF Live
    <3> QED BY <3>1, <3>2, <3>3, <3>4, <3>5
  <2>3. CASE v \notin T /\ v \notin P
    BY <2>3 DEF Live
  <2> QED BY <2>1, <2>2, <2>3
<1> QED BY <1>1

\* What a manifest names fits.
LEMMA CoreFits == Core => InheritedEpochFits
<1> SUFFICES ASSUME Core PROVE InheritedEpochFits
  OBVIOUS
<1> USE DEF Core
<1> SUFFICES ASSUME NEW n \in Names, NEW m \in Manifest, m = man[n], NEW e,
                    e = IF m.IndexEpoch > 0 THEN <<n, m.IndexEpoch>> ELSE <<m.Parent, m.ForkIndexEpoch>>,
                    e[2] > 0
             PROVE /\ e \in DOMAIN index
                   /\ index[e] = Live({truth[n][i] : i \in 1..m.IndexedUpTo})
  <2>1. \A n \in Names : man[n] \in Manifest
    BY DEF TypeOK
  <2> QED BY <2>1 DEF InheritedEpochFits
<1>1. Kept(n)
  BY DEF ManInv
<1>2. m.Version = 1
  <2> SUFFICES ASSUME m.Version = 0 PROVE FALSE
    BY DEF Manifest
  <2>1. m = Absent
    BY <1>1 DEF Kept
  <2>2. e = <<NoName, 0>>
    BY <2>1 DEF Absent
  <2> QED BY <2>2
<1>3. Fits(n, m)
  BY <1>1, <1>2 DEF Kept, Past
<1>4. Stretch(n, 0, m.IndexedUpTo) = {truth[n][i] : i \in 1..m.IndexedUpTo}
  BY DEF Stretch
<1> QED BY <1>3, <1>4 DEF Fits

\* As many segments as there are numbers.
LEMMA StretchCard ==
  ASSUME TypeOK, NEW n \in Names, Logged(n), NEW w \in Nat, w <= man[n].WALSeq
  PROVE Cardinality({truth[n][i] : i \in 1..w}) = w
<1> DEFINE S == {truth[n][i] : i \in 1..w}
           f == [i \in 1..w |-> truth[n][i]]
<1>1. \A i \in 1..w : truth[n][i][2] = i - 1
  <2>1. man[n].WALSeq \in Nat
    BY DEF TypeOK, Manifest
  <2> QED BY <2>1 DEF Logged
<1>2. f \in Bijection(1..w, S)
  <2>1. f \in [1..w -> S] /\ \A x \in S : \E i \in 1..w : f[i] = x
    OBVIOUS
  <2>2. \A i, j \in 1..w : f[i] = f[j] => i = j
    <3> SUFFICES ASSUME NEW i \in 1..w, NEW j \in 1..w, f[i] = f[j] PROVE i = j
      OBVIOUS
    <3>1. truth[n][i] = truth[n][j]
      OBVIOUS
    <3>2. i - 1 = j - 1
      BY <1>1, <3>1
    <3> QED BY <3>2
  <2> HIDE DEF f, S
  <2> QED BY <2>1, <2>2, Fun_IsBij
<1>3. ExistsBijection(1..w, S)
  BY <1>2 DEF ExistsBijection
<1> QED BY <1>3, FS_CountingElements

\* The view is the logical WAL.
LEMMA CoreView == Core => ViewIsLogicalWAL
<1> SUFFICES ASSUME Core PROVE ViewIsLogicalWAL
  OBVIOUS
<1> USE DEF Core
<1> SUFFICES ASSUME NEW t \in Tasks, NEW k \in Task, k = task[t], k.at \in {"index", "read"},
                    NEW S, S = Segments(k.sources, 0, k.m.WALSeq)
             PROVE /\ S = {truth[k.ns][i] : i \in 1..k.m.WALSeq}
                   /\ S \subseteq DOMAIN wal
                   /\ Cardinality(S) = k.m.WALSeq
  <2>1. \A t \in Tasks : task[t] \in Task
    BY DEF TypeOK
  <2> QED BY <2>1 DEF ViewIsLogicalWAL
<1>1. Walked(k)
  BY DEF TaskInv
<1>2. S = Stretch(k.ns, 0, k.m.WALSeq) /\ S \subseteq DOMAIN wal
  BY <1>1, ViewIs
<1>3. Stretch(k.ns, 0, k.m.WALSeq) = {truth[k.ns][i] : i \in 1..k.m.WALSeq}
  BY DEF Stretch
<1>4. k.ns \in Names /\ Logged(k.ns) /\ k.m.WALSeq \in Nat /\ k.m.WALSeq <= man[k.ns].WALSeq
  BY <1>1 DEF Walked, Past, Kin, ManInv, Kept, Manifest
<1>5. Cardinality({truth[k.ns][i] : i \in 1..k.m.WALSeq}) = k.m.WALSeq
  BY <1>4, StretchCard
<1> QED BY <1>2, <1>3, <1>5

\* A query over the epoch and the tail answers with the fold of the whole view.
LEMMA CoreIsolated == ForkUnindexed = FALSE /\ Core => QueryIsIsolated
<1> SUFFICES ASSUME ForkUnindexed = FALSE, Core PROVE QueryIsIsolated
  OBVIOUS
<1> USE DEF Core
<1> SUFFICES ASSUME NEW t \in Readers, task[t].at = "read" PROVE Answer(t) = Expected(t)
  BY DEF QueryIsIsolated
<1>1. PICK k \in Task : task[t] = k
  BY DEF TypeOK, Tasks
<1>2. Walked(k) /\ k.at = "read"
  BY <1>1 DEF TaskInv, Tasks
<1>3. PICK n \in Names, m \in Manifest : n = k.ns /\ m = k.m
  BY <1>2 DEF Walked, Past, Kin
<1>4. PICK a \in Nat, w \in Nat : a = m.IndexedUpTo /\ w = m.WALSeq
  BY DEF Manifest
<1>5. Past(n, m) /\ Kept(n) /\ Logged(n) /\ a <= w /\ w <= man[n].WALSeq /\ k.ix = Chosen(n, m)
  BY <1>2, <1>3, <1>4 DEF Walked, Past, Kin, ManInv, Kept
<1> DEFINE P == Stretch(n, 0, a)
           T == Stretch(n, a, w)
<1>6. Segments(k.sources, a, w) = T
  BY <1>2, <1>3, <1>4, ViewIs
<1>7. (IF k.ix[2] = 0 THEN {} ELSE index[k.ix]) = Live(P)
  <2>1. m.IndexEpoch \in Nat /\ m.ForkIndexEpoch \in Nat
    BY DEF Manifest
  <2>2. CASE m.IndexEpoch > 0
    BY <1>4, <1>5, <2>1, <2>2 DEF Past, Fits, Chosen
  <2>3. CASE ~(m.IndexEpoch > 0) /\ IsBranch(m)
    <3>1. m.ForkIndexEpoch > 0
      <4>1. IsBranch(man[n]) /\ man[n].ForkIndexEpoch = m.ForkIndexEpoch
        BY <1>5, <2>3 DEF Past, Kin, IsBranch
      <4> QED BY <1>5, <4>1 DEF Kept, Chained
    <3> QED BY <1>4, <1>5, <2>1, <2>3, <3>1 DEF Past, Fits, Chosen
  <2>4. CASE ~(m.IndexEpoch > 0) /\ ~IsBranch(m)
    <3>1. k.ix = <<n, 0>> /\ a = 0
      BY <1>4, <1>5, <2>1, <2>4 DEF Past, Chosen
    <3>2. P = {}
      <4>1. 0 + 1..a = {}
        BY <3>1
      <4> QED BY <4>1 DEF Stretch
    <3> QED BY <3>1, <3>2 DEF Live
  <2> QED BY <2>2, <2>3, <2>4
<1>8. P \cup T = Stretch(n, 0, w)
  <2>1. 0 + 1..w = (0 + 1..a) \cup (a + 1..w)
    BY <1>5
  <2> QED BY <2>1 DEF Stretch
<1>9. /\ \A v \in P \cup T : v[2] \in Nat
      /\ \A v \in P : \A u \in T : v[2] < u[2]
  <2>1. \A i \in 1..w : truth[n][i][2] = i - 1
    <3>1. man[n].WALSeq \in Nat
      BY DEF TypeOK, Manifest
    <3> QED BY <1>5, <3>1 DEF Logged
  <2>2. ASSUME NEW v \in P PROVE v[2] \in Nat /\ v[2] < a
    <3>1. PICK i \in 0 + 1..a : v = truth[n][i]
      BY DEF Stretch
    <3>2. i \in 1..w
      BY <1>5
    <3> QED BY <2>1, <3>1, <3>2
  <2>3. ASSUME NEW v \in T PROVE v[2] \in Nat /\ a <= v[2]
    <3>1. PICK i \in a + 1..w : v = truth[n][i]
      BY DEF Stretch
    <3>2. i \in 1..w
      OBVIOUS
    <3> QED BY <2>1, <3>1, <3>2
  <2> HIDE DEF P, T
  <2> QED BY <2>2, <2>3
<1> HIDE DEF P, T
<1>10. Answer(t) = {v \in Live(P) : wal[v].id \notin Mentioned(T)} \cup Live(T)
  BY <1>1, <1>3, <1>4, <1>6, <1>7 DEF Answer
<1>11. Expected(t) = Live(P \cup T)
  <2>1. {truth[n][i] : i \in 1..w} = Stretch(n, 0, w)
    BY DEF Stretch
  <2>2. task[t].ns = n /\ task[t].m.WALSeq = w
    BY <1>1, <1>3, <1>4
  <2>3. Expected(t) = Live({truth[n][i] : i \in 1..w})
    BY <2>2 DEF Expected
  <2> QED BY <1>8, <2>1, <2>3
<1> QED BY <1>9, <1>10, <1>11, LiveJoins

\* The types of the variables.
THEOREM TypeCorrect == Spec => []TypeOK
<1>1. Core => TypeOK
  BY DEF Core
<1> QED BY <1>1, CoreInit, CoreStep, PTL DEF Spec

\* resolveReadView returns the logical WAL of the manifest a query or a build
\* set out from, whatever was written, indexed and forked along the chain meanwhile.
THEOREM ViewComplete == Spec => []ViewIsLogicalWAL
  BY CoreInit, CoreStep, CoreView, PTL DEF Spec

\* The epoch that a manifest names, its own or one pinned at a fork, is there and
\* holds the fold of the namespace's own logical WAL up to IndexedUpTo.
THEOREM PinnedEpochFits == Spec => []InheritedEpochFits
  BY CoreInit, CoreStep, CoreFits, PTL DEF Spec

\* A query on a branch sees the parent as of the fork, its own writes, and
\* nothing else, when only namespaces with an epoch are forked (the walk of
\* resolveIndex past a parent without one is what MCBranchFork shows to go wrong).
THEOREM Isolated ==
  ASSUME ForkUnindexed = FALSE
  PROVE Spec => []QueryIsIsolated
<1>1. Core => QueryIsIsolated
  BY CoreIsolated
<1> QED BY <1>1, CoreInit, CoreStep, PTL DEF Spec
=============================================================================
