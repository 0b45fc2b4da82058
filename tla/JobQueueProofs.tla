--------------------------- MODULE JobQueueProofs ---------------------------
(***************************************************************************)
(* The indexing queue, for any number of namespaces, workers, notifiers,   *)
(* attempts and faults.                                                    *)
(*                                                                         *)
(* "Shape" is where each agent is in its protocol: who is on which route,  *)
(* which loop may be running during a build, which numbers bound which.    *)
(* "CopyInv" is why read-modify-conditional-write works: as long as the    *)
(* ETag of an agent names the stored queue, the copy it is about to write  *)
(* is what its closure makes of that queue.  With it, "OwnInv" follows     *)
(* swap by swap: a worker in time owns a job that no one else may take.    *)
(***************************************************************************)
EXTENDS JobQueue, DataInduction

-----------------------------------------------------------------------------
(***************************************************************************)
(* What merging notifications into a list of jobs does.                    *)
(***************************************************************************)
Distinct(js) == \A i, j \in 1..Len(js) : js[i].ns = js[j].ns => i = j

\* js absorbs the notifications S: the jobs of old keep their places and
\* owners, new ones have no owner, and each bound comes from old or from S.
Absorbs(js, old, S) ==
  /\ js \in Seq(JobType)
  /\ Distinct(old) => Distinct(js)
  /\ Len(old) <= Len(js)
  /\ \A i \in 1..Len(old) : /\ js[i].ns = old[i].ns /\ js[i].worker = old[i].worker
                            /\ js[i].upTo >= old[i].upTo
  /\ \A i \in 1..Len(js) : i > Len(old) => js[i].worker = Nobody
  /\ \A r \in S : \E i \in 1..Len(js) : js[i].ns = r.ns /\ js[i].upTo >= r.upTo
  /\ \A i \in 1..Len(js) : \/ i <= Len(old) /\ js[i].upTo = old[i].upTo
                           \/ \E r \in S : js[i].ns = r.ns /\ js[i].upTo = r.upTo

\* A job is a record of its three fields.
LEMMA JobFields ==
  ASSUME NEW js \in Seq(JobType), NEW i \in 1..Len(js)
  PROVE js[i] \in JobType /\ js[i].ns \in Namespaces /\ js[i].upTo \in Nat
<1>1. js[i] \in JobType
  OBVIOUS
<1> QED BY <1>1 DEF JobType

\* Merge, when there is a job to raise.
LEMMA MergeRaises ==
  ASSUME NEW js \in Seq(JobType), NEW r \in ReqType,
         \E i \in 1..Len(js) : js[i].ns = r.ns
  PROVE Absorbs(Merge(js, r), js, {r})
<1> DEFINE new == [i \in 1..Len(js) |-> IF js[i].ns = r.ns /\ r.upTo > js[i].upTo
                                        THEN [js[i] EXCEPT !.upTo = r.upTo] ELSE js[i]]
<1>1. DOMAIN js = 1..Len(js) /\ Len(js) \in Nat
  OBVIOUS
<1>2. Merge(js, r) = new
  BY <1>1 DEF Merge
<1>3. r.ns \in Namespaces /\ r.upTo \in Nat
  BY DEF ReqType
<1>4. ASSUME NEW i \in 1..Len(js)
      PROVE /\ new[i] \in JobType /\ new[i].ns = js[i].ns /\ new[i].worker = js[i].worker
            /\ new[i].upTo >= js[i].upTo
            /\ js[i].ns = r.ns => new[i].upTo >= r.upTo
            /\ new[i].upTo = js[i].upTo \/ (new[i].ns = r.ns /\ new[i].upTo = r.upTo)
  <2>1. js[i] \in JobType
    OBVIOUS
  <2>2. CASE js[i].ns = r.ns /\ r.upTo > js[i].upTo
    <3>1. new[i] = [js[i] EXCEPT !.upTo = r.upTo]
      BY <2>2
    <3> HIDE DEF new
    <3> QED BY <1>3, <2>1, <2>2, <3>1 DEF JobType
  <2>3. CASE ~(js[i].ns = r.ns /\ r.upTo > js[i].upTo)
    <3>1. new[i] = js[i]
      BY <2>3
    <3> HIDE DEF new
    <3> QED BY <1>3, <2>1, <2>3, <3>1 DEF JobType
  <2> QED BY <2>2, <2>3
<1>5. new \in Seq(JobType) /\ Len(new) = Len(js)
  BY <1>1, <1>4
<1> HIDE DEF new
<1>6. Distinct(js) => Distinct(new)
  BY <1>4, <1>5 DEF Distinct
<1>7. \E i \in 1..Len(new) : new[i].ns = r.ns /\ new[i].upTo >= r.upTo
  BY <1>4, <1>5
<1> QED BY <1>1, <1>2, <1>4, <1>5, <1>6, <1>7 DEF Absorbs

\* Merge, when there is none.
LEMMA MergeAppends ==
  ASSUME NEW js \in Seq(JobType), NEW r \in ReqType,
         ~ \E i \in 1..Len(js) : js[i].ns = r.ns
  PROVE Absorbs(Merge(js, r), js, {r})
<1> DEFINE job == [ns |-> r.ns, upTo |-> r.upTo, worker |-> Nobody]
           new == Append(js, job)
           n == Len(js)
<1>1. DOMAIN js = 1..n /\ n \in Nat
  OBVIOUS
<1>2. Merge(js, r) = new
  BY <1>1 DEF Merge
<1>3. job \in JobType /\ job.ns = r.ns /\ job.upTo = r.upTo /\ job.worker = Nobody
      /\ r.upTo \in Nat
  BY DEF ReqType, JobType
<1> HIDE DEF job
<1>4. /\ new \in Seq(JobType) /\ Len(new) = n + 1 /\ new[n + 1] = job
      /\ \A i \in 1..n : new[i] = js[i]
  BY <1>3
<1> HIDE DEF new, n
<1>5. \A i \in 1..n + 1 : i \in 1..n \/ i = n + 1
  BY <1>1
<1>6. Distinct(js) => Distinct(new)
  BY <1>3, <1>4, <1>5 DEF Distinct, n
<1>7. \A i \in 1..n : js[i].upTo \in Nat
  BY JobFields DEF n
<1>8. n + 1 \in 1..n + 1 /\ n <= n + 1 /\ \A i \in 1..n : i <= n /\ ~(i > n)
  BY <1>1
<1>9. \A i \in 1..Len(js) : /\ new[i].ns = js[i].ns /\ new[i].worker = js[i].worker
                            /\ new[i].upTo >= js[i].upTo
  BY <1>4, <1>7 DEF n
<1>10. \E i \in 1..Len(new) : new[i].ns = r.ns /\ new[i].upTo >= r.upTo
  BY <1>3, <1>4, <1>8
<1>11. \A i \in 1..Len(new) : i > Len(js) => new[i].worker = Nobody
  BY <1>3, <1>4, <1>5, <1>8 DEF n
<1>12. \A i \in 1..Len(new) : \/ i <= Len(js) /\ new[i].upTo = js[i].upTo
                              \/ new[i].ns = r.ns /\ new[i].upTo = r.upTo
  BY <1>3, <1>4, <1>5, <1>8 DEF n
<1> QED BY <1>2, <1>4, <1>6, <1>8, <1>9, <1>10, <1>11, <1>12 DEF Absorbs, n

\* Nothing is absorbed by doing nothing.
LEMMA AbsorbsNone == ASSUME NEW js \in Seq(JobType) PROVE Absorbs(js, js, {})
<1>1. \A i \in 1..Len(js) : js[i].upTo \in Nat /\ i <= Len(js) /\ ~(i > Len(js))
  BY JobFields
<1> QED BY <1>1 DEF Absorbs

\* Absorbing one after the other absorbs both.
LEMMA AbsorbsMore ==
  ASSUME NEW old \in Seq(JobType), NEW js, NEW new, NEW S, NEW r,
         Absorbs(js, old, S), Absorbs(new, js, {r}), r.upTo \in Nat,
         \A q \in S : q.upTo \in Nat
  PROVE Absorbs(new, old, S \cup {r})
<1>1. js \in Seq(JobType) /\ new \in Seq(JobType)
  BY DEF Absorbs
<1>2. /\ Len(old) \in Nat /\ Len(js) \in Nat /\ Len(new) \in Nat
      /\ Len(old) <= Len(js) /\ Len(js) <= Len(new)
  BY <1>1 DEF Absorbs
<1>3. /\ \A i \in 1..Len(old) : i \in 1..Len(js) /\ old[i].upTo \in Nat
      /\ \A i \in 1..Len(js) : i \in 1..Len(new) /\ js[i].upTo \in Nat
      /\ \A i \in 1..Len(new) : new[i].upTo \in Nat
  BY <1>1, <1>2, JobFields
<1>4. Distinct(old) => Distinct(new)
  BY DEF Absorbs
<1>5. ASSUME NEW i \in 1..Len(old)
      PROVE new[i].ns = old[i].ns /\ new[i].worker = old[i].worker /\ new[i].upTo >= old[i].upTo
  <2>1. i \in 1..Len(js) /\ i \in 1..Len(new)
    BY <1>3
  <2>2. js[i].ns = old[i].ns /\ js[i].worker = old[i].worker /\ js[i].upTo >= old[i].upTo
    BY DEF Absorbs
  <2>3. new[i].ns = js[i].ns /\ new[i].worker = js[i].worker /\ new[i].upTo >= js[i].upTo
    BY <2>1 DEF Absorbs
  <2> QED BY <1>3, <2>1, <2>2, <2>3
<1>6. ASSUME NEW i \in 1..Len(new), i > Len(old) PROVE new[i].worker = Nobody
  <2>1. CASE i \in 1..Len(js)
    BY <1>6, <2>1 DEF Absorbs
  <2>2. CASE i \notin 1..Len(js)
    <3>1. i > Len(js)
      BY <1>2, <2>2
    <3> QED BY <3>1 DEF Absorbs
  <2> QED BY <2>1, <2>2
<1>7. ASSUME NEW q \in S \cup {r}
      PROVE \E i \in 1..Len(new) : new[i].ns = q.ns /\ new[i].upTo >= q.upTo
  <2>1. CASE q = r
    BY <2>1 DEF Absorbs
  <2>2. CASE q \in S
    <3>1. PICK i \in 1..Len(js) : js[i].ns = q.ns /\ js[i].upTo >= q.upTo
      BY <2>2 DEF Absorbs
    <3>2. new[i].ns = js[i].ns /\ new[i].upTo >= js[i].upTo
      BY DEF Absorbs
    <3>3. i \in 1..Len(new) /\ new[i].upTo \in Nat /\ js[i].upTo \in Nat /\ q.upTo \in Nat
      BY <1>3, <2>2
    <3> QED BY <3>1, <3>2, <3>3
  <2> QED BY <2>1, <2>2
<1>8. ASSUME NEW i \in 1..Len(new)
      PROVE \/ i <= Len(old) /\ new[i].upTo = old[i].upTo
            \/ \E q \in S \cup {r} : new[i].ns = q.ns /\ new[i].upTo = q.upTo
  <2>1. CASE new[i].ns = r.ns /\ new[i].upTo = r.upTo
    BY <2>1
  <2>2. CASE i <= Len(js) /\ new[i].upTo = js[i].upTo
    <3>1. i \in 1..Len(js) /\ new[i].ns = js[i].ns
      BY <1>2, <2>2 DEF Absorbs
    <3>2. \/ i <= Len(old) /\ js[i].upTo = old[i].upTo
          \/ \E q \in S : js[i].ns = q.ns /\ js[i].upTo = q.upTo
      BY <3>1 DEF Absorbs
    <3> QED BY <2>2, <3>1, <3>2
  <2> QED BY <2>1, <2>2 DEF Absorbs
<1>9. Len(old) <= Len(new)
  BY <1>2
<1> QED BY <1>1, <1>4, <1>5, <1>6, <1>7, <1>8, <1>9 DEF Absorbs

\* f is a solution of the recursion of Merged over the first n of rs.
After(f, n, js, rs) ==
  f = [i \in 0..n |-> IF i = 0 THEN js ELSE Merge(f[i - 1], rs[i])]

\* Merged is the last value of its recursion.
LEMMA MergedDef ==
  ASSUME NEW js, NEW rs
  PROVE Merged(js, rs) = (CHOOSE f : After(f, Len(rs), js, rs))[Len(rs)]
  BY DEF Merged, After

\* The values of a solution obey the recursion.
LEMMA AfterValue ==
  ASSUME NEW n, NEW js, NEW rs, NEW f, After(f, n, js, rs), NEW i \in 0..n
  PROVE f[i] = IF i = 0 THEN js ELSE Merge(f[i-1], rs[i])
<1> DEFINE h == [j \in 0..n |-> IF j = 0 THEN js ELSE Merge(f[j-1], rs[j])]
<1>1. f = h
  BY DEF After
<1>2. h[i] = IF i = 0 THEN js ELSE Merge(f[i-1], rs[i])
  OBVIOUS
<1> HIDE DEF h
<1> QED BY <1>1, <1>2

\* The recursion of Merged has a solution for every length.
LEMMA AfterExists ==
  ASSUME NEW js, NEW rs
  PROVE \A n \in Nat : \E f : After(f, n, js, rs)
<1> DEFINE T == {n \in Nat : \E f : After(f, n, js, rs)}
<1>1. 0 \in T
  <2> DEFINE g == [i \in 0..0 |-> js]
  <2>1. After(g, 0, js, rs)
    BY DEF After
  <2> QED BY <2>1
<1>2. ASSUME NEW n \in Nat, n \in T PROVE n+1 \in T
  <2>1. PICK f : After(f, n, js, rs)
    BY <1>2
  <2> DEFINE g == [i \in 0..n+1 |-> IF i = n+1 THEN Merge(f[n], rs[i]) ELSE f[i]]
  <2>2. \A i \in 0..n+1 : g[i] = IF i = 0 THEN js ELSE Merge(g[i-1], rs[i])
    <3> SUFFICES ASSUME NEW i \in 0..n+1
                 PROVE g[i] = IF i = 0 THEN js ELSE Merge(g[i-1], rs[i])
      OBVIOUS
    <3>1. CASE i = n+1
      <4>1. i # 0 /\ i - 1 \in 0..n+1 /\ i - 1 # n+1 /\ i - 1 = n
        BY <3>1
      <4>2. g[i] = Merge(f[n], rs[i]) /\ g[i-1] = f[n]
        BY <3>1, <4>1
      <4> HIDE DEF g
      <4> QED BY <4>1, <4>2
    <3>2. CASE i # n+1
      <4>1. i \in 0..n /\ (i # 0 => i-1 \in 0..n)
        BY <3>2
      <4>2. f[i] = IF i = 0 THEN js ELSE Merge(f[i-1], rs[i])
        BY <4>1, <2>1, AfterValue
      <4> QED BY <4>1, <4>2, <3>2
    <3> QED BY <3>1, <3>2
  <2>3. After(g, n+1, js, rs)
    <3> DEFINE h == [i \in 0..n+1 |-> IF i = 0 THEN js ELSE Merge(g[i-1], rs[i])]
    <3>1. \A i \in 0..n+1 : g[i] = h[i]
      BY <2>2
    <3>2. g = h
      BY <3>1
    <3> QED BY <3>2 DEF After
  <2> QED BY <2>3
<1> HIDE DEF T
<1>3. \A n \in Nat : n \in T
  BY <1>1, <1>2, NatSetInduction
<1> QED BY <1>3 DEF T

SetOf(rs, n) == {rs[i] : i \in 1..n}

(***************************************************************************)
(* EnqueueReindex and the broker's commit: all the notifications are in,   *)
(* no job is doubled, moved or taken from its owner.                       *)
(***************************************************************************)
LEMMA MergedAbsorbs ==
  ASSUME NEW js \in Seq(JobType), NEW rs \in Seq(ReqType)
  PROVE Absorbs(Merged(js, rs), js, SetOf(rs, Len(rs)))
<1> DEFINE n == Len(rs)
<1>1. n \in Nat /\ \A i \in 1..n : rs[i] \in ReqType /\ rs[i].upTo \in Nat
  <2>1. \A i \in 1..n : rs[i] \in ReqType
    OBVIOUS
  <2> QED BY <2>1 DEF ReqType
<1> DEFINE f == CHOOSE f : After(f, n, js, rs)
<1>2. After(f, n, js, rs) /\ Merged(js, rs) = f[n]
  BY <1>1, AfterExists, MergedDef
<1> HIDE DEF f, n
<1> DEFINE T == {k \in Nat : k \in 0..n => Absorbs(f[k], js, SetOf(rs, k))}
<1>3. 0 \in T
  <2>1. 0 \in 0..n /\ SetOf(rs, 0) = {}
    BY <1>1 DEF SetOf
  <2>2. f[0] = js
    BY <1>2, <2>1, AfterValue
  <2> QED BY <2>1, <2>2, AbsorbsNone
<1>4. ASSUME NEW k \in Nat, k \in T PROVE k+1 \in T
  <2> SUFFICES ASSUME k+1 \in 0..n PROVE Absorbs(f[k+1], js, SetOf(rs, k+1))
    OBVIOUS
  <2>1. k \in 0..n /\ k+1 # 0 /\ k+1-1 = k /\ k+1 \in 1..n /\ \A i \in 1..k : i \in 1..n
    BY <1>1
  <2>2. f[k+1] = Merge(f[k], rs[k+1])
    BY <1>2, <2>1, AfterValue
  <2>3. Absorbs(f[k], js, SetOf(rs, k))
    BY <1>4, <2>1
  <2>4. f[k] \in Seq(JobType) /\ rs[k+1] \in ReqType /\ rs[k+1].upTo \in Nat
    BY <1>1, <2>1, <2>3 DEF Absorbs
  <2>5. Absorbs(Merge(f[k], rs[k+1]), f[k], {rs[k+1]})
    BY <2>4, MergeRaises, MergeAppends
  <2>6. \A q \in SetOf(rs, k) : q.upTo \in Nat
    BY <1>1, <2>1 DEF SetOf
  <2>7. Absorbs(f[k+1], js, SetOf(rs, k) \cup {rs[k+1]})
    BY <2>2, <2>3, <2>4, <2>5, <2>6, AbsorbsMore
  <2>8. SetOf(rs, k+1) = SetOf(rs, k) \cup {rs[k+1]}
    BY <2>1 DEF SetOf
  <2> QED BY <2>7, <2>8
<1> HIDE DEF T
<1>5. \A k \in Nat : k \in T
  BY <1>3, <1>4, NatSetInduction
<1>6. n \in 0..n
  BY <1>1
<1> QED BY <1>1, <1>2, <1>5, <1>6 DEF T, n
-----------------------------------------------------------------------------
(***************************************************************************)
(* The shape of the state: types, and who is where in which protocol.      *)
(***************************************************************************)
QueueBounded == \A i \in 1..Len(jobs) : jobs[i].upTo <= walSeq[jobs[i].ns]

\* A request on its route that has no reply yet.
Pending(r, route) == r # NoReq /\ r.route = route /\ r.reply = "none"

\* A notifier is served on one route: by its own CAS loop or by the broker.
ReqInv ==
  /\ \A p \in Notifiers : req[p] # NoReq => req[p].upTo <= walSeq[req[p].ns]
  /\ \A p \in Notifiers : cas[p].at # "rest" => Pending(req[p], "direct")
  /\ \A i \in 1..Len(inbox) : Pending(req[inbox[i]], "broker")
  /\ \A i \in 1..Len(batch) : Pending(req[batch[i]], "broker")
  /\ \A i, j \in 1..Len(inbox) : inbox[i] = inbox[j] => i = j
  /\ \A i \in 1..Len(inbox), j \in 1..Len(batch) : inbox[i] # batch[j]

\* A worker swaps the queue before and after a build, its heartbeat during it.
TaskInv ==
  \A w \in Workers :
     /\ task[w].at \in {"build", "publish"} => cas[w].at = "rest"
     /\ task[w].at # "claim" => /\ task[w].ns \in Namespaces
                                /\ task[w].want <= walSeq[task[w].ns]
     /\ task[w].at \in {"publish", "complete"} => task[w].snap >= task[w].want
     /\ task[w].beating \/ cas[Beat(w)].at # "rest" => task[w].at \in {"build", "publish"}

\* The copies of the queue are bounded too, and a claim is in its copy.
CasInv ==
  /\ \A a \in Agents : \A i \in 1..Len(cas[a].next) :
        cas[a].next[i].upTo <= walSeq[cas[a].next[i].ns]
  /\ \A w \in Workers :
        cas[w].at = "put" /\ task[w].at = "claim" =>
           /\ cas[w].ns \in Namespaces
           /\ \E i \in 1..Len(cas[w].next) : cas[w].next[i].ns = cas[w].ns

Shape == TypeOK /\ QueueBounded /\ ReqInv /\ TaskInv /\ CasInv

\* Every agent is of one kind.
LEMMA AgentKinds ==
  /\ \A w \in Workers : w \in Agents /\ Beat(w) \in Agents /\ w # Beat(w)
  /\ \A p \in Notifiers : p \in Agents
  /\ Broker \in Agents
  /\ \A v, w \in Workers : Beat(v) # w /\ (Beat(v) = Beat(w) => v = w)
  /\ \A w \in Workers, p \in Notifiers : w # p /\ Beat(w) # p
  /\ \A w \in Workers : w # Broker /\ Beat(w) # Broker
  /\ \A p \in Notifiers : p # Broker
  /\ \A a \in Agents : \/ a \in Workers \/ \E w \in Workers : a = Beat(w)
                       \/ a \in Notifiers \/ a = Broker
<1>1. \A v, w \in Workers : Beat(v) = Beat(w) => v = w
  BY DEF Beat
<1> QED BY <1>1, AgentsAssumption DEF Agents

\* The records of the loops and tasks are of their types.
LEMMA RecordTypes ==
  /\ AtRest \in CasType /\ AtRest.at = "rest" /\ AtRest.next = <<>> /\ Idle \in TaskType
  /\ Idle.at = "claim" /\ Idle.beating = FALSE /\ Idle.late = FALSE
  /\ \A told \in BOOLEAN, tries \in Nat :
        /\ Loading(told, tries) \in CasType
        /\ Loading(told, tries).at = "load" /\ Loading(told, tries).next = <<>>
  BY DEF AtRest, Idle, Loading, CasType, TaskType

\* A notifier in the middle of a call has a request of the type.
LEMMA RequestType ==
  ASSUME TypeOK, NEW p \in Notifiers, req[p] # NoReq
  PROVE req[p] \in ReqType /\ req[p].ns \in Namespaces /\ req[p].upTo \in Nat
<1>1. req[p] \in ReqType
  BY DEF TypeOK
<1> QED BY <1>1 DEF ReqType

\* What a copy of the queue holds.
LEMMA CopyFields ==
  ASSUME TypeOK, NEW a \in Agents
  PROVE /\ cas[a] \in CasType /\ cas[a].next \in Seq(JobType) /\ cas[a].told \in BOOLEAN
        /\ cas[a].tries \in Nat /\ cas[a].at \in {"rest", "load", "put"}
<1>1. cas[a] \in CasType
  BY DEF TypeOK
<1> QED BY <1>1 DEF CasType

\* What a worker holds.
LEMMA TaskFields ==
  ASSUME TypeOK, NEW w \in Workers
  PROVE /\ task[w] \in TaskType /\ task[w].want \in Nat /\ task[w].snap \in Nat
        /\ task[w].at \in {"claim", "build", "publish", "complete"}
        /\ task[w].ns \in Namespaces \cup {NoNs}
<1>1. task[w] \in TaskType
  BY DEF TypeOK
<1> QED BY <1>1 DEF TaskType

\* The task of a worker that has just claimed n.
LEMMA ClaimedType ==
  ASSUME Shape, NEW w \in Workers, cas[w].at = "put", task[w].at = "claim"
  PROVE LET t == Claimed(w, cas[w].ns)
        IN  /\ t \in TaskType /\ t.at = "build" /\ t.ns = cas[w].ns /\ t.ns \in Namespaces
            /\ t.want <= walSeq[t.ns] /\ t.late = FALSE /\ t.beating = TRUE
<1> DEFINE js == cas[w].next
           j == CHOOSE i \in DOMAIN js : js[i].ns = cas[w].ns
<1>1. js \in Seq(JobType) /\ DOMAIN js = 1..Len(js) /\ w \in Agents
  BY CopyFields, AgentKinds DEF Shape
<1>2. \E i \in DOMAIN js : js[i].ns = cas[w].ns
  BY <1>1 DEF Shape, CasInv
<1>3. j \in DOMAIN js /\ js[j].ns = cas[w].ns
  BY <1>2
<1>4. Claimed(w, cas[w].ns) = [at |-> "build", ns |-> cas[w].ns, want |-> js[j].upTo,
                               snap |-> 0, beating |-> TRUE, late |-> FALSE]
  BY DEF Claimed
<1> HIDE DEF j
<1>5. js[j].upTo \in Nat /\ js[j].upTo <= walSeq[cas[w].ns] /\ cas[w].ns \in Namespaces
  BY <1>1, <1>3, JobFields DEF Shape, CasInv
<1> QED BY <1>4, <1>5 DEF TaskType

\* An empty queue and agents at rest.
LEMMA ShapeInit == Init => Shape
<1> SUFFICES ASSUME Init PROVE Shape
  OBVIOUS
<1>1. TypeOK
  <2>1. cas \in [Agents -> CasType] /\ task \in [Workers -> TaskType]
    BY RecordTypes DEF Init
  <2>2. jobs \in Seq(JobType) /\ inbox \in Seq(Notifiers) /\ batch \in Seq(Notifiers)
    BY DEF Init
  <2> QED BY <2>1, <2>2 DEF Init, TypeOK
<1>2. \A a \in Agents : cas[a].at = "rest" /\ cas[a].next = <<>>
  BY RecordTypes DEF Init
<1>3. \A w \in Workers : task[w].at = "claim" /\ ~task[w].beating
  BY RecordTypes DEF Init
<1>4. ReqInv /\ TaskInv /\ CasInv /\ QueueBounded
  BY <1>2, <1>3, AgentKinds DEF Init, ReqInv, TaskInv, CasInv, QueueBounded
<1> QED BY <1>1, <1>4 DEF Shape

-----------------------------------------------------------------------------
\* What a step of the queue itself leaves to be shown by the steps of Done.
QueueTypes ==
  /\ jobs \in Seq(JobType) /\ fresh \subseteq Agents /\ stale \subseteq Namespaces
  /\ queued \subseteq Notifiers /\ faults \in Nat

\* A worker after its claim or its completion.
LEMMA WorkerDoneShape ==
  ASSUME Shape, NEW w \in Workers, NEW outcome, Done(w, outcome), cas[w].at # "rest",
         outcome = "wrote" => cas[w].at = "put", QueueTypes', QueueBounded'
  PROVE Shape'
<1> USE DEF Shape
<1>0. w \in Agents
  BY AgentKinds
<1>1. /\ cas' = [cas EXCEPT ![w] = AtRest]
      /\ task' = [task EXCEPT ![w] = IF task[w].at = "claim" /\ outcome = "wrote"
                                     THEN Claimed(w, cas[w].ns) ELSE Idle]
      /\ req' = req /\ batch' = batch /\ inbox' = inbox
      /\ walSeq' = walSeq /\ indexed' = indexed
  BY AgentKinds DEF Done, WorkerDone, dataVars
<1>2. \/ task'[w] = Idle
      \/ /\ task'[w] \in TaskType /\ task'[w].at = "build" /\ task'[w].ns \in Namespaces
         /\ task'[w].want <= walSeq[task'[w].ns]
  BY <1>1, ClaimedType DEF TypeOK
<1>3. cas'[w] = AtRest /\ \A a \in Agents : a # w => cas'[a] = cas[a]
  BY <1>0, <1>1 DEF TypeOK
<1>4. \A v \in Workers : v # w => task'[v] = task[v]
  BY <1>1 DEF TypeOK
<1>5. TypeOK'
  <2>1. cas' \in [Agents -> CasType]
    BY <1>1, RecordTypes DEF TypeOK
  <2>2. task' \in [Workers -> TaskType]
    BY <1>1, <1>2, RecordTypes DEF TypeOK
  <2> QED BY <1>1, <2>1, <2>2 DEF TypeOK, QueueTypes
<1>6. ReqInv'
  BY <1>1, <1>3, AgentKinds DEF ReqInv
<1>7. cas[Beat(w)].at = "rest"
  BY <1>0 DEF TaskInv
<1>8. TaskInv'
  <2> SUFFICES ASSUME NEW v \in Workers
               PROVE /\ task'[v].at \in {"build", "publish"} => cas'[v].at = "rest"
                     /\ task'[v].at # "claim" => /\ task'[v].ns \in Namespaces
                                                 /\ task'[v].want <= walSeq[task'[v].ns]
                     /\ task'[v].at \in {"publish", "complete"} => task'[v].snap >= task'[v].want
                     /\ task'[v].beating \/ cas'[Beat(v)].at # "rest" =>
                           task'[v].at \in {"build", "publish"}
    BY <1>1 DEF TaskInv
  <2>1. Beat(v) \in Agents /\ v \in Agents /\ Beat(v) # w
    BY AgentKinds
  <2>2. CASE v = w
    BY <1>2, <1>3, <1>7, <2>1, <2>2, RecordTypes
  <2>3. CASE v # w
    BY <1>3, <1>4, <2>1, <2>3 DEF TaskInv
  <2> QED BY <2>2, <2>3
<1>9. CasInv'
  <2>1. \A a \in Agents : \A i \in 1..Len(cas'[a].next) :
           cas'[a].next[i].upTo <= walSeq'[cas'[a].next[i].ns]
    BY <1>1, <1>3, RecordTypes DEF CasInv
  <2>2. \A v \in Workers : cas'[v].at = "put" /\ task'[v].at = "claim" => v # w
    BY <1>3, RecordTypes
  <2> QED BY <1>3, <1>4, <2>1, <2>2, AgentKinds DEF CasInv
<1> QED BY <1>5, <1>6, <1>8, <1>9

\* A heartbeat after its write, or with its job gone.
LEMMA BeatDoneShape ==
  ASSUME Shape, NEW w \in Workers, NEW outcome, Done(Beat(w), outcome),
         cas[Beat(w)].at # "rest", QueueTypes', QueueBounded'
  PROVE Shape'
<1> USE DEF Shape
<1>0. Beat(w) \in Agents
  BY AgentKinds
<1>1. /\ cas' = [cas EXCEPT ![Beat(w)] = AtRest]
      /\ task' = [task EXCEPT ![w].beating = (outcome # "nothing" \/ cas[Beat(w)].told)]
      /\ req' = req /\ batch' = batch /\ inbox' = inbox
      /\ walSeq' = walSeq /\ indexed' = indexed
  BY AgentKinds DEF Done, BeatDone, dataVars
<1>2. task[w].at \in {"build", "publish"}
  BY <1>0 DEF TaskInv
<1>3. cas'[Beat(w)] = AtRest /\ \A a \in Agents : a # Beat(w) => cas'[a] = cas[a]
  BY <1>0, <1>1 DEF TypeOK
<1>4. \A v \in Workers : /\ v # w => task'[v] = task[v]
                         /\ task'[v].at = task[v].at /\ task'[v].ns = task[v].ns
                         /\ task'[v].want = task[v].want /\ task'[v].snap = task[v].snap
  BY <1>1 DEF TypeOK, TaskType
<1>5. TypeOK'
  <2>1. cas' \in [Agents -> CasType]
    BY <1>1, RecordTypes DEF TypeOK
  <2>2. task' \in [Workers -> TaskType]
    <3> DEFINE b == outcome # "nothing" \/ cas[Beat(w)].told
               t == [task[w] EXCEPT !.beating = b]
    <3>1. task' = [task EXCEPT ![w] = t]
      BY <1>1
    <3>2. task[w] \in TaskType
      BY TaskFields
    <3>3. b = TRUE \/ b = FALSE
      OBVIOUS
    <3>4. t \in TaskType
      <4> HIDE DEF b
      <4>1. b \in BOOLEAN
        BY <3>3
      <4> QED BY <3>2, <4>1 DEF TaskType
    <3> HIDE DEF t
    <3> QED BY <3>1, <3>4 DEF TypeOK
  <2> QED BY <1>1, <2>1, <2>2 DEF TypeOK, QueueTypes
<1>6. ReqInv'
  BY <1>1, <1>3, AgentKinds DEF ReqInv
<1>8. TaskInv'
  <2> SUFFICES ASSUME NEW v \in Workers
               PROVE /\ task'[v].at \in {"build", "publish"} => cas'[v].at = "rest"
                     /\ task'[v].at # "claim" => /\ task'[v].ns \in Namespaces
                                                 /\ task'[v].want <= walSeq[task'[v].ns]
                     /\ task'[v].at \in {"publish", "complete"} => task'[v].snap >= task'[v].want
                     /\ task'[v].beating \/ cas'[Beat(v)].at # "rest" =>
                           task'[v].at \in {"build", "publish"}
    BY <1>1 DEF TaskInv
  <2>1. Beat(v) \in Agents /\ v \in Agents /\ v # Beat(w)
    BY AgentKinds
  <2>2. CASE v = w
    BY <1>2, <1>3, <1>4, <2>1, <2>2, RecordTypes DEF TaskInv
  <2>3. CASE v # w
    <3>1. Beat(v) # Beat(w)
      BY <2>3, AgentKinds
    <3> QED BY <1>3, <1>4, <2>1, <2>3, <3>1 DEF TaskInv
  <2> QED BY <2>2, <2>3
<1>9. CasInv'
  <2>1. \A a \in Agents : \A i \in 1..Len(cas'[a].next) :
           cas'[a].next[i].upTo <= walSeq'[cas'[a].next[i].ns]
    BY <1>1, <1>3, RecordTypes DEF CasInv
  <2>2. \A v \in Workers : cas'[v] = cas[v]
    BY <1>3, AgentKinds
  <2> QED BY <1>4, <2>1, <2>2 DEF CasInv
<1> QED BY <1>5, <1>6, <1>8, <1>9

\* The frame of the steps that reply to notifiers, or with which they return.
LEMMA RequestShape ==
  ASSUME Shape, NEW ps \in SUBSET Notifiers, req' \in [Notifiers -> ReqType \cup {NoReq}],
         \A p \in Notifiers \ ps : req'[p] = req[p],
         \A p \in ps : \/ req'[p] = NoReq
                       \/ req[p] # NoReq /\ req'[p].ns = req[p].ns /\ req'[p].upTo = req[p].upTo,
         \A p \in ps : cas'[p].at = "rest",
         cas' \in [Agents -> CasType],
         \A b \in Agents : \/ cas'[b] = cas[b]
                           \/ b \in Notifiers \cup {Broker} /\ cas'[b] = AtRest,
         UNCHANGED <<dataVars, task>>, inbox' \in Seq(Notifiers), batch' \in Seq(Notifiers),
         \A i \in 1..Len(inbox') : inbox'[i] \notin ps /\ Pending(req[inbox'[i]], "broker"),
         \A i \in 1..Len(batch') : batch'[i] \notin ps /\ Pending(req[batch'[i]], "broker"),
         \A i, j \in 1..Len(inbox') : inbox'[i] = inbox'[j] => i = j,
         \A i \in 1..Len(inbox'), j \in 1..Len(batch') : inbox'[i] # batch'[j],
         QueueTypes', QueueBounded'
  PROVE Shape'
<1> USE DEF Shape
<1>1. walSeq' = walSeq /\ indexed' = indexed /\ task' = task
  BY DEF dataVars
<1>2. TypeOK'
  BY <1>1 DEF TypeOK, QueueTypes
<1>3. ReqInv'
  <2>1. ASSUME NEW p \in Notifiers, cas'[p].at # "rest" PROVE Pending(req'[p], "direct")
    <3>1. p \notin ps /\ p \in Agents /\ cas'[p] = cas[p]
      BY <2>1, AgentKinds, RecordTypes
    <3> QED BY <2>1, <3>1 DEF ReqInv
  <2>2. ASSUME NEW p \in Notifiers, req'[p] # NoReq PROVE req'[p].upTo <= walSeq[req'[p].ns]
    <3>1. CASE p \in ps
      BY <2>2, <3>1 DEF ReqInv
    <3>2. CASE p \notin ps
      BY <2>2, <3>2 DEF ReqInv
    <3> QED BY <3>1, <3>2
  <2>3. \A i \in 1..Len(inbox') : Pending(req'[inbox'[i]], "broker")
    <3>1. \A i \in 1..Len(inbox') : inbox'[i] \in Notifiers
      OBVIOUS
    <3> QED BY <3>1
  <2>4. \A i \in 1..Len(batch') : Pending(req'[batch'[i]], "broker")
    <3>1. \A i \in 1..Len(batch') : batch'[i] \in Notifiers
      OBVIOUS
    <3> QED BY <3>1
  <2> HIDE DEF Shape
  <2> QED BY <1>1, <2>1, <2>2, <2>3, <2>4 DEF ReqInv
<1>4. \A v \in Workers : cas'[v] = cas[v] /\ cas'[Beat(v)] = cas[Beat(v)]
  BY AgentKinds
<1>5. TaskInv'
  BY <1>1, <1>4 DEF TaskInv
<1>6. CasInv'
  <2>1. \A b \in Agents : \A i \in 1..Len(cas'[b].next) :
           cas'[b].next[i].upTo <= walSeq'[cas'[b].next[i].ns]
    BY <1>1, RecordTypes DEF CasInv
  <2> QED BY <1>1, <1>4, <2>1 DEF CasInv
<1> QED BY <1>2, <1>3, <1>5, <1>6

\* What a reply does to the requests.
LEMMA ReplyIs ==
  ASSUME TypeOK, NEW ps \in SUBSET Notifiers, NEW ok, Reply(ps, ok),
         \A p \in ps : req[p] # NoReq
  PROVE /\ req' \in [Notifiers -> ReqType \cup {NoReq}]
        /\ \A p \in Notifiers \ ps : req'[p] = req[p]
        /\ \A p \in ps : /\ req[p] # NoReq /\ req'[p] # NoReq
                         /\ req'[p].ns = req[p].ns /\ req'[p].upTo = req[p].upTo
                         /\ req'[p].reply = IF ok THEN "ok" ELSE "error"
<1> DEFINE said == IF ok THEN "ok" ELSE "error"
           new(p) == [req[p] EXCEPT !.reply = said]
<1>1. said \in {"ok", "error"}
  OBVIOUS
<1>2. req' = [p \in Notifiers |-> IF p \in ps THEN new(p) ELSE req[p]]
  BY DEF Reply
<1> HIDE DEF said
<1>3. ASSUME NEW p \in ps
      PROVE /\ new(p) \in ReqType /\ new(p).ns = req[p].ns /\ new(p).upTo = req[p].upTo
            /\ new(p).reply = said /\ new(p) # NoReq
  <2>1. req[p] \in ReqType
    BY RequestType
  <2> QED BY <1>1, <2>1 DEF ReqType, NoReq
<1> HIDE DEF new
<1>4. req' \in [Notifiers -> ReqType \cup {NoReq}]
  BY <1>2, <1>3 DEF TypeOK
<1>5. \A p \in Notifiers \ ps : req'[p] = req[p]
  BY <1>2
<1>6. \A p \in ps : req'[p] = new(p)
  BY <1>2
<1> QED BY <1>3, <1>4, <1>5, <1>6 DEF said

\* The reply of a notifier's own loop, or of the broker's flush.
LEMMA ReplyShape ==
  ASSUME Shape, NEW a \in Notifiers \cup {Broker}, NEW ps \in SUBSET Notifiers, NEW ok,
         Reply(ps, ok), cas' = [cas EXCEPT ![a] = AtRest],
         UNCHANGED <<dataVars, task>>, inbox' \in Seq(Notifiers), batch' \in Seq(Notifiers),
         \A p \in ps : req[p] # NoReq /\ (p # a => cas[p].at = "rest"),
         \A i \in 1..Len(inbox') : inbox'[i] \notin ps /\ Pending(req[inbox'[i]], "broker"),
         \A i \in 1..Len(batch') : batch'[i] \notin ps /\ Pending(req[batch'[i]], "broker"),
         \A i, j \in 1..Len(inbox') : inbox'[i] = inbox'[j] => i = j,
         \A i \in 1..Len(inbox'), j \in 1..Len(batch') : inbox'[i] # batch'[j],
         QueueTypes', QueueBounded'
  PROVE Shape'
<1>1. /\ req' \in [Notifiers -> ReqType \cup {NoReq}]
      /\ \A p \in Notifiers \ ps : req'[p] = req[p]
      /\ \A p \in ps : req[p] # NoReq /\ req'[p].ns = req[p].ns /\ req'[p].upTo = req[p].upTo
  BY ReplyIs DEF Shape
<1>2. a \in Agents /\ ps \subseteq Agents
  BY AgentKinds
<1>3. /\ cas' \in [Agents -> CasType] /\ cas'[a] = AtRest
      /\ \A b \in Agents : b # a => cas'[b] = cas[b]
  BY <1>2, RecordTypes DEF Shape, TypeOK
<1>4. \A b \in Agents : \/ cas'[b] = cas[b]
                        \/ b \in Notifiers \cup {Broker} /\ cas'[b] = AtRest
  BY <1>3
<1>5. \A p \in ps : cas'[p].at = "rest"
  BY <1>2, <1>3, RecordTypes
<1> QED BY <1>1, <1>3, <1>4, <1>5, RequestShape

-----------------------------------------------------------------------------
(***************************************************************************)
(* What the mutate closures write, as a relation between the stored queue  *)
(* and the copy of an agent.                                               *)
(***************************************************************************)
Requests(a) == IF a = Broker THEN [i \in 1..Len(batch) |-> req[batch[i]]] ELSE <<req[a]>>

Claims(w, n, js) ==
  \E i \in Eligible : n = jobs[i].ns /\ js = [jobs EXCEPT ![i].worker = w]
Completes(w, n, js) ==
  \E i \in Held(w, task[w].ns) : n = jobs[i].ns /\ js = RemoveAt(jobs, i)
Beats(w, n, js) == n = task[w].ns /\ Held(w, n) # {} /\ js = jobs
Merges(a, n, js) == n = NoNs /\ js = Merged(jobs, Requests(a))

Derives(a, n, js) ==
  \/ a \in Workers /\ task[a].at = "claim" /\ Claims(a, n, js)
  \/ a \in Workers /\ task[a].at = "complete" /\ Completes(a, n, js)
  \/ \E w \in Workers : a = Beat(w) /\ Beats(w, n, js)
  \/ a \in Notifiers \cup {Broker} /\ Merges(a, n, js)

\* The closure of an agent that is in SaveQueueCAS.
LEMMA MutateDerives ==
  ASSUME Shape, NEW a \in Agents, cas[a].at # "rest", NEW m \in Mutate(a)
  PROVE Derives(a, m.ns, m.jobs)
<1>1. CASE a \in Notifiers
  <2>1. Mutate(a) = MergeResult(<<req[a]>>)
    <3>1. a # Broker /\ a \notin Workers
      BY <1>1, AgentKinds
    <3> QED BY <1>1, <3>1 DEF Mutate
  <2>2. m.ns = NoNs /\ m.jobs = Merged(jobs, <<req[a]>>)
    BY <2>1 DEF MergeResult, Result
  <2>3. a # Broker
    BY <1>1, AgentKinds
  <2> QED BY <1>1, <2>2, <2>3 DEF Derives, Merges, Requests
<1>2. CASE a = Broker
  <2>1. a \notin Notifiers /\ a \notin Workers
    BY <1>2, AgentKinds
  <2>2. Mutate(a) = MergeResult([i \in DOMAIN batch |-> req[batch[i]]])
    BY <1>2, <2>1 DEF Mutate
  <2>3. DOMAIN batch = 1..Len(batch)
    BY DEF Shape, TypeOK
  <2>4. m.ns = NoNs /\ m.jobs = Merged(jobs, [i \in 1..Len(batch) |-> req[batch[i]]])
    BY <2>2, <2>3 DEF MergeResult, Result
  <2> QED BY <1>2, <2>4 DEF Derives, Merges, Requests
<1>3. CASE a \in Workers
  <2>1. a \notin Notifiers /\ a # Broker
    BY <1>3, AgentKinds
  <2>2. task[a].at = "claim" \/ task[a].at = "complete"
    BY <1>3, TaskFields DEF Shape, TaskInv
  <2>3. CASE task[a].at = "claim"
    <3>1. Mutate(a) = ClaimResult(a)
      BY <1>3, <2>1, <2>3 DEF Mutate
    <3>2. PICK i \in Oldest(Eligible) : m = Result(jobs[i].ns, [jobs EXCEPT ![i].worker = a])
      BY <3>1 DEF ClaimResult
    <3>3. i \in Eligible
      BY <3>2 DEF Oldest
    <3>4. m.ns = jobs[i].ns /\ m.jobs = [jobs EXCEPT ![i].worker = a]
      BY <3>2 DEF Result
    <3> QED BY <1>3, <2>3, <3>3, <3>4 DEF Derives, Claims
  <2>4. CASE task[a].at = "complete"
    <3>1. Mutate(a) = CompleteResult(a)
      BY <1>3, <2>1, <2>4 DEF Mutate
    <3>2. PICK i \in Held(a, task[a].ns) : m = Result(jobs[i].ns, RemoveAt(jobs, i))
      BY <3>1 DEF CompleteResult
    <3>3. m.ns = jobs[i].ns /\ m.jobs = RemoveAt(jobs, i)
      BY <3>2 DEF Result
    <3> QED BY <1>3, <2>4, <3>2, <3>3 DEF Derives, Completes
  <2> QED BY <2>2, <2>3, <2>4
<1>4. ASSUME NEW w \in Workers, a = Beat(w) PROVE Derives(a, m.ns, m.jobs)
  <2>1. a \notin Notifiers /\ a # Broker /\ a \notin Workers
    BY <1>4, AgentKinds
  <2>2. a[2] = w
    BY <1>4 DEF Beat
  <2>3. Mutate(a) = HeartbeatResult(w)
    BY <2>1, <2>2 DEF Mutate
  <2>4. PICK i \in Held(w, task[w].ns) : m = Result(jobs[i].ns, jobs)
    BY <2>3 DEF HeartbeatResult
  <2>5. m.ns = task[w].ns /\ m.jobs = jobs
    BY <2>4 DEF Result, Held
  <2>6. Beats(w, m.ns, m.jobs)
    BY <2>4, <2>5 DEF Beats
  <2> QED BY <1>4, <2>6 DEF Derives
<1> QED BY <1>1, <1>2, <1>3, <1>4, AgentKinds

\* The copy of a claim: one job has a new owner, the rest is as stored.
LEMMA ClaimsCopy ==
  ASSUME TypeOK, NEW w \in Workers, NEW n, NEW js, Claims(w, n, js)
  PROVE /\ js \in Seq(JobType) /\ Len(js) = Len(jobs)
        /\ \A i \in 1..Len(jobs) : js[i].ns = jobs[i].ns /\ js[i].upTo = jobs[i].upTo
        /\ \E k \in 1..Len(jobs) :
              /\ n = jobs[k].ns /\ js[k].worker = w
              /\ jobs[k].worker = Nobody \/ n \in stale
              /\ \A i \in 1..Len(jobs) : i # k => js[i] = jobs[i]
<1>1. PICK k \in Eligible : n = jobs[k].ns /\ js = [jobs EXCEPT ![k].worker = w]
  BY DEF Claims
<1>2. jobs \in Seq(JobType) /\ DOMAIN jobs = 1..Len(jobs) /\ Len(jobs) \in Nat
  BY DEF TypeOK
<1>3. k \in 1..Len(jobs) /\ (jobs[k].worker = Nobody \/ jobs[k].ns \in stale)
  BY <1>1, <1>2 DEF Eligible
<1> DEFINE job == [jobs[k] EXCEPT !.worker = w]
<1>4. js = [jobs EXCEPT ![k] = job]
  BY <1>1
<1>5. jobs[k] \in JobType
  BY <1>2, <1>3
<1>6. job \in JobType /\ job.ns = jobs[k].ns /\ job.upTo = jobs[k].upTo /\ job.worker = w
  BY <1>5 DEF JobType
<1> HIDE DEF job
<1>7. js \in Seq(JobType) /\ Len(js) = Len(jobs) /\ js[k] = job
      /\ \A i \in 1..Len(jobs) : i # k => js[i] = jobs[i]
  BY <1>2, <1>3, <1>4, <1>6
<1> QED BY <1>1, <1>3, <1>6, <1>7

\* The copy of a completion: the job of the worker is gone.
LEMMA CompletesCopy ==
  ASSUME TypeOK, NEW w \in Workers, NEW n, NEW js, Completes(w, n, js)
  PROVE /\ js \in Seq(JobType)
        /\ n = task[w].ns
        /\ \E k \in 1..Len(jobs) :
              /\ jobs[k].ns = n /\ jobs[k].worker = w /\ Len(js) = Len(jobs) - 1
              /\ \A i \in 1..Len(js) : IF i < k THEN i \in 1..Len(jobs) /\ js[i] = jobs[i]
                                                ELSE i+1 \in 1..Len(jobs) /\ js[i] = jobs[i+1]
              /\ \A i \in 1..Len(jobs) : i # k => \E j \in 1..Len(js) : js[j] = jobs[i]
<1>1. PICK k \in Held(w, task[w].ns) : n = jobs[k].ns /\ js = RemoveAt(jobs, k)
  BY DEF Completes
<1>2. jobs \in Seq(JobType) /\ DOMAIN jobs = 1..Len(jobs) /\ Len(jobs) \in Nat
  BY DEF TypeOK
<1>3. k \in 1..Len(jobs) /\ jobs[k].ns = task[w].ns /\ jobs[k].worker = w
  BY <1>1, <1>2 DEF Held
<1>4. js \in Seq(JobType) /\ Len(js) = Len(jobs) - 1
      /\ \A i \in 1..Len(jobs) - 1 : js[i] = IF i < k THEN jobs[i] ELSE jobs[i+1]
  BY <1>1, <1>2, <1>3, RemoveAtIs
<1>5. \A i \in 1..Len(js) : IF i < k THEN i \in 1..Len(jobs) /\ js[i] = jobs[i]
                                     ELSE i+1 \in 1..Len(jobs) /\ js[i] = jobs[i+1]
  BY <1>2, <1>3, <1>4
<1>6. ASSUME NEW i \in 1..Len(jobs), i # k PROVE \E j \in 1..Len(js) : js[j] = jobs[i]
  <2>1. CASE i < k
    <3>1. i \in 1..Len(js)
      BY <1>2, <1>3, <1>4, <2>1
    <3> QED BY <1>5, <2>1, <3>1
  <2>2. CASE ~(i < k)
    <3>1. i-1 \in 1..Len(js) /\ ~(i-1 < k) /\ i-1+1 = i
      BY <1>2, <1>3, <1>4, <1>6, <2>2
    <3>2. js[i-1] = jobs[i]
      BY <1>5, <3>1
    <3> QED BY <3>1, <3>2
  <2> QED BY <2>1, <2>2
<1> QED BY <1>1, <1>3, <1>4, <1>5, <1>6

\* The requests of an agent that enqueues are typed and announce what exists.
LEMMA RequestsType ==
  ASSUME Shape, NEW a \in Notifiers \cup {Broker}, cas[a].at # "rest"
  PROVE /\ Requests(a) \in Seq(ReqType)
        /\ \A r \in SetOf(Requests(a), Len(Requests(a))) : r.upTo <= walSeq[r.ns]
<1>1. CASE a = Broker
  <2>1. batch \in Seq(Notifiers) /\ Len(batch) \in Nat
    BY DEF Shape, TypeOK
  <2>2. ASSUME NEW i \in 1..Len(batch)
        PROVE req[batch[i]] \in ReqType /\ req[batch[i]].upTo <= walSeq[req[batch[i]].ns]
    <3>1. batch[i] \in Notifiers /\ req[batch[i]] # NoReq
      BY <2>1 DEF Shape, ReqInv, Pending
    <3> QED BY <3>1, RequestType DEF Shape, ReqInv
  <2> DEFINE rs == [i \in 1..Len(batch) |-> req[batch[i]]]
  <2>3. rs \in Seq(ReqType) /\ Len(rs) = Len(batch)
    BY <2>1, <2>2
  <2>4. \A r \in SetOf(rs, Len(rs)) : r.upTo <= walSeq[r.ns]
    BY <2>2, <2>3 DEF SetOf
  <2>5. Requests(a) = rs
    BY <1>1 DEF Requests
  <2> HIDE DEF rs
  <2> QED BY <2>3, <2>4, <2>5
<1>2. CASE a \in Notifiers
  <2>1. a # Broker
    BY <1>2, AgentKinds
  <2>2. req[a] # NoReq /\ req[a].upTo <= walSeq[req[a].ns]
    BY <1>2 DEF Shape, ReqInv, Pending
  <2>3. req[a] \in ReqType
    BY <1>2, <2>2, RequestType DEF Shape
  <2>4. Requests(a) = <<req[a]>>
    BY <2>1 DEF Requests
  <2>5. <<req[a]>> \in Seq(ReqType) /\ Len(<<req[a]>>) = 1
    BY <2>3
  <2>6. \A r \in SetOf(<<req[a]>>, 1) : r = req[a]
    BY DEF SetOf
  <2> QED BY <2>2, <2>4, <2>5, <2>6
<1> QED BY <1>1, <1>2

\* The copy of an enqueue.
LEMMA MergesCopy ==
  ASSUME Shape, NEW a \in Notifiers \cup {Broker}, cas[a].at # "rest",
         NEW n, NEW js, Merges(a, n, js)
  PROVE Absorbs(js, jobs, SetOf(Requests(a), Len(Requests(a))))
  BY RequestsType, MergedAbsorbs DEF Merges, Shape, TypeOK

\* What every copy that a closure returns is.
LEMMA DerivedCopy ==
  ASSUME Shape, NEW a \in Agents, cas[a].at # "rest", NEW n, NEW js, Derives(a, n, js)
  PROVE /\ n \in Namespaces \cup {NoNs} /\ js \in Seq(JobType)
        /\ \A i \in 1..Len(js) : js[i].upTo <= walSeq[js[i].ns]
        /\ Distinct(jobs) => Distinct(js)
        /\ a \in Workers /\ task[a].at = "claim" =>
              n \in Namespaces /\ \E i \in 1..Len(js) : js[i].ns = n
<1>0. /\ TypeOK /\ jobs \in Seq(JobType) /\ Len(jobs) \in Nat
      /\ \A i \in 1..Len(jobs) : jobs[i].ns \in Namespaces /\ jobs[i].upTo <= walSeq[jobs[i].ns]
  <2>1. TypeOK /\ jobs \in Seq(JobType) /\ Len(jobs) \in Nat
    BY DEF Shape, TypeOK
  <2> QED BY <2>1, JobFields DEF Shape, QueueBounded
<1>1. CASE a \in Workers /\ task[a].at = "claim" /\ Claims(a, n, js)
  <2>1. PICK k \in 1..Len(jobs) : n = jobs[k].ns
    BY <1>0, <1>1, ClaimsCopy
  <2>2. /\ js \in Seq(JobType) /\ Len(js) = Len(jobs)
        /\ \A i \in 1..Len(jobs) : js[i].ns = jobs[i].ns /\ js[i].upTo = jobs[i].upTo
    BY <1>0, <1>1, ClaimsCopy
  <2> QED BY <1>0, <2>1, <2>2 DEF Distinct
<1>2. CASE a \in Workers /\ task[a].at = "complete" /\ Completes(a, n, js)
  <2>1. js \in Seq(JobType) /\ n = task[a].ns
    BY <1>0, <1>2, CompletesCopy
  <2>2. PICK k \in 1..Len(jobs) :
          \A i \in 1..Len(js) : IF i < k THEN i \in 1..Len(jobs) /\ js[i] = jobs[i]
                                         ELSE i+1 \in 1..Len(jobs) /\ js[i] = jobs[i+1]
    BY <1>0, <1>2, CompletesCopy
  <2>3. n \in Namespaces \cup {NoNs}
    BY <1>0, <1>2, <2>1, TaskFields
  <2>4. \A i \in 1..Len(js) : js[i].upTo <= walSeq[js[i].ns]
    BY <1>0, <2>2
  <2>5. ASSUME Distinct(jobs) PROVE Distinct(js)
    <3>1. Len(js) \in Nat
      BY <2>1
    <3>2. ASSUME NEW i \in 1..Len(js), NEW j \in 1..Len(js), js[i].ns = js[j].ns PROVE i = j
      <4> DEFINE at(m) == IF m < k THEN m ELSE m+1
      <4>1. at(i) \in 1..Len(jobs) /\ js[i] = jobs[at(i)]
        BY <2>2
      <4>2. at(j) \in 1..Len(jobs) /\ js[j] = jobs[at(j)]
        BY <2>2
      <4>3. at(i) = at(j)
        <5> HIDE DEF at
        <5> QED BY <2>5, <3>2, <4>1, <4>2 DEF Distinct
      <4> QED BY <3>1, <4>3
    <3> QED BY <3>2 DEF Distinct
  <2> QED BY <1>2, <2>1, <2>3, <2>4, <2>5
<1>3. ASSUME NEW w \in Workers, a = Beat(w), Beats(w, n, js)
      PROVE n \in Namespaces \cup {NoNs} /\ js = jobs /\ a \notin Workers
  BY <1>0, <1>3, TaskFields, AgentKinds DEF Beats
<1>4. CASE a \in Notifiers \cup {Broker} /\ Merges(a, n, js)
  <2> DEFINE S == SetOf(Requests(a), Len(Requests(a)))
  <2>1. Absorbs(js, jobs, S) /\ \A r \in S : r.upTo <= walSeq[r.ns]
    BY <1>4, MergesCopy, RequestsType
  <2>2. n = NoNs /\ a \notin Workers
    BY <1>4, AgentKinds DEF Merges
  <2> HIDE DEF S
  <2>3. js \in Seq(JobType) /\ (Distinct(jobs) => Distinct(js)) /\ Len(js) \in Nat
    BY <2>1 DEF Absorbs
  <2>4. ASSUME NEW i \in 1..Len(js) PROVE js[i].upTo <= walSeq[js[i].ns]
    <3>1. CASE i <= Len(jobs) /\ js[i].upTo = jobs[i].upTo
      <4>1. i \in 1..Len(jobs)
        BY <1>0, <2>3, <3>1
      <4>2. js[i].ns = jobs[i].ns
        BY <2>1, <4>1 DEF Absorbs
      <4> QED BY <1>0, <3>1, <4>1, <4>2
    <3>2. CASE \E r \in S : js[i].ns = r.ns /\ js[i].upTo = r.upTo
      BY <2>1, <3>2
    <3> QED BY <2>1, <3>1, <3>2 DEF Absorbs
  <2> QED BY <2>2, <2>3, <2>4
<1> QED BY <1>0, <1>1, <1>2, <1>3, <1>4 DEF Derives

-----------------------------------------------------------------------------
\* The end of a loop, whatever the agent, with the queue in order.
LEMMA DoneShape ==
  ASSUME Shape, NEW a \in Agents, NEW outcome, Done(a, outcome), cas[a].at # "rest",
         outcome = "wrote" => cas[a].at = "put", QueueTypes', QueueBounded'
  PROVE Shape'
<1>1. CASE a \in Workers
  BY <1>1, WorkerDoneShape
<1>2. CASE \E w \in Workers : a = Beat(w)
  BY <1>2, BeatDoneShape
<1>3. CASE a \in Notifiers
  <2>1. NotifierDone(a, outcome) /\ cas' = [cas EXCEPT ![a] = AtRest]
        /\ walSeq' = walSeq /\ indexed' = indexed /\ inbox' = inbox
    BY <1>3, AgentKinds DEF Done, dataVars
  <2> DEFINE ps == {a}
             ok == outcome # "failed"
  <2>2. Reply(ps, ok) /\ task' = task /\ batch' = batch
    BY <2>1 DEF NotifierDone
  <2>3. ps \in SUBSET Notifiers /\ \A p : p \in ps <=> p = a
    BY <1>3
  <2> HIDE DEF ps, ok
  <2>4. Pending(req[a], "direct")
    BY <1>3 DEF Shape, ReqInv
  <2>5. ASSUME NEW i \in 1..Len(inbox) PROVE inbox[i] \notin ps /\ Pending(req[inbox[i]], "broker")
    BY <2>3, <2>4 DEF Shape, ReqInv, Pending
  <2>6. ASSUME NEW i \in 1..Len(batch) PROVE batch[i] \notin ps /\ Pending(req[batch[i]], "broker")
    BY <2>3, <2>4 DEF Shape, ReqInv, Pending
  <2>7. inbox \in Seq(Notifiers) /\ batch \in Seq(Notifiers)
    BY DEF Shape, TypeOK
  <2>8. /\ \A i, j \in 1..Len(inbox) : inbox[i] = inbox[j] => i = j
        /\ \A i \in 1..Len(inbox), j \in 1..Len(batch) : inbox[i] # batch[j]
    BY DEF Shape, ReqInv
  <2>9. \A p \in ps : req[p] # NoReq /\ (p # a => cas[p].at = "rest")
    BY <2>3, <2>4 DEF Pending
  <2>10. UNCHANGED <<dataVars, task>> /\ inbox' \in Seq(Notifiers) /\ batch' \in Seq(Notifiers)
    BY <2>1, <2>2, <2>7 DEF dataVars
  <2>11. \A i \in 1..Len(inbox') : inbox'[i] \notin ps /\ Pending(req[inbox'[i]], "broker")
    BY <2>1, <2>5
  <2>12. \A i \in 1..Len(batch') : batch'[i] \notin ps /\ Pending(req[batch'[i]], "broker")
    BY <2>2, <2>6
  <2>13. /\ \A i, j \in 1..Len(inbox') : inbox'[i] = inbox'[j] => i = j
         /\ \A i \in 1..Len(inbox'), j \in 1..Len(batch') : inbox'[i] # batch'[j]
    BY <2>1, <2>2, <2>8
  <2>14. a \in Notifiers \cup {Broker}
    BY <1>3
  <2>15. Reply(ps, ok) /\ cas' = [cas EXCEPT ![a] = AtRest] /\ ps \in SUBSET Notifiers
    BY <2>1, <2>2, <2>3
  <2> QED BY <2>9, <2>10, <2>11, <2>12, <2>13, <2>14, <2>15, ReplyShape
<1>4. CASE a = Broker
  <2>1. FlushDone(outcome) /\ cas' = [cas EXCEPT ![a] = AtRest]
        /\ walSeq' = walSeq /\ indexed' = indexed /\ inbox' = inbox
    BY <1>4, AgentKinds DEF Done, dataVars
  <2> DEFINE ps == ToSet(batch)
             ok == outcome # "failed"
  <2>2. Reply(ps, ok) /\ task' = task /\ batch' = <<>>
    BY <2>1 DEF FlushDone
  <2>3. inbox \in Seq(Notifiers) /\ batch \in Seq(Notifiers)
    BY DEF Shape, TypeOK
  <2>4. /\ ps \in SUBSET Notifiers
        /\ \A p : p \in ps <=> \E i \in 1..Len(batch) : p = batch[i]
    BY <2>3 DEF ToSet
  <2> HIDE DEF ps, ok
  <2>5. \A p \in ps : Pending(req[p], "broker")
    BY <2>4 DEF Shape, ReqInv
  <2>6. \A p \in ps : req[p] # NoReq /\ cas[p].at = "rest"
    BY <2>4, <2>5 DEF Shape, ReqInv, Pending
  <2>7. \A i \in 1..Len(inbox) : inbox[i] \notin ps /\ Pending(req[inbox[i]], "broker")
    BY <2>4 DEF Shape, ReqInv
  <2>8. \A i, j \in 1..Len(inbox) : inbox[i] = inbox[j] => i = j
    BY DEF Shape, ReqInv
  <2>9. batch' \in Seq(Notifiers) /\ \A i \in 1..Len(batch') : FALSE
    BY <2>2
  <2>10. UNCHANGED <<dataVars, task>> /\ inbox' \in Seq(Notifiers)
    BY <2>1, <2>2, <2>3 DEF dataVars
  <2>11. \A i \in 1..Len(inbox') : inbox'[i] \notin ps /\ Pending(req[inbox'[i]], "broker")
    BY <2>1, <2>7
  <2>12. \A i \in 1..Len(batch') : batch'[i] \notin ps /\ Pending(req[batch'[i]], "broker")
    BY <2>9
  <2>13. /\ \A i, j \in 1..Len(inbox') : inbox'[i] = inbox'[j] => i = j
         /\ \A i \in 1..Len(inbox'), j \in 1..Len(batch') : inbox'[i] # batch'[j]
    BY <2>1, <2>8, <2>9
  <2>14. a \in Notifiers \cup {Broker}
    BY <1>4
  <2>15. Reply(ps, ok) /\ cas' = [cas EXCEPT ![a] = AtRest] /\ ps \in SUBSET Notifiers
    BY <2>1, <2>2, <2>4
  <2>16. \A p \in ps : req[p] # NoReq /\ (p # a => cas[p].at = "rest")
    BY <2>6
  <2> QED BY <2>9, <2>10, <2>11, <2>12, <2>13, <2>14, <2>15, <2>16, ReplyShape
<1> QED BY <1>1, <1>2, <1>3, <1>4, AgentKinds

\* A put keeps the queue bounded, since every copy is.
LEMMA PutShape ==
  ASSUME Shape, NEW a \in Agents, Put(a), walSeq' = walSeq, faults' \in Nat
  PROVE QueueTypes' /\ QueueBounded'
<1>1. /\ jobs' = cas[a].next /\ fresh' = {} /\ stale' = stale \ {cas[a].ns}
      /\ queued' \subseteq Notifiers
  BY DEF Put, Shape, TypeOK
<1>2. cas[a].next \in Seq(JobType)
  BY CopyFields DEF Shape
<1>3. QueueTypes'
  BY <1>1, <1>2 DEF QueueTypes, Shape, TypeOK
<1>4. QueueBounded'
  BY <1>1 DEF QueueBounded, Shape, CasInv
<1> QED BY <1>3, <1>4

\* A loop that ends without a write leaves the queue alone.
LEMMA UnwrittenShape ==
  ASSUME Shape, NEW a \in Agents, cas[a].at # "rest", NEW outcome, outcome # "wrote",
         Done(a, outcome), UNCHANGED <<queueVars, queued>>, faults' \in Nat
  PROVE Shape'
<1>1. QueueTypes' /\ QueueBounded'
  BY DEF queueVars, QueueTypes, QueueBounded, Shape, TypeOK, Done, dataVars
<1> QED BY <1>1, DoneShape

\* A step that changes, besides the queue, nothing but the loop of a.
LEMMA CasOnlyShape ==
  ASSUME Shape, NEW a \in Agents, NEW r \in CasType, cas' = [cas EXCEPT ![a] = r],
         QueueTypes', QueueBounded', UNCHANGED <<dataVars, task, req, brokerVars>>,
         r.at # "rest",
         \A i \in 1..Len(r.next) : r.next[i].upTo <= walSeq[r.next[i].ns],
         a \in Workers => task[a].at \notin {"build", "publish"},
         a \in Notifiers => Pending(req[a], "direct"),
         \A w \in Workers : a = Beat(w) => task[w].at \in {"build", "publish"},
         a \in Workers /\ r.at = "put" /\ task[a].at = "claim" =>
            r.ns \in Namespaces /\ \E i \in 1..Len(r.next) : r.next[i].ns = r.ns
  PROVE Shape'
<1> USE DEF Shape
<1>1. cas'[a] = r /\ \A b \in Agents : b # a => cas'[b] = cas[b]
  BY DEF TypeOK
<1>2. /\ walSeq' = walSeq /\ indexed' = indexed
      /\ task' = task /\ req' = req /\ inbox' = inbox /\ batch' = batch
  BY DEF dataVars, brokerVars
<1>3. TypeOK'
  <2>1. cas' \in [Agents -> CasType]
    BY DEF TypeOK
  <2> QED BY <1>2, <2>1 DEF TypeOK, QueueTypes
<1>5. ReqInv'
  <2>1. \A p \in Notifiers : p # a => cas'[p] = cas[p]
    BY <1>1, AgentKinds
  <2>2. \A p \in Notifiers : cas'[p].at # "rest" => Pending(req[p], "direct")
    BY <2>1 DEF ReqInv
  <2> QED BY <1>2, <2>2 DEF ReqInv
<1>6. TaskInv'
  <2> SUFFICES ASSUME NEW v \in Workers
               PROVE /\ task[v].at \in {"build", "publish"} => cas'[v].at = "rest"
                     /\ cas'[Beat(v)].at # "rest" => task[v].at \in {"build", "publish"}
    BY <1>2 DEF TaskInv
  <2>1. v \in Agents /\ Beat(v) \in Agents
    BY AgentKinds
  <2>2. task[v].at \in {"build", "publish"} => v # a /\ cas[v].at = "rest"
    BY DEF TaskInv
  <2>3. cas'[Beat(v)].at # "rest" => task[v].at \in {"build", "publish"}
    BY <1>1, <2>1 DEF TaskInv
  <2> QED BY <1>1, <2>1, <2>2, <2>3
<1>7. CasInv'
  <2>1. ASSUME NEW b \in Agents, NEW i \in 1..Len(cas'[b].next)
        PROVE cas'[b].next[i].upTo <= walSeq[cas'[b].next[i].ns]
    BY <1>1, <2>1 DEF CasInv
  <2>2. ASSUME NEW w \in Workers, cas'[w].at = "put", task[w].at = "claim"
        PROVE /\ cas'[w].ns \in Namespaces
              /\ \E i \in 1..Len(cas'[w].next) : cas'[w].next[i].ns = cas'[w].ns
    <3>1. CASE w = a
      BY <1>1, <2>2, <3>1
    <3>2. CASE w # a
      BY <1>1, <2>2, <3>2, AgentKinds DEF CasInv
    <3> QED BY <3>1, <3>2
  <2> QED BY <1>2, <2>1, <2>2 DEF CasInv
<1> QED BY <1>3, <1>5, <1>6, <1>7

\* A load: the copy is one that the closure of the agent returns.
LEMMA LoadShape == ASSUME Shape, NEW a \in Agents, CASLoad(a) PROVE Shape'
<1>1. cas[a].at = "load" /\ fresh' = fresh \cup {a}
      /\ UNCHANGED <<jobs, stale, dataVars, task, req, brokerVars, queued, faults>>
  BY DEF CASLoad
<1>2. PICK m \in Mutate(a) :
        cas' = [cas EXCEPT ![a] = [at |-> "put", ns |-> m.ns, next |-> m.jobs,
                                   told |-> TRUE, tries |-> cas[a].tries]]
  BY DEF CASLoad
<1> DEFINE r == [at |-> "put", ns |-> m.ns, next |-> m.jobs, told |-> TRUE,
                 tries |-> cas[a].tries]
<1>3. Derives(a, m.ns, m.jobs)
  BY <1>1, MutateDerives
<1>4. /\ m.ns \in Namespaces \cup {NoNs} /\ m.jobs \in Seq(JobType)
      /\ \A i \in 1..Len(m.jobs) : m.jobs[i].upTo <= walSeq[m.jobs[i].ns]
      /\ a \in Workers /\ task[a].at = "claim" =>
            m.ns \in Namespaces /\ \E i \in 1..Len(m.jobs) : m.jobs[i].ns = m.ns
  BY <1>1, <1>3, DerivedCopy
<1>5. cas[a].tries \in Nat
  BY CopyFields DEF Shape
<1>6. r \in CasType /\ r.at = "put" /\ r.ns = m.ns /\ r.next = m.jobs
  BY <1>4, <1>5 DEF CasType
<1>7. cas' = [cas EXCEPT ![a] = r] /\ QueueTypes' /\ QueueBounded'
      /\ UNCHANGED <<dataVars, task, req, brokerVars>>
  BY <1>1, <1>2 DEF Shape, TypeOK, QueueTypes, QueueBounded, dataVars
<1> HIDE DEF r
<1>8. /\ a \in Workers => task[a].at \notin {"build", "publish"}
      /\ a \in Notifiers => Pending(req[a], "direct")
      /\ \A w \in Workers : a = Beat(w) => task[w].at \in {"build", "publish"}
  BY <1>1 DEF Shape, TaskInv, ReqInv
<1> QED BY <1>4, <1>6, <1>7, <1>8, CasOnlyShape

\* Entering the loop, or starting it again.
LEMMA LoadingShape ==
  ASSUME Shape, NEW a \in Agents, NEW told \in BOOLEAN, NEW tries \in Nat,
         cas' = [cas EXCEPT ![a] = Loading(told, tries)],
         QueueTypes', QueueBounded', UNCHANGED <<dataVars, task, req, brokerVars>>,
         a \in Workers => task[a].at \notin {"build", "publish"},
         a \in Notifiers => Pending(req[a], "direct"),
         \A w \in Workers : a = Beat(w) => task[w].at \in {"build", "publish"}
  PROVE Shape'
<1> DEFINE r == Loading(told, tries)
<1>1. r \in CasType /\ r.at = "load" /\ r.next = <<>>
  BY RecordTypes
<1>2. \A i \in 1..Len(r.next) : FALSE
  BY <1>1
<1>3. cas' = [cas EXCEPT ![a] = r]
  OBVIOUS
<1> HIDE DEF r
<1> QED BY <1>1, <1>2, <1>3, CasOnlyShape

\* The queue, when only faults may be counted.
LEMMA QueueKept ==
  ASSUME Shape, UNCHANGED <<queueVars, queued>>, faults' \in Nat, walSeq' = walSeq
  PROVE QueueTypes' /\ QueueBounded'
  BY DEF queueVars, QueueTypes, QueueBounded, Shape, TypeOK

\* After a 412.
LEMMA TryAgainShape ==
  ASSUME Shape, NEW a \in Agents, cas[a].at = "put", TryAgain(a), QueueTypes', QueueBounded'
  PROVE Shape'
<1>1. CASE /\ cas' = [cas EXCEPT ![a] = Loading(cas[a].told, cas[a].tries + 1)]
           /\ UNCHANGED <<dataVars, task, req, brokerVars>>
  <2>1. cas[a].told \in BOOLEAN /\ cas[a].tries + 1 \in Nat
    BY CopyFields DEF Shape
  <2>2. /\ a \in Workers => task[a].at \notin {"build", "publish"}
        /\ a \in Notifiers => Pending(req[a], "direct")
        /\ \A w \in Workers : a = Beat(w) => task[w].at \in {"build", "publish"}
    BY DEF Shape, TaskInv, ReqInv
  <2> QED BY <1>1, <2>1, <2>2, LoadingShape
<1>2. CASE Done(a, "failed")
  BY <1>2, DoneShape
<1> QED BY <1>1, <1>2 DEF TryAgain

\* Either way it leaves the rest of the store alone.
LEMMA TryAgainFrame == ASSUME NEW a, TryAgain(a) PROVE walSeq' = walSeq
  BY DEF TryAgain, Done, dataVars

\* The steps of SaveQueueCAS.
LEMMA CASShape ==
  ASSUME Shape, NEW a \in Agents, CASStep(a) \/ CASError(a) \/ CASUnheard(a) PROVE Shape'
<1>1. faults \in Nat
  BY DEF Shape, TypeOK
<1>2. CASE CASNothing(a) \/ CASError(a)
  <2>1. PICK outcome \in {"nothing", "failed"} : Done(a, outcome)
    BY <1>2 DEF CASNothing, CASError
  <2>2. cas[a].at # "rest" /\ UNCHANGED <<queueVars, queued>> /\ faults' \in Nat
    BY <1>1, <1>2 DEF CASNothing, CASError, Fault
  <2> QED BY <2>1, <2>2, UnwrittenShape
<1>3. CASE CASRefused(a)
  <2>1. cas[a].at = "put" /\ TryAgain(a) /\ UNCHANGED <<queueVars, queued>> /\ faults' \in Nat
    BY <1>1, <1>3 DEF CASRefused
  <2>2. QueueTypes' /\ QueueBounded'
    BY <2>1, QueueKept, TryAgainFrame
  <2> QED BY <2>1, <2>2, TryAgainShape
<1>4. CASE CASStored(a) \/ CASUnheard(a)
  <2>1. cas[a].at = "put" /\ Put(a) /\ faults' \in Nat
    BY <1>1, <1>4 DEF CASStored, CASUnheard, Fault
  <2>2. TryAgain(a) \/ \E outcome \in {"wrote", "failed"} : Done(a, outcome)
    BY <1>4 DEF CASStored, CASUnheard
  <2>3. walSeq' = walSeq
    BY <2>2, TryAgainFrame DEF Done, dataVars
  <2>4. QueueTypes' /\ QueueBounded'
    BY <2>1, <2>3, PutShape
  <2> QED BY <2>1, <2>2, <2>4, TryAgainShape, DoneShape
<1> QED BY <1>2, <1>3, <1>4, LoadShape DEF CASStep

\* A worker, its heartbeat and the broker enter the loop.
LEMMA EnterShape ==
  ASSUME Shape, Flush \/ \E w \in Workers : Poll(w) \/ Heartbeat(w)
  PROVE Shape'
<1>0. QueueTypes' /\ QueueBounded' /\ UNCHANGED <<dataVars, task, req, brokerVars>>
  <2>1. /\ UNCHANGED <<queueVars, queued>> /\ faults' = faults
        /\ UNCHANGED <<dataVars, task, req, brokerVars>>
    BY DEF Flush, Poll, Heartbeat
  <2>2. walSeq' = walSeq /\ faults' \in Nat
    BY <2>1 DEF dataVars, Shape, TypeOK
  <2> QED BY <2>1, <2>2, QueueKept
<1>1. ASSUME NEW w \in Workers, Poll(w) PROVE Shape'
  <2>1. cas' = [cas EXCEPT ![w] = Loading(FALSE, 0)] /\ task[w].at = "claim"
    BY <1>1 DEF Poll, Enter
  <2>2. w \in Agents /\ w \notin Notifiers /\ \A v \in Workers : w # Beat(v)
    BY AgentKinds
  <2>3. FALSE \in BOOLEAN /\ 0 \in Nat
    OBVIOUS
  <2> QED BY <1>0, <2>1, <2>2, <2>3, LoadingShape
<1>2. ASSUME NEW w \in Workers, Heartbeat(w) PROVE Shape'
  <2>1. task[w].at \in {"build", "publish"}
    BY <1>2 DEF Heartbeat, Shape, TaskInv
  <2> QED BY <1>0, <1>2, <2>1, LoadingShape, AgentKinds DEF Heartbeat, Enter
<1>3. CASE Flush
  BY <1>0, <1>3, LoadingShape, AgentKinds DEF Flush, Enter
<1> QED BY <1>1, <1>2, <1>3

\* A new segment.
LEMMA UpsertShape == ASSUME Shape, NEW n \in Namespaces, Upsert(n) PROVE Shape'
<1> USE DEF Shape
<1>1. /\ walSeq' = [walSeq EXCEPT ![n] = walSeq[n] + 1] /\ indexed' = indexed /\ cas' = cas
      /\ jobs' = jobs /\ fresh' = fresh /\ stale' = stale /\ task' = task /\ req' = req
      /\ inbox' = inbox /\ batch' = batch /\ queued' = queued /\ faults' = faults
  BY DEF Upsert, queueVars, brokerVars
<1>2. walSeq' \in [Namespaces -> Nat] /\ \A m \in Namespaces : walSeq[m] <= walSeq'[m]
      /\ walSeq[m] \in Nat /\ walSeq'[m] \in Nat
  BY <1>1 DEF TypeOK
<1>3. TypeOK'
  BY <1>1, <1>2 DEF TypeOK
<1>4. QueueBounded'
  <2> SUFFICES ASSUME NEW i \in 1..Len(jobs) PROVE jobs[i].upTo <= walSeq'[jobs[i].ns]
    BY <1>1 DEF QueueBounded
  <2>1. jobs[i].upTo \in Nat /\ jobs[i].ns \in Namespaces
    BY JobFields DEF TypeOK
  <2> QED BY <1>2, <2>1 DEF QueueBounded
<1>5. ReqInv'
  <2>1. ASSUME NEW p \in Notifiers, req[p] # NoReq PROVE req[p].upTo <= walSeq'[req[p].ns]
    BY <1>2, <2>1, RequestType DEF ReqInv
  <2> QED BY <1>1, <2>1 DEF ReqInv
<1>6. TaskInv'
  <2>1. ASSUME NEW w \in Workers, task[w].at # "claim"
        PROVE task[w].want <= walSeq'[task[w].ns]
    BY <1>2, <2>1, TaskFields DEF TaskInv
  <2> QED BY <1>1, <2>1 DEF TaskInv
<1>7. CasInv'
  <2>1. ASSUME NEW a \in Agents, NEW i \in 1..Len(cas[a].next)
        PROVE cas[a].next[i].upTo <= walSeq'[cas[a].next[i].ns]
    <3>1. cas[a].next[i].upTo \in Nat /\ cas[a].next[i].ns \in Namespaces
      BY CopyFields, JobFields
    <3> QED BY <1>2, <3>1 DEF CasInv
  <2> QED BY <1>1, <2>1 DEF CasInv
<1> QED BY <1>3, <1>4, <1>5, <1>6, <1>7

\* A notification sets out, on one route.
LEMMA NotifyShape ==
  ASSUME Shape, NEW p \in Notifiers, NEW n \in Namespaces, Notify(p, n) PROVE Shape'
<1> USE DEF Shape
<1>1. PICK route \in Routes :
        /\ req' = [req EXCEPT ![p] = [route |-> route, ns |-> n, upTo |-> walSeq[n],
                                      reply |-> "none"]]
        /\ \/ /\ route = "direct" /\ cas' = [cas EXCEPT ![p] = Loading(FALSE, 0)]
              /\ inbox' = inbox
           \/ route = "broker" /\ inbox' = Append(inbox, p) /\ cas' = cas
  BY DEF Notify, Enter
<1>2. /\ req[p] = NoReq /\ walSeq' = walSeq /\ indexed' = indexed /\ batch' = batch
      /\ jobs' = jobs /\ fresh' = fresh /\ stale' = stale /\ task' = task
      /\ queued' \subseteq Notifiers /\ faults' = faults
  BY DEF Notify, queueVars, dataVars, TypeOK
<1> DEFINE r == [route |-> route, ns |-> n, upTo |-> walSeq[n], reply |-> "none"]
<1>3. r \in ReqType /\ r # NoReq /\ r.route = route /\ r.ns = n /\ r.upTo = walSeq[n]
      /\ r.reply = "none"
  BY ChoiceAssumption DEF ReqType, NoReq, TypeOK
<1>4. req' = [req EXCEPT ![p] = r]
  BY <1>1
<1> HIDE DEF r
<1>5. req'[p] = r /\ \A q \in Notifiers : q # p => req'[q] = req[q]
  BY <1>4 DEF TypeOK
<1>6. cas[p].at = "rest" /\ p \in Agents
  BY <1>2, AgentKinds DEF ReqInv, Pending
<1>7. /\ inbox \in Seq(Notifiers) /\ Len(inbox) \in Nat /\ batch \in Seq(Notifiers)
      /\ \A i \in 1..Len(inbox) : inbox[i] \in Notifiers /\ inbox[i] # p
      /\ \A i \in 1..Len(batch) : batch[i] \in Notifiers /\ batch[i] # p
  <2>1. inbox \in Seq(Notifiers) /\ Len(inbox) \in Nat /\ batch \in Seq(Notifiers)
    BY DEF TypeOK
  <2>2. \A i \in 1..Len(inbox) : inbox[i] \in Notifiers
    BY <2>1
  <2>3. \A i \in 1..Len(batch) : batch[i] \in Notifiers
    BY <2>1
  <2> QED BY <1>2, <2>1, <2>2, <2>3 DEF ReqInv, Pending
<1>8. walSeq[n] <= walSeq[n]
  BY DEF TypeOK
<1>9. CASE route = "direct" /\ cas' = [cas EXCEPT ![p] = Loading(FALSE, 0)] /\ inbox' = inbox
  <2>1. cas' \in [Agents -> CasType] /\ cas'[p] = Loading(FALSE, 0)
        /\ \A b \in Agents : b # p => cas'[b] = cas[b]
    BY <1>6, <1>9, RecordTypes DEF TypeOK
  <2>2. TypeOK'
    BY <1>2, <1>3, <1>4, <1>9, <2>1 DEF TypeOK
  <2>3. QueueBounded'
    BY <1>2 DEF QueueBounded
  <2>4. ReqInv'
    <3>1. \A q \in Notifiers : q # p => cas'[q] = cas[q]
      BY <2>1, AgentKinds
    <3>2. \A q \in Notifiers : req'[q] # NoReq => req'[q].upTo <= walSeq[req'[q].ns]
      BY <1>3, <1>5, <1>8 DEF ReqInv
    <3>3. \A q \in Notifiers : cas'[q].at # "rest" => Pending(req'[q], "direct")
      <4>1. ASSUME NEW q \in Notifiers, q # p, cas'[q].at # "rest"
            PROVE Pending(req'[q], "direct")
        BY <1>5, <3>1, <4>1 DEF ReqInv
      <4>2. Pending(req'[p], "direct")
        BY <1>3, <1>5, <1>9 DEF Pending
      <4> QED BY <4>1, <4>2
    <3>4. \A i \in 1..Len(inbox) : req'[inbox[i]] = req[inbox[i]]
      BY <1>5, <1>7
    <3>5. \A i \in 1..Len(batch) : req'[batch[i]] = req[batch[i]]
      BY <1>5, <1>7
    <3>6. inbox' = inbox /\ batch' = batch /\ walSeq' = walSeq
      BY <1>2, <1>9
    <3>7. ReqInv
      OBVIOUS
    <3> HIDE DEF Shape
    <3> QED BY <3>2, <3>3, <3>4, <3>5, <3>6, <3>7 DEF ReqInv
  <2>5. \A w \in Workers : cas'[w] = cas[w] /\ cas'[Beat(w)] = cas[Beat(w)]
    BY <2>1, AgentKinds
  <2>6. TaskInv'
    BY <1>2, <2>5 DEF TaskInv
  <2>7. CasInv'
    <3>1. \A a \in Agents : \A i \in 1..Len(cas'[a].next) :
             cas'[a].next[i].upTo <= walSeq'[cas'[a].next[i].ns]
      <4>1. Loading(FALSE, 0).next = <<>>
        BY RecordTypes
      <4>2. \A i \in 1..Len(cas'[p].next) : FALSE
        <5>1. cas'[p].next = <<>>
          BY <1>6, <2>1, <4>1
        <5> QED BY <5>1
      <4>3. ASSUME NEW a \in Agents, a # p, NEW i \in 1..Len(cas'[a].next)
            PROVE cas'[a].next[i].upTo <= walSeq[cas'[a].next[i].ns]
        BY <2>1, <4>3 DEF CasInv
      <4> QED BY <1>2, <4>2, <4>3
    <3> QED BY <1>2, <2>5, <3>1 DEF CasInv
  <2> QED BY <2>2, <2>3, <2>4, <2>6, <2>7
<1>10. CASE route = "broker" /\ inbox' = Append(inbox, p) /\ cas' = cas
  <2>1. inbox' \in Seq(Notifiers) /\ Len(inbox') = Len(inbox) + 1
        /\ inbox'[Len(inbox) + 1] = p /\ \A i \in 1..Len(inbox) : inbox'[i] = inbox[i]
    BY <1>7, <1>10
  <2>2. \A i \in 1..Len(inbox') : i \in 1..Len(inbox) \/ i = Len(inbox) + 1
    BY <1>7, <2>1
  <2>3. TypeOK'
    BY <1>2, <1>3, <1>4, <1>10, <2>1 DEF TypeOK
  <2>4. QueueBounded'
    BY <1>2 DEF QueueBounded
  <2>5. ReqInv'
    <3>1. \A q \in Notifiers : req'[q] # NoReq => req'[q].upTo <= walSeq[req'[q].ns]
      BY <1>3, <1>5, <1>8 DEF ReqInv
    <3>2. \A q \in Notifiers : cas[q].at # "rest" => Pending(req'[q], "direct")
      BY <1>5, <1>6 DEF ReqInv
    <3>3. \A i \in 1..Len(inbox') : Pending(req'[inbox'[i]], "broker")
      BY <1>3, <1>5, <1>7, <1>10, <2>1, <2>2 DEF ReqInv, Pending
    <3>4. \A i \in 1..Len(batch) : req'[batch[i]] = req[batch[i]]
      BY <1>5, <1>7
    <3>5. \A i, j \in 1..Len(inbox') : inbox'[i] = inbox'[j] => i = j
      <4>1. \A i, j \in 1..Len(inbox) : inbox[i] = inbox[j] => i = j
        BY DEF ReqInv
      <4> HIDE DEF Shape
      <4> QED BY <1>7, <2>1, <2>2, <4>1
    <3>6. \A i \in 1..Len(inbox'), j \in 1..Len(batch) : inbox'[i] # batch[j]
      BY <1>7, <2>1, <2>2 DEF ReqInv
    <3> QED BY <1>2, <1>10, <3>1, <3>2, <3>3, <3>4, <3>5, <3>6 DEF ReqInv
  <2>6. TaskInv' /\ CasInv'
    BY <1>2, <1>10 DEF TaskInv, CasInv
  <2> QED BY <2>3, <2>4, <2>5, <2>6
<1> QED BY <1>1, <1>9, <1>10

\* The broker takes a request into its batch.
LEMMA CollectShape == ASSUME Shape, Collect PROVE Shape'
<1> USE DEF Shape
<1>1. /\ inbox # <<>> /\ batch' = Append(batch, Head(inbox)) /\ inbox' = Tail(inbox)
      /\ jobs' = jobs /\ fresh' = fresh /\ stale' = stale /\ task' = task /\ req' = req
      /\ walSeq' = walSeq /\ indexed' = indexed /\ cas' = cas /\ queued' = queued
      /\ faults' = faults
  BY DEF Collect, queueVars, dataVars
<1>2. inbox \in Seq(Notifiers) /\ batch \in Seq(Notifiers) /\ Len(batch) \in Nat
      /\ Len(inbox) \in Nat /\ 1 \in 1..Len(inbox)
  BY <1>1 DEF TypeOK
<1>3. /\ inbox' \in Seq(Notifiers) /\ Len(inbox') = Len(inbox) - 1
      /\ \A i \in 1..Len(inbox') : i+1 \in 1..Len(inbox) /\ i+1 # 1 /\ inbox'[i] = inbox[i+1]
  BY <1>1, <1>2
<1>4. inbox[1] \in Notifiers /\ Head(inbox) = inbox[1]
  BY <1>2
<1>5. /\ batch' \in Seq(Notifiers) /\ Len(batch') = Len(batch) + 1
      /\ batch'[Len(batch) + 1] = inbox[1] /\ \A i \in 1..Len(batch) : batch'[i] = batch[i]
  BY <1>1, <1>2, <1>4
<1>6. \A i \in 1..Len(batch') : i \in 1..Len(batch) \/ i = Len(batch) + 1
  BY <1>2, <1>5
<1>7. TypeOK'
  BY <1>1, <1>3, <1>5 DEF TypeOK
<1>8. ReqInv'
  <2>1. \A i \in 1..Len(inbox') : Pending(req[inbox'[i]], "broker")
    BY <1>3 DEF ReqInv
  <2>2. \A i \in 1..Len(batch') : Pending(req[batch'[i]], "broker")
    BY <1>2, <1>5, <1>6 DEF ReqInv
  <2>3. \A i, j \in 1..Len(inbox') : inbox'[i] = inbox'[j] => i = j
    <3>1. ASSUME NEW i \in 1..Len(inbox'), NEW j \in 1..Len(inbox'), inbox'[i] = inbox'[j]
          PROVE i = j
      <4>1. i+1 = j+1
        BY <1>3, <3>1 DEF ReqInv
      <4> QED BY <4>1
    <3> QED BY <3>1
  <2>4. \A i \in 1..Len(inbox'), j \in 1..Len(batch') : inbox'[i] # batch'[j]
    <3>1. \A i \in 1..Len(inbox') : inbox'[i] # inbox[1]
      BY <1>2, <1>3 DEF ReqInv
    <3>2. \A i \in 1..Len(inbox'), j \in 1..Len(batch) : inbox'[i] # batch[j]
      BY <1>3 DEF ReqInv
    <3> QED BY <1>5, <1>6, <3>1, <3>2
  <2> QED BY <1>1, <2>1, <2>2, <2>3, <2>4 DEF ReqInv
<1>9. QueueBounded' /\ TaskInv' /\ CasInv'
  BY <1>1 DEF QueueBounded, TaskInv, CasInv
<1> QED BY <1>7, <1>8, <1>9

\* A build begins; its snapshot is at least what the claim asked for.
LEMMA SnapshotShape == ASSUME Shape, NEW w \in Workers, BuildSnapshot(w) PROVE Shape'
<1> USE DEF Shape
<1> DEFINE t == [task[w] EXCEPT !.at = "publish", !.snap = walSeq[task[w].ns]]
<1>1. /\ task[w].at = "build" /\ task' = [task EXCEPT ![w] = t]
      /\ jobs' = jobs /\ fresh' = fresh /\ stale' = stale /\ req' = req
      /\ walSeq' = walSeq /\ indexed' = indexed /\ cas' = cas /\ queued' = queued
      /\ faults' = faults /\ inbox' = inbox /\ batch' = batch
  BY DEF BuildSnapshot, queueVars, dataVars, brokerVars
<1>2. task[w] \in TaskType /\ task[w].ns \in Namespaces /\ task[w].want <= walSeq[task[w].ns]
  BY <1>1, TaskFields DEF TaskInv
<1>3. walSeq[task[w].ns] \in Nat
  BY <1>2 DEF TypeOK
<1>4. /\ t \in TaskType /\ t.at = "publish" /\ t.snap = walSeq[task[w].ns]
      /\ t.ns = task[w].ns /\ t.want = task[w].want /\ t.beating = task[w].beating
      /\ t.late = task[w].late
  BY <1>2, <1>3 DEF TaskType
<1> HIDE DEF t
<1>5. task'[w] = t /\ \A v \in Workers : v # w => task'[v] = task[v]
  BY <1>1 DEF TypeOK
<1>6. TypeOK'
  BY <1>1, <1>4 DEF TypeOK
<1>7. QueueBounded' /\ ReqInv'
  BY <1>1 DEF QueueBounded, ReqInv
<1>8. TaskInv'
  <2> SUFFICES ASSUME NEW v \in Workers
               PROVE /\ task'[v].at \in {"build", "publish"} => cas[v].at = "rest"
                     /\ task'[v].at # "claim" => /\ task'[v].ns \in Namespaces
                                                 /\ task'[v].want <= walSeq[task'[v].ns]
                     /\ task'[v].at \in {"publish", "complete"} => task'[v].snap >= task'[v].want
                     /\ task'[v].beating \/ cas[Beat(v)].at # "rest" =>
                           task'[v].at \in {"build", "publish"}
    BY <1>1 DEF TaskInv
  <2>1. CASE v = w
    <3>1. cas[v].at = "rest"
      BY <1>1, <2>1 DEF TaskInv
    <3>2. task[w].want \in Nat
      BY TaskFields
    <3> QED BY <1>2, <1>3, <1>4, <1>5, <2>1, <3>1, <3>2
  <2>2. CASE v # w
    BY <1>5, <2>2 DEF TaskInv
  <2> QED BY <2>1, <2>2
<1>9. CasInv'
  <2>1. \A v \in Workers : task'[v].at = "claim" => task[v].at = "claim"
    BY <1>4, <1>5
  <2> QED BY <1>1, <2>1 DEF CasInv
<1> QED BY <1>6, <1>7, <1>8, <1>9

\* Requests stay in order while they, the queues of the broker and the loops of
\* the notifiers are left alone.
LEMMA ReqStays ==
  ASSUME ReqInv, UNCHANGED <<walSeq, req, inbox, batch>>, \A p \in Notifiers : cas'[p] = cas[p]
  PROVE ReqInv'
  BY DEF ReqInv

\* The publish, the end of the heartbeat and the start of CompleteJob.
LEMMA PublishShape == ASSUME Shape, NEW w \in Workers, BuildPublish(w) PROVE Shape'
<1> USE DEF Shape
<1> DEFINE t == [task[w] EXCEPT !.at = "complete", !.beating = FALSE]
           l == Loading(FALSE, 0)
<1>1. /\ task[w].at = "publish" /\ task' = [task EXCEPT ![w] = t]
      /\ indexed' = [indexed EXCEPT ![task[w].ns] = task[w].snap]
      /\ cas' = [cas EXCEPT ![Beat(w)] = AtRest, ![w] = l]
      /\ jobs' = jobs /\ fresh' = fresh \ {Beat(w)} /\ stale' = stale /\ req' = req
      /\ walSeq' = walSeq /\ queued' = queued
      /\ faults' = faults /\ inbox' = inbox /\ batch' = batch
  BY DEF BuildPublish, brokerVars
<1>2. task[w] \in TaskType /\ task[w].ns \in Namespaces /\ task[w].want <= walSeq[task[w].ns]
      /\ task[w].snap >= task[w].want /\ task[w].snap \in Nat
  BY <1>1, TaskFields DEF TaskInv
<1>3. /\ t \in TaskType /\ t.at = "complete" /\ t.snap = task[w].snap
      /\ t.ns = task[w].ns /\ t.want = task[w].want /\ t.beating = FALSE
  BY <1>2 DEF TaskType
<1>4. l \in CasType /\ l.at = "load" /\ l.next = <<>>
  BY RecordTypes
<1> HIDE DEF t, l
<1>5. task'[w] = t /\ \A v \in Workers : v # w => task'[v] = task[v]
  BY <1>1 DEF TypeOK
<1>6. /\ cas'[w] = l /\ cas'[Beat(w)] = AtRest /\ cas' \in [Agents -> CasType]
      /\ \A b \in Agents : b \notin {w, Beat(w)} => cas'[b] = cas[b]
  BY <1>1, <1>4, RecordTypes, AgentKinds DEF TypeOK
<1>7. TypeOK'
  BY <1>1, <1>2, <1>3, <1>6 DEF TypeOK
<1>8. QueueBounded'
  BY <1>1 DEF QueueBounded
<1>9. ReqInv'
  <2>1. \A p \in Notifiers : cas'[p] = cas[p]
    BY <1>6, AgentKinds
  <2> QED BY <1>1, <2>1, ReqStays
<1>10. TaskInv'
  <2> SUFFICES ASSUME NEW v \in Workers
               PROVE /\ task'[v].at \in {"build", "publish"} => cas'[v].at = "rest"
                     /\ task'[v].at # "claim" => /\ task'[v].ns \in Namespaces
                                                 /\ task'[v].want <= walSeq[task'[v].ns]
                     /\ task'[v].at \in {"publish", "complete"} => task'[v].snap >= task'[v].want
                     /\ task'[v].beating \/ cas'[Beat(v)].at # "rest" =>
                           task'[v].at \in {"build", "publish"}
    BY <1>1 DEF TaskInv
  <2>1. CASE v = w
    BY <1>2, <1>3, <1>5, <1>6, <2>1, RecordTypes
  <2>2. CASE v # w
    <3>1. cas'[v] = cas[v] /\ cas'[Beat(v)] = cas[Beat(v)]
      BY <1>6, <2>2, AgentKinds
    <3> QED BY <1>5, <2>2, <3>1 DEF TaskInv
  <2> QED BY <2>1, <2>2
<1>11. CasInv'
  <2>1. ASSUME NEW b \in Agents, NEW i \in 1..Len(cas'[b].next)
        PROVE cas'[b].next[i].upTo <= walSeq[cas'[b].next[i].ns]
    <3>1. b \notin {w, Beat(w)}
      <4>1. Len(l.next) = 0 /\ Len(AtRest.next) = 0
        BY <1>4, RecordTypes
      <4> QED BY <1>6, <2>1, <4>1
    <3>2. cas'[b] = cas[b]
      BY <1>6, <3>1
    <3> QED BY <2>1, <3>2 DEF CasInv
  <2>2. \A v \in Workers : task'[v].at = "claim" => cas'[v] = cas[v] /\ task[v].at = "claim"
    BY <1>3, <1>5, <1>6, AgentKinds
  <2>3. walSeq' = walSeq /\ CasInv
    BY <1>1
  <2> HIDE DEF Shape
  <2> QED BY <2>1, <2>2, <2>3 DEF CasInv
<1> QED BY <1>7, <1>8, <1>9, <1>10, <1>11

\* The worker forgets its job.
LEMMA StopShape == ASSUME Shape, NEW w \in Workers, Stop(w), faults' \in Nat PROVE Shape'
<1> USE DEF Shape
<1>1. /\ task' = [task EXCEPT ![w] = Idle]
      /\ cas' = [cas EXCEPT ![w] = AtRest, ![Beat(w)] = AtRest]
      /\ jobs' = jobs /\ fresh' = fresh \ {w, Beat(w)} /\ stale' = stale /\ req' = req
      /\ walSeq' = walSeq /\ indexed' = indexed /\ queued' = queued
      /\ inbox' = inbox /\ batch' = batch
  BY DEF Stop, brokerVars, dataVars
<1>2. task'[w] = Idle /\ \A v \in Workers : v # w => task'[v] = task[v]
  BY <1>1 DEF TypeOK
<1>3. /\ cas'[w] = AtRest /\ cas'[Beat(w)] = AtRest /\ cas' \in [Agents -> CasType]
      /\ \A b \in Agents : b \notin {w, Beat(w)} => cas'[b] = cas[b]
  BY <1>1, RecordTypes, AgentKinds DEF TypeOK
<1>4. TypeOK'
  BY <1>1, <1>3, RecordTypes DEF TypeOK
<1>5. QueueBounded'
  BY <1>1 DEF QueueBounded
<1>6. ReqInv'
  <2>1. \A p \in Notifiers : cas'[p] = cas[p]
    BY <1>3, AgentKinds
  <2> QED BY <1>1, <2>1, ReqStays
<1>7. TaskInv'
  <2> SUFFICES ASSUME NEW v \in Workers
               PROVE /\ task'[v].at \in {"build", "publish"} => cas'[v].at = "rest"
                     /\ task'[v].at # "claim" => /\ task'[v].ns \in Namespaces
                                                 /\ task'[v].want <= walSeq[task'[v].ns]
                     /\ task'[v].at \in {"publish", "complete"} => task'[v].snap >= task'[v].want
                     /\ task'[v].beating \/ cas'[Beat(v)].at # "rest" =>
                           task'[v].at \in {"build", "publish"}
    BY <1>1 DEF TaskInv
  <2>1. CASE v = w
    BY <1>2, <1>3, <2>1, RecordTypes
  <2>2. CASE v # w
    <3>1. cas'[v] = cas[v] /\ cas'[Beat(v)] = cas[Beat(v)]
      BY <1>3, <2>2, AgentKinds
    <3> QED BY <1>2, <2>2, <3>1 DEF TaskInv
  <2> QED BY <2>1, <2>2
<1>8. CasInv'
  <2>1. ASSUME NEW b \in Agents, NEW i \in 1..Len(cas'[b].next)
        PROVE cas'[b].next[i].upTo <= walSeq[cas'[b].next[i].ns]
    <3>1. b \notin {w, Beat(w)}
      <4>1. Len(AtRest.next) = 0
        BY RecordTypes
      <4> QED BY <1>3, <2>1, <4>1
    <3>2. cas'[b] = cas[b]
      BY <1>3, <3>1
    <3> QED BY <2>1, <3>2 DEF CasInv
  <2>2. \A v \in Workers : cas'[v].at = "put" => v # w
    BY <1>3, RecordTypes
  <2>3. \A v \in Workers : v # w => cas'[v] = cas[v] /\ task'[v] = task[v]
    BY <1>2, <1>3, AgentKinds
  <2>4. walSeq' = walSeq /\ CasInv
    BY <1>1
  <2> HIDE DEF Shape
  <2> QED BY <2>1, <2>2, <2>3, <2>4 DEF CasInv
<1> QED BY <1>4, <1>5, <1>6, <1>7, <1>8

\* The steps with which notifiers return, or the broker dies under them.
Leave(ps) ==
  /\ req' = [p \in Notifiers |-> IF p \in ps THEN NoReq ELSE req[p]]
  /\ queued' = queued \ ps

\* A notifier has its reply, and is not waiting for it anywhere.
LEMMA Replied ==
  ASSUME Shape, NEW p \in Notifiers, req[p].reply # "none"
  PROVE /\ cas[p].at = "rest"
        /\ \A i \in 1..Len(inbox) : inbox[i] # p
        /\ \A i \in 1..Len(batch) : batch[i] # p
  BY DEF Shape, ReqInv, Pending

\* It returns.
LEMMA ReturnShape == ASSUME Shape, NEW p \in Notifiers, Return(p) PROVE Shape'
<1> DEFINE ps == {p}
<1>1. /\ req[p].reply # "none" /\ req' = [req EXCEPT ![p] = NoReq] /\ queued' = queued \ {p}
      /\ jobs' = jobs /\ fresh' = fresh /\ stale' = stale /\ cas' = cas /\ faults' = faults
      /\ inbox' = inbox /\ batch' = batch /\ UNCHANGED <<dataVars, task>> /\ walSeq' = walSeq
  BY DEF Return, queueVars, brokerVars, dataVars
<1>2. req' \in [Notifiers -> ReqType \cup {NoReq}]
  BY <1>1 DEF Shape, TypeOK
<1>3. \A q \in Notifiers \ ps : req'[q] = req[q]
  BY <1>1 DEF Shape, TypeOK
<1>4. \A q \in ps : req'[q] = NoReq /\ cas'[q].at = "rest"
  BY <1>1, Replied DEF Shape, TypeOK
<1>5. QueueTypes' /\ QueueBounded'
  BY <1>1 DEF QueueTypes, QueueBounded, Shape, TypeOK
<1>6. /\ ps \in SUBSET Notifiers /\ cas' \in [Agents -> CasType]
      /\ inbox' \in Seq(Notifiers) /\ batch' \in Seq(Notifiers)
      /\ \A b \in Agents : cas'[b] = cas[b]
  BY <1>1 DEF Shape, TypeOK
<1>7. /\ \A i \in 1..Len(inbox') : inbox'[i] \notin ps /\ Pending(req[inbox'[i]], "broker")
      /\ \A i \in 1..Len(batch') : batch'[i] \notin ps /\ Pending(req[batch'[i]], "broker")
  BY <1>1, Replied DEF Shape, ReqInv
<1>8. /\ \A i, j \in 1..Len(inbox') : inbox'[i] = inbox'[j] => i = j
      /\ \A i \in 1..Len(inbox'), j \in 1..Len(batch') : inbox'[i] # batch'[j]
  BY <1>1 DEF Shape, ReqInv
<1> HIDE DEF ps
<1>9. \A q \in ps : cas'[q].at = "rest"
  BY <1>4
<1>10. \A b \in Agents : \/ cas'[b] = cas[b]
                         \/ b \in Notifiers \cup {Broker} /\ cas'[b] = AtRest
  BY <1>6
<1>11. \A q \in ps : \/ req'[q] = NoReq
                     \/ req[q] # NoReq /\ req'[q].ns = req[q].ns /\ req'[q].upTo = req[q].upTo
  BY <1>4
<1>12. UNCHANGED <<dataVars, task>>
  BY <1>1
<1> QED BY <1>2, <1>3, <1>5, <1>6, <1>7, <1>8, <1>9, <1>10, <1>11, <1>12, RequestShape

\* The requests that die with the broker.
Lost == {p \in Notifiers : req[p].route = "broker"}

\* None of them is in a loop of its own.
LEMMA LostRest == ASSUME Shape, NEW p \in Lost PROVE cas[p].at = "rest"
  BY DEF Lost, Shape, ReqInv, Pending

\* The broker forgets its channel and its batch.
LEMMA BrokerCrashShape == ASSUME Shape, BrokerCrash PROVE Shape'
<1> DEFINE ps == Lost
<1>1. /\ Leave(ps) /\ inbox' = <<>> /\ batch' = <<>> /\ UNCHANGED <<dataVars, task>>
      /\ cas' = [cas EXCEPT ![Broker] = AtRest] /\ fresh' = fresh \ {Broker}
      /\ jobs' = jobs /\ stale' = stale /\ walSeq' = walSeq
      /\ faults' = faults + 1
  BY DEF BrokerCrash, Fault, dataVars, Leave, Lost
<1>2. Broker \in Agents /\ ps \in SUBSET Notifiers /\ ps \subseteq Agents /\ Broker \notin ps
  BY AgentKinds DEF Lost
<1>3. \A p \in ps : cas[p].at = "rest"
  BY LostRest
<1> HIDE DEF ps
<1>4. /\ cas' \in [Agents -> CasType] /\ cas'[Broker] = AtRest
      /\ \A b \in Agents : b # Broker => cas'[b] = cas[b]
  BY <1>1, <1>2, RecordTypes DEF Shape, TypeOK
<1>5. /\ req' \in [Notifiers -> ReqType \cup {NoReq}]
      /\ \A q \in Notifiers \ ps : req'[q] = req[q]
      /\ \A q \in ps : req'[q] = NoReq
  BY <1>1, <1>2 DEF Leave, Shape, TypeOK
<1>6. QueueTypes' /\ QueueBounded'
  BY <1>1 DEF QueueTypes, QueueBounded, Shape, TypeOK, Leave
<1>7. /\ \A i \in 1..Len(inbox') : FALSE
      /\ \A i \in 1..Len(batch') : FALSE
      /\ inbox' \in Seq(Notifiers) /\ batch' \in Seq(Notifiers)
  BY <1>1
<1>8. \A q \in ps : cas'[q].at = "rest"
  BY <1>2, <1>3, <1>4
<1>9. \A b \in Agents : \/ cas'[b] = cas[b]
                        \/ b \in Notifiers \cup {Broker} /\ cas'[b] = AtRest
  BY <1>4
<1> QED BY <1>1, <1>2, <1>4, <1>5, <1>6, <1>7, <1>8, <1>9, RequestShape

\* Time passes; a worker may have been paused.
LEMMA StaleShape ==
  ASSUME Shape, NEW n \in Namespaces, Expire(n) \/ Stall(n) PROVE Shape'
<1> USE DEF Shape
<1>1. /\ jobs' = jobs /\ fresh' = fresh /\ stale' = stale \cup {n} /\ req' = req
      /\ walSeq' = walSeq /\ indexed' = indexed /\ queued' = queued /\ cas' = cas
      /\ inbox' = inbox /\ batch' = batch
      /\ faults' \in Nat
  BY DEF Expire, Stall, Fault, brokerVars, dataVars, TypeOK
<1>2. task' = task \/ \E w \in Workers : task' = [task EXCEPT ![w].late = TRUE]
  BY DEF Expire, Stall
<1>3. /\ task' \in [Workers -> TaskType]
      /\ \A v \in Workers : /\ task'[v].at = task[v].at /\ task'[v].ns = task[v].ns
                            /\ task'[v].want = task[v].want /\ task'[v].snap = task[v].snap
                            /\ task'[v].beating = task[v].beating
  <2>1. CASE task' = task
    BY <2>1 DEF TypeOK
  <2>2. ASSUME NEW w \in Workers, task' = [task EXCEPT ![w].late = TRUE]
        PROVE <1>3
    <3> DEFINE t == [task[w] EXCEPT !.late = TRUE]
    <3>1. /\ t \in TaskType /\ t.at = task[w].at /\ t.ns = task[w].ns
          /\ t.want = task[w].want /\ t.snap = task[w].snap /\ t.beating = task[w].beating
      BY TaskFields DEF TaskType
    <3>2. task' = [task EXCEPT ![w] = t]
      BY <2>2
    <3> HIDE DEF t
    <3> QED BY <3>1, <3>2 DEF TypeOK
  <2> QED BY <1>2, <2>1, <2>2
<1>4. TypeOK'
  BY <1>1, <1>3 DEF TypeOK
<1>5. QueueBounded' /\ ReqInv'
  BY <1>1 DEF QueueBounded, ReqInv
<1>6. TaskInv'
  BY <1>1, <1>3 DEF TaskInv
<1>7. CasInv'
  BY <1>1, <1>3 DEF CasInv
<1> QED BY <1>4, <1>5, <1>6, <1>7

\* Every step keeps the shape.
LEMMA ShapeStep == Shape /\ [Next]_vars => Shape'
<1> SUFFICES ASSUME Shape, [Next]_vars PROVE Shape'
  OBVIOUS
<1>1. ASSUME NEW a \in Agents, CASStep(a) \/ CASError(a) \/ CASUnheard(a) PROVE Shape'
  BY <1>1, CASShape
<1>2. ASSUME NEW w \in Workers,
             \/ Poll(w) \/ Heartbeat(w) \/ BuildSnapshot(w)
             \/ BuildPublish(w) \/ BuildFail(w) \/ WorkerCrash(w)
      PROVE Shape'
  <2>1. CASE BuildFail(w) \/ WorkerCrash(w)
    <3>1. Stop(w) /\ faults' \in Nat
      BY <2>1 DEF BuildFail, WorkerCrash, Fault, Shape, TypeOK
    <3> QED BY <3>1, StopShape
  <2> QED BY <1>2, <2>1, EnterShape, SnapshotShape, PublishShape
<1>3. ASSUME NEW n \in Namespaces, Upsert(n) \/ Expire(n) \/ Stall(n) PROVE Shape'
  BY <1>3, UpsertShape, StaleShape
<1>4. ASSUME NEW p \in Notifiers, Return(p) \/ \E n \in Namespaces : Notify(p, n) PROVE Shape'
  BY <1>4, NotifyShape, ReturnShape
<1>5. CASE Collect \/ Flush \/ BrokerCrash
  BY <1>5, CollectShape, EnterShape, BrokerCrashShape
<1>6. CASE UNCHANGED vars
  BY <1>6 DEF vars, queueVars, dataVars, brokerVars, Shape, TypeOK, QueueBounded, ReqInv,
              TaskInv, CasInv
<1> QED BY <1>1, <1>2, <1>3, <1>4, <1>5, <1>6 DEF Next

\* The shape, in every behaviour.
LEMMA ShapeAlways == Spec => []Shape
  BY ShapeInit, ShapeStep, PTL DEF Spec

(***************************************************************************)
(* The types, for any number of namespaces, workers, notifiers and faults. *)
(***************************************************************************)
THEOREM TypeCorrect == Spec => []TypeOK
<1>1. Shape => TypeOK
  BY DEF Shape
<1> QED BY <1>1, ShapeAlways, PTL

-----------------------------------------------------------------------------
(***************************************************************************)
(* The copies: as long as the ETag of an agent names the stored queue, its *)
(* copy is what its closure makes of that queue now, and not only when it  *)
(* was read: nothing the closure looks at has moved in between.            *)
(***************************************************************************)
CopyInv == \A a \in fresh : cas[a].at = "put" => Derives(a, cas[a].ns, cas[a].next)

\* The step leaves alone what the closure of a looks at, but for the queue.
InputsKept(a) ==
  /\ a \in Workers => task'[a].at = task[a].at /\ task'[a].ns = task[a].ns
  /\ \A w \in Workers : a = Beat(w) => task'[w].ns = task[w].ns
  /\ a \in Notifiers => req'[a] = req[a]
  /\ a = Broker => batch' = batch /\ \A i \in 1..Len(batch) : req'[batch[i]] = req[batch[i]]

\* A copy that follows from the queue follows from it after such a step.
LEMMA DerivesKept ==
  ASSUME TypeOK, NEW a \in Agents, NEW n, NEW js, Derives(a, n, js), InputsKept(a),
         jobs' = jobs, stale \subseteq stale'
  PROVE Derives(a, n, js)'
<1>1. CASE a \in Workers /\ task[a].at = "claim" /\ Claims(a, n, js)
  <2>1. Eligible \subseteq Eligible'
    BY DEF Eligible
  <2>2. Claims(a, n, js)'
    BY <1>1, <2>1 DEF Claims
  <2>3. task'[a].at = "claim"
    BY <1>1 DEF InputsKept
  <2> QED BY <1>1, <2>2, <2>3 DEF Derives
<1>2. CASE a \in Workers /\ task[a].at = "complete" /\ Completes(a, n, js)
  <2>1. task'[a].at = "complete" /\ task'[a].ns = task[a].ns
    BY <1>2 DEF InputsKept
  <2>2. Completes(a, n, js)'
    BY <1>2, <2>1 DEF Completes, Held
  <2> QED BY <1>2, <2>1, <2>2 DEF Derives
<1>3. ASSUME NEW w \in Workers, a = Beat(w), Beats(w, n, js) PROVE Derives(a, n, js)'
  <2>1. task'[w].ns = task[w].ns
    BY <1>3 DEF InputsKept
  <2>2. Beats(w, n, js)'
    BY <1>3, <2>1 DEF Beats, Held
  <2> QED BY <1>3, <2>2 DEF Derives
<1>4. CASE a \in Notifiers \cup {Broker} /\ Merges(a, n, js)
  <2>1. Requests(a)' = Requests(a)
    <3>1. CASE a = Broker
      <4>1. batch' = batch /\ \A i \in 1..Len(batch) : req'[batch[i]] = req[batch[i]]
        BY <3>1 DEF InputsKept
      <4>2. [i \in 1..Len(batch') |-> req'[batch'[i]]] = [i \in 1..Len(batch) |-> req[batch[i]]]
        BY <4>1
      <4> QED BY <3>1, <4>2 DEF Requests
    <3>2. CASE a \in Notifiers
      <4>1. req'[a] = req[a] /\ a # Broker
        BY <3>2, AgentKinds DEF InputsKept
      <4> QED BY <4>1 DEF Requests
    <3> QED BY <1>4, <3>1, <3>2
  <2>2. Merges(a, n, js)'
    BY <1>4, <2>1 DEF Merges
  <2> QED BY <1>4, <2>2 DEF Derives
<1> QED BY <1>1, <1>2, <1>3, <1>4 DEF Derives

\* A step that is neither a load nor a store spares the copies it keeps.
CopiesSpared ==
  /\ jobs' = jobs /\ stale \subseteq stale' /\ fresh' \subseteq fresh
  /\ \A a \in fresh' : cas'[a].at = "put" => cas'[a] = cas[a] /\ InputsKept(a)

\* Copies survive such a step.
LEMMA SparedCopies == ASSUME Shape, CopyInv, CopiesSpared PROVE CopyInv'
<1> SUFFICES ASSUME NEW a \in fresh', cas'[a].at = "put"
             PROVE Derives(a, cas[a].ns, cas[a].next)'
  BY DEF CopyInv
<1>1. a \in fresh /\ a \in Agents /\ cas'[a] = cas[a] /\ InputsKept(a)
      /\ jobs' = jobs /\ stale \subseteq stale'
  BY DEF CopiesSpared, Shape, TypeOK
<1>2. TypeOK
  BY DEF Shape
<1>3. ASSUME NEW n, NEW js, n = cas[a].ns, js = cas[a].next
      PROVE Derives(a, n, js)'
  <2>1. Derives(a, n, js)
    BY <1>1, <1>3 DEF CopyInv
  <2> QED BY <1>1, <1>2, <2>1, DerivesKept
<1> QED BY <1>1, <1>3

\* A load makes a copy of the queue as it is.
LEMMA LoadCopies == ASSUME Shape, CopyInv, NEW a \in Agents, CASLoad(a) PROVE CopyInv'
<1>1. cas[a].at = "load" /\ fresh' = fresh \cup {a} /\ jobs' = jobs /\ stale' = stale
      /\ task' = task /\ req' = req /\ batch' = batch
  BY DEF CASLoad, brokerVars
<1>2. PICK m \in Mutate(a) :
        cas' = [cas EXCEPT ![a] = [at |-> "put", ns |-> m.ns, next |-> m.jobs,
                                   told |-> TRUE, tries |-> cas[a].tries]]
  BY DEF CASLoad
<1>3. cas'[a].ns = m.ns /\ cas'[a].next = m.jobs /\ \A b \in Agents : b # a => cas'[b] = cas[b]
  BY <1>2 DEF Shape, TypeOK
<1>4. \A b : InputsKept(b)
  BY <1>1 DEF InputsKept
<1>5. TypeOK
  BY DEF Shape
<1> SUFFICES ASSUME NEW b \in fresh', cas'[b].at = "put"
             PROVE Derives(b, cas[b].ns, cas[b].next)'
  BY DEF CopyInv
<1>6. CASE b = a
  <2>1. Derives(a, m.ns, m.jobs)
    BY <1>1, MutateDerives
  <2>2. Derives(a, m.ns, m.jobs)'
    BY <1>1, <1>4, <1>5, <2>1, DerivesKept
  <2> QED BY <1>3, <1>6, <2>2
<1>7. CASE b # a
  <2>1. b \in fresh /\ b \in Agents /\ cas'[b] = cas[b]
    BY <1>1, <1>3, <1>7 DEF Shape, TypeOK
  <2>2. ASSUME NEW n, NEW js, n = cas[b].ns, js = cas[b].next PROVE Derives(b, n, js)'
    <3>1. Derives(b, n, js)
      BY <2>1, <2>2 DEF CopyInv
    <3> QED BY <1>1, <1>4, <1>5, <2>1, <3>1, DerivesKept
  <2> QED BY <2>1, <2>2
<1> QED BY <1>6, <1>7

\* The end of a loop spares the copies of the others.
LEMMA DoneSpares ==
  ASSUME Shape, NEW a \in Agents, NEW outcome, Done(a, outcome), cas[a].at # "rest",
         UNCHANGED queueVars
  PROVE CopiesSpared
<1> USE DEF Shape
<1>1. /\ jobs' = jobs /\ stale' = stale /\ fresh' = fresh /\ fresh \subseteq Agents
      /\ cas' = [cas EXCEPT ![a] = AtRest] /\ TypeOK
  BY DEF queueVars, Done, TypeOK
<1>2. cas'[a].at # "put" /\ \A b \in Agents : b # a => cas'[b] = cas[b]
  BY <1>1, RecordTypes DEF TypeOK
<1> SUFFICES ASSUME NEW b \in Agents, b # a, cas[b].at = "put" PROVE InputsKept(b)
  BY <1>1, <1>2 DEF CopiesSpared
<1> HIDE DEF Shape
<1>3. CASE a \in Workers
  <2>1. /\ task' = [task EXCEPT ![a] = IF task[a].at = "claim" /\ outcome = "wrote"
                                     THEN Claimed(a, cas[a].ns) ELSE Idle]
        /\ req' = req /\ batch' = batch
    BY <1>3, AgentKinds DEF Done, WorkerDone
  <2>2. \A v \in Workers : v # a => task'[v] = task[v]
    BY <1>1, <2>1 DEF TypeOK
  <2>3. b # Beat(a)
    BY <1>3 DEF Shape, TaskInv
  <2> QED BY <2>1, <2>2, <2>3 DEF InputsKept
<1>4. ASSUME NEW w \in Workers, a = Beat(w) PROVE InputsKept(b)
  <2>1. /\ task' = [task EXCEPT ![w].beating = (outcome # "nothing" \/ cas[Beat(w)].told)]
        /\ req' = req /\ batch' = batch
    BY <1>4, AgentKinds DEF Done, BeatDone
  <2>2. \A v \in Workers : task'[v].at = task[v].at /\ task'[v].ns = task[v].ns
    BY <1>1, <2>1 DEF TypeOK, TaskType
  <2> QED BY <2>1, <2>2 DEF InputsKept
<1>5. CASE a \in Notifiers
  <2> DEFINE ps == {a}
  <2>1. /\ Reply(ps, outcome # "failed") /\ task' = task /\ batch' = batch
    BY <1>5, AgentKinds DEF Done, NotifierDone
  <2>2. \A p \in Notifiers : p # a => req'[p] = req[p]
    BY <2>1 DEF Reply
  <2>3. \A i \in 1..Len(batch) : batch[i] \in Notifiers /\ batch[i] # a
    <3>1. \A i \in 1..Len(batch) : batch[i] \in Notifiers
      BY <1>1 DEF TypeOK
    <3> QED BY <1>5, <3>1 DEF Shape, ReqInv, Pending
  <2> QED BY <2>1, <2>2, <2>3 DEF InputsKept
<1>6. CASE a = Broker
  <2> DEFINE ps == ToSet(batch)
  <2>1. /\ Reply(ps, outcome # "failed") /\ task' = task
    BY <1>6, AgentKinds DEF Done, FlushDone
  <2>2. \A p \in Notifiers : p \notin ps => req'[p] = req[p]
    BY <2>1 DEF Reply
  <2>3. b \notin ps
    <3>1. \A i \in DOMAIN batch : i \in 1..Len(batch)
      BY <1>1 DEF TypeOK
    <3>2. ASSUME NEW i \in 1..Len(batch), b = batch[i] PROVE FALSE
      <4>1. b \in Notifiers
        BY <1>1, <3>2 DEF TypeOK
      <4> QED BY <3>2, <4>1 DEF Shape, ReqInv, Pending
    <3> QED BY <3>1, <3>2 DEF ToSet
  <2> QED BY <1>6, <2>1, <2>2, <2>3 DEF InputsKept
<1> QED BY <1>3, <1>4, <1>5, <1>6, AgentKinds

\* A loop that starts again, or a write that is refused for good.
LEMMA RefusedSpares == ASSUME Shape, NEW a \in Agents, CASRefused(a) PROVE CopiesSpared
<1>1. cas[a].at = "put" /\ UNCHANGED queueVars /\ TryAgain(a)
  BY DEF CASRefused
<1>2. CASE /\ cas' = [cas EXCEPT ![a] = Loading(cas[a].told, cas[a].tries + 1)]
           /\ UNCHANGED <<dataVars, task, req, brokerVars>>
  <2>1. /\ jobs' = jobs /\ stale' = stale /\ fresh' = fresh /\ fresh \subseteq Agents
        /\ task' = task /\ req' = req /\ batch' = batch
    BY <1>1, <1>2 DEF queueVars, brokerVars, Shape, TypeOK
  <2>2. Loading(cas[a].told, cas[a].tries + 1).at = "load"
    BY DEF Loading
  <2>3. cas'[a].at = "load" /\ \A b \in Agents : b # a => cas'[b] = cas[b]
    BY <1>2, <2>2 DEF Shape, TypeOK
  <2> QED BY <2>1, <2>3 DEF CopiesSpared, InputsKept
<1>3. CASE Done(a, "failed")
  BY <1>1, <1>3, DoneSpares
<1> QED BY <1>1, <1>2, <1>3 DEF TryAgain

\* Entering a loop.
LEMMA EnterSpares ==
  ASSUME Shape, NEW a \in Agents, Enter(a), cas[a].at = "rest", UNCHANGED <<queueVars, task, batch>>,
         \A p \in Notifiers : p # a => req'[p] = req[p],
         \A i \in 1..Len(batch) : req'[batch[i]] = req[batch[i]]
  PROVE CopiesSpared
<1>1. /\ jobs' = jobs /\ stale' = stale /\ fresh' = fresh /\ fresh \subseteq Agents
      /\ task' = task /\ batch' = batch
  BY DEF queueVars, Shape, TypeOK
<1>2. Loading(FALSE, 0).at = "load"
  BY DEF Loading
<1>3. cas'[a].at = "load" /\ \A b \in Agents : b # a => cas'[b] = cas[b]
  BY <1>2 DEF Enter, Shape, TypeOK
<1> QED BY <1>1, <1>3 DEF CopiesSpared, InputsKept

\* The workers and their heartbeats.
LEMMA WorkerSpares ==
  ASSUME Shape, NEW w \in Workers,
         \/ Poll(w) \/ Heartbeat(w) \/ BuildSnapshot(w) \/ BuildPublish(w) \/ Stop(w)
  PROVE CopiesSpared
<1>0. fresh \subseteq Agents /\ TypeOK /\ w \in Agents /\ Beat(w) \in Agents
  BY AgentKinds DEF Shape, TypeOK
<1>1. ASSUME Poll(w) PROVE CopiesSpared
  BY <1>0, <1>1, EnterSpares DEF Poll, brokerVars
<1>2. ASSUME Heartbeat(w) PROVE CopiesSpared
  BY <1>0, <1>2, EnterSpares DEF Heartbeat, brokerVars
<1>3. ASSUME BuildSnapshot(w) PROVE CopiesSpared
  <2>1. /\ jobs' = jobs /\ stale' = stale /\ fresh' = fresh /\ cas' = cas /\ req' = req
        /\ batch' = batch /\ cas[w].at = "rest"
    BY <1>3 DEF BuildSnapshot, queueVars, brokerVars, Shape, TaskInv
  <2>2. \A v \in Workers : task'[v].ns = task[v].ns /\ (v # w => task'[v].at = task[v].at)
    BY <1>0, <1>3 DEF BuildSnapshot, TypeOK, TaskType
  <2> QED BY <1>0, <2>1, <2>2 DEF CopiesSpared, InputsKept
<1>4. ASSUME BuildPublish(w) PROVE CopiesSpared
  <2>1. /\ jobs' = jobs /\ stale' = stale /\ fresh' \subseteq fresh /\ req' = req
        /\ batch' = batch /\ cas' = [cas EXCEPT ![Beat(w)] = AtRest, ![w] = Loading(FALSE, 0)]
    BY <1>4 DEF BuildPublish, brokerVars
  <2>2. \A v \in Workers : task'[v].ns = task[v].ns /\ (v # w => task'[v].at = task[v].at)
    BY <1>0, <1>4 DEF BuildPublish, TypeOK, TaskType
  <2>3. Loading(FALSE, 0).at = "load" /\ AtRest.at = "rest"
    BY DEF Loading, AtRest
  <2>4. /\ cas'[w].at = "load" /\ cas'[Beat(w)].at = "rest"
        /\ \A b \in Agents : b \notin {w, Beat(w)} => cas'[b] = cas[b]
    BY <1>0, <2>1, <2>3, AgentKinds DEF TypeOK
  <2> QED BY <1>0, <2>1, <2>2, <2>4 DEF CopiesSpared, InputsKept
<1>5. ASSUME Stop(w) PROVE CopiesSpared
  <2>1. /\ jobs' = jobs /\ stale' = stale /\ fresh' \subseteq fresh /\ req' = req
        /\ batch' = batch /\ cas' = [cas EXCEPT ![w] = AtRest, ![Beat(w)] = AtRest]
        /\ w \notin fresh' /\ Beat(w) \notin fresh'
    BY <1>5 DEF Stop, brokerVars
  <2>2. \A v \in Workers : v # w => task'[v] = task[v]
    BY <1>0, <1>5 DEF Stop, TypeOK
  <2>3. \A b \in Agents : b \notin {w, Beat(w)} => cas'[b] = cas[b]
    BY <1>0, <2>1 DEF TypeOK
  <2> QED BY <1>0, <2>1, <2>2, <2>3, AgentKinds DEF CopiesSpared, InputsKept
<1> QED BY <1>1, <1>2, <1>3, <1>4, <1>5

\* The writers, the broker and the clock.
LEMMA OtherSpares ==
  ASSUME Shape,
         \/ \E n \in Namespaces : Upsert(n) \/ Expire(n) \/ Stall(n)
         \/ \E p \in Notifiers : Return(p) \/ \E n \in Namespaces : Notify(p, n)
         \/ Collect \/ Flush \/ BrokerCrash \/ UNCHANGED vars
  PROVE CopiesSpared
<1>0. fresh \subseteq Agents /\ TypeOK
  BY DEF Shape, TypeOK
<1>1. ASSUME NEW n \in Namespaces, Expire(n) \/ Stall(n) PROVE CopiesSpared
  <2>1. /\ jobs' = jobs /\ stale \subseteq stale' /\ fresh' = fresh /\ cas' = cas /\ req' = req
        /\ batch' = batch
    BY <1>1 DEF Expire, Stall, brokerVars
  <2>2. task' = task \/ \E w \in Workers : task' = [task EXCEPT ![w].late = TRUE]
    BY <1>1 DEF Expire, Stall
  <2>3. \A v \in Workers : task'[v].ns = task[v].ns /\ task'[v].at = task[v].at
    <3>1. ASSUME NEW w \in Workers, task' = [task EXCEPT ![w].late = TRUE] PROVE <2>3
      BY <1>0, <3>1 DEF TypeOK, TaskType
    <3> QED BY <2>2, <3>1
  <2> QED BY <1>0, <2>1, <2>3 DEF CopiesSpared, InputsKept
<1>2. ASSUME (\E n \in Namespaces : Upsert(n)) \/ UNCHANGED vars PROVE CopiesSpared
  <2>1. /\ jobs' = jobs /\ stale' = stale /\ fresh' = fresh /\ cas' = cas /\ req' = req
        /\ batch' = batch /\ task' = task
    BY <1>2 DEF Upsert, vars, queueVars, brokerVars
  <2> QED BY <1>0, <2>1 DEF CopiesSpared, InputsKept
<1>3. ASSUME NEW p \in Notifiers, NEW n \in Namespaces, Notify(p, n) PROVE CopiesSpared
  <2>1. /\ UNCHANGED queueVars /\ task' = task /\ batch' = batch /\ req[p] = NoReq
        /\ Enter(p) \/ cas' = cas
        /\ \E r : req' = [req EXCEPT ![p] = r]
    BY <1>3 DEF Notify
  <2>2. \A q \in Notifiers : q # p => req'[q] = req[q]
    BY <1>0, <2>1 DEF TypeOK
  <2>3. \A i \in 1..Len(batch) : req'[batch[i]] = req[batch[i]]
    <3>1. \A i \in 1..Len(batch) : batch[i] \in Notifiers
      BY <1>0 DEF TypeOK
    <3>2. \A i \in 1..Len(batch) : req[batch[i]] # NoReq
      BY DEF Shape, ReqInv, Pending
    <3> QED BY <2>1, <2>2, <3>1, <3>2
  <2>4. p \in Agents /\ cas[p].at = "rest"
    BY <2>1, AgentKinds DEF Shape, ReqInv, Pending
  <2>5. CASE Enter(p)
    BY <2>1, <2>2, <2>3, <2>4, <2>5, EnterSpares
  <2>6. CASE cas' = cas
    <3>1. jobs' = jobs /\ stale' = stale /\ fresh' = fresh
      BY <2>1 DEF queueVars
    <3> QED BY <1>0, <2>1, <2>2, <2>3, <2>4, <2>6, <3>1 DEF CopiesSpared, InputsKept
  <2> QED BY <2>1, <2>5, <2>6
<1>4. ASSUME Collect PROVE CopiesSpared
  <2>1. /\ jobs' = jobs /\ stale' = stale /\ fresh' = fresh /\ cas' = cas /\ req' = req
        /\ task' = task /\ cas[Broker].at = "rest"
    BY <1>4 DEF Collect, queueVars
  <2> QED BY <1>0, <2>1 DEF CopiesSpared, InputsKept
<1>5. ASSUME Flush PROVE CopiesSpared
  BY <1>5, EnterSpares, AgentKinds DEF Flush, brokerVars
<1>6. ASSUME BrokerCrash PROVE CopiesSpared
  <2> DEFINE ps == Lost
  <2>1. /\ Leave(ps) /\ jobs' = jobs /\ stale' = stale /\ task' = task
        /\ cas' = [cas EXCEPT ![Broker] = AtRest] /\ fresh' = fresh \ {Broker}
    BY <1>6 DEF BrokerCrash, Leave, Lost
  <2>2. \A b \in Agents : b # Broker => cas'[b] = cas[b]
    BY <1>0, <2>1 DEF TypeOK
  <2>3. \A p \in Notifiers : p \notin ps => req'[p] = req[p]
    BY <2>1 DEF Leave
  <2>4. \A p \in ps : cas[p].at = "rest"
    BY LostRest
  <2> HIDE DEF ps
  <2> QED BY <1>0, <2>1, <2>2, <2>3, <2>4 DEF CopiesSpared, InputsKept
<1>7. ASSUME NEW p \in Notifiers, Return(p) PROVE CopiesSpared
  <2>1. /\ jobs' = jobs /\ stale' = stale /\ fresh' = fresh /\ cas' = cas /\ task' = task
        /\ batch' = batch /\ req' = [req EXCEPT ![p] = NoReq] /\ req[p].reply # "none"
    BY <1>7 DEF Return, queueVars, brokerVars
  <2>2. \A q \in Notifiers : q # p => req'[q] = req[q]
    BY <1>0, <2>1 DEF TypeOK
  <2>3. cas[p].at = "rest" /\ \A i \in 1..Len(batch) : batch[i] # p
    BY <2>1, Replied
  <2>4. \A i \in 1..Len(batch) : batch[i] \in Notifiers
    BY <1>0 DEF TypeOK
  <2> QED BY <1>0, <2>1, <2>2, <2>3, <2>4 DEF CopiesSpared, InputsKept
<1> QED BY <1>1, <1>2, <1>3, <1>4, <1>5, <1>6, <1>7

-----------------------------------------------------------------------------
(***************************************************************************)
(* The stored queue: what the swaps do to it, one by one.                  *)
(***************************************************************************)
\* A worker that builds, and in time, owns its job and keeps it from others.
OwnInv ==
  \A w \in Workers : task[w].at \in {"build", "publish"} /\ ~task[w].late =>
     /\ task[w].ns \notin stale
     /\ \E i \in 1..Len(jobs) : jobs[i].ns = task[w].ns /\ jobs[i].worker = w

\* The core of the queue: no copy outlives what it was made of.
Core == Shape /\ CopyInv /\ Distinct(jobs) /\ OwnInv

\* One job has one owner.
LEMMA OneOwner ==
  ASSUME Distinct(jobs), OwnInv, NEW w \in Workers,
         task[w].at \in {"build", "publish"}, ~task[w].late,
         NEW i \in 1..Len(jobs), jobs[i].ns = task[w].ns
  PROVE jobs[i].worker = w
  BY DEF Distinct, OwnInv

\* Ownership, by a step that leaves the queue.
LEMMA OwnKept ==
  ASSUME OwnInv, jobs' = jobs,
         \A w \in Workers : task'[w].at \in {"build", "publish"} /\ ~task'[w].late =>
            /\ task[w].at \in {"build", "publish"} /\ ~task[w].late /\ task'[w].ns = task[w].ns
            /\ task[w].ns \notin stale'
  PROVE OwnInv'
  BY DEF OwnInv

\* What a copy keeps: the jobs of the others, with owners and places in time.
LEMMA OthersKept ==
  ASSUME Core, NEW a \in Agents, cas[a].at # "rest", NEW n, NEW js, Derives(a, n, js),
         NEW w \in Workers, w # a, task[w].at \in {"build", "publish"}, ~task[w].late
  PROVE \E i \in 1..Len(js) : js[i].ns = task[w].ns /\ js[i].worker = w
<1>0. Shape /\ TypeOK /\ jobs \in Seq(JobType) /\ Len(jobs) \in Nat /\ Distinct(jobs)
  BY DEF Core, Shape, TypeOK
<1>1. PICK i \in 1..Len(jobs) : jobs[i].ns = task[w].ns /\ jobs[i].worker = w
  BY DEF Core, OwnInv
<1>2. task[w].ns \notin stale
  BY DEF Core, OwnInv
<1>3. CASE a \in Workers /\ Claims(a, n, js)
  <2>1. /\ Len(js) = Len(jobs)
        /\ \E k \in 1..Len(jobs) :
              /\ n = jobs[k].ns /\ js[k].worker = a
              /\ jobs[k].worker = Nobody \/ n \in stale
              /\ \A j \in 1..Len(jobs) : j # k => js[j] = jobs[j]
    BY <1>0, <1>3, ClaimsCopy
  <2>2. PICK k \in 1..Len(jobs) :
          /\ jobs[k].worker = Nobody \/ jobs[k].ns \in stale
          /\ \A j \in 1..Len(jobs) : j # k => js[j] = jobs[j]
    BY <2>1
  <2>3. i # k
    BY <1>1, <1>2, <2>2, NobodyAssumption
  <2> QED BY <1>1, <2>1, <2>2, <2>3
<1>4. CASE a \in Workers /\ Completes(a, n, js)
  <2>1. PICK k \in 1..Len(jobs) :
          /\ jobs[k].worker = a
          /\ \A j \in 1..Len(jobs) : j # k => \E m \in 1..Len(js) : js[m] = jobs[j]
    BY <1>0, <1>4, CompletesCopy
  <2>2. i # k
    BY <1>1, <2>1
  <2> QED BY <1>1, <2>1, <2>2
<1>5. ASSUME NEW v \in Workers, Beats(v, n, js) PROVE js = jobs
  BY <1>5 DEF Beats
<1>6. CASE a \in Notifiers \cup {Broker} /\ Merges(a, n, js)
  <2>1. Absorbs(js, jobs, SetOf(Requests(a), Len(Requests(a))))
    BY <1>0, <1>6, MergesCopy
  <2>2. js \in Seq(JobType) /\ Len(jobs) <= Len(js) /\ Len(js) \in Nat
    BY <2>1 DEF Absorbs
  <2>3. i \in 1..Len(js)
    BY <1>0, <2>2
  <2>4. js[i].ns = jobs[i].ns /\ js[i].worker = jobs[i].worker
    BY <2>1 DEF Absorbs
  <2> QED BY <1>1, <2>3, <2>4
<1> QED BY <1>1, <1>3, <1>4, <1>5, <1>6 DEF Derives

\* What Done does to the tasks.
LEMMA DoneTasks ==
  ASSUME Shape, NEW a \in Agents, NEW outcome, Done(a, outcome), cas[a].at # "rest",
         outcome = "wrote" => cas[a].at = "put"
  PROVE \A w \in Workers :
          \/ /\ task'[w].at = task[w].at /\ task'[w].ns = task[w].ns
             /\ task'[w].late = task[w].late /\ w # a
          \/ w = a /\ task'[w].at = "claim"
          \/ /\ w = a /\ outcome = "wrote" /\ task[w].at = "claim"
             /\ task'[w].ns = cas[w].ns
<1>0. TypeOK
  BY DEF Shape
<1>1. CASE a \in Workers
  <2>1. task' = [task EXCEPT ![a] = IF task[a].at = "claim" /\ outcome = "wrote"
                                     THEN Claimed(a, cas[a].ns) ELSE Idle]
    BY <1>1, AgentKinds DEF Done, WorkerDone
  <2>2. Claimed(a, cas[a].ns).ns = cas[a].ns /\ Idle.at = "claim"
    BY DEF Claimed, Idle
  <2>3. \A w \in Workers : w # a => task'[w] = task[w]
    BY <1>0, <2>1 DEF TypeOK
  <2>4. task'[a] = IF task[a].at = "claim" /\ outcome = "wrote"
                   THEN Claimed(a, cas[a].ns) ELSE Idle
    BY <1>0, <1>1, <2>1 DEF TypeOK
  <2> QED BY <2>2, <2>3, <2>4
<1>2. ASSUME NEW v \in Workers, a = Beat(v)
      PROVE \A w \in Workers : /\ task'[w].at = task[w].at /\ task'[w].ns = task[w].ns
                               /\ task'[w].late = task[w].late /\ w # a
  <2>1. task' = [task EXCEPT ![v].beating = (outcome # "nothing" \/ cas[Beat(v)].told)]
    BY <1>2, AgentKinds DEF Done, BeatDone
  <2> QED BY <1>0, <1>2, <2>1, AgentKinds DEF TypeOK, TaskType
<1>3. CASE a \in Notifiers \cup {Broker}
  <2>1. task' = task /\ a \notin Workers
    BY <1>3, AgentKinds DEF Done, NotifierDone, FlushDone
  <2> QED BY <2>1
<1> QED BY <1>1, <1>2, <1>3, AgentKinds

\* A put, as it arrives.
Puts(a) == cas[a].at = "put" /\ a \in fresh /\ Put(a)

\* The conditional write, for the core.
LEMMA StoredCore ==
  ASSUME Core, NEW a \in Agents, CASStored(a) \/ CASUnheard(a) PROVE Core' /\ Puts(a)
<1>0. Puts(a)
  BY DEF Puts, CASStored, CASUnheard, Matches
<1>1. /\ cas[a].at = "put" /\ jobs' = cas[a].next /\ fresh' = {}
      /\ stale' = stale \ {cas[a].ns} /\ a \in fresh
  BY <1>0 DEF Puts, Put
<1>2. Shape /\ TypeOK /\ Distinct(jobs)
  BY DEF Core, Shape
<1>3. Shape'
  BY <1>2, CASShape DEF CASStep
<1>4. CopyInv'
  BY <1>1 DEF CopyInv
<1> DEFINE n == cas[a].ns
           js == cas[a].next
<1>5. Derives(a, n, js) /\ cas[a].at # "rest"
  BY <1>1 DEF Core, CopyInv
<1>6. jobs' = js /\ stale' = stale \ {n}
  BY <1>1
<1>7. \A w \in Workers : w = a /\ task[w].at = "claim" =>
        \E k \in 1..Len(js) : js[k].ns = n /\ js[k].worker = a
  <2> SUFFICES ASSUME a \in Workers, task[a].at = "claim"
               PROVE \E k \in 1..Len(js) : js[k].ns = n /\ js[k].worker = a
    OBVIOUS
  <2>1. Claims(a, n, js)
    BY <1>5, AgentKinds DEF Derives
  <2> HIDE DEF n, js
  <2>2. /\ Len(js) = Len(jobs)
        /\ \A i \in 1..Len(jobs) : js[i].ns = jobs[i].ns
        /\ \E k \in 1..Len(jobs) : n = jobs[k].ns /\ js[k].worker = a
    BY <1>2, <2>1, ClaimsCopy
  <2> QED BY <2>2
<1> HIDE DEF n, js
<1>8. Distinct(js)
  BY <1>2, <1>5, DerivedCopy
<1>9. Distinct(jobs)'
  BY <1>6, <1>8 DEF Distinct
<1>10. OwnInv'
  <2> SUFFICES ASSUME NEW w \in Workers, task'[w].at \in {"build", "publish"}, ~task'[w].late
               PROVE /\ task'[w].ns \notin stale'
                     /\ \E i \in 1..Len(js) : js[i].ns = task'[w].ns /\ js[i].worker = w
    BY <1>6 DEF OwnInv
  <2>1. \/ /\ task'[w].at = task[w].at /\ task'[w].ns = task[w].ns
           /\ task'[w].late = task[w].late /\ w # a
        \/ w = a /\ task[w].at = "claim" /\ task'[w].ns = n
    <3>1. CASE \E outcome \in {"wrote", "failed"} : Done(a, outcome)
      BY <1>1, <1>2, <3>1, DoneTasks DEF n
    <3>2. CASE task' = task
      <4>1. w = a => task[w].at \notin {"build", "publish"}
        BY <1>1, <1>2 DEF Shape, TaskInv
      <4> QED BY <3>2, <4>1
    <3> QED BY <3>1, <3>2 DEF CASStored, CASUnheard, TryAgain
  <2>2. CASE /\ task'[w].at = task[w].at /\ task'[w].ns = task[w].ns
             /\ task'[w].late = task[w].late /\ w # a
    <3>1. task[w].at \in {"build", "publish"} /\ ~task[w].late
      BY <2>2
    <3>2. task[w].ns \notin stale
      BY <3>1 DEF Core, OwnInv
    <3>3. \E i \in 1..Len(js) : js[i].ns = task[w].ns /\ js[i].worker = w
      BY <1>5, <2>2, <3>1, OthersKept
    <3> QED BY <1>6, <2>2, <3>2, <3>3
  <2>3. CASE w = a /\ task[w].at = "claim" /\ task'[w].ns = n
    BY <1>6, <1>7, <2>3
  <2> QED BY <2>1, <2>2, <2>3
<1> QED BY <1>0, <1>3, <1>4, <1>9, <1>10 DEF Core

\* A step that leaves the queue, and takes no job.
LEMMA QuietCore ==
  ASSUME Core, Shape', CopyInv', jobs' = jobs,
         \A w \in Workers : task'[w].at \in {"build", "publish"} /\ ~task'[w].late =>
            /\ task[w].at \in {"build", "publish"} /\ ~task[w].late /\ task'[w].ns = task[w].ns
            /\ task[w].ns \notin stale'
  PROVE Core'
<1>1. Distinct(jobs)'
  BY DEF Core, Distinct
<1>2. OwnInv'
  BY OwnKept DEF Core
<1> QED BY <1>1, <1>2 DEF Core

\* The steps of a loop that do not write.
LEMMA LoopCore ==
  ASSUME Core, NEW a \in Agents,
         CASLoad(a) \/ CASNothing(a) \/ CASRefused(a) \/ CASError(a)
  PROVE Core'
<1>1. Shape /\ CopyInv
  BY DEF Core
<1>2. Shape'
  BY <1>1, CASShape DEF CASStep
<1>3. jobs' = jobs /\ stale' = stale
  BY DEF CASLoad, CASNothing, CASRefused, CASError, queueVars
<1>4. CopyInv'
  <2>1. ASSUME CASNothing(a) \/ CASError(a) PROVE CopyInv'
    <3>1. (Done(a, "nothing") \/ Done(a, "failed")) /\ cas[a].at # "rest" /\ UNCHANGED queueVars
      BY <2>1 DEF CASNothing, CASError
    <3> QED BY <1>1, <3>1, DoneSpares, SparedCopies
  <2> QED BY <1>1, <2>1, LoadCopies, RefusedSpares, SparedCopies
<1>5. \A w \in Workers : task'[w].at # "claim" =>
         task'[w].at = task[w].at /\ task'[w].ns = task[w].ns /\ task'[w].late = task[w].late
  <2>1. CASE task' = task
    BY <2>1
  <2>2. ASSUME NEW outcome, outcome # "wrote", Done(a, outcome), cas[a].at # "rest"
        PROVE <1>5
    BY <1>1, <2>2, DoneTasks
  <2>3. task' = task \/ \E outcome \in {"nothing", "failed"} : Done(a, outcome)
    BY DEF CASLoad, CASNothing, CASRefused, CASError, TryAgain
  <2>4. cas[a].at # "rest"
    BY DEF CASLoad, CASNothing, CASRefused, CASError
  <2> QED BY <2>1, <2>2, <2>3, <2>4
<1>6. \A w \in Workers : task[w].at \in {"build", "publish"} /\ ~task[w].late =>
         task[w].ns \notin stale'
  BY <1>3 DEF Core, OwnInv
<1> QED BY <1>2, <1>3, <1>4, <1>5, <1>6, QuietCore

\* The steps of the workers outside a loop.
LEMMA WorkerCore ==
  ASSUME Core, Shape', NEW w \in Workers,
         \/ Poll(w) \/ Heartbeat(w) \/ BuildSnapshot(w) \/ BuildPublish(w) \/ Stop(w)
  PROVE Core'
<1>1. Shape /\ CopyInv /\ TypeOK
  BY DEF Core, Shape
<1>2. CopyInv'
  BY <1>1, WorkerSpares, SparedCopies
<1>3. jobs' = jobs /\ stale' = stale
  BY DEF Poll, Heartbeat, BuildSnapshot, BuildPublish, Stop, queueVars
<1>4. \A v \in Workers : task'[v].at \in {"build", "publish"} =>
         /\ task[v].at \in {"build", "publish"}
         /\ task'[v].ns = task[v].ns /\ task'[v].late = task[v].late
  <2>1. CASE Poll(w) \/ Heartbeat(w)
    BY <2>1 DEF Poll, Heartbeat
  <2>2. CASE BuildSnapshot(w)
    <3> DEFINE t == [task[w] EXCEPT !.at = "publish", !.snap = walSeq[task[w].ns]]
    <3>1. task' = [task EXCEPT ![w] = t] /\ task[w].at = "build"
      BY <2>2 DEF BuildSnapshot
    <3>2. t.ns = task[w].ns /\ t.late = task[w].late
      BY <1>1, TaskFields DEF TaskType
    <3> HIDE DEF t
    <3> QED BY <1>1, <3>1, <3>2 DEF TypeOK
  <2>3. CASE BuildPublish(w)
    <3> DEFINE t == [task[w] EXCEPT !.at = "complete", !.beating = FALSE]
    <3>1. task' = [task EXCEPT ![w] = t] /\ task[w].at = "publish"
      BY <2>3 DEF BuildPublish
    <3>2. t.ns = task[w].ns /\ t.late = task[w].late
      BY <1>1, TaskFields DEF TaskType
    <3> HIDE DEF t
    <3> QED BY <1>1, <3>1, <3>2 DEF TypeOK
  <2>4. CASE Stop(w)
    <3>1. task' = [task EXCEPT ![w] = Idle] /\ Idle.at = "claim"
      BY <2>4 DEF Stop, Idle
    <3> QED BY <1>1, <3>1 DEF TypeOK
  <2> QED BY <2>1, <2>2, <2>3, <2>4
<1>5. \A v \in Workers : task[v].at \in {"build", "publish"} /\ ~task[v].late =>
         task[v].ns \notin stale'
  BY <1>3 DEF Core, OwnInv
<1> QED BY <1>2, <1>3, <1>4, <1>5, QuietCore

\* Time takes a job only from a worker that is gone, or late.
LEMMA StaleCore ==
  ASSUME Core, Shape', NEW n \in Namespaces, Expire(n) \/ Stall(n) PROVE Core'
<1>1. Shape /\ CopyInv /\ TypeOK /\ jobs \in Seq(JobType)
  BY DEF Core, Shape, TypeOK
<1>2. CopyInv'
  BY <1>1, OtherSpares, SparedCopies
<1>3. jobs' = jobs /\ stale' = stale \cup {n}
  BY DEF Expire, Stall
<1>4. PICK w \in Workers :
        /\ CanExpire(n, w)
        /\ \/ ~Working(w, n) /\ task' = task
           \/ Working(w, n) /\ task' = [task EXCEPT ![w].late = TRUE]
  BY DEF Expire, Stall
<1>5. PICK i \in 1..Len(jobs) : jobs[i].ns = n /\ jobs[i].worker = w
  BY <1>1, <1>4 DEF CanExpire
<1>6. \A v \in Workers :
         task[v].at \in {"build", "publish"} /\ ~task[v].late /\ task[v].ns = n => v = w
  BY <1>5, OneOwner DEF Core
<1>7. \A v \in Workers : /\ task'[v].at = task[v].at /\ task'[v].ns = task[v].ns
                         /\ v # w => task'[v].late = task[v].late
  BY <1>1, <1>4 DEF TypeOK, TaskType
<1>8. task'[w].at \in {"build", "publish"} /\ ~task'[w].late => ~task[w].late /\ task[w].ns # n
  <2>1. CASE ~Working(w, n) /\ task' = task
    BY <2>1 DEF Working
  <2>2. CASE task' = [task EXCEPT ![w].late = TRUE]
    <3>1. task'[w].late = TRUE
      BY <1>1, <2>2 DEF TypeOK, TaskType
    <3> QED BY <3>1
  <2> QED BY <1>4, <2>1, <2>2
<1>9. \A v \in Workers : task[v].at \in {"build", "publish"} /\ ~task[v].late =>
         task[v].ns \notin stale
  BY DEF Core, OwnInv
<1>10. \A v \in Workers : task'[v].at \in {"build", "publish"} /\ ~task'[v].late =>
            /\ task[v].at \in {"build", "publish"} /\ ~task[v].late /\ task'[v].ns = task[v].ns
            /\ task[v].ns \notin stale'
  <2> SUFFICES ASSUME NEW v \in Workers, task'[v].at \in {"build", "publish"}, ~task'[v].late
               PROVE /\ task[v].at \in {"build", "publish"} /\ ~task[v].late
                     /\ task'[v].ns = task[v].ns
                     /\ task[v].ns \notin stale'
    OBVIOUS
  <2>1. task[v].at \in {"build", "publish"} /\ ~task[v].late /\ task'[v].ns = task[v].ns
    BY <1>7, <1>8
  <2>2. task[v].ns # n
    BY <1>6, <1>8, <2>1
  <2> QED BY <1>3, <1>9, <2>1, <2>2
<1> QED BY <1>2, <1>3, <1>10, QuietCore

\* Nobody holds a copy or a job at the start.
LEMMA CoreInit == Init => Core
<1> SUFFICES ASSUME Init PROVE Core
  OBVIOUS
<1>1. Shape
  BY ShapeInit
<1>2. CopyInv
  BY DEF Init, CopyInv
<1>3. Distinct(jobs)
  BY DEF Init, Distinct
<1>4. OwnInv
  BY RecordTypes DEF Init, OwnInv
<1> QED BY <1>1, <1>2, <1>3, <1>4 DEF Core

\* Every step keeps the core.
LEMMA CoreStep == Core /\ [Next]_vars => Core'
<1> SUFFICES ASSUME Core, [Next]_vars PROVE Core'
  OBVIOUS
<1>0. Shape /\ CopyInv /\ Shape'
  BY ShapeStep DEF Core
<1>1. ASSUME NEW a \in Agents, CASStep(a) \/ CASError(a) \/ CASUnheard(a) PROVE Core'
  BY <1>1, LoopCore, StoredCore DEF CASStep
<1>2. ASSUME NEW w \in Workers,
             \/ Poll(w) \/ Heartbeat(w) \/ BuildSnapshot(w)
             \/ BuildPublish(w) \/ BuildFail(w) \/ WorkerCrash(w)
      PROVE Core'
  BY <1>0, <1>2, WorkerCore DEF BuildFail, WorkerCrash
<1>3. ASSUME NEW n \in Namespaces, Expire(n) \/ Stall(n) PROVE Core'
  BY <1>0, <1>3, StaleCore
<1>4. CASE \/ \E n \in Namespaces : Upsert(n)
           \/ \E p \in Notifiers : Return(p) \/ \E n \in Namespaces : Notify(p, n)
           \/ Collect \/ Flush \/ BrokerCrash \/ UNCHANGED vars
  <2>1. jobs' = jobs /\ stale' = stale /\ task' = task
    BY <1>4 DEF Upsert, Notify, Return, Collect, Flush, BrokerCrash, vars, queueVars
  <2>2. CopyInv'
    BY <1>0, <1>4, OtherSpares, SparedCopies
  <2>3. \A w \in Workers : task[w].at \in {"build", "publish"} /\ ~task[w].late =>
           task[w].ns \notin stale'
    BY <2>1 DEF Core, OwnInv
  <2> QED BY <1>0, <2>1, <2>2, <2>3, QuietCore
<1> QED BY <1>1, <1>2, <1>3, <1>4 DEF Next

\* The core, in every behaviour.
LEMMA CoreAlways == Spec => []Core
  BY CoreInit, CoreStep, PTL DEF Spec

-----------------------------------------------------------------------------
(***************************************************************************)
(* EnqueueReindex and mergeNotification keep at most one job outstanding   *)
(* per namespace, whoever merges into whatever copy.                       *)
(***************************************************************************)
THEOREM OneJob == Spec => []OneJobPerNamespace
<1>1. Core => OneJobPerNamespace
  <2> SUFFICES ASSUME Core PROVE OneJobPerNamespace
    OBVIOUS
  <2>1. DOMAIN jobs = 1..Len(jobs)
    BY DEF Core, Shape, TypeOK
  <2> QED BY <2>1 DEF Core, Distinct, OneJobPerNamespace
<1> QED BY <1>1, CoreAlways, PTL

(***************************************************************************)
(* A namespace is built by one worker at a time, but for those whose       *)
(* heartbeat came too late: through claims, takeovers, failures, crashes.  *)
(***************************************************************************)
THEOREM OneBuilder == Spec => []BuildersExclusive
<1>1. Core => BuildersExclusive
  <2> SUFFICES ASSUME Core, NEW v \in Workers, NEW w \in Workers, NEW n \in Namespaces,
                      OnTime(v, n), OnTime(w, n)
               PROVE v = w
    BY DEF BuildersExclusive
  <2>1. /\ task[v].at \in {"build", "publish"} /\ ~task[v].late /\ task[v].ns = n
        /\ task[w].at \in {"build", "publish"} /\ ~task[w].late /\ task[w].ns = n
    BY DEF OnTime
  <2>2. PICK i \in 1..Len(jobs) : jobs[i].ns = n /\ jobs[i].worker = v
    BY <2>1 DEF Core, OwnInv
  <2>3. jobs[i].worker = w
    BY <2>1, <2>2, OneOwner DEF Core
  <2> QED BY <2>2, <2>3
<1> QED BY <1>1, CoreAlways, PTL

\* What a copy drops: nothing, or the job its worker has built.
LEMMA DroppedBy ==
  ASSUME Core, NEW a \in Agents, cas[a].at # "rest", NEW n, NEW js, Derives(a, n, js),
         NEW i \in 1..Len(jobs), \A j \in 1..Len(js) : js[j].ns # jobs[i].ns
  PROVE /\ a \in Workers /\ task[a].at = "complete"
        /\ jobs[i].ns = task[a].ns /\ jobs[i].worker = a
<1>0. Shape /\ TypeOK /\ jobs \in Seq(JobType) /\ Len(jobs) \in Nat
  BY DEF Core, Shape, TypeOK
<1>1. ASSUME a \in Workers, Claims(a, n, js) PROVE FALSE
  BY <1>0, <1>1, ClaimsCopy
<1>2. ASSUME a \in Workers, Completes(a, n, js)
      PROVE jobs[i].ns = task[a].ns /\ jobs[i].worker = a
  <2>1. n = task[a].ns
    BY <1>0, <1>2, CompletesCopy
  <2>2. PICK k \in 1..Len(jobs) :
          /\ jobs[k].ns = n /\ jobs[k].worker = a
          /\ \A m \in 1..Len(jobs) : m # k => \E j \in 1..Len(js) : js[j] = jobs[m]
    BY <1>0, <1>2, CompletesCopy
  <2>3. i = k
    BY <2>2
  <2> QED BY <2>1, <2>2, <2>3
<1>3. ASSUME NEW v \in Workers, Beats(v, n, js) PROVE FALSE
  BY <1>3 DEF Beats
<1>4. ASSUME a \in Notifiers \cup {Broker}, Merges(a, n, js) PROVE FALSE
  <2>1. Absorbs(js, jobs, SetOf(Requests(a), Len(Requests(a))))
    BY <1>0, <1>4, MergesCopy
  <2>2. js \in Seq(JobType) /\ Len(jobs) <= Len(js) /\ Len(js) \in Nat
    BY <2>1 DEF Absorbs
  <2>3. i \in 1..Len(js)
    BY <1>0, <2>2
  <2>4. js[i].ns = jobs[i].ns
    BY <2>1 DEF Absorbs
  <2> QED BY <2>3, <2>4
<1> QED BY <1>1, <1>2, <1>3, <1>4 DEF Derives

\* Only the conditional write of a loop changes the queue.
LEMMA OnlyStores ==
  ASSUME [Next]_vars, jobs' # jobs PROVE \E a \in Agents : Puts(a)
<1>1. \E a \in Agents : CASStored(a) \/ CASUnheard(a)
  BY DEF Next, vars, CASStep, CASLoad, CASNothing, CASRefused, CASError, Upsert, Notify, Return,
         Collect, Flush,
         Poll, Heartbeat, BuildSnapshot, BuildPublish, BuildFail, WorkerCrash, Stop,
         BrokerCrash, Expire, Stall, queueVars
<1> QED BY <1>1 DEF Puts, CASStored, CASUnheard, Matches

(***************************************************************************)
(* A job leaves the queue only when the worker that owns it at that moment *)
(* has published what the job asked for when it claimed it.                *)
(***************************************************************************)
THEOREM OnlyBuiltJobsLeave == Spec => RemovedWhenBuilt
<1> DEFINE Step ==
      \A n \in Namespaces :
         Listed(n) /\ ~Listed(n)' =>
           \E w \in Workers : /\ \E i \in DOMAIN jobs : jobs[i].ns = n /\ jobs[i].worker = w
                              /\ task[w].at = "complete"
                              /\ task[w].ns = n
                              /\ task[w].snap >= task[w].want
<1>1. Core /\ [Next]_vars => Step
  <2> SUFFICES ASSUME Core, [Next]_vars, NEW n \in Namespaces, Listed(n), ~Listed(n)'
               PROVE \E w \in Workers :
                        /\ \E i \in DOMAIN jobs : jobs[i].ns = n /\ jobs[i].worker = w
                        /\ task[w].at = "complete" /\ task[w].ns = n
                        /\ task[w].snap >= task[w].want
    OBVIOUS
  <2>1. jobs' # jobs
    BY DEF Listed
  <2>2. PICK a \in Agents : Puts(a)
    BY <2>1, OnlyStores
  <2>3. Shape /\ jobs \in Seq(JobType) /\ DOMAIN jobs = 1..Len(jobs)
    BY DEF Core, Shape, TypeOK
  <2> DEFINE js == cas[a].next
  <2>4. cas[a].at = "put" /\ a \in fresh /\ jobs' = js
    BY <2>2 DEF Puts, Put
  <2>5. Derives(a, cas[a].ns, js) /\ cas[a].at # "rest"
    BY <2>4 DEF Core, CopyInv
  <2>6. js \in Seq(JobType) /\ DOMAIN js = 1..Len(js)
    BY <2>3, CopyFields DEF Shape
  <2>7. PICK i \in 1..Len(jobs) : jobs[i].ns = n
    BY <2>3 DEF Listed
  <2>8. \A j \in 1..Len(js) : js[j].ns # n
    BY <2>4, <2>6 DEF Listed
  <2> HIDE DEF js
  <2>9. a \in Workers /\ task[a].at = "complete" /\ jobs[i].ns = task[a].ns /\ jobs[i].worker = a
    BY <2>5, <2>7, <2>8, DroppedBy
  <2>10. task[a].snap >= task[a].want
    BY <2>3, <2>9 DEF Shape, TaskInv
  <2> QED BY <2>3, <2>7, <2>9, <2>10
<1>2. Core /\ [Next]_vars => [Step]_vars
  BY <1>1
<1> QED BY <1>2, CoreAlways, PTL DEF Spec, RemovedWhenBuilt

\* What a copy keeps of each job that it lists: its position, or a later one.
LEMMA PositionKept ==
  ASSUME Core, NEW a \in Agents, cas[a].at # "rest", NEW n, NEW js, Derives(a, n, js),
         NEW i \in 1..Len(jobs), \E j \in 1..Len(js) : js[j].ns = jobs[i].ns
  PROVE \E j \in 1..Len(js) : js[j].ns = jobs[i].ns /\ js[j].upTo >= jobs[i].upTo
<1>0. Shape /\ TypeOK /\ jobs \in Seq(JobType) /\ Len(jobs) \in Nat /\ jobs[i].upTo \in Nat
  BY JobFields DEF Core, Shape, TypeOK
<1>1. ASSUME a \in Workers, Claims(a, n, js)
      PROVE i \in 1..Len(js) /\ js[i].ns = jobs[i].ns /\ js[i].upTo = jobs[i].upTo
  BY <1>0, <1>1, ClaimsCopy
<1>2. ASSUME a \in Workers, Completes(a, n, js)
      PROVE \E j \in 1..Len(js) : js[j] = jobs[i]
  <2>1. js \in Seq(JobType)
    BY <1>0, <1>2, CompletesCopy
  <2>2. PICK k \in 1..Len(jobs) :
          \A m \in 1..Len(js) : IF m < k THEN m \in 1..Len(jobs) /\ js[m] = jobs[m]
                                         ELSE m+1 \in 1..Len(jobs) /\ js[m] = jobs[m+1]
    BY <1>0, <1>2, CompletesCopy
  <2>3. PICK j \in 1..Len(js) : js[j].ns = jobs[i].ns
    OBVIOUS
  <2>4. PICK m \in 1..Len(jobs) : js[j] = jobs[m]
    BY <1>0, <2>1, <2>2
  <2>5. m = i
    BY <2>3, <2>4 DEF Core, Distinct
  <2> QED BY <2>4, <2>5
<1>3. ASSUME NEW v \in Workers, Beats(v, n, js) PROVE js = jobs
  BY <1>3 DEF Beats
<1>4. CASE a \in Notifiers \cup {Broker} /\ Merges(a, n, js)
  <2>1. Absorbs(js, jobs, SetOf(Requests(a), Len(Requests(a))))
    BY <1>0, <1>4, MergesCopy
  <2>2. js \in Seq(JobType) /\ Len(jobs) <= Len(js) /\ Len(js) \in Nat
    BY <2>1 DEF Absorbs
  <2>3. i \in 1..Len(js)
    BY <1>0, <2>2
  <2>4. js[i].ns = jobs[i].ns /\ js[i].upTo >= jobs[i].upTo
    BY <2>1 DEF Absorbs
  <2> QED BY <2>3, <2>4
<1>5. jobs[i].upTo >= jobs[i].upTo
  BY <1>0
<1> QED BY <1>1, <1>2, <1>3, <1>4, <1>5 DEF Derives

(***************************************************************************)
(* No write loses a position that another agent has stored: while its      *)
(* namespace stays listed, a job asks for what it asked, or for more.      *)
(***************************************************************************)
THEOREM NothingOverwritten == Spec => QueuedIsKept
<1> DEFINE Step ==
      \A n \in Namespaces, i \in DOMAIN jobs :
         jobs[i].ns = n /\ Listed(n)' =>
           \E j \in DOMAIN jobs' : jobs'[j].ns = n /\ jobs'[j].upTo >= jobs[i].upTo
<1>1. Core /\ [Next]_vars => Step
  <2> SUFFICES ASSUME Core, [Next]_vars, NEW n \in Namespaces, NEW i \in DOMAIN jobs,
                      jobs[i].ns = n, Listed(n)'
               PROVE \E j \in DOMAIN jobs' : jobs'[j].ns = n /\ jobs'[j].upTo >= jobs[i].upTo
    OBVIOUS
  <2>0. jobs \in Seq(JobType) /\ DOMAIN jobs = 1..Len(jobs) /\ Shape
    BY DEF Core, Shape, TypeOK
  <2>1. CASE jobs' = jobs
    <3>1. jobs[i].upTo \in Nat
      BY <2>0, JobFields
    <3> QED BY <2>1, <3>1
  <2>2. CASE jobs' # jobs
    <3>1. PICK a \in Agents : Puts(a)
      BY <2>2, OnlyStores
    <3> DEFINE js == cas[a].next
    <3>2. cas[a].at = "put" /\ a \in fresh /\ jobs' = js
      BY <3>1 DEF Puts, Put
    <3>3. Derives(a, cas[a].ns, js) /\ cas[a].at # "rest"
      BY <3>2 DEF Core, CopyInv
    <3>4. js \in Seq(JobType) /\ DOMAIN js = 1..Len(js)
      BY <2>0, CopyFields DEF Shape
    <3>5. \E j \in 1..Len(js) : js[j].ns = jobs[i].ns
      <4>1. \E j \in DOMAIN jobs' : jobs'[j].ns = n
        BY DEF Listed
      <4> QED BY <3>2, <3>4, <4>1
    <3> HIDE DEF js
    <3>6. \E j \in 1..Len(js) : js[j].ns = jobs[i].ns /\ js[j].upTo >= jobs[i].upTo
      BY <2>0, <3>3, <3>5, PositionKept
    <3> QED BY <3>2, <3>4, <3>6
  <2> QED BY <2>1, <2>2
<1>2. Core /\ [Next]_vars => [Step]_vars
  BY <1>1
<1> QED BY <1>2, CoreAlways, PTL DEF Spec, QueuedIsKept

-----------------------------------------------------------------------------
(***************************************************************************)
(* The replies: what a stored queue asks for is remembered for whoever     *)
(* waits, and only those are told of success.                              *)
(***************************************************************************)
Remembered == \A p \in Notifiers : req[p] # NoReq /\ Covers(jobs, req[p]) => p \in queued
AckInv == Remembered /\ AckMeansQueued

\* A loop of a ends well for the requests that are in what a makes of the queue.
LEMMA DoneReplies ==
  ASSUME Shape, NEW a \in Agents, cas[a].at # "rest", NEW outcome, Done(a, outcome),
         NEW p \in Notifiers
  PROVE \/ req'[p] = req[p]
        \/ /\ req[p] # NoReq /\ req'[p].ns = req[p].ns /\ req'[p].upTo = req[p].upTo
           /\ req'[p].reply = "ok" =>
                 /\ outcome # "failed" /\ a \in Notifiers \cup {Broker}
                 /\ req[p] \in SetOf(Requests(a), Len(Requests(a)))
<1>0. TypeOK
  BY DEF Shape
<1>1. CASE a \in Notifiers
  <2> DEFINE ps == {a}
             ok == outcome # "failed"
  <2>1. Reply(ps, ok) /\ a # Broker
    BY <1>1, AgentKinds DEF Done, NotifierDone
  <2>2. ps \in SUBSET Notifiers /\ \A q \in ps : q = a
    BY <1>1
  <2>a. \A q \in ps : req[q] # NoReq
    BY <1>1 DEF Shape, ReqInv, Pending
  <2>3. Requests(a) = <<req[a]>>
    BY <2>1 DEF Requests
  <2>4. req[a] \in SetOf(<<req[a]>>, Len(<<req[a]>>))
    BY DEF SetOf
  <2>5. p \notin ps \/ p = a
    BY <2>2
  <2> HIDE DEF ps, ok
  <2>6. p \in ps => /\ req[p] # NoReq /\ req'[p].ns = req[p].ns /\ req'[p].upTo = req[p].upTo
                    /\ req'[p].reply = IF ok THEN "ok" ELSE "error"
    BY <1>0, <2>1, <2>2, <2>a, ReplyIs
  <2>7. p \notin ps => req'[p] = req[p]
    BY <1>0, <2>1, <2>2, <2>a, ReplyIs
  <2> QED BY <1>1, <2>2, <2>3, <2>4, <2>5, <2>6, <2>7 DEF ok
<1>2. CASE a = Broker
  <2> DEFINE ps == ToSet(batch)
             ok == outcome # "failed"
  <2>1. Reply(ps, ok)
    BY <1>2, AgentKinds DEF Done, FlushDone
  <2>2. batch \in Seq(Notifiers) /\ DOMAIN batch = 1..Len(batch) /\ Len(batch) \in Nat
    BY <1>0 DEF TypeOK
  <2>3. /\ ps \in SUBSET Notifiers
        /\ \A q : q \in ps <=> \E i \in 1..Len(batch) : q = batch[i]
    BY <2>2 DEF ToSet
  <2>4. \A q \in ps : req[q] # NoReq
    BY <2>3 DEF Shape, ReqInv, Pending
  <2> DEFINE rs == [j \in 1..Len(batch) |-> req[batch[j]]]
  <2>5. Requests(a) = rs
    BY <1>2 DEF Requests
  <2>6. Len(rs) = Len(batch) /\ \A i \in 1..Len(batch) : rs[i] = req[batch[i]]
    BY <2>2
  <2> HIDE DEF rs, ps, ok
  <2>7. p \in ps => req[p] \in SetOf(rs, Len(rs))
    BY <2>3, <2>6 DEF SetOf
  <2>8. p \in ps => /\ req[p] # NoReq /\ req'[p].ns = req[p].ns /\ req'[p].upTo = req[p].upTo
                    /\ req'[p].reply = IF ok THEN "ok" ELSE "error"
    BY <1>0, <2>1, <2>3, <2>4, ReplyIs
  <2>9. p \notin ps => req'[p] = req[p]
    BY <1>0, <2>1, <2>3, <2>4, ReplyIs
  <2> QED BY <1>2, <2>5, <2>7, <2>8, <2>9 DEF ok
<1>3. CASE a \notin Notifiers \cup {Broker}
  BY <1>3, AgentKinds DEF Done, WorkerDone, BeatDone
<1> QED BY <1>1, <1>2, <1>3

\* The copy of an enqueue covers its requests.
LEMMA MergesCover ==
  ASSUME Shape, NEW a \in Notifiers \cup {Broker}, cas[a].at # "rest", NEW n, NEW js,
         Merges(a, n, js), NEW r \in SetOf(Requests(a), Len(Requests(a)))
  PROVE Covers(js, r)
<1> DEFINE S == SetOf(Requests(a), Len(Requests(a)))
<1>1. Absorbs(js, jobs, S)
  BY MergesCopy
<1>2. DOMAIN js = 1..Len(js)
  BY <1>1 DEF Absorbs
<1> HIDE DEF S
<1>3. r \in S
  BY DEF S
<1> QED BY <1>1, <1>2, <1>3 DEF Absorbs, Covers

\* A put, and what its sender makes of it.
LEMMA StoredAck ==
  ASSUME Core, AckInv, NEW a \in Agents, CASStored(a) \/ CASUnheard(a) PROVE AckInv'
<1>1. Shape /\ Puts(a)
  BY StoredCore DEF Core
<1> DEFINE js == cas[a].next
<1>2. /\ jobs' = js /\ cas[a].at # "rest" /\ Derives(a, cas[a].ns, js)
      /\ queued' = queued \cup {p \in Notifiers : Covers(js, req[p])}
  BY <1>1 DEF Puts, Put, Core, CopyInv
<1> HIDE DEF js
<1>3. ASSUME NEW p \in Notifiers
      PROVE \/ req'[p] = req[p]
            \/ /\ req[p] # NoReq /\ req'[p].ns = req[p].ns /\ req'[p].upTo = req[p].upTo
               /\ req'[p].reply = "ok" =>
                     /\ a \in Notifiers \cup {Broker}
                     /\ req[p] \in SetOf(Requests(a), Len(Requests(a)))
  <2>1. CASE req' = req
    BY <2>1
  <2>2. CASE \E outcome \in {"wrote", "failed"} : Done(a, outcome)
    BY <1>1, <1>2, <2>2, DoneReplies
  <2> QED BY <2>1, <2>2 DEF CASStored, CASUnheard, TryAgain
<1>4. Remembered'
  <2> SUFFICES ASSUME NEW p \in Notifiers, Covers(js, req'[p]) PROVE p \in queued'
    BY <1>2 DEF Remembered
  <2>1. Covers(js, req[p])
    BY <1>3 DEF Covers
  <2> QED BY <1>2, <2>1
<1>5. AckMeansQueued'
  <2> SUFFICES ASSUME NEW p \in Notifiers, req'[p].reply = "ok" PROVE p \in queued'
    BY DEF AckMeansQueued
  <2>1. CASE req'[p] = req[p]
    BY <1>2, <2>1 DEF AckInv, AckMeansQueued
  <2>2. CASE req'[p] # req[p]
    <3>1. a \in Notifiers \cup {Broker} /\ req[p] \in SetOf(Requests(a), Len(Requests(a)))
      BY <1>3, <2>2
    <3>2. Merges(a, cas[a].ns, js)
      BY <1>2, <3>1, AgentKinds DEF Derives
    <3>3. Covers(js, req[p])
      BY <1>1, <1>2, <3>1, <3>2, MergesCover
    <3> QED BY <1>2, <3>3
  <2> QED BY <2>1, <2>2
<1> QED BY <1>4, <1>5 DEF AckInv

\* A loop that ends without a put.
LEMMA UnwrittenAck ==
  ASSUME Core, AckInv, NEW a \in Agents, cas[a].at # "rest", NEW outcome, Done(a, outcome),
         UNCHANGED <<jobs, queued>>, outcome = "failed" \/ Mutate(a) = {}
  PROVE AckInv'
<1>0. Shape
  BY DEF Core
<1>1. Remembered'
  <2> SUFFICES ASSUME NEW p \in Notifiers, req'[p] # NoReq, Covers(jobs, req'[p])
               PROVE p \in queued
    BY DEF Remembered
  <2>1. req[p] # NoReq /\ Covers(jobs, req[p])
    BY <1>0, DoneReplies DEF Covers
  <2> QED BY <2>1 DEF AckInv, Remembered
<1>2. AckMeansQueued'
  <2> SUFFICES ASSUME NEW p \in Notifiers, req'[p].reply = "ok" PROVE p \in queued
    BY DEF AckMeansQueued
  <2>1. CASE req'[p] = req[p]
    BY <2>1 DEF AckInv, AckMeansQueued
  <2>2. CASE req'[p] # req[p]
    <3>1. /\ a \in Notifiers \cup {Broker} /\ outcome # "failed" /\ req[p] # NoReq
          /\ req[p] \in SetOf(Requests(a), Len(Requests(a)))
      BY <1>0, <2>2, DoneReplies
    <3>2. MergeResult(Requests(a)) = {}
      <4>1. DOMAIN batch = 1..Len(batch)
        BY <1>0 DEF Shape, TypeOK
      <4> QED BY <3>1, <4>1, AgentKinds DEF Mutate, Requests
    <3>3. Merged(jobs, Requests(a)) = jobs
      BY <3>2 DEF MergeResult
    <3>4. Merges(a, NoNs, jobs)
      BY <3>3 DEF Merges
    <3>5. Covers(jobs, req[p])
      BY <1>0, <3>1, <3>4, MergesCover
    <3> QED BY <3>1, <3>5 DEF AckInv, Remembered
  <2> QED BY <2>1, <2>2
<1> QED BY <1>1, <1>2 DEF AckInv

\* A step that leaves the queue and the requests.
LEMMA QuietAck == ASSUME AckInv, UNCHANGED <<jobs, req, queued>> PROVE AckInv'
  BY DEF AckInv, Remembered, AckMeansQueued

\* The steps of the notifiers, and the death of the broker.
LEMMA NotifierAck ==
  ASSUME Shape, AckInv,
         \/ \E p \in Notifiers : Return(p) \/ \E n \in Namespaces : Notify(p, n)
         \/ BrokerCrash
  PROVE AckInv'
<1>0. req \in [Notifiers -> ReqType \cup {NoReq}] /\ NoReq.reply = "none"
  BY DEF Shape, TypeOK, NoReq
<1>1. ASSUME NEW ps, Leave(ps), jobs' = jobs PROVE AckInv'
  <2>1. \A p \in Notifiers : \/ p \in ps /\ req'[p] = NoReq
                             \/ p \notin ps /\ req'[p] = req[p]
    BY <1>1 DEF Leave
  <2> QED BY <1>0, <1>1, <2>1 DEF Leave, AckInv, Remembered, AckMeansQueued
<1>2. ASSUME NEW p \in Notifiers, Return(p) PROVE AckInv'
  <2> DEFINE ps == {p}
  <2>1. req' = [q \in Notifiers |-> IF q \in ps THEN NoReq ELSE req[q]]
    BY <1>0, <1>2 DEF Return
  <2>2. Leave(ps) /\ jobs' = jobs
    BY <1>2, <2>1 DEF Return, Leave, queueVars
  <2> QED BY <1>1, <2>2
<1>3. ASSUME BrokerCrash PROVE AckInv'
  <2>1. Leave(Lost) /\ jobs' = jobs
    BY <1>3 DEF BrokerCrash, Leave, Lost
  <2> QED BY <1>1, <2>1
<1>4. ASSUME NEW p \in Notifiers, NEW n \in Namespaces, Notify(p, n) PROVE AckInv'
  <2>1. /\ jobs' = jobs
        /\ queued' = IF Covers(jobs, req'[p]) THEN queued \cup {p} ELSE queued \ {p}
        /\ \E route \in Routes :
              req' = [req EXCEPT ![p] = [route |-> route, ns |-> n, upTo |-> walSeq[n],
                                         reply |-> "none"]]
    BY <1>4 DEF Notify, queueVars
  <2>2. req'[p].reply = "none" /\ \A q \in Notifiers : q # p => req'[q] = req[q]
    BY <1>0, <2>1
  <2>3. \A q \in Notifiers : q # p => (q \in queued' <=> q \in queued)
    BY <2>1
  <2>4. Remembered'
    <3> SUFFICES ASSUME NEW q \in Notifiers, req'[q] # NoReq, Covers(jobs, req'[q])
                 PROVE q \in queued'
      BY <2>1 DEF Remembered
    <3>1. CASE q = p
      BY <2>1, <3>1
    <3>2. CASE q # p
      BY <2>2, <2>3, <3>2 DEF AckInv, Remembered
    <3> QED BY <3>1, <3>2
  <2>5. AckMeansQueued'
    BY <2>2, <2>3 DEF AckInv, AckMeansQueued
  <2> QED BY <2>4, <2>5 DEF AckInv
<1> QED BY <1>2, <1>3, <1>4

(***************************************************************************)
(* "a 200 means the notification is durably queued": while the request     *)
(* waited, a stored queue asked for its position, whatever other agents    *)
(* wrote, and whichever requests to the store failed or were sent again.   *)
(***************************************************************************)
THEOREM Acknowledged == Spec => []AckMeansQueued
<1>1. Init => AckInv
  BY DEF Init, AckInv, Remembered, AckMeansQueued, NoReq
<1>2. Core /\ AckInv /\ [Next]_vars => AckInv'
  <2> SUFFICES ASSUME Core, AckInv, [Next]_vars PROVE AckInv'
    OBVIOUS
  <2>0. Shape
    BY DEF Core
  <2>1. ASSUME NEW a \in Agents, CASStored(a) \/ CASUnheard(a) PROVE AckInv'
    BY <2>1, StoredAck
  <2>2. ASSUME NEW a \in Agents, CASNothing(a) \/ CASError(a) \/ CASRefused(a) PROVE AckInv'
    <3>1. cas[a].at # "rest" /\ UNCHANGED <<jobs, queued>>
      BY <2>2 DEF CASNothing, CASError, CASRefused, queueVars
    <3>2. \/ Done(a, "nothing") /\ Mutate(a) = {}
          \/ Done(a, "failed")
          \/ req' = req
      BY <2>2 DEF CASNothing, CASError, CASRefused, TryAgain
    <3> QED BY <3>1, <3>2, UnwrittenAck, QuietAck
  <2>3. CASE \/ \E p \in Notifiers : Return(p) \/ \E n \in Namespaces : Notify(p, n)
             \/ BrokerCrash
    BY <2>0, <2>3, NotifierAck
  <2>4. CASE \/ \E a \in Agents : CASLoad(a)
             \/ \E w \in Workers : \/ Poll(w) \/ Heartbeat(w) \/ BuildSnapshot(w)
                                   \/ BuildPublish(w) \/ BuildFail(w) \/ WorkerCrash(w)
             \/ \E n \in Namespaces : Upsert(n) \/ Expire(n) \/ Stall(n)
             \/ Collect \/ Flush \/ UNCHANGED vars
    <3>1. UNCHANGED <<jobs, req, queued>>
      BY <2>4 DEF CASLoad, Poll, Heartbeat, BuildSnapshot, BuildPublish, BuildFail, WorkerCrash,
                  Stop, Upsert, Expire, Stall, Collect, Flush, vars, queueVars
    <3> QED BY <3>1, QuietAck
  <2> QED BY <2>1, <2>2, <2>3, <2>4 DEF Next, CASStep
<1>3. AckInv => AckMeansQueued
  BY DEF AckInv
<1> QED BY <1>1, <1>2, <1>3, CoreAlways, PTL DEF Spec
=============================================================================
