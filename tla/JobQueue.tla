------------------------------ MODULE JobQueue ------------------------------
(***************************************************************************)
(* The indexing queue (internal/engine/queue.go): one JSON object that     *)
(* notifiers, the broker (cmd/tpuf-broker) and the indexer daemons         *)
(* (cmd/tpuf-indexer) change by read-modify-conditional-write.  Each       *)
(* request to the store is a step, so the CAS loops of all agents overlap. *)
(*                                                                         *)
(* The ETag is modelled by the set "fresh" of agents whose last read is    *)
(* still what is stored: a write empties it.  Time is modelled by its only *)
(* use, the set "stale" of namespaces whose job has not been stamped for   *)
(* longer than the timeout.  Jobs stand in the order of their EnqueuedAt   *)
(* (clocks of the enqueuers are taken to agree).  The object exists from   *)
(* the start: every agent calls EnsureQueue first.                         *)
(*                                                                         *)
(* BuildIndex is reduced to the two steps the queue depends on, the        *)
(* snapshot of WALSeq and the publish of IndexedUpTo (see IndexBuild).     *)
(***************************************************************************)
EXTENDS Integers, Sequences, FiniteSets, SequencesExt

CONSTANTS
  Namespaces,
  Workers,          \* indexer daemons
  Notifiers,        \* goroutines of writers that announce unindexed segments
  Broker,           \* the broker, as the agent of its commit loop
  Nobody,           \* the empty Worker field: the job is unclaimed
  MaxWALSeq,        \* bound of the model: segments per namespace
  MaxCASAttempts,   \* maxQueueCASAttempts (32 in the code)
  Threshold,        \* lag from which a writer announces its segments
  Routes,           \* {"direct", "broker"}: how notifiers enqueue
  Faults,           \* subset of {"crash", "fail", "stall", "error", "resend"}
  MaxFaults         \* bound of the model: faults in a behaviour

ASSUME BoundsAssumption ==
  MaxWALSeq \in Nat /\ MaxFaults \in Nat /\ Threshold \in Nat /\ MaxCASAttempts \in Nat \ {0}
ASSUME ChoiceAssumption ==
  Routes \subseteq {"direct", "broker"} /\ Faults \subseteq {"crash", "fail", "stall", "error", "resend"}
ASSUME NobodyAssumption == Nobody \notin Workers

VARIABLES
  jobs,      \* Queue.Jobs
  fresh,     \* agents whose ETag names the stored queue
  stale,     \* namespaces whose claim has outlived the heartbeat timeout
  walSeq,    \* manifest.WALSeq of each namespace
  indexed,   \* manifest.IndexedUpTo of each namespace
  cas,       \* the SaveQueueCAS each agent is in
  task,      \* processJob of each worker
  req,       \* the notification each notifier is sending
  inbox,     \* the broker's channel
  batch,     \* the broker's batch
  queued,    \* history: notifiers whose request some stored queue has covered
  faults     \* number of faults so far

queueVars  == <<jobs, fresh, stale>>
dataVars   == <<walSeq, indexed>>
brokerVars == <<inbox, batch>>
vars == <<queueVars, dataVars, cas, task, req, brokerVars, queued, faults>>

\* The heartbeat goroutine of a worker.
Beat(w) == <<"beat", w>>
Agents == Workers \cup {Beat(w) : w \in Workers} \cup Notifiers \cup {Broker}

\* Goroutines and processes are distinct.
ASSUME AgentsAssumption ==
  /\ Workers \cap Notifiers = {} /\ Broker \notin Workers \cup Notifiers
  /\ \A w \in Workers : Beat(w) \notin Workers \cup Notifiers \cup {Broker}

NoNs   == "none"
AtRest == [at |-> "rest", ns |-> NoNs, next |-> <<>>, told |-> FALSE, tries |-> 0]
Loading(told, tries) ==
  [at |-> "load", ns |-> NoNs, next |-> <<>>, told |-> told, tries |-> tries]
Idle   == [at |-> "claim", ns |-> NoNs, want |-> 0, snap |-> 0, beating |-> FALSE,
           late |-> FALSE]
NoReq  == [route |-> "none", ns |-> NoNs, upTo |-> 0, reply |-> "none"]

Init ==
  /\ jobs = <<>>
  /\ fresh = {}
  /\ stale = {}
  /\ walSeq = [n \in Namespaces |-> 0]
  /\ indexed = [n \in Namespaces |-> 0]
  /\ cas = [a \in Agents |-> AtRest]
  /\ task = [w \in Workers |-> Idle]
  /\ req = [p \in Notifiers |-> NoReq]
  /\ inbox = <<>>
  /\ batch = <<>>
  /\ queued = {}
  /\ faults = 0
-----------------------------------------------------------------------------
(***************************************************************************)
(* The mutate closures, as the set of their results on the stored jobs:    *)
(* empty when the closure returns false, else one record of the namespace  *)
(* whose job is stamped or removed (if any) and of the new jobs.           *)
(***************************************************************************)
Result(n, js) == [ns |-> n, jobs |-> js]

\* Mutant of Eligible: no takeover.
EligibleUnclaimed == {i \in DOMAIN jobs : jobs[i].worker = Nobody}

\* pickEligible: the oldest job that is unclaimed or whose claim is stale.
Eligible == {i \in DOMAIN jobs : jobs[i].worker = Nobody \/ jobs[i].ns \in stale}
Oldest(I) == {i \in I : \A j \in I : i <= j}

ClaimResult(w) ==
  {Result(jobs[i].ns, [jobs EXCEPT ![i].worker = w]) : i \in Oldest(Eligible)}

\* The job of n that w owns, in the eyes of HeartbeatJob and CompleteJob.
Held(w, n) == {i \in DOMAIN jobs : jobs[i].ns = n /\ jobs[i].worker = w}

HeartbeatResult(w) ==
  {Result(jobs[i].ns, jobs) : i \in Held(w, task[w].ns)}

\* Mutants of CompleteResult: whoever owns the job; a done marker is kept.
CompleteResultOfAny(w) ==
  {Result(jobs[i].ns, RemoveAt(jobs, i)) : i \in {i \in DOMAIN jobs : jobs[i].ns = task[w].ns}}

CompleteResultMarked(w) ==
  {Result(jobs[i].ns, [jobs EXCEPT ![i].worker = "done"]) : i \in Held(w, task[w].ns)}

CompleteResult(w) ==
  {Result(jobs[i].ns, RemoveAt(jobs, i)) : i \in Held(w, task[w].ns)}

\* Mutant of Merge: only an unclaimed job absorbs a notification.
MergeUnclaimed(js, r) ==
  IF \E i \in DOMAIN js : js[i].ns = r.ns /\ js[i].worker = Nobody
  THEN js
  ELSE Append(js, [ns |-> r.ns, upTo |-> r.upTo, worker |-> Nobody])

\* mergeNotification, and the closure of EnqueueReindex.
Merge(js, r) ==
  IF \E i \in DOMAIN js : js[i].ns = r.ns
  THEN [i \in DOMAIN js |->
          IF js[i].ns = r.ns /\ r.upTo > js[i].upTo
          THEN [js[i] EXCEPT !.upTo = r.upTo] ELSE js[i]]
  ELSE Append(js, [ns |-> r.ns, upTo |-> r.upTo, worker |-> Nobody])

\* js after the notifications rs, one by one.
Merged(js, rs) ==
  LET after[i \in 0..Len(rs)] == IF i = 0 THEN js ELSE Merge(after[i - 1], rs[i])
  IN after[Len(rs)]

MergeResult(rs) == {Result(NoNs, js) : js \in {Merged(jobs, rs)} \ {jobs}}

Mutate(a) ==
  CASE a \in Notifiers -> MergeResult(<<req[a]>>)
    [] a = Broker -> MergeResult([i \in DOMAIN batch |-> req[batch[i]]])
    [] a \in Workers /\ task[a].at = "claim" -> ClaimResult(a)
    [] a \in Workers /\ task[a].at = "complete" -> CompleteResult(a)
    [] OTHER -> HeartbeatResult(a[2])
-----------------------------------------------------------------------------
\* What each caller of SaveQueueCAS does with its outcome: "wrote", "nothing"
\* (mutate returned false) or "failed" (a request failed, or the attempts are
\* exhausted).
Enter(a) == cas' = [cas EXCEPT ![a] = Loading(FALSE, 0)]

Claimed(w, n) ==
  LET j == CHOOSE i \in DOMAIN cas[w].next : cas[w].next[i].ns = n
  IN  [at |-> "build", ns |-> n, want |-> cas[w].next[j].upTo, snap |-> 0,
       beating |-> TRUE, late |-> FALSE]

\* The result each of ps will return with: EnqueueReindex's, or, sent by the
\* broker on the channel of the request, the one its handler waits for.
Reply(ps, ok) ==
  req' = [p \in Notifiers |->
            IF p \in ps THEN [req[p] EXCEPT !.reply = IF ok THEN "ok" ELSE "error"]
            ELSE req[p]]

WorkerDone(w, outcome) ==
  /\ task' = [task EXCEPT ![w] = IF task[w].at = "claim" /\ outcome = "wrote"
                                 THEN Claimed(w, cas[w].ns) ELSE Idle]
  /\ UNCHANGED <<req, batch>>

\* heartbeatLoop returns when HeartbeatJob says false; on an error it goes on.
BeatDone(w, outcome) ==
  /\ task' = [task EXCEPT ![w].beating = outcome # "nothing" \/ cas[Beat(w)].told]
  /\ UNCHANGED <<req, batch>>

NotifierDone(p, outcome) ==
  /\ Reply({p}, outcome # "failed")
  /\ UNCHANGED <<task, batch>>

\* Mutants of FlushDone: a failed flush returns without a reply; it replies as if
\* it had not failed.
FlushDoneSilent(outcome) ==
  /\ IF outcome = "failed" THEN UNCHANGED req ELSE Reply(ToSet(batch), TRUE)
  /\ batch' = <<>>
  /\ UNCHANGED task

FlushDoneBlind(outcome) ==
  /\ Reply(ToSet(batch), TRUE)
  /\ batch' = <<>>
  /\ UNCHANGED task

FlushDone(outcome) ==
  /\ Reply(ToSet(batch), outcome # "failed")
  /\ batch' = <<>>
  /\ UNCHANGED task

Done(a, outcome) ==
  /\ cas' = [cas EXCEPT ![a] = AtRest]
  /\ \/ a \in Workers /\ WorkerDone(a, outcome)
     \/ a \in Notifiers /\ NotifierDone(a, outcome)
     \/ a = Broker /\ FlushDone(outcome)
     \/ \E w \in Workers : a = Beat(w) /\ BeatDone(w, outcome)
  /\ UNCHANGED <<dataVars, inbox>>

\* Do the jobs js ask for what the notification r announces?
Covers(js, r) == \E i \in DOMAIN js : js[i].ns = r.ns /\ js[i].upTo >= r.upTo

\* The put of a arrives.  A claim or heartbeat carries a new stamp.
Put(a) ==
  /\ jobs' = cas[a].next
  /\ fresh' = {}
  /\ stale' = stale \ {cas[a].ns}
  /\ queued' = queued \cup {p \in Notifiers : Covers(cas[a].next, req[p])}

\* 412: reload and try again, or give up.
TryAgain(a) ==
  \/ /\ cas[a].tries + 1 < MaxCASAttempts
     /\ cas' = [cas EXCEPT ![a] = Loading(cas[a].told, cas[a].tries + 1)]
     /\ UNCHANGED <<dataVars, task, req, brokerVars>>
  \/ /\ cas[a].tries + 1 >= MaxCASAttempts
     /\ Done(a, "failed")

Fault(kind) ==
  /\ kind \in Faults
  /\ faults < MaxFaults
  /\ faults' = faults + 1
-----------------------------------------------------------------------------
\* Mutant of Matches: the put is unconditional.
MatchesAnything(a) == TRUE

\* If-Match: does the ETag the agent read still name the stored queue?
Matches(a) == a \in fresh

\* SaveQueueCAS reads the queue and applies mutate, which notes its success in
\* a variable of the enclosing function that no later attempt resets.
CASLoad(a) ==
  /\ cas[a].at = "load"
  /\ \E m \in Mutate(a) :
       cas' = [cas EXCEPT ![a] = [at |-> "put", ns |-> m.ns, next |-> m.jobs,
                                  told |-> TRUE, tries |-> cas[a].tries]]
  /\ fresh' = fresh \cup {a}
  /\ UNCHANGED <<jobs, stale, dataVars, task, req, brokerVars, queued, faults>>

\* mutate returned false: no write.
CASNothing(a) ==
  /\ cas[a].at = "load"
  /\ Mutate(a) = {}
  /\ Done(a, "nothing")
  /\ UNCHANGED <<queueVars, queued, faults>>

\* PutCAS with the ETag still current.
CASStored(a) ==
  /\ cas[a].at = "put"
  /\ Matches(a)
  /\ Put(a)
  /\ Done(a, "wrote")
  /\ UNCHANGED faults

CASRefused(a) ==
  /\ cas[a].at = "put"
  /\ ~Matches(a)
  /\ TryAgain(a)
  /\ UNCHANGED <<queueVars, queued, faults>>

\* The read of the queue, or the put, fails and changes nothing.
CASError(a) ==
  /\ Fault("error")
  /\ cas[a].at \in {"load", "put"}
  /\ Done(a, "failed")
  /\ UNCHANGED <<queueVars, queued>>

\* The put is stored but its reply is lost: SaveQueueCAS returns the error, or
\* the client has sent the put again and this one met a 412.
CASUnheard(a) ==
  /\ cas[a].at = "put"
  /\ Matches(a)
  /\ Put(a)
  /\ \/ Fault("error") /\ Done(a, "failed")
     \/ Fault("resend") /\ TryAgain(a)

CASStep(a) == CASLoad(a) \/ CASNothing(a) \/ CASStored(a) \/ CASRefused(a)
-----------------------------------------------------------------------------
\* A committed Upsert.
Upsert(n) ==
  /\ walSeq[n] < MaxWALSeq
  /\ walSeq' = [walSeq EXCEPT ![n] = @ + 1]
  /\ UNCHANGED <<queueVars, indexed, cas, task, req, brokerVars, queued, faults>>

\* EnqueueReindexIfBehind reads the manifest and, when the lag has reached the
\* threshold, starts an EnqueueReindex or posts to the broker.
Notify(p, n) ==
  /\ req[p] = NoReq
  /\ walSeq[n] > indexed[n] /\ walSeq[n] - indexed[n] >= Threshold
  /\ \E route \in Routes :
       /\ req' = [req EXCEPT ![p] = [route |-> route, ns |-> n, upTo |-> walSeq[n],
                                     reply |-> "none"]]
       /\ queued' = IF Covers(jobs, req'[p]) THEN queued \cup {p} ELSE queued \ {p}
       /\ \/ /\ route = "direct"
             /\ Enter(p)
             /\ UNCHANGED inbox
          \/ /\ route = "broker"
             /\ inbox' = Append(inbox, p)
             /\ UNCHANGED cas
  /\ UNCHANGED <<queueVars, dataVars, task, batch, faults>>

\* EnqueueReindex returns to the writer, or the handler of the broker, which has
\* waited for its reply, writes the answer.
Return(p) ==
  /\ req[p].reply # "none"
  /\ req' = [req EXCEPT ![p] = NoReq]
  /\ queued' = queued \ {p}
  /\ UNCHANGED <<queueVars, dataVars, cas, task, brokerVars, faults>>

\* commitLoop takes a request into the batch, until the window closes.
Collect ==
  /\ cas[Broker].at = "rest"
  /\ inbox # <<>>
  /\ batch' = Append(batch, Head(inbox))
  /\ inbox' = Tail(inbox)
  /\ UNCHANGED <<queueVars, dataVars, cas, task, req, queued, faults>>

Flush ==
  /\ cas[Broker].at = "rest"
  /\ batch # <<>>
  /\ Enter(Broker)
  /\ UNCHANGED <<queueVars, dataVars, task, req, brokerVars, queued, faults>>
-----------------------------------------------------------------------------
\* The loop of an indexer daemon: claim, build with heartbeats, complete.
Poll(w) ==
  /\ task[w].at = "claim"
  /\ cas[w].at = "rest"
  /\ Enter(w)
  /\ UNCHANGED <<queueVars, dataVars, task, req, brokerVars, queued, faults>>

Heartbeat(w) ==
  /\ task[w].beating
  /\ cas[Beat(w)].at = "rest"
  /\ Enter(Beat(w))
  /\ UNCHANGED <<queueVars, dataVars, task, req, brokerVars, queued, faults>>

BuildSnapshot(w) ==
  /\ task[w].at = "build"
  /\ task' = [task EXCEPT ![w].at = "publish", ![w].snap = walSeq[task[w].ns]]
  /\ UNCHANGED <<queueVars, dataVars, cas, req, brokerVars, queued, faults>>

\* The publish, cancelHeartbeat (a request of it under way is taken to have
\* arrived already, or never to arrive), and the start of CompleteJob.
BuildPublish(w) ==
  /\ task[w].at = "publish"
  /\ indexed' = [indexed EXCEPT ![task[w].ns] = task[w].snap]
  /\ task' = [task EXCEPT ![w].at = "complete", ![w].beating = FALSE]
  /\ cas' = [cas EXCEPT ![Beat(w)] = AtRest, ![w] = Loading(FALSE, 0)]
  /\ fresh' = fresh \ {Beat(w)}
  /\ UNCHANGED <<jobs, stale, walSeq, req, brokerVars, queued, faults>>
-----------------------------------------------------------------------------
\* Everything the worker and its heartbeat goroutine held in memory is gone.
Stop(w) ==
  /\ task' = [task EXCEPT ![w] = Idle]
  /\ cas' = [cas EXCEPT ![w] = AtRest, ![Beat(w)] = AtRest]
  /\ fresh' = fresh \ {w, Beat(w)}
  /\ UNCHANGED <<jobs, stale, dataVars, req, brokerVars, queued>>

\* BuildIndex returns an error: the job stays claimed and goes stale.
BuildFail(w) ==
  /\ Fault("fail")
  /\ task[w].at \in {"build", "publish"}
  /\ Stop(w)

\* The daemon dies and is started again.
WorkerCrash(w) ==
  /\ Fault("crash")
  /\ task[w] # Idle
  /\ Stop(w)

\* The broker dies with its channel, its batch and the handlers that have not
\* written their answers: the clients see an error.
BrokerCrash ==
  /\ Fault("crash")
  /\ LET lost == {p \in Notifiers : req[p].route = "broker"}
     IN  /\ lost # {}
         /\ req' = [p \in Notifiers |-> IF p \in lost THEN NoReq ELSE req[p]]
         /\ queued' = queued \ lost
  /\ inbox' = <<>>
  /\ batch' = <<>>
  /\ cas' = [cas EXCEPT ![Broker] = AtRest]
  /\ fresh' = fresh \ {Broker}
  /\ UNCHANGED <<jobs, stale, dataVars, task>>

\* Is w in processJob for n?  Its stamps are then timely, unless it stalls.
Working(w, n) == task[w].at # "claim" /\ task[w].ns = n

CanExpire(n, w) ==
  /\ \E i \in DOMAIN jobs : jobs[i].ns = n /\ jobs[i].worker = w
  /\ n \notin stale

\* The claim of n outlives the timeout, its owner being gone.
Expire(n) ==
  /\ \E w \in Workers : CanExpire(n, w) /\ ~Working(w, n)
  /\ stale' = stale \cup {n}
  /\ UNCHANGED <<jobs, fresh, dataVars, cas, task, req, brokerVars, queued, faults>>

\* The same while the owner works: a pause of it, or of the store.
Stall(n) ==
  /\ Fault("stall")
  /\ \E w \in Workers : /\ CanExpire(n, w) /\ Working(w, n)
                        /\ task' = [task EXCEPT ![w].late = TRUE]
  /\ stale' = stale \cup {n}
  /\ UNCHANGED <<jobs, fresh, dataVars, cas, req, brokerVars, queued>>

Next ==
  \/ \E a \in Agents : CASStep(a) \/ CASError(a) \/ CASUnheard(a)
  \/ \E w \in Workers : \/ Poll(w) \/ Heartbeat(w) \/ BuildSnapshot(w)
                        \/ BuildPublish(w) \/ BuildFail(w) \/ WorkerCrash(w)
  \/ \E n \in Namespaces : Upsert(n) \/ Expire(n) \/ Stall(n)
  \/ \E p \in Notifiers : Return(p) \/ \E n \in Namespaces : Notify(p, n)
  \/ Collect \/ Flush \/ BrokerCrash

Spec == Init /\ [][Next]_vars

\* Daemons, broker and notifiers keep running, and time passes.
Fairness ==
  /\ \A a \in Agents : WF_vars(CASStep(a))
  /\ \A w \in Workers : WF_vars(Poll(w)) /\ WF_vars(BuildSnapshot(w) \/ BuildPublish(w))
  /\ \A n \in Namespaces : WF_vars(Expire(n))
  /\ \A p \in Notifiers : WF_vars(Return(p))
  /\ WF_vars(Collect) /\ WF_vars(Flush)

FairSpec == Spec /\ Fairness
-----------------------------------------------------------------------------
(***************************************************************************)
(* Properties.                                                             *)
(***************************************************************************)
JobType == [ns : Namespaces, upTo : Nat, worker : Workers \cup {Nobody}]
CasType == [at : {"rest", "load", "put"}, ns : Namespaces \cup {NoNs}, next : Seq(JobType),
            told : BOOLEAN, tries : Nat]
TaskType == [at : {"claim", "build", "publish", "complete"}, ns : Namespaces \cup {NoNs},
             want : Nat, snap : Nat, beating : BOOLEAN, late : BOOLEAN]
ReqType == [route : Routes, ns : Namespaces, upTo : Nat, reply : {"none", "ok", "error"}]

\* The types of the variables.
TypeOK ==
  /\ jobs \in Seq(JobType)
  /\ fresh \subseteq Agents
  /\ stale \subseteq Namespaces
  /\ walSeq \in [Namespaces -> Nat]
  /\ indexed \in [Namespaces -> Nat]
  /\ cas \in [Agents -> CasType]
  /\ task \in [Workers -> TaskType]
  /\ req \in [Notifiers -> ReqType \cup {NoReq}]
  /\ inbox \in Seq(Notifiers) /\ batch \in Seq(Notifiers)
  /\ queued \subseteq Notifiers
  /\ faults \in Nat

(***************************************************************************)
(* EnqueueReindex and mergeNotification: "at most one outstanding job at a *)
(* time" per namespace, although notifiers and the broker each merge into  *)
(* a copy of the queue read earlier.                                       *)
(***************************************************************************)
OneJobPerNamespace ==
  \A i, j \in DOMAIN jobs : jobs[i].ns = jobs[j].ns => i = j

OnTime(w, n) == task[w].at \in {"build", "publish"} /\ task[w].ns = n /\ ~task[w].late

(***************************************************************************)
(* cmd/tpuf-indexer, "a job is claimed by exactly one worker": a namespace *)
(* is built by one worker at a time, across claims, failures, crashes and  *)
(* takeovers, but for workers whose heartbeat did not come in time.        *)
(***************************************************************************)
BuildersExclusive ==
  \A v, w \in Workers : v # w => \A n \in Namespaces : ~(OnTime(v, n) /\ OnTime(w, n))

Listed(n) == \E i \in DOMAIN jobs : jobs[i].ns = n

(***************************************************************************)
(* CompleteJob: a job leaves the queue only when the worker that owns it   *)
(* at that moment has published what the job asked for when it claimed it; *)
(* a worker whose job was taken over does not remove the new owner's job.  *)
(***************************************************************************)
RemovedWhenBuilt ==
  [][\A n \in Namespaces :
       Listed(n) /\ ~Listed(n)' =>
         \E w \in Workers : /\ \E i \in DOMAIN jobs : jobs[i].ns = n /\ jobs[i].worker = w
                            /\ task[w].at = "complete"
                            /\ task[w].ns = n
                            /\ task[w].snap >= task[w].want]_vars

(***************************************************************************)
(* handleEnqueue: "a 200 means the notification is durably queued": while  *)
(* the request waited, a stored queue had a job that asked for its         *)
(* position, although merges go into copies read earlier, puts are         *)
(* refused, fail or are sent again, and the answer comes when that job may *)
(* have been claimed, built and removed.                                   *)
(***************************************************************************)
AckMeansQueued == \A p \in Notifiers : req[p].reply = "ok" => p \in queued

(***************************************************************************)
(* EnqueueReindex "just refresh[es] its RequestedUpTo to the latest        *)
(* position": while a namespace stays listed, no write of any agent, based *)
(* on whatever copy, loses a position that another one has stored.         *)
(***************************************************************************)
QueuedIsKept ==
  [][\A n \in Namespaces, i \in DOMAIN jobs :
       jobs[i].ns = n /\ Listed(n)' =>
         \E j \in DOMAIN jobs' : jobs'[j].ns = n /\ jobs'[j].upTo >= jobs[i].upTo]_vars

(***************************************************************************)
(* Delivery: the segments an unclaimed job announces are indexed some day, *)
(* whatever workers crash or fail to build it.                             *)
(***************************************************************************)
WaitingIsIndexed ==
  \A n \in Namespaces, u \in 1..MaxWALSeq :
    (\E i \in DOMAIN jobs : jobs[i] = [ns |-> n, upTo |-> u, worker |-> Nobody])
      ~> indexed[n] >= u

\* Every notifier is answered: neither the broker nor a CAS loop keeps it.
RequestsAnswered == \A p \in Notifiers : req[p] # NoReq ~> req[p] = NoReq

(***************************************************************************)
(* "at-least-once is preserved" (CompleteJob): what an accepted            *)
(* notification announced is indexed, or a job for it is still queued.     *)
(***************************************************************************)
AckedIsNotDropped ==
  \A p \in Notifiers :
    req[p].reply = "ok" => indexed[req[p].ns] >= req[p].upTo \/ Listed(req[p].ns)
=============================================================================
