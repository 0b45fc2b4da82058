----------------------------- MODULE Committer -----------------------------
(***************************************************************************)
(* Group commit (internal/engine/commit.go): the goroutines of one process *)
(* hand their writes over an unbuffered channel to a single flusher, which *)
(* commits whatever is waiting as one WAL segment and answers all members  *)
(* of the batch alike.  Close may come at any time, callers may give up at *)
(* any time, and a commit may fail, with or without its segment stored, or *)
(* store it more than once.                                                *)
(*                                                                         *)
(* A step is what happens between two operations on the gate (an RWMutex), *)
(* the channels or the store.  commitBatch, with the manifest read before  *)
(* it, is one step: WalCommit takes it apart.  A call is named by the pair *)
(* <<caller, number of its call>>; what it writes is known by its size.    *)
(***************************************************************************)
EXTENDS Naturals, Sequences, SequencesExt

CONSTANTS
  Callers,        \* goroutines that call Upsert
  Closers,        \* goroutines that call Close
  MaxCalls,       \* bound of the model: calls of Upsert per caller
  Sizes,          \* how many documents a call may hold
  MaxBatchDocs,   \* maxBatchDocs (10,000 by default)
  MaxResends,     \* bound of the model: appends that are sent again
  Faults          \* subset of {"cancel", "fail", "lost", "invalid"}

ASSUME BoundsAssumption == MaxCalls \in Nat /\ MaxBatchDocs \in Nat \ {0}
ASSUME MaxResendsAssumption == MaxResends \in Nat
ASSUME SizesAssumption == Sizes \subseteq Nat \ {0}
ASSUME FaultsAssumption == Faults \subseteq {"cancel", "fail", "lost", "invalid"}

VARIABLES
  pc,        \* where each caller stands in Upsert
  call,      \* number of Upserts each caller has started
  size,      \* documents of each call
  readers,   \* read locks held on the gate
  closed,    \* is the inbox closed?  accepting is the opposite: both change
             \* in one critical section
  kpc,       \* where each closer stands in Close
  lpc,       \* where the flusher stands in loop and flush
  batch,     \* the members of the batch, in order of arrival
  ops,       \* number of documents in the batch
  err,       \* did commitBatch fail?
  result,    \* what the result channel of each call holds
  log,       \* the segments stored, in the order of their slots
  acked,     \* history: calls whose Upsert returned nil
  resent     \* history: appends that took effect and were sent again

callVars  == <<pc, call, size>>
gateVars  == <<readers, closed, kpc>>
flushVars == <<lpc, batch, ops, err, result, log, resent>>
vars == <<callVars, gateVars, flushVars, acked>>

Call == Callers \X (1..MaxCalls)
Current(c) == <<c, call[c]>>

Init ==
  /\ pc = [c \in Callers |-> "idle"]
  /\ call = [c \in Callers |-> 0]
  /\ size = [b \in Call |-> 0]
  /\ readers = 0
  /\ closed = FALSE
  /\ kpc = [k \in Closers |-> "idle"]
  /\ lpc = "recv"
  /\ batch = <<>>
  /\ ops = 0
  /\ err = FALSE
  /\ result = [b \in Call |-> "none"]
  /\ log = <<>>
  /\ acked = {}
  /\ resent = 0
-----------------------------------------------------------------------------
Goto(c, where) == pc' = [pc EXCEPT ![c] = where]

\* A caller enters Upsert with a non-empty slice (an empty one is a no-op).
\* The manifest is read and the documents validated, before they can poison a
\* batch: on an error the call ends here.
Begin(c) ==
  /\ pc[c] = "idle"
  /\ call[c] < MaxCalls
  /\ call' = [call EXCEPT ![c] = @ + 1]
  /\ \E n \in Sizes : size' = [size EXCEPT ![<<c, call'[c]>>] = n]
  /\ \/ Goto(c, "lock")
     \/ "invalid" \in Faults /\ Goto(c, "idle")
  /\ UNCHANGED <<gateVars, flushVars, acked>>

\* RLock waits for a Close that waits for the lock; then accepting is tested.
Enter(c) ==
  /\ pc[c] = "lock"
  /\ \A k \in Closers : kpc[k] # "lock"
  /\ \/ closed /\ Goto(c, "idle") /\ UNCHANGED readers
     \/ ~closed /\ Goto(c, "send") /\ readers' = readers + 1
  /\ UNCHANGED <<call, size, closed, kpc, flushVars, acked>>

\* The read lock is held while the send is pending, and no longer.
Unlocked(c) == IF pc[c] = "send" THEN readers - 1 ELSE readers

\* ctx.Done wins the select of the send, or that of the wait.
Cancel(c) ==
  /\ "cancel" \in Faults
  /\ pc[c] \in {"send", "wait"}
  /\ readers' = Unlocked(c)
  /\ Goto(c, "idle")
  /\ UNCHANGED <<call, size, closed, kpc, flushVars, acked>>

\* The result of its batch reaches the caller.
Await(c) ==
  /\ pc[c] = "wait"
  /\ result[Current(c)] # "none"
  /\ acked' = IF result[Current(c)] = "nil" THEN acked \cup {Current(c)} ELSE acked
  /\ Goto(c, "idle")
  /\ UNCHANGED <<call, size, gateVars, flushVars>>
-----------------------------------------------------------------------------
\* Mutant of Joined: the batch is a stack.
JoinedInFront(c) == <<Current(c)>> \o batch

Joined(c) == Append(batch, Current(c))

\* Mutant of HasRoom: the members are counted, not their documents.
HasRoomForCalls == Len(batch) < MaxBatchDocs

HasRoom == ops < MaxBatchDocs

\* The flusher takes the write of c from the channel, and c lets go of the gate.
Take(c) ==
  /\ pc[c] = "send"
  /\ Goto(c, "wait")
  /\ readers' = readers - 1
  /\ batch' = Joined(c)
  /\ ops' = ops + size[Current(c)]
  /\ lpc' = "drain"
  /\ UNCHANGED <<call, size, closed, kpc, err, result, log, acked, resent>>

\* The range in loop receives the first write of a batch.
Receive(c) == lpc = "recv" /\ Take(c)

\* The drain of flush receives another one while the batch is below its cap.
Coalesce(c) == lpc = "drain" /\ HasRoom /\ Take(c)

\* Mutant of DrainEnd: a closed inbox ends the goroutine.
DrainEndDropped ==
  /\ lpc = "drain"
  /\ lpc' = IF closed THEN "exited" ELSE "commit"
  /\ UNCHANGED <<callVars, gateVars, batch, ops, err, result, log, acked, resent>>

\* The batch is full, the inbox is closed, or no sender is parked: a caller on
\* its way into the select does not count.
DrainEnd ==
  /\ lpc = "drain"
  /\ lpc' = "commit"
  /\ UNCHANGED <<callVars, gateVars, batch, ops, err, result, log, acked, resent>>

\* The append of commitBatch takes effect, its reply is lost, and the client
\* library of the store sends it again: the 412 it gets now looks like that of
\* another writer, and commitBatch goes on to the next slot with the batch.
StoredUnseen ==
  /\ lpc = "commit"
  /\ resent < MaxResends
  /\ resent' = resent + 1
  /\ log' = Append(log, batch)
  /\ UNCHANGED <<callVars, gateVars, lpc, batch, ops, err, result, acked>>

\* Mutant of Outcomes: the error of LoadManifest is not looked at.
OutcomesUnchecked ==
  {[stored |-> TRUE, err |-> FALSE]}
    \cup (IF "fail" \in Faults THEN {[stored |-> FALSE, err |-> FALSE]} ELSE {})

\* How LoadManifest and commitBatch may end, after the segments that
\* StoredUnseen left; see WalCommit for "lost".
Outcomes ==
  {[stored |-> TRUE, err |-> FALSE]}
    \cup (IF "fail" \in Faults THEN {[stored |-> FALSE, err |-> TRUE]} ELSE {})
    \cup (IF "lost" \in Faults THEN {[stored |-> TRUE, err |-> TRUE]} ELSE {})

Commit ==
  /\ lpc = "commit"
  /\ \E o \in Outcomes : /\ log' = IF o.stored THEN Append(log, batch) ELSE log
                         /\ err' = o.err
  /\ lpc' = "reply"
  /\ UNCHANGED <<callVars, gateVars, batch, ops, result, acked, resent>>

\* Mutant of Unanswered: only the first member is answered.
UnansweredNone == <<>>

\* The members still to be answered after this one.
Unanswered == Tail(batch)

\* One send on a result channel, which never blocks: its buffer is empty.
Reply ==
  /\ lpc = "reply"
  /\ result' = [result EXCEPT ![Head(batch)] = IF err THEN "error" ELSE "nil"]
  /\ batch' = Unanswered
  /\ \/ batch' # <<>> /\ UNCHANGED <<lpc, ops, err>>
     \/ batch' = <<>> /\ lpc' = "recv" /\ ops' = 0 /\ err' = FALSE
  /\ UNCHANGED <<callVars, gateVars, log, acked, resent>>

\* The range over the closed inbox ends, and done is closed.
Exit ==
  /\ lpc = "recv"
  /\ closed
  /\ lpc' = "exited"
  /\ UNCHANGED <<callVars, gateVars, batch, ops, err, result, log, acked, resent>>
-----------------------------------------------------------------------------
Advance(k, from, to) == kpc[k] = from /\ kpc' = [kpc EXCEPT ![k] = to]

\* The first call of Close asks for the lock of the gate.
CloseFirst(k) ==
  /\ \A j \in Closers : kpc[j] = "idle"
  /\ Advance(k, "idle", "lock")
  /\ UNCHANGED <<callVars, readers, closed, flushVars, acked>>

\* Mutant of LockFree: the gate is not locked.
LockFreeAlways == TRUE

LockFree == readers = 0

CloseInbox(k) ==
  /\ LockFree
  /\ Advance(k, "lock", "wait")
  /\ closed' = TRUE
  /\ UNCHANGED <<callVars, readers, flushVars, acked>>

\* Later calls return from once.Do when the first one has.
CloseAgain(k) ==
  /\ closed
  /\ Advance(k, "idle", "wait")
  /\ UNCHANGED <<callVars, readers, closed, flushVars, acked>>

CloseReturn(k) ==
  /\ lpc = "exited"
  /\ Advance(k, "wait", "returned")
  /\ UNCHANGED <<callVars, readers, closed, flushVars, acked>>

Flusher == \/ \E c \in Callers : Receive(c) \/ Coalesce(c)
           \/ DrainEnd \/ Commit \/ Reply \/ Exit
Caller(c) == Enter(c) \/ Await(c)
Closer(k) == CloseFirst(k) \/ CloseInbox(k) \/ CloseAgain(k) \/ CloseReturn(k)

Next == \/ Flusher \/ StoredUnseen
        \/ \E c \in Callers : Begin(c) \/ Caller(c) \/ Cancel(c)
        \/ \E k \in Closers : Closer(k)

Spec == Init /\ [][Next]_vars

\* The scheduler runs every goroutine that can run; nobody is obliged to call
\* Upsert, to give up, or to begin a Close, and no request need be sent again.
FairSpec ==
  /\ Spec
  /\ WF_vars(Flusher)
  /\ \A c \in Callers : WF_vars(Caller(c))
  /\ \A k \in Closers : WF_vars(CloseInbox(k) \/ CloseReturn(k))
-----------------------------------------------------------------------------
(***************************************************************************)
(* Properties.                                                             *)
(***************************************************************************)
\* The types of the variables: no read lock is released twice, for one.
TypeOK ==
  /\ pc \in [Callers -> {"idle", "lock", "send", "wait"}]
  /\ call \in [Callers -> 0..MaxCalls]
  /\ size \in [Call -> Sizes \cup {0}]
  /\ readers \in Nat
  /\ closed \in BOOLEAN
  /\ kpc \in [Closers -> {"idle", "lock", "wait", "returned"}]
  /\ lpc \in {"recv", "drain", "commit", "reply", "exited"}
  /\ batch \in Seq(Call) /\ ops \in Nat /\ err \in BOOLEAN
  /\ result \in [Call -> {"none", "nil", "error"}]
  /\ log \in Seq(Seq(Call))
  /\ acked \subseteq Call
  /\ resent \in 0..MaxResends

(***************************************************************************)
(* The gate "makes shutdown race-free": when Close has closed the inbox    *)
(* nobody is about to send on it, which would panic, ...                   *)
(***************************************************************************)
NoSendOnClosed == closed => \A c \in Callers : pc[c] # "send"

(***************************************************************************)
(* ... and when Close returns, every write it had accepted is answered: no *)
(* caller waits for a flusher that is gone.                                *)
(***************************************************************************)
CloseDrains ==
  (\E k \in Closers : kpc[k] = "returned") =>
     \A c \in Callers : pc[c] = "wait" => result[Current(c)] # "none"

(***************************************************************************)
(* Upsert, "last-writer-wins": the writes of one goroutine reach the log   *)
(* in the order it made them, each at most once, even when it gave up on   *)
(* one of them and went on while that one was still in a batch.  Only an   *)
(* append sent again repeats writes, and then an older write that follows  *)
(* a newer one is followed by that newer one again: whoever folds the log  *)
(* ends with the newest.                                                   *)
(***************************************************************************)
OrderKept ==
  LET flat == FlattenSeq(log) IN
  \A i, j \in DOMAIN flat :
     i < j /\ flat[i][1] = flat[j][1] =>
        \/ flat[i][2] < flat[j][2]
        \/ resent > 0 /\ \E k \in DOMAIN flat : k >= j /\ flat[k] = flat[i]

\* The documents of the first n calls of s, when b holds docs[b] of them.
DocsOfFirst(n, s, docs) ==
  LET sum[i \in 0..n] == IF i = 0 THEN 0 ELSE sum[i - 1] + docs[s[i]]
  IN sum[n]

(***************************************************************************)
(* flush: "the batch is bounded by maxBatchDocs ...; the overflow stays    *)
(* queued for the next flush".  A call is taken whole, so the cap itself   *)
(* may be passed, but only by the last call of a segment: without it every *)
(* segment stored is below the cap, whoever gave up or arrived meanwhile.  *)
(***************************************************************************)
BatchBounded ==
  \A i \in DOMAIN log : DocsOfFirst(Len(log[i]) - 1, log[i], size) < MaxBatchDocs

(***************************************************************************)
(* No goroutine is left blocked: every Upsert returns, and so does Close.  *)
(***************************************************************************)
CallsReturn ==
  /\ \A c \in Callers : pc[c] # "idle" ~> pc[c] = "idle"
  /\ \A k \in Closers : kpc[k] # "idle" ~> kpc[k] = "returned"

(***************************************************************************)
(* A Committer keeps the contract of Namespace.Upsert, that of DurableLog: *)
(* nil only for a write that is in the log, and no copy of a write appears *)
(* after its nil, however often its append was sent again.                 *)
(***************************************************************************)
Submitted == {b \in Call : b[2] <= call[b[1]]}

Abstract == INSTANCE DurableLog
              WITH Batch <- Call, submitted <- Submitted, log <- FlattenSeq(log),
                   resent <- resent > 0

ImplementsDurableLog == Abstract!Spec
=============================================================================
