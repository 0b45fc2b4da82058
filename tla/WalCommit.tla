------------------------------ MODULE WalCommit ------------------------------
(***************************************************************************)
(* The durable write path of one namespace (internal/engine/namespace.go,  *)
(* wal.go, manifest.go): writers in any number of processes share nothing  *)
(* but the object store.  An Upsert claims a WAL slot with a put-if-absent *)
(* that probes forward, then advances the manifest with a compare-and-swap *)
(* loop.  Every request to the store is a step of its own, so the steps of *)
(* all writers interleave; between any two of them a writer may crash, and *)
(* a write may take effect although its reply is lost.                     *)
(*                                                                         *)
(* A batch of documents is the pair <<writer, number of its call>>; what   *)
(* the documents say is of no concern here, except for the net change of   *)
(* the live count, chosen from Deltas.  A manifest is identified with its  *)
(* ETag: SaveManifestCAS raises Version on every write, so no two writes   *)
(* of the manifest have the same body.                                     *)
(***************************************************************************)
EXTENDS Integers, FiniteSets

CONSTANTS
  Writers,             \* concurrent callers of Create and Upsert
  MaxCalls,            \* bound of the model: calls of Upsert per writer
  MaxUpsertAttempts,   \* maxUpsertAttempts (64 in the code)
  MaxCASAttempts,      \* maxCASAttempts (10 in the code)
  Deltas,              \* the values liveDelta may take
  Faults,              \* which faults of the environment may happen
  MaxResends           \* bound of the model: requests that are sent again

ASSUME MaxCallsAssumption == MaxCalls \in Nat
ASSUME AttemptsAssumption == /\ MaxUpsertAttempts \in Nat \ {0}
                             /\ MaxCASAttempts \in Nat \ {0}
ASSUME DeltasAssumption == Deltas \subseteq Int
ASSUME FaultsAssumption == Faults \subseteq {"crash", "lostReply"}
ASSUME MaxResendsAssumption == MaxResends \in Nat

VARIABLES
  manifest,   \* the object <ns>/manifest.json
  wal,        \* the objects <ns>/wal/<seq>.json: a function of the seqs written
  pc,         \* the request each writer sends next; "idle" between calls
  call,       \* number of Upserts each writer has started
  seq,        \* the slot probed, then committedSeq
  tries,      \* attempt, of the append loop and then of the CAS loop
  delta,      \* liveDelta of the call in progress
  loaded,     \* the manifest (and ETag) the CAS loop read
  count,      \* history: the live count, had each landed batch changed it once
  acked,      \* history: batches whose Upsert returned nil
  landed,     \* history: batches whose manifest update took effect
  resent      \* history: requests that took effect and were sent again

store  == <<manifest, wal>>
locals == <<pc, call, delta, seq, tries, loaded>>
hist   == <<acked, landed, count, resent>>
vars   == <<manifest, wal, pc, call, delta, seq, tries, loaded, acked, landed, count, resent>>

Batch == Writers \X (1..MaxCalls)
Current(w) == <<w, call[w]>>

Manifest == [Version : Nat, WALSeq : Nat, DocCount : Nat]

\* No object under the manifest's key: LoadManifest returns ErrNotFound.
Absent == [Version |-> 0, WALSeq |-> 0, DocCount |-> 0]

Phases == {"idle", "load", "append", "casLoad", "casPut"}

Init ==
  /\ manifest = Absent
  /\ wal = [s \in {} |-> 0]
  /\ pc = [w \in Writers |-> "idle"]
  /\ call = [w \in Writers |-> 0]
  /\ delta = [w \in Writers |-> 0]
  /\ seq = [w \in Writers |-> 0]
  /\ tries = [w \in Writers |-> 0]
  /\ loaded = [w \in Writers |-> Absent]
  /\ acked = {}
  /\ landed = {}
  /\ count = 0
  /\ resent = 0
-----------------------------------------------------------------------------
\* The call of w is over, whatever its result: its locals are gone.
Return(w) ==
  /\ pc' = [pc EXCEPT ![w] = "idle"]
  /\ delta' = [delta EXCEPT ![w] = 0]
  /\ seq' = [seq EXCEPT ![w] = 0]
  /\ tries' = [tries EXCEPT ![w] = 0]
  /\ loaded' = [loaded EXCEPT ![w] = Absent]
  /\ UNCHANGED call

\* CreateManifest: PutIfAbsent of version 1; the loser gets "already exists".
Create(w) ==
  /\ pc[w] = "idle"
  /\ manifest = Absent
  /\ manifest' = [Absent EXCEPT !.Version = 1]
  /\ UNCHANGED <<wal, locals, hist>>

\* A caller enters Upsert with a non-empty batch (an empty one is a no-op).
Begin(w) ==
  /\ pc[w] = "idle"
  /\ call[w] < MaxCalls
  /\ call' = [call EXCEPT ![w] = @ + 1]
  /\ \E d \in Deltas : delta' = [delta EXCEPT ![w] = d]
  /\ pc' = [pc EXCEPT ![w] = "load"]
  /\ UNCHANGED <<store, seq, tries, loaded, hist>>

\* Mutant of Hint: the probe starts one slot too far.
HintPastEnd == manifest.WALSeq + 1

\* Where the probe for a free slot starts.
Hint == manifest.WALSeq

\* Upsert's LoadManifest: ErrNotFound ends the call, else append.
LoadHint(w) ==
  /\ pc[w] = "load"
  /\ \/ /\ manifest = Absent
        /\ Return(w)
     \/ /\ manifest # Absent
        /\ seq' = [seq EXCEPT ![w] = Hint]
        /\ pc' = [pc EXCEPT ![w] = "append"]
        /\ UNCHANGED <<call, delta, tries, loaded>>
  /\ UNCHANGED <<store, hist>>
-----------------------------------------------------------------------------
\* AppendWAL answered 412: climb to the next slot, or give up.
ProbeNext(w) ==
  IF tries[w] + 1 < MaxUpsertAttempts
  THEN /\ seq' = [seq EXCEPT ![w] = @ + 1]
       /\ tries' = [tries EXCEPT ![w] = @ + 1]
       /\ UNCHANGED <<pc, call, delta, loaded>>
  ELSE Return(w)

\* AppendWAL answered 200: the slot is ours, go on to SaveManifestCAS.
Claimed(w) ==
  /\ pc' = [pc EXCEPT ![w] = "casLoad"]
  /\ tries' = [tries EXCEPT ![w] = 0]
  /\ UNCHANGED <<call, delta, seq, loaded>>

\* The put-if-absent of a segment finds its key taken.
AppendRefused(w) ==
  /\ pc[w] = "append"
  /\ seq[w] \in DOMAIN wal
  /\ ProbeNext(w)
  /\ UNCHANGED <<store, hist>>

\* The SDK sends a request again of whose effect it has not heard.
Resend == resent < MaxResends /\ resent' = resent + 1

(***************************************************************************)
(* The put-if-absent takes effect.  The writer learns so; or the reply is  *)
(* lost and the call ends with an error; or the SDK resends the request on *)
(* its own and the second one is refused, by the writer's own segment.     *)
(***************************************************************************)
AppendStored(w) ==
  /\ pc[w] = "append"
  /\ seq[w] \notin DOMAIN wal
  /\ wal' = [s \in DOMAIN wal \cup {seq[w]} |->
               IF s = seq[w] THEN Current(w) ELSE wal[s]]
  /\ \/ Claimed(w) /\ UNCHANGED resent
     \/ "lostReply" \in Faults /\ Return(w) /\ UNCHANGED resent
     \/ ProbeNext(w) /\ Resend
  /\ UNCHANGED <<manifest, acked, landed, count>>
-----------------------------------------------------------------------------
\* SaveManifestCAS reads the manifest and its ETag afresh on every attempt.
CASLoad(w) ==
  /\ pc[w] = "casLoad"
  /\ loaded' = [loaded EXCEPT ![w] = manifest]
  /\ pc' = [pc EXCEPT ![w] = "casPut"]
  /\ UNCHANGED <<store, call, delta, seq, tries, hist>>

\* A live count is never negative.
Kept(n) == IF n < 0 THEN 0 ELSE n

\* Mutants of Mutated: DocCount is not kept at 0 or above; WALSeq counts the
\* swaps; WALSeq follows the writer's own slot, even backwards.
MutatedUnclamped(w) ==
  LET m == loaded[w]
  IN  [Version  |-> m.Version + 1,
       WALSeq   |-> IF seq[w] + 1 > m.WALSeq THEN seq[w] + 1 ELSE m.WALSeq,
       DocCount |-> m.DocCount + delta[w]]

MutatedByOne(w) ==
  [MutatedUnclamped(w) EXCEPT !.WALSeq = loaded[w].WALSeq + 1,
                              !.DocCount = Kept(@)]

MutatedBackwards(w) ==
  [MutatedUnclamped(w) EXCEPT !.WALSeq = seq[w] + 1,
                              !.DocCount = Kept(@)]

\* commitBatch's mutate, and the Version bump SaveManifestCAS adds to it.
Mutated(w) ==
  LET m == loaded[w]
  IN  [Version  |-> m.Version + 1,
       WALSeq   |-> IF seq[w] + 1 > m.WALSeq THEN seq[w] + 1 ELSE m.WALSeq,
       DocCount |-> Kept(m.DocCount + delta[w])]

\* Mutant of RetryCAS: the manifest and its ETag are not read again.
RetryCASSameETag(w) ==
  IF tries[w] + 1 < MaxCASAttempts
  THEN /\ tries' = [tries EXCEPT ![w] = @ + 1]
       /\ UNCHANGED <<pc, call, delta, seq, loaded>>
  ELSE Return(w)

\* PutCAS answered 412: reload and try again, or give up.
RetryCAS(w) ==
  IF tries[w] + 1 < MaxCASAttempts
  THEN /\ pc' = [pc EXCEPT ![w] = "casLoad"]
       /\ tries' = [tries EXCEPT ![w] = @ + 1]
       /\ loaded' = [loaded EXCEPT ![w] = Absent]
       /\ UNCHANGED <<call, delta, seq>>
  ELSE Return(w)

\* Mutant of Matches: the put is unconditional.
MatchesAnything(w) == loaded[w] # Absent

\* If-Match: does the ETag the writer read still name the stored manifest?
Matches(w) == loaded[w] = manifest

CASRefused(w) ==
  /\ pc[w] = "casPut"
  /\ ~Matches(w)
  /\ RetryCAS(w)
  /\ UNCHANGED <<store, hist>>

\* The conditional put takes effect; the reply may be lost or refused as above.
CASStored(w) ==
  /\ pc[w] = "casPut"
  /\ Matches(w)
  /\ manifest' = Mutated(w)
  /\ landed' = landed \cup {Current(w)}
  /\ count' = IF Current(w) \in landed THEN count ELSE Kept(count + delta[w])
  /\ \/ Return(w) /\ acked' = acked \cup {Current(w)} /\ UNCHANGED resent
     \/ "lostReply" \in Faults /\ Return(w) /\ UNCHANGED <<acked, resent>>
     \/ RetryCAS(w) /\ UNCHANGED acked /\ Resend
  /\ UNCHANGED wal
-----------------------------------------------------------------------------
(***************************************************************************)
(* The call ends early: the process dies, the context is cancelled, or a   *)
(* request fails with an error other than 412 and 404 without effect.      *)
(***************************************************************************)
Abandon(w) ==
  /\ "crash" \in Faults
  /\ pc[w] # "idle"
  /\ Return(w)
  /\ UNCHANGED <<store, hist>>

Step(w) == \/ LoadHint(w)
           \/ AppendRefused(w) \/ AppendStored(w)
           \/ CASLoad(w) \/ CASRefused(w) \/ CASStored(w)

Next == \E w \in Writers : Create(w) \/ Begin(w) \/ Step(w) \/ Abandon(w)

Spec == Init /\ [][Next]_vars
-----------------------------------------------------------------------------
(***************************************************************************)
(* Properties.                                                             *)
(***************************************************************************)

\* The types of the variables.
TypeOK ==
  /\ manifest \in Manifest
  /\ DOMAIN wal \subseteq Nat
  /\ wal = [s \in DOMAIN wal |-> wal[s]]
  /\ \A s \in DOMAIN wal : wal[s] \in Batch
  /\ pc \in [Writers -> Phases]
  /\ call \in [Writers -> 0..MaxCalls]
  /\ delta \in [Writers -> Deltas \cup {0}]
  /\ seq \in [Writers -> Nat]
  /\ tries \in [Writers -> Nat]
  /\ loaded \in [Writers -> Manifest]
  /\ acked \subseteq Batch
  /\ landed \subseteq Batch
  /\ count \in Nat
  /\ resent \in 0..MaxResends

(***************************************************************************)
(* types.go, Manifest.WALSeq: "segments [0,WALSeq) exist".  The probe may  *)
(* start at a stale hint and climb over slots whose writers died before    *)
(* their own swap, and one swap may then expose all of them at once: still *)
(* no reader that folds [0,WALSeq) meets a missing segment.                *)
(***************************************************************************)
SegmentsExist == \A s \in 0..manifest.WALSeq - 1 : s \in DOMAIN wal

(***************************************************************************)
(* Upsert, "durable-before-return": a batch whose Upsert returned nil is   *)
(* in the log and below WALSeq, at that moment and ever after, whichever   *)
(* writers swap the manifest before or after it.                           *)
(***************************************************************************)
AckedIsVisible ==
  \A b \in acked : \E s \in DOMAIN wal : s < manifest.WALSeq /\ wal[s] = b

(***************************************************************************)
(* SaveManifestCAS loses no update of a writer and applies none twice:     *)
(* DocCount is what a counter would hold that every batch has changed once *)
(* and at once, in the order the swaps took effect.  (Until a request that *)
(* took effect is sent again: then the mutate is applied a second time.)   *)
(***************************************************************************)
EveryUpdateIsCounted == resent = 0 => manifest.DocCount = count

EnoughAttempts == /\ MaxUpsertAttempts >= Cardinality(Batch)
                  /\ MaxCASAttempts >= Cardinality(Batch)

(***************************************************************************)
(* Probing forward "guarantees forward progress", and each refused swap    *)
(* means that another one took effect: as long as the attempts of both     *)
(* loops are no fewer than the calls ever made, no Upsert gives up because *)
(* of contention, nor because of the segments dead writers left behind.    *)
(* (Until a request that took effect is sent again: then a writer may also *)
(* compete with itself.)                                                   *)
(***************************************************************************)
RetriesSuffice ==
  [][EnoughAttempts /\ resent = 0 =>
       \A w \in Writers : AppendRefused(w) \/ CASRefused(w) => pc'[w] # "idle"]_vars

(***************************************************************************)
(* Refinement: the segments below WALSeq are the log of DurableLog, with   *)
(* every fault.  In particular the copies of a batch that a resent append  *)
(* leaves behind are all visible before its Upsert returns nil, so none    *)
(* comes into view later, over newer writes.                               *)
(***************************************************************************)
Visible == [i \in 1..manifest.WALSeq |-> wal[i - 1]]
Submitted == {b \in Batch : b[2] <= call[b[1]]}

Abstract == INSTANCE DurableLog
              WITH submitted <- Submitted, log <- Visible, resent <- resent > 0

ImplementsDurableLog == Abstract!Spec
=============================================================================
