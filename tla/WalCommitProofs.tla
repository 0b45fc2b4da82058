--------------------------- MODULE WalCommitProofs ---------------------------
(***************************************************************************)
(* Proofs about WalCommit for any number of writers, calls and attempts,   *)
(* and any of the faults.                                                  *)
(*                                                                         *)
(* What makes the protocol safe is not visible in one state of the store:  *)
(* a writer that probes at slot s has seen every slot below s taken, from  *)
(* a manifest that vouched for the slots below its hint and from one 412   *)
(* for each slot since.  IInv says so (Climbed), and that the slot a       *)
(* writer takes into its CAS loop holds its own batch (Owned).             *)
(***************************************************************************)
EXTENDS WalCommit, Sequences, FiniteSetTheorems, TLAPS

\* Every slot below the one a writer stands at is written.
Climbed ==
  \A w \in Writers :
     pc[w] \in {"append", "casLoad", "casPut"} =>
        \A s \in 0..seq[w] - 1 : s \in DOMAIN wal

\* A writer past its append owns the slot it will commit.
Owned ==
  \A w \in Writers :
     pc[w] \in {"casLoad", "casPut"} =>
        seq[w] \in DOMAIN wal /\ wal[seq[w]] = Current(w)

\* A writer inside Upsert has started a call.
InCall == \A w \in Writers : pc[w] # "idle" => call[w] \in 1..MaxCalls

\* The namespace's manifest never points past the segments.
IInv == TypeOK /\ InCall /\ Climbed /\ Owned /\ SegmentsExist /\ AckedIsVisible

\* The constants are as WalCommit assumes, and hist is the history; used by every
\* step below.
USE MaxCallsAssumption, AttemptsAssumption, DeltasAssumption, MaxResendsAssumption
    DEF hist

-----------------------------------------------------------------------------
\* Leaving Upsert resets a writer's locals to values of their types.
LEMMA ReturnTypes ==
  ASSUME TypeOK, NEW w \in Writers, Return(w)
  PROVE  /\ pc' \in [Writers -> Phases]
         /\ call' \in [Writers -> 0..MaxCalls]
         /\ delta' \in [Writers -> Deltas \cup {0}]
         /\ seq' \in [Writers -> Nat]
         /\ tries' \in [Writers -> Nat]
         /\ loaded' \in [Writers -> Manifest]
BY DEF TypeOK, Return, Phases, Absent, Manifest

\* The same of a refused append, which probes on or returns.
LEMMA ProbeNextTypes ==
  ASSUME TypeOK, NEW w \in Writers, ProbeNext(w)
  PROVE  /\ pc' \in [Writers -> Phases]
         /\ call' \in [Writers -> 0..MaxCalls]
         /\ delta' \in [Writers -> Deltas \cup {0}]
         /\ seq' \in [Writers -> Nat]
         /\ tries' \in [Writers -> Nat]
         /\ loaded' \in [Writers -> Manifest]
BY ReturnTypes DEF TypeOK, ProbeNext

\* The same of a refused swap, which reloads or returns.
LEMMA RetryCASTypes ==
  ASSUME TypeOK, NEW w \in Writers, RetryCAS(w)
  PROVE  /\ pc' \in [Writers -> Phases]
         /\ call' \in [Writers -> 0..MaxCalls]
         /\ delta' \in [Writers -> Deltas \cup {0}]
         /\ seq' \in [Writers -> Nat]
         /\ tries' \in [Writers -> Nat]
         /\ loaded' \in [Writers -> Manifest]
<1>1. CASE Return(w)
  BY <1>1, ReturnTypes
<1>2. CASE ~Return(w)
  <2>1. /\ pc' = [pc EXCEPT ![w] = "casLoad"]
        /\ tries' = [tries EXCEPT ![w] = @ + 1]
        /\ loaded' = [loaded EXCEPT ![w] = Absent]
        /\ call' = call /\ delta' = delta /\ seq' = seq
    BY <1>2 DEF RetryCAS
  <2>2. pc' \in [Writers -> Phases]
    BY <2>1 DEF TypeOK, Phases
  <2>3. tries[w] + 1 \in Nat
    BY DEF TypeOK
  <2>4. tries' \in [Writers -> Nat]
    BY <2>1, <2>3 DEF TypeOK
  <2>5. Absent \in Manifest
    BY DEF Absent, Manifest
  <2>6. loaded' \in [Writers -> Manifest]
    BY <2>1, <2>5 DEF TypeOK
  <2> QED BY <2>1, <2>2, <2>4, <2>6 DEF TypeOK
<1> QED BY <1>1, <1>2

\* The manifest a writer is about to put is a manifest.
LEMMA MutatedType ==
  ASSUME TypeOK, NEW w \in Writers
  PROVE  Mutated(w) \in Manifest
BY DEF TypeOK, Mutated, Manifest, Kept

\* A resend is counted, up to the bound.
LEMMA ResentType ==
  ASSUME TypeOK, resent' = resent \/ Resend
  PROVE  resent' \in 0..MaxResends
BY DEF TypeOK, Resend

\* The batch of a running call is a batch.
LEMMA CurrentType ==
  ASSUME InCall, NEW w \in Writers, pc[w] # "idle"
  PROVE  Current(w) \in Batch
BY DEF InCall, Current, Batch

\* Every step keeps the types.
LEMMA TypeStep == TypeOK /\ InCall /\ [Next]_vars => TypeOK'
<1> SUFFICES ASSUME TypeOK, InCall, [Next]_vars PROVE TypeOK'
  OBVIOUS
<1>1. ASSUME NEW w \in Writers, Create(w) PROVE TypeOK'
  <2>1. [Absent EXCEPT !.Version = 1] \in Manifest
    BY DEF Absent, Manifest
  <2> QED BY <1>1, <2>1 DEF TypeOK, Create, locals
<1>2. ASSUME NEW w \in Writers, Begin(w) PROVE TypeOK'
  BY <1>2 DEF TypeOK, Begin, store, Phases
<1>3. ASSUME NEW w \in Writers, LoadHint(w) PROVE TypeOK'
  <2>1. CASE Return(w)
    BY <1>3, <2>1, ReturnTypes DEF TypeOK, LoadHint, Hint, store
  <2>2. CASE ~Return(w)
    <3>1. /\ pc' = [pc EXCEPT ![w] = "append"] /\ seq' = [seq EXCEPT ![w] = manifest.WALSeq]
          /\ UNCHANGED <<manifest, wal, call, delta, tries, loaded, hist>>
      BY <1>3, <2>2 DEF LoadHint, Hint, store
    <3>2. pc' \in [Writers -> Phases]
      BY <3>1 DEF TypeOK, Phases
    <3>3. manifest.WALSeq \in Nat
      BY DEF TypeOK, Manifest
    <3>4. seq' \in [Writers -> Nat]
      BY <3>1, <3>3 DEF TypeOK
    <3> QED BY <3>1, <3>2, <3>4 DEF TypeOK
  <2> QED BY <2>1, <2>2
<1>4. ASSUME NEW w \in Writers, AppendRefused(w) PROVE TypeOK'
  BY <1>4, ProbeNextTypes DEF TypeOK, AppendRefused, store
<1>5. ASSUME NEW w \in Writers, AppendStored(w) PROVE TypeOK'
  <2>1. /\ DOMAIN wal' \subseteq Nat
        /\ wal' = [s \in DOMAIN wal' |-> wal'[s]]
        /\ \A s \in DOMAIN wal' : wal'[s] \in Batch
    BY <1>5, CurrentType DEF TypeOK, AppendStored
  <2>5. resent' \in 0..MaxResends
    BY <1>5, ResentType DEF AppendStored
  <2>2. CASE Claimed(w)
    BY <1>5, <2>1, <2>2, <2>5 DEF TypeOK, AppendStored, Claimed, Phases
  <2>3. CASE Return(w)
    BY <1>5, <2>1, <2>3, <2>5, ReturnTypes DEF TypeOK, AppendStored
  <2>4. CASE ProbeNext(w)
    BY <1>5, <2>1, <2>4, <2>5, ProbeNextTypes DEF TypeOK, AppendStored
  <2> QED BY <1>5, <2>2, <2>3, <2>4 DEF AppendStored
<1>6. ASSUME NEW w \in Writers, CASLoad(w) PROVE TypeOK'
  BY <1>6 DEF TypeOK, CASLoad, store, Phases
<1>7. ASSUME NEW w \in Writers, CASRefused(w) PROVE TypeOK'
  BY <1>7, RetryCASTypes DEF TypeOK, CASRefused, store
<1>8. ASSUME NEW w \in Writers, CASStored(w) PROVE TypeOK'
  <2>1. /\ manifest' \in Manifest
        /\ acked' \subseteq Batch /\ landed' \subseteq Batch
        /\ wal' = wal
    BY <1>8, MutatedType, CurrentType DEF TypeOK, CASStored
  <2>4. resent' \in 0..MaxResends
    BY <1>8, ResentType DEF CASStored
  <2>5. count' \in Nat
    BY <1>8 DEF TypeOK, CASStored, Kept
  <2>2. CASE Return(w)
    BY <2>1, <2>2, <2>4, <2>5, ReturnTypes DEF TypeOK
  <2>3. CASE RetryCAS(w)
    BY <2>1, <2>3, <2>4, <2>5, RetryCASTypes DEF TypeOK
  <2> QED BY <1>8, <2>2, <2>3 DEF CASStored
<1>9. ASSUME NEW w \in Writers, Abandon(w) PROVE TypeOK'
  BY <1>9, ReturnTypes DEF TypeOK, Abandon, store
<1>10. CASE UNCHANGED vars
  BY <1>10 DEF TypeOK, vars
<1> QED
  BY <1>1, <1>2, <1>3, <1>4, <1>5, <1>6, <1>7, <1>8, <1>9, <1>10
  DEF Next, Step
-----------------------------------------------------------------------------
\* Every step keeps InCall.
LEMMA InCallStep == TypeOK /\ InCall /\ [Next]_vars => InCall'
<1> SUFFICES ASSUME TypeOK, InCall, [Next]_vars PROVE InCall'
  OBVIOUS
<1> USE DEF TypeOK, InCall
<1>1. ASSUME NEW w \in Writers, Begin(w) PROVE InCall'
  BY <1>1 DEF Begin
<1>2. ASSUME NEW w \in Writers, Create(w) \/ Step(w) \/ Abandon(w)
      PROVE  InCall'
  <2>1. /\ call' = call
        /\ \A v \in Writers : pc'[v] # "idle" => pc[v] # "idle"
    BY <1>2 DEF Create, Step, Abandon, LoadHint, Hint, AppendRefused, AppendStored,
                CASLoad, CASRefused, CASStored, Return, ProbeNext, Claimed,
                RetryCAS, locals
  <2> QED BY <2>1
<1>3. CASE UNCHANGED vars
  BY <1>3 DEF vars
<1> QED BY <1>1, <1>2, <1>3 DEF Next

\* No step removes a segment or rewrites one.
LEMMA WalGrows ==
  ASSUME TypeOK, [Next]_vars
  PROVE  \A s \in DOMAIN wal : s \in DOMAIN wal' /\ wal'[s] = wal[s]
<1>1. ASSUME NEW w \in Writers, AppendStored(w)
      PROVE  \A s \in DOMAIN wal : s \in DOMAIN wal' /\ wal'[s] = wal[s]
  BY <1>1 DEF AppendStored
<1>2. ASSUME NEW w \in Writers, ~AppendStored(w),
             Create(w) \/ Begin(w) \/ Step(w) \/ Abandon(w)
      PROVE  wal' = wal
  BY <1>2 DEF Create, Begin, Step, Abandon, LoadHint, Hint, AppendRefused,
              CASLoad, CASRefused, CASStored, store
<1>3. CASE UNCHANGED vars
  BY <1>3 DEF vars
<1> QED BY <1>1, <1>2, <1>3 DEF Next

\* Every step keeps Climbed: a probe moves on only past a slot it found taken.
LEMMA ClimbedStep == IInv /\ [Next]_vars => Climbed'
<1> SUFFICES ASSUME IInv, [Next]_vars PROVE Climbed'
  OBVIOUS
<1>0. \A s \in DOMAIN wal : s \in DOMAIN wal'
  BY WalGrows DEF IInv
<1> USE DEF IInv, TypeOK, Climbed
<1>1. ASSUME NEW w \in Writers, LoadHint(w) PROVE Climbed'
  BY <1>0, <1>1 DEF LoadHint, Hint, SegmentsExist, Return, Manifest, store
<1>2. ASSUME NEW w \in Writers, AppendRefused(w) PROVE Climbed'
  BY <1>0, <1>2 DEF AppendRefused, ProbeNext, Return, store
<1>3. ASSUME NEW w \in Writers, AppendStored(w) PROVE Climbed'
  <2>1. seq[w] \in DOMAIN wal'
    BY <1>3 DEF AppendStored
  <2>2. CASE Claimed(w) \/ Return(w)
    BY <1>0, <1>3, <2>2 DEF AppendStored, Claimed, Return
  <2>3. CASE ProbeNext(w)
    BY <1>0, <1>3, <2>1, <2>3 DEF AppendStored, ProbeNext, Return
  <2> QED BY <1>3, <2>2, <2>3 DEF AppendStored
<1>4. ASSUME NEW w \in Writers,
             CASLoad(w) \/ CASRefused(w) \/ CASStored(w) \/ Abandon(w)
      PROVE  Climbed'
  <2>1. \/ seq' = seq
        \/ Return(w)
    BY <1>4 DEF CASLoad, CASRefused, CASStored, Abandon, RetryCAS
  <2>2. \A v \in Writers : v # w => pc'[v] = pc[v]
    BY <1>4 DEF CASLoad, CASRefused, CASStored, Abandon, RetryCAS, Return
  <2>3. pc'[w] = "idle" \/ (pc[w] \in {"casLoad", "casPut"} /\ seq' = seq)
    BY <1>4 DEF CASLoad, CASRefused, CASStored, Abandon, RetryCAS, Return
  <2> QED BY <1>0, <2>1, <2>2, <2>3 DEF Return
<1>5. ASSUME NEW w \in Writers, Create(w) \/ Begin(w) PROVE Climbed'
  BY <1>0, <1>5 DEF Create, Begin, locals
<1>6. CASE UNCHANGED vars
  BY <1>6 DEF vars
<1> QED BY <1>1, <1>2, <1>3, <1>4, <1>5, <1>6 DEF Next, Step

\* Every step keeps Owned: no segment is rewritten.
LEMMA OwnedStep == IInv /\ [Next]_vars => Owned'
<1> SUFFICES ASSUME IInv, [Next]_vars PROVE Owned'
  OBVIOUS
<1>0. \A s \in DOMAIN wal : s \in DOMAIN wal' /\ wal'[s] = wal[s]
  BY WalGrows DEF IInv
<1> USE DEF IInv, TypeOK, Owned, Current
<1>1. ASSUME NEW w \in Writers, AppendStored(w) PROVE Owned'
  <2>1. seq[w] \in DOMAIN wal' /\ wal'[seq[w]] = Current(w)
    BY <1>1 DEF AppendStored
  <2>2. CASE Claimed(w)
    BY <1>0, <1>1, <2>1, <2>2 DEF AppendStored, Claimed
  <2>3. CASE Return(w) \/ ProbeNext(w)
    BY <1>0, <1>1, <2>3 DEF AppendStored, ProbeNext, Return
  <2> QED BY <1>1, <2>2, <2>3 DEF AppendStored
<1>2. ASSUME NEW w \in Writers,
             LoadHint(w) \/ AppendRefused(w) \/ Begin(w) \/ Create(w)
      PROVE  Owned'
  BY <1>0, <1>2 DEF LoadHint, Hint, AppendRefused, Begin, Create, ProbeNext, Return,
                    locals
<1>3. ASSUME NEW w \in Writers,
             CASLoad(w) \/ CASRefused(w) \/ CASStored(w) \/ Abandon(w)
      PROVE  Owned'
  <2>1. call' = call /\ \A v \in Writers : v # w => pc'[v] = pc[v] /\ seq'[v] = seq[v]
    BY <1>3 DEF CASLoad, CASRefused, CASStored, Abandon, RetryCAS, Return
  <2>2. pc'[w] = "idle" \/ (pc[w] \in {"casLoad", "casPut"} /\ seq' = seq)
    BY <1>3 DEF CASLoad, CASRefused, CASStored, Abandon, RetryCAS, Return
  <2> QED BY <1>0, <2>1, <2>2
<1>4. CASE UNCHANGED vars
  BY <1>4 DEF vars
<1> QED BY <1>1, <1>2, <1>3, <1>4 DEF Next, Step

\* A swap moves WALSeq to the end of what it found or of its own slot.
LEMMA WALSeqStep ==
  ASSUME IInv, [Next]_vars
  PROVE  /\ manifest'.WALSeq \in Nat
         /\ manifest'.WALSeq >= manifest.WALSeq
         /\ \/ manifest'.WALSeq = manifest.WALSeq
            \/ \E w \in Writers : /\ CASStored(w)
                                  /\ manifest'.WALSeq = seq[w] + 1
<1> USE DEF IInv, TypeOK, Manifest
<1>1. ASSUME NEW w \in Writers, CASStored(w)
      PROVE  /\ manifest'.WALSeq \in Nat
             /\ manifest'.WALSeq >= manifest.WALSeq
             /\ \/ manifest'.WALSeq = manifest.WALSeq
                \/ manifest'.WALSeq = seq[w] + 1
  BY <1>1 DEF CASStored, Matches, Mutated
<1>2. ASSUME NEW w \in Writers, ~CASStored(w),
             Create(w) \/ Begin(w) \/ Step(w) \/ Abandon(w)
      PROVE  manifest'.WALSeq = manifest.WALSeq
  <2>1. CASE Create(w)
    BY <2>1 DEF Create, Absent
  <2>2. CASE ~Create(w)
    BY <1>2, <2>2 DEF Begin, Step, Abandon, LoadHint, Hint, AppendRefused,
                      AppendStored, CASLoad, CASRefused, store
  <2> QED BY <2>1, <2>2
<1>3. CASE UNCHANGED vars
  BY <1>3 DEF vars
<1> QED BY <1>1, <1>2, <1>3 DEF Next

\* A swap counts no segment that is not there.
LEMMA SegmentsStep == IInv /\ [Next]_vars => SegmentsExist'
<1> SUFFICES ASSUME IInv, [Next]_vars PROVE SegmentsExist'
  OBVIOUS
<1>0. \A s \in DOMAIN wal : s \in DOMAIN wal'
  BY WalGrows DEF IInv
<1>1. CASE manifest'.WALSeq = manifest.WALSeq
  BY <1>0, <1>1 DEF IInv, SegmentsExist
<1>2. ASSUME NEW w \in Writers, CASStored(w), manifest'.WALSeq = seq[w] + 1
      PROVE  SegmentsExist'
  <2>1. \A s \in 0..seq[w] : s \in DOMAIN wal
    BY <1>2 DEF IInv, TypeOK, Climbed, Owned, CASStored
  <2> QED BY <1>0, <1>2, <2>1 DEF SegmentsExist, IInv, TypeOK
<1> QED BY <1>1, <1>2, WALSeqStep

\* What was acknowledged stays visible.
LEMMA AckedStep == IInv /\ [Next]_vars => AckedIsVisible'
<1> SUFFICES ASSUME IInv, [Next]_vars, NEW b \in acked'
             PROVE  \E s \in DOMAIN wal' : s < manifest'.WALSeq /\ wal'[s] = b
  BY DEF AckedIsVisible
<1>0. \A s \in DOMAIN wal : s \in DOMAIN wal' /\ wal'[s] = wal[s]
  BY WalGrows DEF IInv
<1>1. manifest'.WALSeq >= manifest.WALSeq /\ manifest'.WALSeq \in Nat
  BY WALSeqStep
<1>2. CASE b \in acked
  <2>1. PICK s \in DOMAIN wal : s < manifest.WALSeq /\ wal[s] = b
    BY <1>2 DEF IInv, AckedIsVisible
  <2>2. s \in Nat /\ manifest.WALSeq \in Nat
    BY DEF IInv, TypeOK, Manifest
  <2> QED BY <1>0, <1>1, <2>1, <2>2
<1>3. CASE b \notin acked
  <2>1. PICK w \in Writers : CASStored(w) /\ b = Current(w)
    <3>1. ASSUME NEW w \in Writers, ~CASStored(w),
                 Create(w) \/ Begin(w) \/ Step(w) \/ Abandon(w)
          PROVE  acked' = acked
      BY <3>1 DEF Create, Begin, Step, Abandon, LoadHint, Hint, AppendRefused,
                  AppendStored, CASLoad, CASRefused
    <3>2. ASSUME NEW w \in Writers, CASStored(w)
          PROVE  acked' \subseteq acked \cup {Current(w)}
      BY <3>2 DEF CASStored
    <3>3. CASE UNCHANGED vars
      BY <3>3, <1>3 DEF vars
    <3> QED BY <1>3, <3>1, <3>2, <3>3 DEF Next
  <2>2. seq[w] \in DOMAIN wal /\ wal[seq[w]] = b
    BY <2>1 DEF IInv, Owned, CASStored
  <2>3. seq[w] < manifest'.WALSeq
    BY <2>1 DEF IInv, TypeOK, Manifest, CASStored, Matches, Mutated
  <2> QED BY <1>0, <2>2, <2>3
<1> QED BY <1>2, <1>3

\* IInv holds at the start.
LEMMA InitIInv == Init => IInv
BY DEF Init, IInv, TypeOK, InCall, Climbed, Owned, SegmentsExist,
       AckedIsVisible, Absent, Manifest, Phases, Batch

\* IInv holds in every reachable state.
THEOREM Invariance == Spec => []IInv
<1>1. IInv /\ [Next]_vars => IInv'
  BY TypeStep, InCallStep, ClimbedStep, OwnedStep, SegmentsStep, AckedStep
  DEF IInv
<1> QED BY InitIInv, <1>1, PTL DEF Spec

\* Types: for any constants, every variable stays in its type.
THEOREM TypeCorrect == Spec => []TypeOK
BY Invariance, PTL DEF IInv

\* types.go, "segments [0,WALSeq) exist": no reader meets a missing segment.
THEOREM NoMissingSegment == Spec => []SegmentsExist
BY Invariance, PTL DEF IInv

\* Upsert is durable before it returns, and what it acknowledged stays visible.
THEOREM Durability == Spec => []AckedIsVisible
BY Invariance, PTL DEF IInv
-----------------------------------------------------------------------------
(***************************************************************************)
(* Refinement of DurableLog.  A resent append leaves copies of a batch     *)
(* behind, but only below the slot at which its writer stands, so that the *)
(* swap that acknowledges the batch makes all of them visible (Settled).   *)
(* Until a request is resent, a writer whose append has not been confirmed *)
(* has stored nothing (Once).                                              *)
(***************************************************************************)

\* Only submitted batches are stored and acknowledged.
Known ==
  /\ \A s \in DOMAIN wal : wal[s] \in Submitted
  /\ acked \subseteq Submitted

\* Where the copies of a batch lie while its call is open, and after.
Settled ==
  /\ \A w \in Writers : pc[w] # "idle" => Current(w) \notin acked
  /\ \A w \in Writers, s \in DOMAIN wal :
        wal[s] = Current(w) => /\ pc[w] # "load"
                               /\ pc[w] = "append" => s < seq[w]
                               /\ pc[w] \in {"casLoad", "casPut"} => s <= seq[w]
  /\ \A s \in DOMAIN wal : wal[s] \in acked => s < manifest.WALSeq

\* No batch is stored under two sequence numbers.
StoredOnce ==
  \A s, t \in DOMAIN wal : wal[s] = wal[t] => s = t

\* Until a request is resent: one copy, and none before its append is confirmed.
Once ==
  resent = 0 =>
    /\ StoredOnce
    /\ \A w \in Writers : pc[w] \in {"load", "append"} =>
          \A s \in DOMAIN wal : wal[s] # Current(w)

RInv == IInv /\ Known /\ Settled /\ Once

\* No call and no resend is ever taken back.
LEMMA SubmittedGrows ==
  ASSUME IInv, [Next]_vars
  PROVE  /\ Submitted \subseteq Submitted'
         /\ resent \in Nat /\ resent' \in Nat /\ resent <= resent'
<1> USE DEF IInv, TypeOK, Submitted, Batch
<1>1. ASSUME NEW w \in Writers, Begin(w)
      PROVE  Submitted \subseteq Submitted' /\ resent' = resent
  BY <1>1 DEF Begin, hist
<1>2. ASSUME NEW w \in Writers, Create(w) \/ Step(w) \/ Abandon(w)
      PROVE  call' = call /\ (resent' = resent \/ resent' = resent + 1)
  BY <1>2 DEF Create, Step, Abandon, LoadHint, Hint, AppendRefused, AppendStored,
              CASLoad, CASRefused, CASStored, Return, ProbeNext, Claimed,
              RetryCAS, Resend, locals, hist
<1>3. CASE UNCHANGED vars
  BY <1>3 DEF vars
<1> QED BY <1>1, <1>2, <1>3, MaxResendsAssumption DEF Next

\* What a stored append does to the segments.
LEMMA AppendAdds ==
  ASSUME IInv, NEW w \in Writers, AppendStored(w)
  PROVE  /\ DOMAIN wal' = DOMAIN wal \cup {seq[w]}
         /\ wal'[seq[w]] = Current(w)
         /\ \A s \in DOMAIN wal : s # seq[w] /\ wal'[s] = wal[s]
         /\ Current(w) \in Submitted
         /\ manifest' = manifest /\ acked' = acked /\ call' = call
         /\ \A v \in Writers : Current(v)' = Current(v)
         /\ \A v \in Writers : v # w => /\ Current(v) # Current(w)
                                        /\ pc'[v] = pc[v] /\ seq'[v] = seq[v]
<1> USE DEF IInv, TypeOK
<1>1. /\ DOMAIN wal' = DOMAIN wal \cup {seq[w]}
      /\ wal'[seq[w]] = Current(w)
      /\ \A s \in DOMAIN wal : s # seq[w] /\ wal'[s] = wal[s]
  BY DEF AppendStored
<1>2. Current(w) \in Submitted
  BY DEF AppendStored, Current, Submitted, Batch, InCall
<1>3. /\ manifest' = manifest /\ acked' = acked /\ call' = call
      /\ \A v \in Writers : v # w => pc'[v] = pc[v] /\ seq'[v] = seq[v]
  BY DEF AppendStored, Claimed, Return, ProbeNext
<1> QED BY <1>1, <1>2, <1>3 DEF Current

\* What the steps that store no segment do to the calls.
LEMMA OtherSteps ==
  ASSUME IInv, NEW w \in Writers, ~AppendStored(w), Create(w) \/ Step(w) \/ Abandon(w)
  PROVE  /\ wal' = wal /\ call' = call
         /\ \A v \in Writers : Current(v)' = Current(v)
         /\ \A v \in Writers : v # w => pc'[v] = pc[v] /\ seq'[v] = seq[v]
<1>1. wal' = wal /\ call' = call
  BY DEF Create, Step, Abandon, LoadHint, Hint, AppendRefused, CASLoad,
         CASRefused, CASStored, Return, ProbeNext, RetryCAS, store, locals
<1>2. \A v \in Writers : v # w => pc'[v] = pc[v] /\ seq'[v] = seq[v]
  BY DEF Create, Step, Abandon, LoadHint, Hint, AppendRefused, CASLoad,
         CASRefused, CASStored, Return, ProbeNext, RetryCAS, locals, IInv, TypeOK
<1> QED BY <1>1, <1>2 DEF Current

\* Beginning a call submits a batch that is nowhere yet.
LEMMA BeginAdds ==
  ASSUME IInv, NEW w \in Writers, Begin(w)
  PROVE  /\ wal' = wal /\ manifest' = manifest /\ acked' = acked /\ landed' = landed
         /\ count' = count /\ resent' = resent /\ seq' = seq
         /\ Current(w)' \notin Submitted /\ pc'[w] = "load"
         /\ \A v \in Writers : v # w => pc'[v] = pc[v] /\ Current(v)' = Current(v)
<1> USE DEF IInv, TypeOK
<1>1. call'[w] = call[w] + 1 /\ call[w] \in Nat
  BY DEF Begin
<1>2. Current(w)' \notin Submitted
  BY <1>1 DEF Current, Submitted
<1> QED BY <1>2 DEF Begin, Current, store, hist

\* Only submitted batches are stored and acknowledged.
LEMMA KnownStep ==
  ASSUME RInv, [Next]_vars
  PROVE  Known'
<1>0. Submitted \subseteq Submitted'
  BY SubmittedGrows DEF RInv
<1> USE DEF RInv, Known
<1>1. ASSUME NEW w \in Writers, AppendStored(w) PROVE Known'
  <2>1. /\ DOMAIN wal' = DOMAIN wal \cup {seq[w]}
        /\ wal'[seq[w]] = Current(w)
        /\ \A s \in DOMAIN wal : s # seq[w] /\ wal'[s] = wal[s]
        /\ Current(w) \in Submitted /\ acked' = acked
    BY <1>1, AppendAdds
  <2>2. \A s \in DOMAIN wal' : wal'[s] \in Submitted'
    BY <1>0, <2>1
  <2> QED BY <1>0, <2>1, <2>2
<1>2. ASSUME NEW w \in Writers, Begin(w) PROVE Known'
  BY <1>0, <1>2, BeginAdds
<1>3. ASSUME NEW w \in Writers, ~AppendStored(w), Create(w) \/ Step(w) \/ Abandon(w)
      PROVE  Known'
  <2>1. wal' = wal
    BY <1>3, OtherSteps
  <2>2. acked' = acked \/ (acked' = acked \cup {Current(w)} /\ pc[w] # "idle")
    BY <1>3 DEF Create, Step, Abandon, LoadHint, Hint, AppendRefused, CASLoad,
                CASRefused, CASStored, hist
  <2>3. pc[w] # "idle" => Current(w) \in Submitted
    BY DEF IInv, TypeOK, InCall, Current, Submitted, Batch
  <2> QED BY <1>0, <2>1, <2>2, <2>3
<1>4. CASE UNCHANGED vars
  BY <1>0, <1>4 DEF vars
<1> QED BY <1>1, <1>2, <1>3, <1>4 DEF Next

\* The copies of a batch stay below its writer, and below WALSeq in the end.
LEMMA SettledStep ==
  ASSUME RInv, [Next]_vars
  PROVE  Settled'
<1> USE DEF RInv
<1>0. /\ manifest.WALSeq \in Nat /\ manifest'.WALSeq \in Nat
      /\ manifest'.WALSeq >= manifest.WALSeq
      /\ \A w \in Writers : seq[w] \in Nat
      /\ DOMAIN wal \subseteq Nat
  BY WALSeqStep DEF IInv, TypeOK, Manifest
<1>1. ASSUME NEW w \in Writers, AppendStored(w) PROVE Settled'
  <2>0. /\ DOMAIN wal' = DOMAIN wal \cup {seq[w]}
        /\ wal'[seq[w]] = Current(w)
        /\ \A s \in DOMAIN wal : s # seq[w] /\ wal'[s] = wal[s]
        /\ manifest' = manifest /\ acked' = acked
        /\ \A v \in Writers : Current(v)' = Current(v)
        /\ \A v \in Writers : v # w => /\ Current(v) # Current(w)
                                       /\ pc'[v] = pc[v] /\ seq'[v] = seq[v]
    BY <1>1, AppendAdds
  <2>1. pc[w] = "append" /\ Current(w) \notin acked
    BY <1>1 DEF AppendStored, Settled
  <2>2. \/ pc'[w] = "idle"
        \/ pc'[w] = "append" /\ seq'[w] = seq[w] + 1
        \/ pc'[w] = "casLoad" /\ seq'[w] = seq[w]
    BY <1>1, <2>1 DEF AppendStored, Claimed, Return, ProbeNext, IInv, TypeOK
  <2>3. \A v \in Writers : pc'[v] # "idle" => Current(v)' \notin acked'
    BY <2>0, <2>1, <2>2 DEF Settled
  <2>4. \A s \in DOMAIN wal' : wal'[s] \in acked' => s < manifest'.WALSeq
    BY <2>0, <2>1 DEF Settled
  <2>5. ASSUME NEW v \in Writers, NEW s \in DOMAIN wal', wal'[s] = Current(v)'
        PROVE  /\ pc'[v] # "load"
               /\ pc'[v] = "append" => s < seq'[v]
               /\ pc'[v] \in {"casLoad", "casPut"} => s <= seq'[v]
    <3>1. CASE v = w
      <4>1. s = seq[w] \/ (s \in DOMAIN wal /\ wal[s] = Current(w))
        BY <2>0, <2>5, <3>1
      <4>2. s \in Nat /\ s <= seq[w]
        BY <1>0, <2>1, <4>1 DEF Settled
      <4> QED BY <1>0, <2>2, <3>1, <4>2
    <3>2. CASE v # w
      BY <2>0, <2>5, <3>2 DEF Settled
    <3> QED BY <3>1, <3>2
  <2> QED BY <2>3, <2>4, <2>5 DEF Settled
<1>2. ASSUME NEW w \in Writers, Begin(w) PROVE Settled'
  <2>1. /\ wal' = wal /\ manifest' = manifest /\ acked' = acked /\ seq' = seq
        /\ Current(w)' \notin Submitted /\ pc'[w] = "load"
        /\ \A v \in Writers : v # w => pc'[v] = pc[v] /\ Current(v)' = Current(v)
    BY <1>2, BeginAdds
  <2>2. \A s \in DOMAIN wal : wal[s] # Current(w)'
    BY <2>1 DEF Known
  <2>3. Current(w)' \notin acked
    BY <2>1 DEF Known
  <2> QED BY <2>1, <2>2, <2>3 DEF Settled
<1>3. ASSUME NEW w \in Writers, ~AppendStored(w), Create(w) \/ Step(w) \/ Abandon(w)
      PROVE  Settled'
  <2>1. /\ wal' = wal
        /\ \A v \in Writers : Current(v)' = Current(v)
        /\ \A v \in Writers : v # w => pc'[v] = pc[v] /\ seq'[v] = seq[v]
    BY <1>3, OtherSteps
  <2>2. ASSUME acked' # acked
        PROVE  CASStored(w) /\ pc'[w] = "idle" /\ acked' = acked \cup {Current(w)}
    <3>1. CASStored(w)
      BY <1>3, <2>2 DEF Create, Step, Abandon, LoadHint, Hint, AppendRefused, CASLoad,
                        CASRefused, hist
    <3> QED BY <2>2, <3>1 DEF CASStored, Return, IInv, TypeOK
  <2>3. \/ pc'[w] = "idle"
        \/ /\ pc[w] \in {"load", "append"} /\ pc'[w] = "append"
           /\ pc[w] = "append" => seq'[w] = seq[w] + 1
        \/ /\ pc[w] \in {"casLoad", "casPut"} /\ pc'[w] \in {"casLoad", "casPut"}
           /\ seq'[w] = seq[w]
    BY <1>3 DEF Create, Step, Abandon, LoadHint, Hint, AppendRefused, CASLoad,
                CASRefused, CASStored, Return, ProbeNext, RetryCAS, locals, IInv, TypeOK
  <2>4. ASSUME NEW v \in Writers, pc'[v] # "idle" PROVE Current(v)' \notin acked'
    <3>1. Current(v) \notin acked
      BY <2>1, <2>3, <2>4 DEF Settled
    <3>2. CASE acked' = acked
      BY <2>1, <3>1, <3>2
    <3>3. CASE acked' # acked
      <4>1. v # w
        BY <2>2, <2>4, <3>3
      <4> QED BY <2>1, <2>2, <3>1, <3>3, <4>1 DEF Current
    <3> QED BY <3>2, <3>3
  <2>5. ASSUME NEW v \in Writers, NEW s \in DOMAIN wal, wal[s] = Current(v)
        PROVE  /\ pc'[v] # "load"
               /\ pc'[v] = "append" => s < seq'[v]
               /\ pc'[v] \in {"casLoad", "casPut"} => s <= seq'[v]
    BY <1>0, <2>1, <2>3, <2>5 DEF Settled
  <2>6. ASSUME NEW s \in DOMAIN wal, wal[s] \in acked' PROVE s < manifest'.WALSeq
    <3>1. CASE wal[s] \in acked
      BY <1>0, <3>1 DEF Settled
    <3>2. CASE wal[s] \notin acked
      <4>1. CASStored(w) /\ wal[s] = Current(w)
        BY <2>2, <2>6, <3>2
      <4>2. s <= seq[w]
        BY <4>1 DEF CASStored, Settled
      <4>3. seq[w] < manifest'.WALSeq
        BY <4>1 DEF IInv, TypeOK, Manifest, CASStored, Matches, Mutated
      <4> QED BY <1>0, <4>2, <4>3
    <3> QED BY <3>1, <3>2
  <2> QED BY <2>1, <2>4, <2>5, <2>6 DEF Settled
<1>4. CASE UNCHANGED vars
  BY <1>4 DEF vars, locals, Current, Settled
<1> QED BY <1>1, <1>2, <1>3, <1>4 DEF Next

\* Until a request is resent, a batch is stored once.
LEMMA OnceStep ==
  ASSUME RInv, [Next]_vars
  PROVE  Once'
<1> SUFFICES ASSUME resent' = 0
             PROVE  /\ StoredOnce'
                    /\ \A v \in Writers : pc'[v] \in {"load", "append"} =>
                          \A s \in DOMAIN wal' : wal'[s] # Current(v)'
  BY DEF Once
<1>0. resent = 0 /\ Submitted \subseteq Submitted'
  BY SubmittedGrows DEF RInv
<1> USE DEF RInv, IInv, TypeOK, StoredOnce
<1>a. /\ StoredOnce
      /\ \A v \in Writers : pc[v] \in {"load", "append"} =>
            \A s \in DOMAIN wal : wal[s] # Current(v)
  BY <1>0 DEF Once
<1>1. ASSUME NEW w \in Writers, AppendStored(w)
      PROVE  /\ StoredOnce'
             /\ \A v \in Writers : pc'[v] \in {"load", "append"} =>
                   \A s \in DOMAIN wal' : wal'[s] # Current(v)'
  <2>0. /\ DOMAIN wal' = DOMAIN wal \cup {seq[w]}
        /\ wal'[seq[w]] = Current(w)
        /\ \A s \in DOMAIN wal : s # seq[w] /\ wal'[s] = wal[s]
        /\ manifest' = manifest /\ acked' = acked
        /\ \A v \in Writers : Current(v)' = Current(v)
        /\ \A v \in Writers : v # w => /\ Current(v) # Current(w)
                                       /\ pc'[v] = pc[v] /\ seq'[v] = seq[v]
    BY <1>1, AppendAdds
  <2>1. Claimed(w) \/ Return(w)
    BY <1>0, <1>1 DEF AppendStored, Resend
  <2>2. pc'[w] \in {"idle", "casLoad"}
    BY <2>1 DEF Claimed, Return
  <2>3. \A s \in DOMAIN wal : wal[s] # Current(w)
    BY <1>1, <1>a DEF AppendStored
  <2>4. StoredOnce'
    BY <1>a, <2>0, <2>3
  <2>5. \A v \in Writers : pc'[v] \in {"load", "append"} =>
           \A s \in DOMAIN wal' : wal'[s] # Current(v)'
    BY <1>a, <2>0, <2>2
  <2> QED BY <2>4, <2>5
<1>2. ASSUME NEW w \in Writers, Begin(w)
      PROVE  /\ StoredOnce'
             /\ \A v \in Writers : pc'[v] \in {"load", "append"} =>
                   \A s \in DOMAIN wal' : wal'[s] # Current(v)'
  BY <1>2, <1>a, BeginAdds DEF Known
<1>3. ASSUME NEW w \in Writers, ~AppendStored(w), Create(w) \/ Step(w) \/ Abandon(w)
      PROVE  /\ StoredOnce'
             /\ \A v \in Writers : pc'[v] \in {"load", "append"} =>
                   \A s \in DOMAIN wal' : wal'[s] # Current(v)'
  <2>1. wal' = wal /\ \A v \in Writers : Current(v)' = Current(v)
    BY <1>3, OtherSteps
  <2>2. \A v \in Writers : pc'[v] \in {"load", "append"} =>
                             pc[v] \in {"load", "append"}
    BY <1>3 DEF Create, Step, Abandon, LoadHint, Hint, AppendRefused, CASLoad,
                CASRefused, CASStored, Return, ProbeNext, RetryCAS, locals
  <2> QED BY <1>a, <2>1, <2>2
<1>4. CASE UNCHANGED vars
  BY <1>4, <1>a DEF vars, locals, Current
<1> QED BY <1>1, <1>2, <1>3, <1>4 DEF Next

\* RInv is inductive.
LEMMA RInvStep == RInv /\ [Next]_vars => RInv'
BY KnownStep, SettledStep, OnceStep, TypeStep, InCallStep, ClimbedStep, OwnedStep,
   SegmentsStep, AckedStep DEF RInv, IInv

LEMMA InitRInv == Init => RInv
BY InitIInv DEF RInv, Known, Settled, Once, StoredOnce, Init

\* What the visible log is made of.
LEMMA VisibleIsLog ==
  ASSUME TypeOK
  PROVE  /\ Len(Visible) = manifest.WALSeq
         /\ \A i \in 1..manifest.WALSeq : Visible[i] = wal[i - 1]
BY DEF TypeOK, Manifest, Visible

\* Between swaps the visible log stays as it is: appends land behind it.
LEMMA VisibleKept ==
  ASSUME RInv, [Next]_vars, manifest'.WALSeq = manifest.WALSeq
  PROVE  Visible' = Visible
<1>1. \A s \in DOMAIN wal : wal'[s] = wal[s]
  BY WalGrows DEF RInv, IInv
<1>2. \A i \in 1..manifest.WALSeq : i - 1 \in DOMAIN wal
  BY DEF RInv, IInv, TypeOK, Manifest, SegmentsExist
<1> QED BY <1>1, <1>2 DEF Visible

\* No segment at WALSeq or above holds an acknowledged batch, nor will the one
\* a step adds.
LEMMA BehindIsNew ==
  ASSUME RInv, [Next]_vars, NEW s \in DOMAIN wal', ~(s < manifest.WALSeq)
  PROVE  wal'[s] \notin acked
<1>1. CASE s \in DOMAIN wal
  <2>1. wal'[s] = wal[s]
    BY <1>1, WalGrows DEF RInv, IInv
  <2> QED BY <1>1, <2>1 DEF RInv, Settled
<1>2. CASE s \notin DOMAIN wal
  <2>1. PICK w \in Writers : AppendStored(w)
    <3>1. ASSUME NEW w \in Writers, ~AppendStored(w),
                 Create(w) \/ Begin(w) \/ Step(w) \/ Abandon(w)
          PROVE  wal' = wal
      BY <3>1, OtherSteps, BeginAdds DEF RInv
    <3>2. CASE UNCHANGED vars
      BY <1>2, <3>2 DEF vars
    <3> QED BY <1>2, <3>1, <3>2 DEF Next
  <2>2. wal'[s] = Current(w)
    BY <1>2, <2>1 DEF AppendStored
  <2> QED BY <2>1, <2>2 DEF AppendStored, RInv, Settled
<1> QED BY <1>1, <1>2

\* A swap that moves WALSeq extends the log by submitted, new batches.
LEMMA VisibleExtended ==
  ASSUME RInv, [Next]_vars, acked \subseteq acked',
         manifest'.WALSeq > manifest.WALSeq, Submitted' = Submitted
  PROVE  Abstract!Extend
<1>0. /\ manifest.WALSeq \in Nat /\ manifest'.WALSeq \in Nat
      /\ DOMAIN wal' \subseteq Nat
  BY TypeStep DEF RInv, IInv, TypeOK, Manifest
<1>1. \A s \in DOMAIN wal : wal'[s] = wal[s]
  BY WalGrows DEF RInv, IInv
<1>2. \A i \in 1..manifest.WALSeq : i - 1 \in DOMAIN wal
  BY <1>0 DEF RInv, IInv, SegmentsExist
<1>3. \A i \in 1..manifest'.WALSeq : i - 1 \in DOMAIN wal'
  BY <1>0, SegmentsStep DEF RInv, SegmentsExist
<1>4. Known' /\ Settled' /\ Once'
  BY KnownStep, SettledStep, OnceStep
<1>5. /\ Len(Visible) = manifest.WALSeq
      /\ \A i \in 1..manifest.WALSeq : Visible[i] = wal[i - 1]
  BY VisibleIsLog DEF RInv, IInv
<1>6. /\ Len(Visible') = manifest'.WALSeq
      /\ \A i \in 1..manifest'.WALSeq : Visible'[i] = wal'[i - 1]
  BY <1>0 DEF Visible
<1>7. \A i \in 1..Len(Visible) : Visible'[i] = Visible[i]
  BY <1>0, <1>1, <1>2, <1>5, <1>6
<1>8. ASSUME NEW i \in Len(Visible) + 1 .. Len(Visible')
      PROVE  Visible'[i] \in Submitted \ acked
  <2>1. /\ i - 1 \in DOMAIN wal' /\ Visible'[i] = wal'[i - 1]
        /\ i - 1 \in Nat /\ ~(i - 1 < manifest.WALSeq)
    BY <1>0, <1>3, <1>5, <1>6
  <2>2. Visible'[i] \in Submitted
    BY <1>4, <2>1 DEF Known
  <2>3. Visible'[i] \notin acked
    BY <2>1, BehindIsNew
  <2> QED BY <2>2, <2>3
<1>9. ASSUME NEW i \in Len(Visible) + 1 .. Len(Visible'), NEW j \in 1..i - 1
      PROVE  resent' > 0 \/ Visible'[j] # Visible'[i]
  <2>1. /\ i \in 1..manifest'.WALSeq /\ j \in 1..manifest'.WALSeq
        /\ i - 1 # j - 1
    BY <1>0, <1>5, <1>6
  <2>2. resent' \in Nat
    BY SubmittedGrows DEF RInv
  <2>3. resent' > 0 \/ wal'[i - 1] # wal'[j - 1]
    BY <1>3, <1>4, <2>1, <2>2 DEF Once, StoredOnce
  <2> QED BY <1>6, <2>1, <2>3
<1> QED BY <1>0, <1>5, <1>6, <1>7, <1>8, <1>9 DEF Abstract!Extend

\* The batch a swap acknowledges is in the log the swap leaves.
LEMMA CommittedIsListed ==
  ASSUME RInv, [Next]_vars, NEW w \in Writers, CASStored(w)
  PROVE  Current(w) \in Abstract!Listed(Visible')
<1>1. /\ seq[w] \in DOMAIN wal /\ wal[seq[w]] = Current(w)
      /\ seq[w] \in Nat
  BY DEF RInv, IInv, TypeOK, Owned, CASStored
<1>2. wal' = wal
  BY DEF CASStored
<1>3. /\ seq[w] < manifest'.WALSeq /\ manifest'.WALSeq \in Nat
  BY DEF RInv, IInv, TypeOK, Manifest, CASStored, Matches, Mutated
<1>4. /\ Len(Visible') = manifest'.WALSeq
      /\ \A i \in 1..manifest'.WALSeq : Visible'[i] = wal'[i - 1]
  BY <1>3 DEF Visible
<1>5. seq[w] + 1 \in 1..Len(Visible') /\ Visible'[seq[w] + 1] = Current(w)
  BY <1>1, <1>2, <1>3, <1>4
<1> QED BY <1>5 DEF Abstract!Listed

\* Every step is one of DurableLog or changes nothing there.
LEMMA RefineStep ==
  ASSUME RInv, [Next]_vars
  PROVE  [Abstract!Next]_(Abstract!vars)
<1> USE DEF Abstract!Next, Abstract!vars, Abstract!Resend
<1>0. resent \in Nat /\ resent' \in Nat /\ resent <= resent'
  BY SubmittedGrows DEF RInv
<1>1. ASSUME NEW w \in Writers, Begin(w) PROVE Abstract!Submit
  <2>1. Visible' = Visible
    BY <1>1, VisibleKept DEF Begin, store
  <2>2. acked' = acked /\ resent' = resent
    BY <1>1, BeginAdds DEF RInv
  <2>3. /\ call[w] \in Nat /\ call[w] + 1 \in 1..MaxCalls
        /\ call'[w] = call[w] + 1
        /\ \A v \in Writers : v # w => call'[v] = call[v]
    BY <1>1 DEF Begin, RInv, IInv, TypeOK
  <2>4. \A v \in Writers : call[v] \in Nat
    BY DEF RInv, IInv, TypeOK
  <2>5. /\ <<w, call[w] + 1>> \in Batch \ Submitted
        /\ Submitted' = Submitted \cup {<<w, call[w] + 1>>}
    <3>1. <<w, call[w] + 1>> \in Batch \ Submitted
      BY <2>3 DEF Submitted, Batch
    <3>2. ASSUME NEW b \in Batch
          PROVE  b[2] <= call'[b[1]] <=>
                   (b[2] <= call[b[1]] \/ b = <<w, call[w] + 1>>)
      <4>1. PICK v \in Writers, n \in 1..MaxCalls : b = <<v, n>>
        BY DEF Batch
      <4>2. CASE v = w
        BY <2>3, <4>1, <4>2
      <4>3. CASE v # w
        BY <2>3, <4>1, <4>3
      <4> QED BY <4>2, <4>3
    <3> QED BY <3>1, <3>2 DEF Submitted
  <2> QED BY <2>1, <2>2, <2>5 DEF Abstract!Submit
<1>2. ASSUME NEW w \in Writers, CASStored(w)
      PROVE  [Abstract!Next]_(Abstract!vars)
  <2>1. call' = call /\ Submitted' = Submitted
    BY <1>2 DEF CASStored, Return, RetryCAS, Submitted
  <2>2. \/ acked' = acked
        \/ acked' = acked \cup {Current(w)} /\ resent' = resent
    BY <1>2 DEF CASStored
  <2>3. acked' = acked \/ (Abstract!Ack /\ resent' = resent)
    BY <1>2, <2>1, <2>2, CommittedIsListed DEF Abstract!Ack
  <2>6. Abstract!Resend
    BY <1>0
  <2>4. CASE manifest'.WALSeq = manifest.WALSeq
    BY <1>0, <2>1, <2>3, <2>4, <2>6, VisibleKept
  <2>5. CASE manifest'.WALSeq # manifest.WALSeq
    <3>1. manifest'.WALSeq > manifest.WALSeq
      BY <2>5, WALSeqStep DEF RInv, IInv, TypeOK, Manifest
    <3>2. Abstract!Extend
      BY <2>1, <2>2, <3>1, VisibleExtended
    <3> QED BY <2>3, <2>6, <3>2
  <2> QED BY <2>4, <2>5
<1>3. ASSUME NEW w \in Writers, ~CASStored(w),
             Create(w) \/ Step(w) \/ Abandon(w)
      PROVE  [Abstract!Next]_(Abstract!vars)
  <2>1. call' = call /\ acked' = acked
    BY <1>3 DEF Create, Step, Abandon, LoadHint, Hint, AppendRefused, AppendStored,
                CASLoad, CASRefused, Return, ProbeNext, Claimed, RetryCAS,
                locals
  <2>2. manifest'.WALSeq = manifest.WALSeq
    BY <1>3 DEF Create, Step, Abandon, LoadHint, Hint, AppendRefused, AppendStored,
                CASLoad, CASRefused, store, Absent
  <2> QED BY <1>0, <2>1, <2>2, VisibleKept DEF Submitted
<1>4. CASE UNCHANGED vars
  BY <1>4 DEF vars, Visible, Submitted
<1> QED BY <1>1, <1>2, <1>3, <1>4 DEF Next

\* The initial state is one of DurableLog.
LEMMA RefineInit == Init => Abstract!Init
<1> SUFFICES ASSUME Init PROVE Abstract!Init
  OBVIOUS
<1>1. Submitted = {}
  BY DEF Init, Submitted, Batch
<1>2. Visible = <<>>
  BY DEF Init, Visible, Absent
<1> QED BY <1>1, <1>2 DEF Init, Abstract!Init

(***************************************************************************)
(* The write path implements DurableLog, with crashes, lost replies and    *)
(* resent requests: writers see one append-only log with every             *)
(* acknowledged batch in it, no batch twice until a request is resent, and *)
(* no new copy of a batch once it is acknowledged.                         *)
(***************************************************************************)
THEOREM Refinement == Spec => ImplementsDurableLog
<1>1. RInv /\ [Next]_vars => [Abstract!Next]_(Abstract!vars)
  BY RefineStep
<1> QED
  BY RefineInit, InitRInv, RInvStep, <1>1, PTL
  DEF Spec, ImplementsDurableLog, Abstract!Spec
-----------------------------------------------------------------------------
(***************************************************************************)
(* The live count, until a request is resent: a call in progress has not   *)
(* landed, so its mutate counts it once.                                   *)
(***************************************************************************)
Counted ==
  resent = 0 => /\ manifest.DocCount = count
                /\ landed \subseteq Submitted
                /\ \A w \in Writers : pc[w] # "idle" => Current(w) \notin landed

\* Every step keeps the count.
LEMMA CountedStep ==
  ASSUME IInv, Counted, [Next]_vars
  PROVE  Counted'
<1> SUFFICES ASSUME resent' = 0
             PROVE  /\ manifest'.DocCount = count'
                    /\ landed' \subseteq Submitted'
                    /\ \A v \in Writers : pc'[v] # "idle" => Current(v)' \notin landed'
  BY DEF Counted
<1> DEFINE Goal == /\ manifest'.DocCount = count'
                   /\ landed' \subseteq Submitted'
                   /\ \A v \in Writers : pc'[v] # "idle" => Current(v)' \notin landed'
<1>0. /\ resent = 0 /\ Submitted \subseteq Submitted'
      /\ manifest.DocCount = count
      /\ landed \subseteq Submitted
      /\ \A v \in Writers : pc[v] # "idle" => Current(v) \notin landed
  BY SubmittedGrows DEF Counted
<1>1. ASSUME NEW w \in Writers, Begin(w) PROVE Goal
  BY <1>0, <1>1, BeginAdds
<1>2. ASSUME NEW w \in Writers, CASStored(w) PROVE Goal
  <2>1. /\ Return(w) /\ pc[w] # "idle" /\ loaded[w] = manifest /\ manifest' = Mutated(w)
        /\ landed' = landed \cup {Current(w)}
        /\ count' = IF Current(w) \in landed THEN count ELSE Kept(count + delta[w])
    BY <1>0, <1>2 DEF CASStored, Matches, Resend
  <2>2. manifest'.DocCount = count'
    BY <1>0, <2>1 DEF Mutated
  <2>3. call' = call /\ \A v \in Writers : Current(v)' = Current(v)
    BY <2>1 DEF Return, Current
  <2>4. Current(w) \in Submitted
    BY <2>1 DEF IInv, TypeOK, InCall, Current, Submitted, Batch
  <2>5. ASSUME NEW v \in Writers, pc'[v] # "idle" PROVE Current(v)' \notin landed'
    <3>1. v # w /\ pc[v] # "idle"
      BY <2>1, <2>5 DEF Return, IInv, TypeOK
    <3>2. Current(v) # Current(w)
      BY <3>1 DEF Current
    <3> QED BY <1>0, <2>1, <2>3, <3>1, <3>2
  <2> QED BY <1>0, <2>1, <2>2, <2>4, <2>5
<1>3. ASSUME NEW w \in Writers, ~CASStored(w), Create(w) \/ Step(w) \/ Abandon(w)
      PROVE  Goal
  <2>1. /\ call' = call /\ landed' = landed /\ count' = count
        /\ manifest'.DocCount = manifest.DocCount
    BY <1>3 DEF Create, Step, LoadHint, Hint, AppendRefused, AppendStored, CASLoad,
                CASRefused, Abandon, Return, ProbeNext, Claimed, RetryCAS, store,
                locals, hist, Absent
  <2>2. \A v \in Writers : pc'[v] # "idle" => pc[v] # "idle"
    BY <1>3 DEF Create, Step, LoadHint, Hint, AppendRefused, AppendStored, CASLoad,
                CASRefused, Abandon, Return, ProbeNext, Claimed, RetryCAS, locals,
                IInv, TypeOK
  <2>3. \A v \in Writers : Current(v)' = Current(v)
    BY <2>1 DEF Current
  <2> QED BY <1>0, <2>1, <2>2, <2>3
<1>4. CASE UNCHANGED vars
  BY <1>0, <1>4 DEF vars, Current
<1> QED BY <1>1, <1>2, <1>3, <1>4 DEF Next

(***************************************************************************)
(* SaveManifestCAS loses no update of a writer and applies none twice, as  *)
(* long as no request that took effect is sent again.                      *)
(***************************************************************************)
THEOREM NoLostUpdate == Spec => []EveryUpdateIsCounted
<1>1. Init => Counted
  BY DEF Init, Counted, Absent
<1>2. IInv /\ Counted /\ [Next]_vars => Counted'
  BY CountedStep
<1>3. Counted => EveryUpdateIsCounted
  BY DEF Counted, EveryUpdateIsCounted
<1> QED BY <1>1, <1>2, <1>3, Invariance, PTL DEF Spec
-----------------------------------------------------------------------------
(***************************************************************************)
(* Contention exhausts no loop, until a request is resent.  Every slot that a *)
(* probe climbed over holds a batch of another call, and every swap that   *)
(* was refused made way for one that landed, so a loop that has as many    *)
(* attempts as there are calls is not at its last.                         *)
(***************************************************************************)
Landings ==
  /\ IsFiniteSet(landed)
  /\ manifest = Absent \/ manifest.Version > 0
  /\ manifest.Version <= Cardinality(landed) + 1
  /\ landed \subseteq Submitted
  /\ \A w \in Writers : pc[w] # "idle" => Current(w) \notin landed

\* What the attempts of a writer have cost the others.
Paid(w) ==
  /\ pc[w] \in {"idle", "load"} => tries[w] = 0
  /\ pc[w] = "append" => manifest.Version > 0 /\ tries[w] <= seq[w]
  /\ pc[w] = "casLoad" => tries[w] < manifest.Version
  /\ pc[w] = "casPut" => /\ tries[w] < loaded[w].Version
                         /\ \/ loaded[w] = manifest
                            \/ loaded[w].Version < manifest.Version

Attempts == \A w \in Writers : Paid(w)

RetryInv == RInv /\ (resent = 0 => Landings /\ Attempts)

\* A swap lands a batch that had not landed.
LEMMA CASLands ==
  ASSUME resent' = 0, IInv, Landings, NEW w \in Writers, CASStored(w)
  PROVE  Landings'
<1> USE DEF IInv, TypeOK
<1>1. /\ Return(w) /\ pc[w] # "idle" /\ loaded[w] = manifest /\ manifest' = Mutated(w)
      /\ landed' = landed \cup {Current(w)}
  BY DEF CASStored, Matches, Resend
<1>2. Current(w) \notin landed
  BY <1>1 DEF Landings
<1>3. IsFiniteSet(landed') /\ Cardinality(landed') = Cardinality(landed) + 1
  BY <1>1, <1>2, FS_AddElement DEF Landings
<1>4. manifest'.Version > 0 /\ manifest'.Version <= Cardinality(landed') + 1
  <2>1. Cardinality(landed) \in Nat /\ manifest.Version \in Nat
    BY FS_CardinalityType DEF Landings, Manifest
  <2>2. manifest'.Version = manifest.Version + 1
    BY <1>1 DEF Mutated
  <2> QED BY <1>3, <2>1, <2>2 DEF Landings
<1>5. call' = call /\ Submitted' = Submitted /\ \A v \in Writers : Current(v)' = Current(v)
  BY <1>1 DEF Return, Submitted, Current
<1>6. Current(w) \in Submitted
  BY <1>1 DEF InCall, Current, Submitted, Batch
<1>7. ASSUME NEW v \in Writers, pc'[v] # "idle" PROVE Current(v)' \notin landed'
  <2>1. v # w /\ pc[v] # "idle"
    BY <1>1, <1>7 DEF Return
  <2>2. Current(v) # Current(w)
    BY <2>1 DEF Current
  <2> QED BY <1>1, <1>5, <2>1, <2>2 DEF Landings
<1>8. landed' \subseteq Submitted'
  BY <1>1, <1>5, <1>6 DEF Landings
<1> QED BY <1>3, <1>4, <1>7, <1>8 DEF Landings

\* Versions count the landings.
LEMMA LandingsStep ==
  ASSUME resent' = 0, IInv, Landings, [Next]_vars
  PROVE  Landings'
<1>0. Submitted \subseteq Submitted'
  BY SubmittedGrows
<1> USE DEF IInv, TypeOK
<1>1. ASSUME NEW w \in Writers, Create(w) PROVE Landings'
  <2>1. manifest'.Version = 1 /\ landed' = landed /\ pc' = pc /\ call' = call
    BY <1>1 DEF Create, Absent, locals
  <2>2. Cardinality(landed) \in Nat
    BY FS_CardinalityType DEF Landings
  <2>3. manifest'.Version <= Cardinality(landed') + 1
    BY <2>1, <2>2
  <2> QED BY <1>0, <2>1, <2>3 DEF Landings, Current
<1>2. ASSUME NEW w \in Writers, Begin(w) PROVE Landings'
  <2>1. manifest' = manifest /\ landed' = landed /\ call'[w] = call[w] + 1
    BY <1>2 DEF Begin, store
  <2>2. \A v \in Writers : v # w => pc'[v] = pc[v] /\ Current(v)' = Current(v)
    BY <1>2 DEF Begin, Current
  <2>3. Current(w)' \notin Submitted
    BY <2>1 DEF Current, Submitted
  <2> QED BY <1>0, <2>1, <2>2, <2>3 DEF Landings
<1>3. ASSUME NEW w \in Writers, LoadHint(w) \/ AppendRefused(w) \/ AppendStored(w)
                                \/ CASLoad(w) \/ CASRefused(w) \/ Abandon(w)
      PROVE  Landings'
  <2>1. manifest' = manifest /\ landed' = landed /\ call' = call
    BY <1>3 DEF LoadHint, Hint, AppendRefused, AppendStored, CASLoad, CASRefused, Abandon,
                Return, ProbeNext, Claimed, RetryCAS, store
  <2>2. \A v \in Writers : pc'[v] # "idle" => pc[v] # "idle"
    BY <1>3 DEF LoadHint, Hint, AppendRefused, AppendStored, CASLoad, CASRefused, Abandon,
                Return, ProbeNext, Claimed, RetryCAS
  <2>3. \A v \in Writers : Current(v)' = Current(v)
    BY <2>1 DEF Current
  <2> QED BY <1>0, <2>1, <2>2, <2>3 DEF Landings
<1>4. CASE UNCHANGED vars
  <2>1. \A v \in Writers : Current(v)' = Current(v)
    BY <1>4 DEF vars, locals, Current
  <2> QED BY <1>0, <1>4, <2>1 DEF Landings, vars, store, locals
<1> QED BY <1>1, <1>2, <1>3, <1>4, CASLands DEF Next, Step

\* What a step does to the other writers: nothing, but the manifest may be a newer one.
Aside(w) ==
  /\ \A v \in Writers : v # w => /\ pc'[v] = pc[v] /\ tries'[v] = tries[v]
                                 /\ seq'[v] = seq[v] /\ loaded'[v] = loaded[v]
  /\ \/ manifest' = manifest
     \/ manifest.Version < manifest'.Version

\* Any step of a writer leaves the others so.
LEMMA AsideStep ==
  ASSUME IInv, NEW w \in Writers, Create(w) \/ Begin(w) \/ Step(w) \/ Abandon(w)
  PROVE  Aside(w)
<1> USE DEF IInv, TypeOK
<1>1. CASE Create(w)
  BY <1>1 DEF Create, Absent, locals, Aside
<1>2. CASE Begin(w)
  BY <1>2 DEF Begin, store, Aside
<1>3. CASE LoadHint(w)
  BY <1>3 DEF LoadHint, Return, store, Aside
<1>4. CASE AppendRefused(w)
  BY <1>4 DEF AppendRefused, ProbeNext, Return, store, Aside
<1>5. CASE AppendStored(w)
  BY <1>5 DEF AppendStored, Claimed, ProbeNext, Return, Aside
<1>6. CASE CASLoad(w)
  BY <1>6 DEF CASLoad, store, Aside
<1>7. CASE CASRefused(w)
  BY <1>7 DEF CASRefused, RetryCAS, Return, store, Aside
<1>8. CASE CASStored(w)
  <2>1. manifest.Version \in Nat /\ manifest'.Version = manifest.Version + 1
    BY <1>8 DEF CASStored, Matches, Mutated, Manifest
  <2> QED BY <1>8, <2>1 DEF CASStored, RetryCAS, Return, Aside
<1>9. CASE Abandon(w)
  BY <1>9 DEF Abandon, Return, store, Aside
<1> QED BY <1>1, <1>2, <1>3, <1>4, <1>5, <1>6, <1>7, <1>8, <1>9 DEF Step

\* A refused attempt costs somebody else a slot or a swap.
LEMMA AttemptsStep ==
  ASSUME resent' = 0, IInv, Landings, Attempts, [Next]_vars
  PROVE  Attempts'
<1>0. /\ \A w \in Writers : pc[w] \in Phases
      /\ manifest.Version \in Nat /\ manifest'.Version \in Nat
      /\ \A w \in Writers : loaded[w].Version \in Nat /\ tries[w] \in Nat /\ seq[w] \in Nat
  BY TypeStep DEF IInv, TypeOK, Manifest
<1>1. \A w \in Writers : Paid(w)
  BY DEF Attempts
<1>2. ASSUME NEW w \in Writers, Aside(w), NEW v \in Writers, v # w PROVE Paid(v)'
  <2>1. /\ pc'[v] = pc[v] /\ tries'[v] = tries[v] /\ seq'[v] = seq[v] /\ loaded'[v] = loaded[v]
        /\ manifest' = manifest \/ manifest.Version < manifest'.Version
    BY <1>2 DEF Aside
  <2> QED BY <1>0, <1>1, <2>1 DEF Paid
<1>3. ASSUME NEW w \in Writers, Create(w) \/ Begin(w) \/ Step(w) \/ Abandon(w)
      PROVE  Paid(w)'
  <2> USE DEF IInv, TypeOK
  <2>1. CASE Create(w)
    BY <1>1, <2>1 DEF Create, Paid, locals
  <2>2. CASE Begin(w)
    BY <1>1, <2>2 DEF Begin, Paid
  <2>3. CASE LoadHint(w)
    <3>1. CASE Return(w)
      BY <3>1 DEF Return, Paid
    <3>2. CASE ~ Return(w)
      <4>1. pc'[w] = "append" /\ tries' = tries /\ tries[w] = 0 /\ manifest' = manifest
            /\ manifest # Absent /\ seq'[w] = Hint
        BY <1>1, <2>3, <3>2 DEF LoadHint, Paid, store
      <4>2. manifest.Version > 0
        BY <4>1 DEF Landings
      <4> QED BY <1>0, <4>1, <4>2 DEF Paid, Hint, Manifest
    <3> QED BY <3>1, <3>2
  <2>4. CASE AppendRefused(w)
    <3>1. pc[w] = "append" /\ manifest' = manifest
      BY <2>4 DEF AppendRefused, store
    <3>2. Return(w) \/ (pc' = pc /\ seq'[w] = seq[w] + 1 /\ tries'[w] = tries[w] + 1)
      BY <2>4 DEF AppendRefused, ProbeNext
    <3> QED BY <1>0, <1>1, <3>1, <3>2 DEF Paid, Return
  <2>5. CASE AppendStored(w)
    <3>1. Claimed(w) \/ Return(w)
      BY <2>5, <1>0 DEF AppendStored, Resend
    <3>2. pc[w] = "append" /\ manifest' = manifest
      BY <2>5 DEF AppendStored
    <3> QED BY <1>0, <1>1, <3>1, <3>2 DEF Paid, Claimed, Return
  <2>6. CASE CASLoad(w)
    <3>1. pc[w] = "casLoad" /\ pc'[w] = "casPut" /\ tries' = tries
          /\ loaded'[w] = manifest /\ manifest' = manifest
      BY <2>6 DEF CASLoad, store
    <3> QED BY <1>0, <1>1, <3>1 DEF Paid
  <2>7. CASE CASRefused(w)
    <3>1. pc[w] = "casPut" /\ loaded[w] # manifest /\ manifest' = manifest
      BY <2>7 DEF CASRefused, Matches, store
    <3>2. Return(w) \/ (pc'[w] = "casLoad" /\ tries'[w] = tries[w] + 1)
      BY <2>7 DEF CASRefused, RetryCAS
    <3> QED BY <1>0, <1>1, <3>1, <3>2 DEF Paid, Return
  <2>8. CASE CASStored(w)
    <3>1. Return(w)
      BY <2>8 DEF CASStored, Resend
    <3> QED BY <3>1 DEF Return, Paid
  <2>9. CASE Abandon(w)
    BY <2>9 DEF Abandon, Return, Paid
  <2> QED BY <1>3, <2>1, <2>2, <2>3, <2>4, <2>5, <2>6, <2>7, <2>8, <2>9 DEF Step
<1>4. CASE UNCHANGED vars
  BY <1>4 DEF Attempts, Paid, vars, locals, store
<1>5. ASSUME NEW w \in Writers, Create(w) \/ Begin(w) \/ Step(w) \/ Abandon(w)
      PROVE  Attempts'
  <2>1. Aside(w)
    BY <1>5, AsideStep
  <2>2. \A v \in Writers : Paid(v)'
    BY <1>2, <1>3, <1>5, <2>1
  <2> QED BY <2>2 DEF Attempts
<1> QED BY <1>4, <1>5 DEF Next

\* There are finitely many calls, and a set without one of them is smaller.
LEMMA OtherCalls ==
  ASSUME IsFiniteSet(Writers), NEW b \in Batch, NEW T \in SUBSET (Batch \ {b})
  PROVE  /\ IsFiniteSet(T) /\ Cardinality(T) \in Nat /\ Cardinality(Batch) \in Nat
         /\ Cardinality(T) < Cardinality(Batch)
<1>1. IsFiniteSet(1..MaxCalls)
  BY FS_Interval
<1>2. IsFiniteSet(Batch)
  BY <1>1, FS_Product DEF Batch
<1>3. IsFiniteSet(Batch \ {b}) /\ Cardinality(Batch \ {b}) = Cardinality(Batch) - 1
  BY <1>2, FS_RemoveElement
<1>4. IsFiniteSet(T) /\ Cardinality(T) <= Cardinality(Batch \ {b})
  BY <1>3, FS_Subset
<1> QED BY <1>2, <1>3, <1>4, FS_CardinalityType

\* A probe that is refused has climbed over fewer slots than there are calls.
LEMMA ProbesLeft ==
  ASSUME IsFiniteSet(Writers), RetryInv, resent = 0, NEW w \in Writers, pc[w] = "append", seq[w] \in DOMAIN wal
  PROVE  tries[w] + 1 < Cardinality(Batch)
<1> USE DEF RetryInv, RInv, IInv, TypeOK
<1>1. tries[w] \in Nat /\ seq[w] \in Nat /\ tries[w] <= seq[w]
  BY DEF Attempts, Paid
<1> DEFINE S == 0..seq[w]
           T == {wal[s] : s \in S}
<1>2. \A s \in S : s \in DOMAIN wal
  BY <1>1 DEF Climbed
<1>3. Current(w) \in Batch
  BY DEF Current, Batch, InCall
<1>4. T \in SUBSET (Batch \ {Current(w)})
  BY <1>2 DEF Once
<1>5. /\ IsFiniteSet(T) /\ Cardinality(T) \in Nat /\ Cardinality(Batch) \in Nat
      /\ Cardinality(T) < Cardinality(Batch)
  BY <1>3, <1>4, OtherCalls
<1>6. IsFiniteSet(S) /\ Cardinality(S) = seq[w] + 1
  <2>1. 0 \in Int /\ seq[w] \in Int
    BY <1>1
  <2>2. IsFiniteSet(0..seq[w]) /\ Cardinality(0..seq[w]) = IF 0 > seq[w] THEN 0 ELSE seq[w] - 0 + 1
    BY ONLY <2>1, FS_Interval
  <2> QED BY <1>1, <2>2
<1>7. Cardinality(S) <= Cardinality(T)
  <2> DEFINE f == [s \in S |-> wal[s]]
  <2>1. f \in Injection(S, T)
    BY <1>2 DEF Injection, IsInjective, Once, StoredOnce
  <2> HIDE DEF f, S, T
  <2> QED BY <1>5, <2>1, FS_Injection
<1> HIDE DEF S, T
<1> QED BY <1>1, <1>5, <1>6, <1>7

\* A swap that is refused has been so by fewer landings than there are calls.
LEMMA SwapsLeft ==
  ASSUME IsFiniteSet(Writers), RetryInv, resent = 0, NEW w \in Writers, pc[w] = "casPut", loaded[w] # manifest
  PROVE  tries[w] + 1 < Cardinality(Batch)
<1> USE DEF RetryInv, RInv, IInv, TypeOK
<1>1. tries[w] < loaded[w].Version /\ loaded[w].Version < manifest.Version
  BY DEF Attempts, Paid
<1>2. tries[w] \in Nat /\ loaded[w].Version \in Nat /\ manifest.Version \in Nat
  BY DEF Manifest
<1>3. Current(w) \in Batch /\ Current(w) \notin landed
  BY DEF Current, Batch, InCall, Landings
<1>4. landed \in SUBSET (Batch \ {Current(w)})
  BY <1>3
<1>5. /\ Cardinality(landed) \in Nat /\ Cardinality(Batch) \in Nat
      /\ Cardinality(landed) < Cardinality(Batch)
  BY <1>3, <1>4, OtherCalls
<1>6. manifest.Version <= Cardinality(landed) + 1
  BY DEF Landings
<1> QED BY <1>1, <1>2, <1>5, <1>6

(***************************************************************************)
(* "Probing forward guarantees forward progress": with as many attempts as *)
(* there are calls, no Upsert ever gives up for contention or orphans.     *)
(***************************************************************************)
THEOREM NoStarvation ==
  ASSUME IsFiniteSet(Writers)
  PROVE  Spec => RetriesSuffice
<1>1. Init => RetryInv
  <2> SUFFICES ASSUME Init PROVE RetryInv
    OBVIOUS
  <2>1. RInv
    BY InitRInv
  <2>2. Landings
    BY FS_EmptySet DEF Init, Landings, Absent
  <2>3. Attempts
    BY DEF Init, Attempts, Paid
  <2> QED BY <2>1, <2>2, <2>3 DEF RetryInv
<1>2. RetryInv /\ [Next]_vars => RetryInv'
  <2> SUFFICES ASSUME RetryInv, [Next]_vars PROVE RetryInv'
    OBVIOUS
  <2>1. RInv'
    BY RInvStep DEF RetryInv
  <2>2. ASSUME resent' = 0 PROVE Landings' /\ Attempts'
    <3>1. resent = 0
      BY <2>2, SubmittedGrows DEF RetryInv, RInv
    <3> QED BY <2>2, <3>1, LandingsStep, AttemptsStep DEF RetryInv, RInv
  <2> QED BY <2>1, <2>2 DEF RetryInv
<1>3. RetryInv => (EnoughAttempts /\ resent = 0 =>
         \A w \in Writers : AppendRefused(w) \/ CASRefused(w) => pc'[w] # "idle")
  <2> SUFFICES ASSUME RetryInv, EnoughAttempts, resent = 0, NEW w \in Writers,
                      AppendRefused(w) \/ CASRefused(w)
               PROVE  pc'[w] # "idle"
    OBVIOUS
  <2>0. /\ tries[w] \in Nat /\ Cardinality(Batch) \in Nat
        /\ MaxUpsertAttempts >= Cardinality(Batch) /\ MaxCASAttempts >= Cardinality(Batch)
    <3>1. Current(w) \in Batch
      BY DEF RetryInv, RInv, IInv, TypeOK, InCall, Current, Batch, AppendRefused, CASRefused
    <3> QED BY <3>1, OtherCalls DEF RetryInv, RInv, IInv, TypeOK, EnoughAttempts
  <2>1. CASE AppendRefused(w)
    <3>1. tries[w] + 1 < MaxUpsertAttempts
      BY <2>0, <2>1, ProbesLeft DEF AppendRefused
    <3> QED BY <2>1, <3>1 DEF AppendRefused, ProbeNext
  <2>2. CASE CASRefused(w)
    <3>1. tries[w] + 1 < MaxCASAttempts
      BY <2>0, <2>2, SwapsLeft DEF CASRefused, Matches
    <3> QED BY <2>2, <3>1 DEF CASRefused, RetryCAS, RetryInv, RInv, IInv, TypeOK
  <2> QED BY <2>1, <2>2
<1> QED BY <1>1, <1>2, <1>3, PTL DEF Spec, RetriesSuffice
=============================================================================
