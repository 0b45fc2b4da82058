-------------------------- MODULE CommitterProofs --------------------------
(***************************************************************************)
(* The group commit, for any number of callers, closers, calls, documents  *)
(* and faults.  The invariant comes in layers, each proved on the ones     *)
(* before:                                                                 *)
(*   Base      types, the gate (read locks held = sends pending, none once *)
(*             the inbox is closed) and what the flusher owes its callers; *)
(*   OrderInv  the writes of a caller in the log, then in the batch: only  *)
(*             an append sent again repeats any, and with all of its batch;*)
(*   AckInv    who is told nil is in the log, and no one in the batch has  *)
(*             been told anything;                                         *)
(*   CapInv    ops counts the documents of the batch, and the batch was    *)
(*             below its cap before its last member.                       *)
(* With them every step maps to a step of DurableLog, or to a stutter.     *)
(***************************************************************************)
EXTENDS Committer, DataInduction, FiniteSetTheorems

-----------------------------------------------------------------------------
\* f is a solution of the recursion of DocsOfFirst.
Sums(f, n, s, docs) ==
  f = [i \in 0..n |-> IF i = 0 THEN 0 ELSE f[i - 1] + docs[s[i]]]

\* DocsOfFirst is the last value of its recursion.
LEMMA SumDef ==
  ASSUME NEW n, NEW s, NEW docs
  PROVE DocsOfFirst(n, s, docs) = (CHOOSE f : Sums(f, n, s, docs))[n]
  BY DEF DocsOfFirst, Sums

\* The values of a solution obey the recursion.
LEMMA SumValue ==
  ASSUME NEW n, NEW s, NEW docs, NEW f, Sums(f, n, s, docs), NEW i \in 0..n
  PROVE f[i] = IF i = 0 THEN 0 ELSE f[i-1] + docs[s[i]]
<1> DEFINE h == [j \in 0..n |-> IF j = 0 THEN 0 ELSE f[j-1] + docs[s[j]]]
<1>1. f = h
  BY DEF Sums
<1>2. h[i] = IF i = 0 THEN 0 ELSE f[i-1] + docs[s[i]]
  OBVIOUS
<1> HIDE DEF h
<1> QED BY <1>1, <1>2

\* The recursion of DocsOfFirst has a solution for every length.
LEMMA SumExists ==
  ASSUME NEW s, NEW docs
  PROVE \A n \in Nat : \E f : Sums(f, n, s, docs)
<1> DEFINE T == {n \in Nat : \E f : Sums(f, n, s, docs)}
<1>1. 0 \in T
  <2> DEFINE g == [i \in 0..0 |-> 0]
  <2>1. Sums(g, 0, s, docs)
    BY DEF Sums
  <2> QED BY <2>1
<1>2. ASSUME NEW n \in Nat, n \in T PROVE n+1 \in T
  <2>1. PICK f : Sums(f, n, s, docs)
    BY <1>2
  <2> DEFINE g == [i \in 0..n+1 |-> IF i = n+1 THEN f[n] + docs[s[i]] ELSE f[i]]
  <2>2. \A i \in 0..n+1 : g[i] = IF i = 0 THEN 0 ELSE g[i-1] + docs[s[i]]
    <3> SUFFICES ASSUME NEW i \in 0..n+1
                 PROVE g[i] = IF i = 0 THEN 0 ELSE g[i-1] + docs[s[i]]
      OBVIOUS
    <3>1. CASE i = n+1
      BY <3>1
    <3>2. CASE i # n+1
      <4>1. i \in 0..n /\ (i # 0 => i-1 \in 0..n)
        BY <3>2
      <4>2. f[i] = IF i = 0 THEN 0 ELSE f[i-1] + docs[s[i]]
        BY <4>1, <2>1, SumValue
      <4> QED BY <4>1, <4>2, <3>2
    <3> QED BY <3>1, <3>2
  <2>3. Sums(g, n+1, s, docs)
    <3> DEFINE h == [i \in 0..n+1 |-> IF i = 0 THEN 0 ELSE g[i-1] + docs[s[i]]]
    <3>1. \A i \in 0..n+1 : g[i] = h[i]
      BY <2>2
    <3>2. g = h
      BY <3>1
    <3> QED BY <3>2 DEF Sums
  <2> QED BY <2>3
<1> HIDE DEF T
<1>3. \A n \in Nat : n \in T
  BY <1>1, <1>2, NatSetInduction
<1> QED BY <1>3 DEF T

\* Solutions for two sequences agree where the documents of their calls do.
LEMMA SumUnique ==
  ASSUME NEW m \in Nat, NEW n \in Nat, m <= n, NEW s, NEW t, NEW docs, NEW other,
         NEW f, NEW g, Sums(f, m, s, docs), Sums(g, n, t, other),
         \A i \in 1..m : docs[s[i]] = other[t[i]]
  PROVE f[m] = g[m]
<1> DEFINE T == {k \in Nat : k \in 0..m => f[k] = g[k]}
<1>1. 0 \in T
  <2>1. 0 \in 0..m /\ 0 \in 0..n
    OBVIOUS
  <2> QED BY <2>1, SumValue
<1>2. ASSUME NEW k \in Nat, k \in T PROVE k+1 \in T
  <2> SUFFICES ASSUME k+1 \in 0..m PROVE f[k+1] = g[k+1]
    OBVIOUS
  <2>0. k+1 \in 0..n /\ k+1 # 0 /\ k+1-1 = k /\ k \in 0..m
    OBVIOUS
  <2>1. f[k+1] = f[k+1-1] + docs[s[k+1]]
    BY <2>0, SumValue
  <2>2. g[k+1] = g[k+1-1] + other[t[k+1]]
    BY <2>0, SumValue
  <2>3. docs[s[k+1]] = other[t[k+1]] /\ f[k] = g[k]
    BY <1>2, <2>0
  <2> QED BY <2>0, <2>1, <2>2, <2>3
<1> HIDE DEF T
<1>3. \A k \in Nat : k \in T
  BY <1>1, <1>2, NatSetInduction
<1> QED BY <1>3 DEF T

\* DocsOfFirst(n, s, docs) depends on the documents of these n calls only.
LEMMA DocsAgree ==
  ASSUME NEW n \in Nat, NEW s, NEW t, NEW docs, NEW other,
         \A i \in 1..n : docs[s[i]] = other[t[i]]
  PROVE DocsOfFirst(n, s, docs) = DocsOfFirst(n, t, other)
<1> DEFINE f == CHOOSE f : Sums(f, n, s, docs)
           g == CHOOSE g : Sums(g, n, t, other)
<1>1. Sums(f, n, s, docs) /\ DocsOfFirst(n, s, docs) = f[n]
  BY SumExists, SumDef
<1>2. Sums(g, n, t, other) /\ DocsOfFirst(n, t, other) = g[n]
  BY SumExists, SumDef
<1> HIDE DEF f, g
<1> QED BY <1>1, <1>2, SumUnique

\* One more call adds its documents.
LEMMA DocsOfNext ==
  ASSUME NEW n \in Nat, NEW s, NEW docs
  PROVE DocsOfFirst(n+1, s, docs) = DocsOfFirst(n, s, docs) + docs[s[n+1]]
<1> DEFINE f == CHOOSE f : Sums(f, n, s, docs)
           g == CHOOSE g : Sums(g, n+1, s, docs)
<1>0. n+1 \in Nat /\ n <= n+1 /\ n+1 \in 0..n+1 /\ n+1 # 0 /\ n+1-1 = n
  OBVIOUS
<1>1. Sums(f, n, s, docs) /\ DocsOfFirst(n, s, docs) = f[n]
  BY SumExists, SumDef
<1>2. Sums(g, n+1, s, docs) /\ DocsOfFirst(n+1, s, docs) = g[n+1]
  BY <1>0, SumExists, SumDef
<1> HIDE DEF f, g
<1>3. f[n] = g[n]
  BY <1>0, <1>1, <1>2, SumUnique
<1>4. g[n+1] = g[n+1-1] + docs[s[n+1]]
  BY <1>0, <1>2, SumValue
<1> QED BY <1>0, <1>1, <1>2, <1>3, <1>4

\* No call holds no document.
LEMMA DocsOfNone ==
  ASSUME NEW s, NEW docs
  PROVE DocsOfFirst(0, s, docs) = 0
<1> DEFINE f == CHOOSE f : Sums(f, 0, s, docs)
<1>1. Sums(f, 0, s, docs) /\ DocsOfFirst(0, s, docs) = f[0] /\ 0 \in 0..0
  BY SumExists, SumDef
<1> HIDE DEF f
<1> QED BY <1>1, SumValue
-----------------------------------------------------------------------------
(***************************************************************************)
(* The base: types, the gate, and what the flusher owes its callers.       *)
(***************************************************************************)
Senders == {c \in Callers : pc[c] = "send"}

\* The read locks held are those of the callers whose send is pending.
LocksCounted == IsFiniteSet(Senders) /\ readers = Cardinality(Senders)

\* A closed inbox has no senders, and only CloseInbox lets a Close wait.
GateInv ==
  /\ LocksCounted
  /\ closed => Senders = {}
  /\ \A k \in Closers : kpc[k] \in {"wait", "returned"} => closed

Held(b) == \E i \in 1..Len(batch) : batch[i] = b

\* The flusher exits with nothing in hand, Close returns after that, and a
\* caller that waits is answered or still in the batch.
FlushInv ==
  /\ lpc \in {"recv", "exited"} <=> batch = <<>>
  /\ lpc = "exited" => closed
  /\ \A k \in Closers : kpc[k] = "returned" => lpc = "exited"
  /\ \A c \in Callers : pc[c] # "idle" => call[c] # 0
  /\ \A c \in Callers :
        pc[c] = "wait" => result[Current(c)] # "none" \/ Held(Current(c))

Base == TypeOK /\ GateInv /\ FlushInv

\* One pending send more.
LEMMA OneMore ==
  ASSUME NEW S, IsFiniteSet(S), NEW c, c \notin S
  PROVE IsFiniteSet(S \cup {c}) /\ Cardinality(S \cup {c}) = Cardinality(S) + 1
  BY FS_AddElement

\* One pending send less.
LEMMA OneLess ==
  ASSUME NEW S, IsFiniteSet(S), NEW c \in S
  PROVE /\ IsFiniteSet(S \ {c}) /\ Cardinality(S \ {c}) = Cardinality(S) - 1
        /\ Cardinality(S) \in Nat \ {0}
<1>1. IsFiniteSet(S \ {c}) /\ Cardinality(S \ {c}) = Cardinality(S) - 1
  BY FS_RemoveElement
<1>2. Cardinality(S) \in Nat /\ Cardinality(S) # 0
  BY FS_CardinalityType, FS_EmptySet
<1> QED BY <1>1, <1>2

\* A caller past the start of its call has a number for it.
LEMMA CurrentType ==
  ASSUME TypeOK, FlushInv, NEW c \in Callers, pc[c] # "idle"
  PROVE Current(c) \in Call /\ call[c] \in 1..MaxCalls
  BY BoundsAssumption DEF TypeOK, FlushInv, Current, Call

\* A call holds a natural number of documents.
LEMMA SizeType == ASSUME TypeOK, NEW b \in Call PROVE size[b] \in Nat
<1>1. size[b] \in Sizes \cup {0}
  BY DEF TypeOK
<1>2. \A n \in Sizes : n \in Nat
  BY SizesAssumption
<1>3. CASE size[b] \in Sizes
  BY <1>2, <1>3
<1>4. CASE size[b] = 0
  BY <1>4
<1> QED BY <1>1, <1>3, <1>4

\* commitBatch reports success only when the segment is stored.
LEMMA OutcomesType ==
  \A o \in Outcomes : o.err \in BOOLEAN /\ o.stored \in BOOLEAN /\ (~o.err => o.stored)
<1> SUFFICES ASSUME NEW o \in Outcomes
             PROVE o.err \in BOOLEAN /\ o.stored \in BOOLEAN /\ (~o.err => o.stored)
  OBVIOUS
<1>1. \/ o = [stored |-> TRUE, err |-> FALSE]
      \/ o = [stored |-> FALSE, err |-> TRUE]
      \/ o = [stored |-> TRUE, err |-> TRUE]
  BY DEF Outcomes
<1>2. CASE o = [stored |-> TRUE, err |-> FALSE]
  BY <1>2
<1>3. CASE o = [stored |-> FALSE, err |-> TRUE]
  BY <1>3
<1>4. CASE o = [stored |-> TRUE, err |-> TRUE]
  BY <1>4
<1> QED BY <1>1, <1>2, <1>3, <1>4

\* No caller has sent anything, the channel is open and empty.
LEMMA BaseInit == Init => Base
<1> SUFFICES ASSUME Init PROVE Base
  OBVIOUS
<1>1. TypeOK
  <2>1. call \in [Callers -> 0..MaxCalls]
    BY BoundsAssumption DEF Init
  <2>2. size \in [Call -> Sizes \cup {0}] /\ result \in [Call -> {"none", "nil", "error"}]
    BY DEF Init
  <2>3. batch \in Seq(Call) /\ log \in Seq(Seq(Call)) /\ acked \subseteq Call
    BY DEF Init
  <2>4. resent \in 0..MaxResends
    BY MaxResendsAssumption DEF Init
  <2> QED BY <2>1, <2>2, <2>3, <2>4 DEF Init, TypeOK
<1>2. Senders = {}
  BY DEF Init, Senders
<1>3. GateInv
  BY <1>2, FS_EmptySet DEF Init, GateInv, LocksCounted
<1>4. FlushInv
  BY DEF Init, FlushInv
<1> QED BY <1>1, <1>3, <1>4 DEF Base

\* The steps of a caller.
LEMMA BeginBase == ASSUME Base, NEW c \in Callers, Begin(c) PROVE Base'
<1> USE DEF Base, Begin, Goto, gateVars, flushVars
<1>0. call[c] + 1 \in 1..MaxCalls /\ call' = [call EXCEPT ![c] = @ + 1]
  BY BoundsAssumption DEF TypeOK
<1>1. TypeOK'
  <2>1. call' \in [Callers -> 0..MaxCalls]
    BY <1>0, BoundsAssumption DEF TypeOK
  <2>2. pc' \in [Callers -> {"idle", "lock", "send", "wait"}]
    BY DEF TypeOK
  <2>3. size' \in [Call -> Sizes \cup {0}]
    BY DEF TypeOK
  <2> QED BY <2>1, <2>2, <2>3 DEF TypeOK
<1>2. Senders' = Senders
  <2>1. \A d \in Callers : pc'[d] = "send" <=> pc[d] = "send"
    BY DEF TypeOK
  <2> QED BY <2>1 DEF Senders
<1>3. GateInv'
  BY <1>2 DEF GateInv, LocksCounted
<1>4. \A d \in Callers : pc'[d] # "idle" => call'[d] # 0
  BY <1>0 DEF FlushInv, TypeOK
<1>5. ASSUME NEW d \in Callers, pc'[d] = "wait"
      PROVE result[Current(d)]' # "none" \/ Held(Current(d))'
  <2>1. d # c /\ pc[d] = "wait" /\ Current(d)' = Current(d)
    BY <1>0, <1>5 DEF TypeOK, Current
  <2> QED BY <2>1 DEF FlushInv, Held
<1>6. FlushInv'
  BY <1>4, <1>5 DEF FlushInv
<1> QED BY <1>1, <1>3, <1>6

\* A caller passes the gate, or finds the committer closed.
LEMMA EnterBase == ASSUME Base, NEW c \in Callers, Enter(c) PROVE Base'
<1> USE DEF Base, Enter, Goto, flushVars
<1>1. TypeOK'
  <2>1. readers' \in Nat
    BY DEF TypeOK
  <2>2. pc' \in [Callers -> {"idle", "lock", "send", "wait"}]
    BY DEF TypeOK
  <2> QED BY <2>1, <2>2 DEF TypeOK
<1>2. GateInv'
  <2>1. CASE closed
    <3>1. Senders' = Senders
      BY <2>1 DEF Senders, TypeOK
    <3> QED BY <2>1, <3>1 DEF GateInv, LocksCounted
  <2>2. CASE ~closed
    <3>1. c \notin Senders /\ Senders' = Senders \cup {c}
      BY <2>2 DEF Senders, TypeOK
    <3>2. LocksCounted'
      BY <2>2, <3>1, OneMore DEF GateInv, LocksCounted
    <3> QED BY <2>2, <3>2 DEF GateInv
  <2> QED BY <2>1, <2>2
<1>3. FlushInv'
  <2>1. \A d \in Callers : /\ pc'[d] = "wait" => pc[d] = "wait"
                           /\ pc'[d] # "idle" => pc[d] # "idle"
    BY DEF TypeOK
  <2>2. \A d \in Callers : Current(d)' = Current(d) /\ Held(Current(d))' = Held(Current(d))
    BY DEF Current, Held
  <2> QED BY <2>1, <2>2 DEF FlushInv
<1> QED BY <1>1, <1>2, <1>3

\* The context of a waiting caller ends.
LEMMA CancelBase == ASSUME Base, NEW c \in Callers, Cancel(c) PROVE Base'
<1> USE DEF Base, Cancel, Goto, flushVars
<1>1. LocksCounted' /\ readers' \in Nat /\ Senders' \subseteq Senders
  <2>1. CASE pc[c] = "send"
    <3>1. c \in Senders /\ Senders' = Senders \ {c} /\ readers' = readers - 1
      BY <2>1 DEF Senders, TypeOK, Unlocked
    <3> QED BY <3>1, OneLess DEF GateInv, LocksCounted
  <2>2. CASE pc[c] # "send"
    <3>1. Senders' = Senders /\ readers' = readers
      BY <2>2 DEF Senders, TypeOK, Unlocked
    <3> QED BY <3>1 DEF GateInv, LocksCounted, TypeOK
  <2> QED BY <2>1, <2>2
<1>2. TypeOK'
  BY <1>1 DEF TypeOK
<1>3. GateInv'
  BY <1>1 DEF GateInv
<1>4. FlushInv'
  BY DEF FlushInv, TypeOK, Held, Current
<1> QED BY <1>2, <1>3, <1>4

\* A caller takes its answer.
LEMMA AwaitBase == ASSUME Base, NEW c \in Callers, Await(c) PROVE Base'
<1> USE DEF Base, Await, Goto, gateVars, flushVars
<1>1. TypeOK'
  BY CurrentType DEF TypeOK
<1>2. Senders' = Senders
  BY DEF Senders, TypeOK
<1>3. GateInv'
  BY <1>2 DEF GateInv, LocksCounted
<1>4. FlushInv'
  BY DEF FlushInv, TypeOK, Held, Current
<1> QED BY <1>1, <1>3, <1>4

\* The flusher takes a write: Receive and Coalesce alike.
LEMMA TakeBase ==
  ASSUME Base, NEW c \in Callers, Take(c), lpc \in {"recv", "drain"}
  PROVE Base'
<1> USE DEF Base, Take, Goto, Joined
<1>0. Current(c) \in Call
  BY CurrentType
<1>1. /\ c \in Senders /\ Senders' = Senders \ {c} /\ readers' = readers - 1
  BY DEF Senders, TypeOK
<1>2. LocksCounted' /\ readers' \in Nat
  <2>1. IsFiniteSet(Senders) /\ readers = Cardinality(Senders)
    BY DEF GateInv, LocksCounted
  <2>2. /\ IsFiniteSet(Senders \ {c})
        /\ Cardinality(Senders \ {c}) = Cardinality(Senders) - 1
        /\ Cardinality(Senders) \in Nat \ {0}
    BY <1>1, <2>1, OneLess
  <2> QED BY <1>1, <2>1, <2>2 DEF LocksCounted
<1>3. TypeOK'
  <2>1. ops' \in Nat
    <3>1. size[Current(c)] \in Nat /\ ops \in Nat
      BY <1>0, SizeType DEF TypeOK
    <3> QED BY <3>1
  <2>2. batch' \in Seq(Call)
    BY <1>0 DEF TypeOK
  <2> QED BY <1>2, <2>1, <2>2 DEF TypeOK
<1>4. GateInv'
  BY <1>1, <1>2 DEF GateInv
<1>5. \A b : Held(b) \/ b = Current(c) => Held(b)'
  <2>1. /\ Len(batch') = Len(batch) + 1 /\ batch'[Len(batch) + 1] = Current(c)
        /\ \A i \in 1..Len(batch) : batch'[i] = batch[i]
    BY <1>0 DEF TypeOK
  <2>2. Len(batch) \in Nat
    BY DEF TypeOK
  <2> QED BY <2>1, <2>2 DEF Held
<1>6. batch' # <<>>
  BY <1>0 DEF TypeOK
<1>7. \A d \in Callers : Current(d)' = Current(d)
  BY DEF Current
<1>8. \A d \in Callers : pc'[d] = "wait" => pc[d] = "wait" \/ d = c
  BY DEF TypeOK
<1>9. \A d \in Callers : pc'[d] = "wait" => result[Current(d)]' # "none" \/ Held(Current(d))'
  <2> SUFFICES ASSUME NEW d \in Callers, pc'[d] = "wait"
               PROVE result[Current(d)]' # "none" \/ Held(Current(d))'
    OBVIOUS
  <2>1. Current(d)' = Current(d)
    BY <1>7
  <2>2. result[Current(d)] # "none" \/ Held(Current(d)) \/ Current(d) = Current(c)
    BY <1>8 DEF FlushInv
  <2>3. ASSUME NEW b, b = Current(d), Held(b) \/ b = Current(c) PROVE Held(Current(d))'
    <3>1. Held(b)'
      BY <1>5, <2>3
    <3> QED BY <2>1, <2>3, <3>1 DEF Held
  <2> QED BY <2>1, <2>2, <2>3
<1>10. FlushInv'
  <2>1. \A d \in Callers : pc'[d] # "idle" => call'[d] # 0
    BY DEF FlushInv, TypeOK
  <2>2. lpc' = "drain" /\ \A k \in Closers : kpc'[k] # "returned"
    BY DEF FlushInv
  <2> QED BY <1>6, <1>9, <2>1, <2>2 DEF FlushInv
<1> QED BY <1>3, <1>4, <1>10

\* The steps of the flusher between batches.
LEMMA FlusherBase ==
  ASSUME Base, DrainEnd \/ StoredUnseen \/ Commit \/ Exit PROVE Base'
<1> USE DEF Base, DrainEnd, StoredUnseen, Commit, Exit, callVars, gateVars
<1>1. TypeOK'
  <2>1. CASE Commit
    <3>1. log' \in Seq(Seq(Call))
      BY <2>1 DEF TypeOK
    <3>2. err' \in BOOLEAN
      BY <2>1, OutcomesType
    <3> QED BY <2>1, <3>1, <3>2 DEF TypeOK
  <2>2. CASE DrainEnd \/ Exit
    BY <2>2 DEF TypeOK
  <2>3. CASE StoredUnseen
    <3>1. log' \in Seq(Seq(Call))
      BY <2>3 DEF TypeOK
    <3>2. resent' \in 0..MaxResends
      BY <2>3, MaxResendsAssumption DEF TypeOK
    <3> QED BY <2>3, <3>1, <3>2 DEF TypeOK
  <2> QED BY <2>1, <2>2, <2>3
<1>2. Senders' = Senders
  BY DEF Senders
<1>3. GateInv'
  BY <1>2 DEF GateInv, LocksCounted
<1>4. FlushInv'
  <2>1. /\ \A b : Held(b)' <=> Held(b)
        /\ \A c \in Callers : Current(c)' = Current(c)
    BY DEF Held, Current
  <2>2. /\ lpc' \in {"recv", "exited"} <=> batch' = <<>>
        /\ lpc' = "exited" => closed'
        /\ \A k \in Closers : kpc'[k] = "returned" => lpc' = "exited"
    BY DEF FlushInv
  <2>3. /\ \A c \in Callers : pc'[c] # "idle" => call'[c] # 0
        /\ result' = result /\ pc' = pc
    BY DEF FlushInv
  <2> QED BY <2>1, <2>2, <2>3 DEF FlushInv, Held
<1> QED BY <1>1, <1>3, <1>4

\* One answer: whoever waits for it leaves the batch.
LEMMA ReplyBase == ASSUME Base, Reply PROVE Base'
<1> USE DEF Base, Reply, Unanswered, callVars, gateVars
<1>0. /\ batch # <<>> /\ batch \in Seq(Call) /\ batch' = Tail(batch)
      /\ lpc' \in {"reply", "recv"} /\ (lpc' = "recv" <=> batch' = <<>>)
  BY DEF FlushInv, TypeOK
<1>1. /\ Len(batch) \in Nat \ {0} /\ Head(batch) = batch[1] /\ Head(batch) \in Call
      /\ Len(batch') = Len(batch) - 1 /\ batch' \in Seq(Call)
      /\ \A i \in 1..Len(batch) : i # 1 => batch'[i-1] = batch[i]
  BY <1>0
<1>2. TypeOK'
  <2>1. result' \in [Call -> {"none", "nil", "error"}]
    BY <1>1 DEF TypeOK
  <2>2. ops' \in Nat
    BY DEF TypeOK
  <2>3. err' \in BOOLEAN
    <3>1. CASE err' = err
      BY <3>1 DEF TypeOK
    <3> QED BY <3>1
  <2> QED BY <1>0, <1>1, <2>1, <2>2, <2>3 DEF TypeOK
<1>3. Senders' = Senders
  BY DEF Senders
<1>4. GateInv'
  BY <1>3 DEF GateInv, LocksCounted
<1>5. ASSUME NEW b \in Call, result[b] # "none" \/ Held(b)
      PROVE result'[b] # "none" \/ Held(b)'
  <2>1. CASE b = Head(batch)
    BY <1>1, <2>1 DEF TypeOK
  <2>2. CASE b # Head(batch) /\ result[b] # "none"
    BY <1>1, <2>2 DEF TypeOK
  <2>3. CASE b # Head(batch) /\ Held(b)
    <3>1. PICK i \in 1..Len(batch) : batch[i] = b
      BY <2>3 DEF Held
    <3>2. i # 1 /\ i-1 \in 1..Len(batch') /\ batch'[i-1] = b
      BY <1>1, <2>3, <3>1
    <3> QED BY <3>2 DEF Held
  <2> QED BY <1>5, <2>1, <2>2, <2>3
<1>6. ASSUME NEW d \in Callers, pc'[d] = "wait"
      PROVE result[Current(d)]' # "none" \/ Held(Current(d))'
  <2>1. ASSUME NEW b, b = Current(d) PROVE result'[b] # "none" \/ Held(b)'
    <3>1. b \in Call /\ (result[b] # "none" \/ Held(b))
      BY <1>6, <2>1, CurrentType DEF FlushInv
    <3> QED BY <3>1, <1>5
  <2>2. Current(d)' = Current(d)
    BY DEF Current
  <2> QED BY <2>1, <2>2 DEF Held
<1>7. FlushInv'
  BY <1>0, <1>6 DEF FlushInv
<1> QED BY <1>2, <1>4, <1>7

\* The steps of a Close.
LEMMA CloserBase == ASSUME Base, NEW k \in Closers, Closer(k) PROVE Base'
<1> USE DEF Base, Closer, CloseFirst, CloseInbox, CloseAgain, CloseReturn, Advance,
            callVars, flushVars
<1>1. TypeOK'
  BY DEF TypeOK
<1>2. Senders' = Senders
  BY DEF Senders
<1>3. closed' => Senders = {}
  <2>1. CASE CloseInbox(k)
    BY <2>1, FS_EmptySet DEF GateInv, LocksCounted, LockFree
  <2>2. CASE ~CloseInbox(k)
    BY <2>2 DEF GateInv
  <2> QED BY <2>1, <2>2
<1>4. GateInv'
  BY <1>2, <1>3 DEF GateInv, LocksCounted, TypeOK
<1>5. FlushInv'
  <2>1. /\ \A b : Held(b)' <=> Held(b)
        /\ \A c \in Callers : Current(c)' = Current(c)
    BY DEF Held, Current
  <2>2. /\ lpc' = "exited" => closed'
        /\ \A j \in Closers : kpc'[j] = "returned" => lpc' = "exited"
    BY DEF FlushInv, TypeOK
  <2>3. lpc' = lpc /\ batch' = batch /\ pc' = pc /\ call' = call /\ result' = result
    OBVIOUS
  <2> QED BY <2>1, <2>2, <2>3 DEF FlushInv, Held
<1> QED BY <1>1, <1>4, <1>5

\* Every step keeps the base invariant.
LEMMA BaseStep == Base /\ [Next]_vars => Base'
<1> SUFFICES ASSUME Base, [Next]_vars PROVE Base'
  OBVIOUS
<1>1. CASE Flusher
  <2>1. ASSUME NEW c \in Callers, Receive(c) \/ Coalesce(c) PROVE Base'
    BY <2>1, TakeBase DEF Receive, Coalesce
  <2> QED BY <1>1, <2>1, FlusherBase, ReplyBase DEF Flusher
<1>2. ASSUME NEW c \in Callers, Begin(c) \/ Caller(c) \/ Cancel(c) PROVE Base'
  BY <1>2, BeginBase, EnterBase, AwaitBase, CancelBase DEF Caller
<1>3. ASSUME NEW k \in Closers, Closer(k) PROVE Base'
  BY <1>3, CloserBase
<1>4. CASE UNCHANGED vars
  <2>1. Senders' = Senders
    BY <1>4 DEF Senders, vars, callVars
  <2> QED BY <1>4, <2>1 DEF Base, TypeOK, GateInv, LocksCounted, FlushInv, Held,
                            Current, vars, callVars, gateVars, flushVars
<1>5. CASE StoredUnseen
  BY <1>5, FlusherBase
<1> QED BY <1>1, <1>2, <1>3, <1>4, <1>5 DEF Next

\* The base invariant, in every behaviour.
LEMMA BaseAlways == Spec => []Base
  BY BaseInit, BaseStep, PTL DEF Spec

\* A read lock is never released twice, and every variable keeps its type.
THEOREM TypeCorrect == Spec => []TypeOK
<1>1. Base => TypeOK
  BY DEF Base
<1> QED BY <1>1, BaseAlways, PTL

(***************************************************************************)
(* Upsert and Close: no write is sent on the inbox once it is closed.      *)
(***************************************************************************)
THEOREM NoPanic == Spec => []NoSendOnClosed
<1>1. Base => NoSendOnClosed
  BY DEF Base, GateInv, Senders, NoSendOnClosed
<1> QED BY <1>1, BaseAlways, PTL

(***************************************************************************)
(* Close: when it has returned, every caller that waits has its answer.    *)
(***************************************************************************)
THEOREM ShutdownDrains == Spec => []CloseDrains
<1>1. Base => CloseDrains
  BY DEF Base, FlushInv, TypeOK, Held, CloseDrains
<1> QED BY <1>1, BaseAlways, PTL
-----------------------------------------------------------------------------
(***************************************************************************)
(* Order: the log read write by write, and the batch behind it.            *)
(***************************************************************************)
Flat == FlattenSeq(log)

\* Of the writes of one caller, a was made before b.
Before(a, b) == a[1] = b[1] => a[2] < b[2]

Unsent == {"lock", "send"}

\* b has been started, and taken from its caller when it is the last one.
Sent(b) ==
  /\ b[2] <= call[b[1]]
  /\ pc[b[1]] \in Unsent => b[2] # call[b[1]]

FlatOrdered ==
  \A i, j \in 1..Len(Flat) :
     i < j => \/ Before(Flat[i], Flat[j])
              \/ resent > 0 /\ \E k \in 1..Len(Flat) : k >= j /\ Flat[k] = Flat[i]
BatchOrdered == \A i, j \in 1..Len(batch) : i < j => Before(batch[i], batch[j])
BatchIsNewer ==
  lpc \in {"drain", "commit"} =>
     \A i \in 1..Len(Flat), j \in 1..Len(batch) :
        \/ Before(Flat[i], batch[j])
        \/ resent > 0 /\ lpc = "commit" /\ Held(Flat[i])

OrderInv ==
  /\ \A i \in 1..Len(Flat) : Sent(Flat[i])
  /\ \A i \in 1..Len(batch) : Sent(batch[i])
  /\ FlatOrdered /\ BatchOrdered /\ BatchIsNewer

\* The log of writes is a sequence of calls.
LEMMA FlatType == TypeOK => Flat \in Seq(Call)
  BY FlattenType DEF TypeOK, Flat

\* The batch goes to the end of the log of writes, for good or to be sent
\* again; or the commit fails and it does not.
LEMMA CommitFlat ==
  ASSUME Base, StoredUnseen \/ Commit
  PROVE \/ Flat' = Flat \o batch /\ log' = Append(log, batch)
        \/ Commit /\ Flat' = Flat /\ log' = log /\ err' = TRUE
<1>1. CASE log' = Append(log, batch)
  <2>1. FlattenSeq(Append(log, batch)) = FlattenSeq(log) \o batch
    BY FlattenAppend DEF Base, TypeOK
  <2> QED BY <1>1, <2>1 DEF Flat
<1>2. CASE Commit
  <2>1. PICK o \in Outcomes : /\ log' = IF o.stored THEN Append(log, batch) ELSE log
                              /\ err' = o.err
    BY <1>2 DEF Commit
  <2>2. CASE ~o.stored
    BY <1>2, <2>1, <2>2, OutcomesType DEF Flat
  <2> QED BY <1>1, <2>1, <2>2
<1> QED BY <1>1, <1>2 DEF StoredUnseen

\* A caller takes no write back: it moves on to a new one or away from this.
LEMMA CallersMoveOn ==
  ASSUME Base, [Next]_vars, NEW c \in Callers
  PROVE \/ call'[c] = call[c] /\ (pc'[c] \in Unsent => pc[c] \in Unsent)
        \/ call'[c] = call[c] + 1
<1> USE DEF Goto, gateVars, flushVars, callVars
<1>1. CASE Flusher
  <2>1. ASSUME NEW d \in Callers, Take(d)
        PROVE call'[c] = call[c] /\ (pc'[c] \in Unsent => pc[c] \in Unsent)
    BY <2>1 DEF Take, Base, TypeOK, Unsent
  <2>2. CASE DrainEnd \/ Commit \/ Reply \/ Exit
    BY <2>2 DEF DrainEnd, Commit, Reply, Exit
  <2> QED BY <1>1, <2>1, <2>2 DEF Flusher, Receive, Coalesce
<1>2. ASSUME NEW d \in Callers, Begin(d) PROVE call'[c] = call[c] + 1 \/ (call'[c] = call[c] /\ pc'[c] = pc[c])
  BY <1>2 DEF Begin, Base, TypeOK
<1>3. ASSUME NEW d \in Callers, Caller(d) \/ Cancel(d)
      PROVE call'[c] = call[c] /\ (pc'[c] \in Unsent => pc[c] \in Unsent)
  BY <1>3 DEF Caller, Enter, Await, Cancel, Base, TypeOK, Unsent
<1>4. ASSUME NEW k \in Closers, Closer(k) PROVE call' = call /\ pc' = pc
  BY <1>4 DEF Closer, CloseFirst, CloseInbox, CloseAgain, CloseReturn
<1>5. CASE UNCHANGED vars
  BY <1>5 DEF vars
<1>6. CASE StoredUnseen
  BY <1>6 DEF StoredUnseen
<1> QED BY <1>1, <1>2, <1>3, <1>4, <1>5, <1>6 DEF Next

\* What has been sent stays so.
LEMMA SentStays ==
  ASSUME Base, [Next]_vars, NEW b \in Call, Sent(b)
  PROVE Sent(b)'
<1>1. b[1] \in Callers /\ b[2] \in Nat
  BY BoundsAssumption DEF Call
<1>2. call[b[1]] \in Nat
  BY <1>1, BoundsAssumption DEF Base, TypeOK
<1> QED BY <1>1, <1>2, CallersMoveOn DEF Sent, Unsent

\* The log, the channel and the batch are empty.
LEMMA OrderInit == Init => OrderInv
<1> SUFFICES ASSUME Init PROVE OrderInv
  OBVIOUS
<1>1. batch = <<>> /\ Flat = <<>>
  BY FlattenEmpty DEF Init, Flat
<1> QED BY <1>1 DEF OrderInv, FlatOrdered, BatchOrdered, BatchIsNewer

\* The write taken is newer than those of its caller in the batch and the log.
LEMMA TakeOrder ==
  ASSUME Base, OrderInv, [Next]_vars, NEW c \in Callers, Take(c),
         lpc \in {"recv", "drain"}
  PROVE OrderInv'
<1> DEFINE b == Current(c)
           n == Len(batch)
<1>1. b \in Call /\ b[1] = c /\ b[2] = call[c] /\ pc[c] = "send" /\ pc'[c] = "wait"
      /\ call' = call
  <2>1. pc[c] = "send" /\ pc'[c] = "wait"
    BY DEF Take, Goto, Base, TypeOK
  <2> QED BY <2>1, CurrentType DEF Base, Current, Take
<1>2. n \in Nat /\ Len(batch') = n+1 /\ batch'[n+1] = b /\ batch' \in Seq(Call)
      /\ \A i \in 1..n : batch'[i] = batch[i] /\ batch[i] \in Call
  BY <1>1 DEF Take, Joined, Base, TypeOK
<1>3. Flat' = Flat /\ Len(Flat) \in Nat /\ \A i \in 1..Len(Flat) : Flat[i] \in Call
  BY FlatType DEF Take, Flat, Base
<1> HIDE DEF b, n
<1>4. ASSUME NEW a \in Call, Sent(a) PROVE Before(a, b)
  <2>1. a[1] \in Callers /\ a[2] \in Nat /\ call[c] \in Nat
    BY BoundsAssumption DEF Call, Base, TypeOK
  <2> QED BY <1>1, <1>4, <2>1 DEF Sent, Before, Unsent
<1>5. \A i \in 1..Len(Flat') : Sent(Flat[i])'
  BY <1>3, SentStays DEF OrderInv
<1>6. \A i \in 1..Len(batch') : Sent(batch[i])'
  <2>1. ASSUME NEW a \in Call, Sent(a) \/ a = b PROVE Sent(a)'
    <3>1. CASE a = b
      <4>1. call[c] \in Nat
        BY BoundsAssumption DEF Base, TypeOK
      <4> QED BY <1>1, <3>1, <4>1 DEF Sent, Unsent
    <3> QED BY <2>1, <3>1, SentStays
  <2>2. ASSUME NEW i \in 1..Len(batch') PROVE Sent(batch'[i]) \/ batch'[i] = b
    BY <1>2 DEF OrderInv, n
  <2> QED BY <1>1, <1>2, <2>1, <2>2
<1>7. FlatOrdered'
  <2>1. resent' = resent
    BY DEF Take
  <2> QED BY <1>3, <2>1 DEF OrderInv, FlatOrdered, Before
<1>8. BatchOrdered'
  <2> SUFFICES ASSUME NEW i \in 1..Len(batch'), NEW j \in 1..Len(batch'), i < j
               PROVE Before(batch'[i], batch'[j])
    BY DEF BatchOrdered, Before
  <2>1. i \in 1..n /\ batch'[i] = batch[i]
    BY <1>2
  <2>2. CASE j = n+1
    BY <1>2, <1>4, <2>1, <2>2 DEF OrderInv, n
  <2>3. CASE j # n+1
    <3>1. j \in 1..n /\ batch'[j] = batch[j]
      BY <1>2, <2>3
    <3> QED BY <2>1, <3>1 DEF OrderInv, BatchOrdered, n
  <2> QED BY <2>2, <2>3
<1>9. BatchIsNewer'
  <2> SUFFICES ASSUME NEW i \in 1..Len(Flat), NEW j \in 1..n+1
               PROVE Before(Flat[i], batch'[j])
    BY <1>2, <1>3 DEF BatchIsNewer, Before
  <2>1. CASE j = n+1
    BY <1>2, <1>3, <1>4, <2>1 DEF OrderInv
  <2>2. CASE j # n+1
    <3>1. j \in 1..n /\ batch'[j] = batch[j] /\ batch # <<>>
      BY <1>2, <2>2 DEF n
    <3>2. lpc = "drain"
      BY <3>1 DEF Base, FlushInv
    <3> QED BY <3>1, <3>2 DEF OrderInv, BatchIsNewer, n
  <2> QED BY <2>1, <2>2
<1> QED BY <1>5, <1>6, <1>7, <1>8, <1>9 DEF OrderInv

\* The batch goes behind the log as it is, the first time or again.
LEMMA CommitOrder ==
  ASSUME Base, OrderInv, [Next]_vars, StoredUnseen \/ Commit
  PROVE OrderInv'
<1> DEFINE m == Len(Flat)
           n == Len(batch)
<1>1. Flat \in Seq(Call) /\ batch \in Seq(Call) /\ resent \in Nat
  BY FlatType, MaxResendsAssumption DEF Base, TypeOK
<1>2. /\ batch' = batch /\ lpc = "commit"
      /\ \/ lpc' = "reply" /\ resent' = resent
         \/ lpc' = "commit" /\ resent' = resent + 1
  BY DEF StoredUnseen, Commit
<1>3. m \in Nat /\ n \in Nat
  BY <1>1
<1>4. \A i \in 1..n : Sent(batch[i])'
  <2>1. \A i \in 1..n : \A a : a = batch[i] => Sent(a)'
    BY <1>1, SentStays DEF OrderInv
  <2> QED BY <1>2, <2>1 DEF Sent
<1>5. BatchOrdered'
  BY <1>2 DEF OrderInv, BatchOrdered, Before
<1>6. CASE Flat' = Flat /\ Commit
  <2>1. lpc' = "reply" /\ resent' = resent
    BY <1>6 DEF Commit
  <2>2. FlatOrdered' /\ BatchIsNewer'
    BY <1>6, <2>1 DEF OrderInv, FlatOrdered, BatchIsNewer, Before
  <2>3. \A i \in 1..Len(Flat) : Sent(Flat[i])'
    BY <1>1, <1>6, SentStays DEF OrderInv
  <2> QED BY <1>2, <1>4, <1>5, <1>6, <2>2, <2>3 DEF OrderInv
<1>7. CASE Flat' = Flat \o batch
  <2>1. /\ Len(Flat') = m + n
        /\ \A i \in 1..m : Flat'[i] = Flat[i]
        /\ \A i \in 1..m + n : i \notin 1..m => i - m \in 1..n /\ Flat'[i] = batch[i - m]
        /\ \A i \in 1..n : m + i \in 1..m + n /\ Flat'[m + i] = batch[i]
    BY <1>1, <1>7, ConcatParts
  <2> HIDE DEF m, n
  <2>2. \A i \in 1..Len(Flat') : Sent(Flat[i])'
    <3> SUFFICES ASSUME NEW i \in 1..Len(Flat') PROVE Sent(Flat[i])'
      OBVIOUS
    <3>1. ASSUME NEW a \in Call, Sent(a), a = Flat'[i] PROVE Sent(Flat[i])'
      <4>1. Sent(a)'
        BY <3>1, SentStays
      <4> QED BY <3>1, <4>1 DEF Sent
    <3>2. CASE i \in 1..m
      BY <1>1, <2>1, <3>1, <3>2 DEF OrderInv, m
    <3>3. CASE i \notin 1..m
      BY <1>1, <2>1, <3>1, <3>3 DEF OrderInv, n
    <3> QED BY <3>2, <3>3
  <2>3. FlatOrdered'
    <3> SUFFICES ASSUME NEW i \in 1..m+n, NEW j \in 1..m+n, i < j
                 PROVE \/ Before(Flat'[i], Flat'[j])
                       \/ resent' > 0 /\ \E k \in 1..m+n : k >= j /\ Flat'[k] = Flat'[i]
      BY <2>1 DEF FlatOrdered, Before
    <3>1. CASE j \in 1..m
      <4>1. i \in 1..m
        BY <1>3, <3>1
      <4>2. \/ Before(Flat[i], Flat[j])
            \/ resent > 0 /\ \E k \in 1..m : k >= j /\ Flat[k] = Flat[i]
        BY <3>1, <4>1 DEF OrderInv, FlatOrdered, m
      <4>3. ASSUME resent > 0, NEW k \in 1..m, k >= j, Flat[k] = Flat[i]
            PROVE resent' > 0 /\ k \in 1..m+n /\ Flat'[k] = Flat'[i]
        BY <1>1, <1>2, <1>3, <2>1, <4>1, <4>3
      <4> QED BY <2>1, <3>1, <4>1, <4>2, <4>3
    <3>2. CASE i \in 1..m /\ j \notin 1..m
      <4>1. j - m \in 1..n /\ Flat'[j] = batch[j - m] /\ Flat'[i] = Flat[i]
        BY <2>1, <3>2
      <4>2. Before(Flat[i], batch[j - m]) \/ (resent > 0 /\ Held(Flat[i]))
        BY <1>2, <3>2, <4>1 DEF OrderInv, BatchIsNewer, m, n
      <4>3. ASSUME resent > 0, NEW k \in 1..n, batch[k] = Flat[i]
            PROVE \/ Before(Flat[i], batch[j - m])
                  \/ resent' > 0 /\ \E l \in 1..m+n : l >= j /\ Flat'[l] = Flat[i]
        <5>1. CASE k < j - m
          BY <4>1, <4>3, <5>1 DEF OrderInv, BatchOrdered, n
        <5>2. CASE ~(k < j - m)
          <6>1. m + k \in 1..m+n /\ m + k >= j /\ Flat'[m + k] = Flat[i]
            BY <1>3, <2>1, <4>1, <4>3, <5>2
          <6>2. resent' > 0
            BY <1>1, <1>2, <4>3
          <6> QED BY <6>1, <6>2
        <5> QED BY <5>1, <5>2
      <4> QED BY <4>1, <4>2, <4>3 DEF Held, n
    <3>3. CASE i \notin 1..m /\ j \notin 1..m
      <4>1. i - m \in 1..n /\ j - m \in 1..n /\ i - m < j - m
        BY <1>3, <2>1, <3>3
      <4> QED BY <2>1, <3>3, <4>1 DEF OrderInv, BatchOrdered, n
    <3>4. CASE i \notin 1..m /\ j \in 1..m
      BY <1>3, <3>4
    <3> QED BY <3>1, <3>2, <3>3, <3>4
  <2>4. BatchIsNewer'
    <3> SUFFICES ASSUME lpc' = "commit", NEW i \in 1..m+n, NEW j \in 1..n
                 PROVE Before(Flat'[i], batch[j]) \/ Held(Flat'[i])
      BY <1>1, <1>2, <2>1 DEF BatchIsNewer, Before, Held, n
    <3>1. CASE i \in 1..m
      BY <1>2, <2>1, <3>1 DEF OrderInv, BatchIsNewer, m, n
    <3>2. CASE i \notin 1..m
      BY <2>1, <3>2 DEF Held, n
    <3> QED BY <3>1, <3>2
  <2> QED BY <1>2, <1>4, <1>5, <2>2, <2>3, <2>4 DEF OrderInv, n
<1> QED BY <1>6, <1>7, CommitFlat

\* The rest of the batch is as ordered as the batch.
LEMMA ReplyOrder ==
  ASSUME Base, OrderInv, [Next]_vars, Reply
  PROVE OrderInv'
<1>1. /\ Flat \in Seq(Call) /\ batch \in Seq(Call) /\ batch # <<>> /\ lpc = "reply"
      /\ Flat' = Flat /\ batch' = Tail(batch) /\ lpc' \in {"reply", "recv"}
  BY FlatType DEF Base, TypeOK, FlushInv, Reply, Unanswered, Flat
<1>2. /\ Len(batch) \in Nat \ {0} /\ Len(batch') = Len(batch) - 1
      /\ \A i \in 1..Len(batch') : i + 1 \in 1..Len(batch) /\ batch'[i] = batch[i + 1]
  BY <1>1
<1>3. \A i \in 1..Len(Flat) : Sent(Flat[i])'
  BY <1>1, SentStays DEF OrderInv
<1>4. \A i \in 1..Len(batch) : \A a : a = batch[i] => Sent(a)'
  BY <1>1, SentStays DEF OrderInv
<1>5. \A i \in 1..Len(batch') : Sent(batch[i])'
  BY <1>2, <1>4 DEF Sent
<1>6. BatchOrdered'
  <2> SUFFICES ASSUME NEW i \in 1..Len(batch'), NEW j \in 1..Len(batch'), i < j
               PROVE Before(batch'[i], batch'[j])
    BY DEF BatchOrdered, Before
  <2>1. i + 1 \in 1..Len(batch) /\ j + 1 \in 1..Len(batch) /\ i + 1 < j + 1
    BY <1>2
  <2> QED BY <1>2, <2>1 DEF OrderInv, BatchOrdered
<1>7. FlatOrdered'
  <2>1. resent' = resent
    BY DEF Reply
  <2> QED BY <1>1, <2>1 DEF OrderInv, FlatOrdered, Before
<1>8. BatchIsNewer'
  BY <1>1 DEF BatchIsNewer
<1> QED BY <1>1, <1>3, <1>5, <1>6, <1>7, <1>8 DEF OrderInv

\* No other step touches the batch or the log.
LEMMA OtherOrder ==
  ASSUME Base, OrderInv, [Next]_vars, log' = log, batch' = batch,
         resent' = resent,
         lpc' \in {"drain", "commit"} => lpc = "drain" \/ lpc = lpc'
  PROVE OrderInv'
<1>1. Flat \in Seq(Call) /\ batch \in Seq(Call) /\ Flat' = Flat
  BY FlatType DEF Base, TypeOK, Flat
<1>2. \A i \in 1..Len(Flat) : Sent(Flat[i])'
  BY <1>1, SentStays DEF OrderInv
<1>3. \A i \in 1..Len(batch) : Sent(batch[i])'
  BY <1>1, SentStays DEF OrderInv
<1>4. FlatOrdered' /\ BatchOrdered'
  BY <1>1 DEF OrderInv, FlatOrdered, BatchOrdered, Before
<1>5. BatchIsNewer'
  BY <1>1 DEF OrderInv, BatchIsNewer, Before, Held
<1> QED BY <1>1, <1>2, <1>3, <1>4, <1>5 DEF OrderInv

\* Which steps touch the batch, the log or the state of the flusher.
LEMMA StepKinds ==
  ASSUME [Next]_vars
  PROVE \/ \E c \in Callers : Take(c) /\ lpc \in {"recv", "drain"} /\ (lpc = "drain" => HasRoom)
        \/ StoredUnseen \/ Commit
        \/ Reply
        \/ /\ log' = log /\ batch' = batch /\ result' = result /\ ops' = ops /\ err' = err
           /\ resent' = resent
           /\ \/ lpc' = lpc
              \/ lpc = "drain" /\ lpc' = "commit"
              \/ lpc = "recv" /\ lpc' = "exited"
<1> USE DEF gateVars, flushVars, callVars
<1>1. CASE Flusher
  BY <1>1 DEF Flusher, Receive, Coalesce, DrainEnd, Exit
<1>2. ASSUME NEW c \in Callers, Begin(c) \/ Caller(c) \/ Cancel(c) PROVE UNCHANGED flushVars
  BY <1>2 DEF Begin, Caller, Enter, Await, Cancel
<1>3. ASSUME NEW k \in Closers, Closer(k) PROVE UNCHANGED flushVars
  BY <1>3 DEF Closer, CloseFirst, CloseInbox, CloseAgain, CloseReturn
<1>4. CASE UNCHANGED vars
  BY <1>4 DEF vars
<1> QED BY <1>1, <1>2, <1>3, <1>4 DEF Next

\* Every step keeps the order.
LEMMA OrderStep == Base /\ OrderInv /\ [Next]_vars => OrderInv'
<1> SUFFICES ASSUME Base, OrderInv, [Next]_vars PROVE OrderInv'
  OBVIOUS
<1> QED BY StepKinds, TakeOrder, CommitOrder, ReplyOrder, OtherOrder

\* Base and order, in every behaviour.
LEMMA OrderAlways == Spec => [](Base /\ OrderInv)
  BY BaseInit, BaseStep, OrderInit, OrderStep, PTL DEF Spec

(***************************************************************************)
(* Upsert: the writes of one goroutine reach the log in the order it made  *)
(* them, each at most once, whichever of them it gave up on; where an      *)
(* append sent again repeats some, the newer still comes last.             *)
(***************************************************************************)
THEOREM OwnOrder == Spec => []OrderKept
<1>1. Base /\ OrderInv => OrderKept
  <2> SUFFICES ASSUME Base, OrderInv PROVE OrderKept
    OBVIOUS
  <2>1. Flat \in Seq(Call) /\ DOMAIN Flat = 1..Len(Flat)
    BY FlatType DEF Base
  <2> QED BY <2>1 DEF OrderInv, FlatOrdered, Before, Flat, OrderKept
<1> QED BY <1>1, OrderAlways, PTL
-----------------------------------------------------------------------------
(***************************************************************************)
(* Acknowledgement: an answer of nil is for a write in the log.            *)
(***************************************************************************)
InLog(b) == \E i \in 1..Len(Flat) : Flat[i] = b

AckInv ==
  /\ lpc = "reply" /\ ~err => \A i \in 1..Len(batch) : InLog(batch[i])
  /\ \A b \in Call : result[b] = "nil" => InLog(b)

\* The log only grows.
LEMMA LogGrows ==
  ASSUME Base, [Next]_vars
  PROVE /\ \A b : InLog(b) => InLog(b)'
        /\ Commit /\ err' # TRUE => \A i \in 1..Len(batch) : InLog(batch[i])'
<1>1. Flat \in Seq(Call) /\ batch \in Seq(Call)
  BY FlatType DEF Base, TypeOK
<1>2. CASE log' = log /\ ~Commit
  BY <1>2 DEF InLog, Flat
<1>3. CASE Flat' = Flat /\ err' = TRUE
  BY <1>3 DEF InLog
<1>4. CASE (StoredUnseen \/ Commit) /\ Flat' = Flat \o batch
  <2>1. /\ Len(Flat') = Len(Flat) + Len(batch) /\ Len(Flat) \in Nat /\ Len(batch) \in Nat
        /\ \A i \in 1..Len(Flat) : Flat'[i] = Flat[i]
        /\ \A i \in 1..Len(batch) : Flat'[Len(Flat) + i] = batch[i]
    BY <1>1, <1>4, ConcatParts
  <2>2. ASSUME NEW b, InLog(b) PROVE InLog(b)'
    BY <2>1, <2>2 DEF InLog
  <2>3. ASSUME NEW i \in 1..Len(batch) PROVE InLog(batch[i])'
    <3>1. Len(Flat) + i \in 1..Len(Flat') /\ batch' = batch
      BY <1>4, <2>1 DEF StoredUnseen, Commit
    <3> QED BY <2>1, <3>1 DEF InLog
  <2> QED BY <2>2, <2>3
<1>5. ASSUME NEW c \in Callers, Take(c) PROVE log' = log /\ ~Commit
  BY <1>5 DEF Take, Commit
<1> QED BY <1>2, <1>3, <1>4, <1>5, StepKinds, CommitFlat DEF Reply, Commit

\* No one has been answered.
LEMMA AckInit == Init => AckInv
  BY DEF Init, AckInv

\* Every step keeps the answers true to the log.
LEMMA AckStep == Base /\ AckInv /\ [Next]_vars => AckInv'
<1> SUFFICES ASSUME Base, AckInv, [Next]_vars PROVE AckInv'
  OBVIOUS
<1>1. ASSUME NEW c \in Callers, Take(c) PROVE AckInv'
  <2>1. lpc' = "drain" /\ result' = result
    BY <1>1 DEF Take
  <2> QED BY <2>1, LogGrows DEF AckInv
<1>2. CASE Commit
  <2>1. lpc' = "reply" /\ result' = result /\ batch' = batch
    BY <1>2 DEF Commit
  <2>2. lpc' = "reply" /\ ~err' => \A i \in 1..Len(batch) : InLog(batch[i])'
    BY <1>2, LogGrows
  <2> QED BY <2>1, <2>2, LogGrows DEF AckInv, InLog
<1>3. CASE Reply
  <2>1. /\ batch # <<>> /\ batch \in Seq(Call) /\ batch' = Tail(batch) /\ lpc = "reply"
        /\ result' = [result EXCEPT ![Head(batch)] = IF err THEN "error" ELSE "nil"]
        /\ lpc' = "reply" => err' = err
    BY <1>3 DEF Reply, Unanswered, Base, TypeOK, FlushInv
  <2>2. /\ Head(batch) = batch[1] /\ 1 \in 1..Len(batch)
        /\ \A i \in 1..Len(batch') : i + 1 \in 1..Len(batch) /\ batch'[i] = batch[i + 1]
    BY <2>1
  <2>3. \A b \in Call : result'[b] = "nil" => InLog(b)
    <3> SUFFICES ASSUME NEW b \in Call, result'[b] = "nil" PROVE InLog(b)
      OBVIOUS
    <3>1. CASE b = Head(batch)
      <4>1. ~err
        BY <2>1, <3>1 DEF Base, TypeOK
      <4> QED BY <2>1, <2>2, <3>1, <4>1 DEF AckInv
    <3>2. CASE b # Head(batch)
      BY <2>1, <3>2 DEF Base, TypeOK, AckInv
    <3> QED BY <3>1, <3>2
  <2>4. lpc' = "reply" /\ ~err' => \A i \in 1..Len(batch') : InLog(batch[i])'
    <3> SUFFICES ASSUME lpc' = "reply", ~err', NEW i \in 1..Len(batch') PROVE InLog(batch[i])'
      OBVIOUS
    <3>1. ASSUME NEW b, b = batch'[i] PROVE InLog(b)'
      <4>1. ~err /\ i + 1 \in 1..Len(batch) /\ b = batch[i + 1]
        BY <2>1, <2>2, <3>1
      <4>2. InLog(b)
        BY <2>1, <4>1 DEF AckInv
      <4> QED BY <4>2, LogGrows
    <3> QED BY <3>1 DEF InLog
  <2> QED BY <2>3, <2>4, LogGrows DEF AckInv
<1>4. CASE /\ log' = log /\ batch' = batch /\ result' = result /\ err' = err
           /\ lpc' = "reply" => lpc = "reply"
  BY <1>4 DEF AckInv, InLog, Flat
<1>5. CASE StoredUnseen
  <2>1. lpc' = "commit" /\ result' = result
    BY <1>5 DEF StoredUnseen
  <2> QED BY <2>1, LogGrows DEF AckInv
<1> QED BY <1>1, <1>2, <1>3, <1>4, <1>5, StepKinds

\* Nobody is told anything before its batch is committed, and only once.
Untold ==
  /\ \A b \in Call : ~Sent(b) => result[b] = "none"
  /\ \A i \in 1..Len(batch) : result[batch[i]] = "none"
  /\ \A b \in acked : result[b] = "nil"

\* Nobody has been told anything.
LEMMA UntoldInit == Init => Untold
  BY DEF Init, Untold

\* Only a caller that is told nil is acknowledged.
LEMMA AckedStep ==
  ASSUME [Next]_vars
  PROVE \/ acked' = acked
        \/ \E c \in Callers : /\ Await(c) /\ result' = result /\ result[Current(c)] = "nil"
                               /\ acked' = acked \cup {Current(c)}
<1> USE DEF gateVars, flushVars, callVars
<1>1. CASE Flusher \/ StoredUnseen
  BY <1>1 DEF Flusher, Receive, Coalesce, Take, DrainEnd, StoredUnseen, Commit, Reply, Exit
<1>2. ASSUME NEW c \in Callers, Begin(c) \/ Enter(c) \/ Cancel(c) PROVE acked' = acked
  BY <1>2 DEF Begin, Enter, Cancel
<1>3. ASSUME NEW c \in Callers, Await(c)
      PROVE acked' = acked \/ /\ result' = result /\ result[Current(c)] = "nil"
                              /\ acked' = acked \cup {Current(c)}
  BY <1>3 DEF Await
<1>4. ASSUME NEW k \in Closers, Closer(k) PROVE acked' = acked
  BY <1>4 DEF Closer, CloseFirst, CloseInbox, CloseAgain, CloseReturn
<1>5. CASE UNCHANGED vars
  BY <1>5 DEF vars
<1> QED BY <1>1, <1>2, <1>3, <1>4, <1>5 DEF Next, Caller

\* Every step keeps the members of the batch untold.
LEMMA UntoldStep == Base /\ OrderInv /\ Untold /\ [Next]_vars => Untold'
<1> SUFFICES ASSUME Base, OrderInv, Untold, [Next]_vars PROVE Untold'
  OBVIOUS
<1>0. batch \in Seq(Call) /\ \A i \in 1..Len(batch) : batch[i] \in Call
  BY DEF Base, TypeOK
<1>1. \A b \in Call : ~Sent(b)' => ~Sent(b)
  BY SentStays
<1>2. CASE result' = result /\ batch' = batch
  <2>1. \A b \in acked' : result[b] = "nil"
    BY <1>2, AckedStep DEF Untold
  <2> QED BY <1>1, <1>2, <2>1 DEF Untold
<1>3. ASSUME NEW c \in Callers, Take(c) PROVE Untold'
  <2>1. /\ result' = result /\ acked' = acked /\ batch' = Append(batch, Current(c))
        /\ pc[c] = "send" /\ Current(c) \in Call
    BY <1>3, CurrentType DEF Take, Joined, Base
  <2>2. result[Current(c)] = "none"
    BY <2>1 DEF Untold, Sent, Current, Unsent
  <2>3. \A i \in 1..Len(batch') : result[batch'[i]] = "none"
    BY <1>0, <2>1, <2>2 DEF Untold
  <2> QED BY <1>1, <2>1, <2>3 DEF Untold
<1>4. CASE Reply
  <2>1. /\ batch # <<>> /\ batch' = Tail(batch) /\ acked' = acked
        /\ result' = [result EXCEPT ![Head(batch)] = IF err THEN "error" ELSE "nil"]
    BY <1>4 DEF Reply, Unanswered, Base, FlushInv
  <2>2. /\ Head(batch) = batch[1] /\ 1 \in 1..Len(batch) /\ Head(batch) \in Call
        /\ \A i \in 1..Len(batch') : i + 1 \in 1..Len(batch) /\ batch'[i] = batch[i + 1]
    BY <1>0, <2>1
  <2>3. Sent(Head(batch)) /\ result[Head(batch)] = "none"
    BY <2>2 DEF OrderInv, Untold
  <2>4. \A b : b # Head(batch) => result'[b] = result[b]
    BY <2>1 DEF Base, TypeOK
  <2>5. \A b \in Call : ~Sent(b)' => result'[b] = "none"
    BY <1>1, <2>3, <2>4 DEF Untold
  <2>6. \A b \in acked' : result'[b] = "nil"
    BY <2>1, <2>3, <2>4 DEF Untold
  <2>7. ASSUME NEW i \in 1..Len(batch') PROVE result'[batch'[i]] = "none"
    <3>1. Before(batch[1], batch[i + 1])
      BY <2>2 DEF OrderInv, BatchOrdered
    <3>2. batch[1][2] \in Nat
      BY <2>2, BoundsAssumption DEF Call
    <3>3. batch'[i] # Head(batch)
      BY <2>2, <3>1, <3>2 DEF Before
    <3> QED BY <2>2, <2>4, <3>3 DEF Untold
  <2> QED BY <2>5, <2>6, <2>7 DEF Untold
<1> QED BY <1>2, <1>3, <1>4, StepKinds DEF StoredUnseen, Commit
-----------------------------------------------------------------------------
(***************************************************************************)
(* The cap: what ops counts, and what the batch holds without its last.    *)
(***************************************************************************)
CapInv ==
  /\ lpc = "recv" => ops = 0
  /\ lpc \in {"drain", "commit"} =>
        /\ ops = DocsOfFirst(Len(batch), batch, size)
        /\ DocsOfFirst(Len(batch) - 1, batch, size) < MaxBatchDocs
  /\ \A i \in 1..Len(log) :
        log[i] # <<>> /\ \A j \in 1..Len(log[i]) : Sent(log[i][j])
  /\ BatchBounded

\* The size of a call is fixed once it has been sent.
LEMMA SizeFixed ==
  ASSUME Base, [Next]_vars, NEW b \in Call, Sent(b)
  PROVE size'[b] = size[b]
<1>1. CASE size' = size
  BY <1>1
<1>2. ASSUME NEW c \in Callers, Begin(c) PROVE size'[b] = size[b]
  <2>1. call[c] \in Nat /\ call'[c] = call[c] + 1
    BY <1>2, BoundsAssumption DEF Begin, Base, TypeOK
  <2>2. b # <<c, call'[c]>>
    BY <2>1 DEF Sent
  <2> QED BY <1>2, <2>2 DEF Begin, Base, TypeOK
<1>3. ASSUME NEW c \in Callers, Receive(c) \/ Coalesce(c) PROVE size' = size
  BY <1>3 DEF Receive, Coalesce, Take
<1>4. CASE DrainEnd \/ Commit \/ Reply \/ Exit
  BY <1>4 DEF DrainEnd, Commit, Reply, Exit, callVars
<1>5. ASSUME NEW c \in Callers, Caller(c) \/ Cancel(c) PROVE size' = size
  BY <1>5 DEF Caller, Enter, Await, Cancel
<1>6. ASSUME NEW k \in Closers, Closer(k) PROVE size' = size
  BY <1>6 DEF Closer, CloseFirst, CloseInbox, CloseAgain, CloseReturn, callVars
<1>7. CASE UNCHANGED vars
  BY <1>7 DEF vars, callVars
<1>8. CASE StoredUnseen
  BY <1>8 DEF StoredUnseen, callVars
<1> QED BY <1>1, <1>2, <1>3, <1>4, <1>5, <1>6, <1>7, <1>8 DEF Next, Flusher

\* So are the documents of a sequence of calls that have been sent.
LEMMA DocsFixed ==
  ASSUME Base, [Next]_vars, NEW s, NEW n \in Nat,
         \A i \in 1..n : s[i] \in Call /\ Sent(s[i])
  PROVE DocsOfFirst(n, s, size') = DocsOfFirst(n, s, size)
<1>1. \A i \in 1..n : size'[s[i]] = size[s[i]]
  BY SizeFixed
<1> QED BY <1>1, DocsAgree

\* No segment, no batch.
LEMMA CapInit == Init => CapInv
<1> SUFFICES ASSUME Init PROVE CapInv
  OBVIOUS
<1> QED BY DEF Init, CapInv, BatchBounded

\* A segment stored keeps what it holds.
LEMMA StoredStays ==
  ASSUME Base, CapInv, [Next]_vars, NEW i \in 1..Len(log)
  PROVE /\ \A j \in 1..Len(log[i]) : \A b : b = log[i][j] => Sent(b)'
        /\ DocsOfFirst(Len(log[i]) - 1, log[i], size') < MaxBatchDocs
<1>1. log[i] \in Seq(Call) /\ DOMAIN log = 1..Len(log)
  BY DEF Base, TypeOK
<1>2. Len(log[i]) \in Nat /\ \A j \in 1..Len(log[i]) : log[i][j] \in Call /\ Sent(log[i][j])
  BY <1>1 DEF CapInv
<1>3. \A j \in 1..Len(log[i]) : \A b : b = log[i][j] => Sent(b)'
  BY <1>2, SentStays
<1>4. DocsOfFirst(Len(log[i]) - 1, log[i], size) < MaxBatchDocs
  BY <1>1 DEF CapInv, BatchBounded
<1>5. Len(log[i]) - 1 \in Nat /\ \A j \in 1..Len(log[i]) - 1 : j \in 1..Len(log[i])
  BY <1>1, <1>2 DEF CapInv
<1>6. DocsOfFirst(Len(log[i]) - 1, log[i], size') = DocsOfFirst(Len(log[i]) - 1, log[i], size)
  BY <1>2, <1>5, DocsFixed
<1> QED BY <1>3, <1>4, <1>6

\* The log part of CapInv, when no segment is added.
LEMMA CapLog ==
  ASSUME Base, CapInv, [Next]_vars, log' = log
  PROVE /\ \A i \in 1..Len(log') :
              log'[i] # <<>> /\ \A j \in 1..Len(log'[i]) : Sent(log[i][j])'
        /\ BatchBounded'
<1>0. DOMAIN log = 1..Len(log)
  BY DEF Base, TypeOK
<1>1. \A i \in 1..Len(log) : \A j \in 1..Len(log[i]) : Sent(log[i][j])'
  <2> SUFFICES ASSUME NEW i \in 1..Len(log), NEW j \in 1..Len(log[i]) PROVE Sent(log[i][j])'
    OBVIOUS
  <2>1. \A b : b = log[i][j] => Sent(b)'
    BY StoredStays
  <2> QED BY <2>1 DEF Sent
<1>2. \A i \in 1..Len(log) : DocsOfFirst(Len(log[i]) - 1, log[i], size') < MaxBatchDocs
  BY StoredStays
<1> QED BY <1>0, <1>1, <1>2 DEF CapInv, BatchBounded

\* A call joins the batch only while its documents fit.
LEMMA TakeCap ==
  ASSUME Base, OrderInv, CapInv, [Next]_vars, NEW c \in Callers, Take(c),
         lpc \in {"recv", "drain"}, lpc = "drain" => HasRoom
  PROVE CapInv'
<1> DEFINE b == Current(c)
           n == Len(batch)
<1>1. b \in Call
  BY CurrentType DEF Base, Take
<1>2. n \in Nat /\ Len(batch') = n+1 /\ batch'[n+1] = b
      /\ \A i \in 1..n : batch'[i] = batch[i]
  BY <1>1 DEF Take, Joined, Base, TypeOK
<1>3. log' = log /\ lpc' = "drain" /\ size' = size /\ ops' = ops + size[b]
  BY DEF Take
<1> HIDE DEF b, n
<1>4. ops = DocsOfFirst(n, batch, size) /\ ops < MaxBatchDocs
  <2>1. CASE lpc = "recv"
    <3>1. n = 0 /\ ops = 0
      BY <2>1 DEF Base, FlushInv, CapInv, n
    <3> QED BY <3>1, DocsOfNone, BoundsAssumption
  <2>2. CASE lpc = "drain"
    BY <2>2 DEF CapInv, HasRoom, n
  <2> QED BY <2>1, <2>2
<1>5. DocsOfFirst(n, batch', size) = DocsOfFirst(n, batch, size)
  BY <1>2, DocsAgree
<1>6. DocsOfFirst(n+1, batch', size) = DocsOfFirst(n, batch', size) + size[b]
  BY <1>2, DocsOfNext
<1>7. n + 1 - 1 = n
  BY <1>2
<1>8. /\ ops' = DocsOfFirst(Len(batch'), batch', size')
      /\ DocsOfFirst(Len(batch') - 1, batch', size') < MaxBatchDocs
  BY <1>2, <1>3, <1>4, <1>5, <1>6, <1>7
<1>9. /\ \A i \in 1..Len(log') :
            log'[i] # <<>> /\ \A j \in 1..Len(log'[i]) : Sent(log[i][j])'
      /\ BatchBounded'
  BY <1>3, CapLog
<1> QED BY <1>3, <1>8, <1>9 DEF CapInv

\* A batch that fits becomes a segment that fits.
LEMMA CommitCap ==
  ASSUME Base, OrderInv, CapInv, [Next]_vars, StoredUnseen \/ Commit
  PROVE CapInv'
<1>1. /\ lpc = "commit" /\ lpc' \in {"commit", "reply"} /\ size' = size /\ batch # <<>>
      /\ batch \in Seq(Call) /\ log \in Seq(Seq(Call)) /\ batch' = batch /\ ops' = ops
  BY DEF StoredUnseen, Commit, callVars, Base, TypeOK, FlushInv
<1>2. CASE log' = log
  BY <1>1, <1>2, CapLog DEF CapInv
<1>3. CASE log' = Append(log, batch)
  <2>1. /\ Len(log) \in Nat /\ Len(log') = Len(log) + 1 /\ log'[Len(log) + 1] = batch
        /\ \A i \in 1..Len(log) : log'[i] = log[i]
        /\ DOMAIN log' = 1..Len(log')
    BY <1>1, <1>3
  <2>2. \A j \in 1..Len(batch) : \A a : a = batch[j] => Sent(a)'
    BY <1>1, SentStays DEF OrderInv
  <2>3. \A i \in 1..Len(log') : log'[i] # <<>> /\ \A j \in 1..Len(log'[i]) : Sent(log[i][j])'
    <3> SUFFICES ASSUME NEW i \in 1..Len(log')
                 PROVE log'[i] # <<>> /\ \A j \in 1..Len(log'[i]) : Sent(log[i][j])'
      OBVIOUS
    <3>1. CASE i = Len(log) + 1
      BY <1>1, <2>1, <2>2, <3>1 DEF Sent
    <3>2. CASE i # Len(log) + 1
      <4>1. i \in 1..Len(log) /\ log'[i] = log[i] /\ log[i] # <<>>
        BY <2>1, <3>2 DEF CapInv
      <4>2. \A j \in 1..Len(log[i]) : \A a : a = log[i][j] => Sent(a)'
        BY <4>1, StoredStays
      <4> QED BY <4>1, <4>2 DEF Sent
    <3> QED BY <3>1, <3>2
  <2>4. ASSUME NEW i \in DOMAIN log'
        PROVE DocsOfFirst(Len(log'[i]) - 1, log'[i], size') < MaxBatchDocs
    <3>1. CASE i = Len(log) + 1
      BY <1>1, <2>1, <3>1 DEF CapInv
    <3>2. CASE i # Len(log) + 1
      <4>1. i \in 1..Len(log) /\ log'[i] = log[i]
        BY <2>1, <3>2
      <4> QED BY <4>1, StoredStays
    <3> QED BY <3>1, <3>2
  <2>5. BatchBounded'
    BY <2>4 DEF BatchBounded
  <2> QED BY <1>1, <2>3, <2>5 DEF CapInv
<1> QED BY <1>2, <1>3, CommitFlat

\* Every step keeps the segments within the cap.
LEMMA CapStep == Base /\ OrderInv /\ CapInv /\ [Next]_vars => CapInv'
<1> SUFFICES ASSUME Base, OrderInv, CapInv, [Next]_vars PROVE CapInv'
  OBVIOUS
<1>1. CASE Reply
  <2>1. log' = log /\ lpc' \in {"recv", "reply"} /\ (lpc' = "recv" => ops' = 0)
    BY <1>1 DEF Reply, Base, FlushInv
  <2> QED BY <2>1, CapLog DEF CapInv
<1>2. CASE /\ log' = log /\ batch' = batch /\ ops' = ops
           /\ \/ lpc' = lpc
              \/ lpc = "drain" /\ lpc' = "commit"
              \/ lpc = "recv" /\ lpc' = "exited"
  <2>1. batch \in Seq(Call)
    BY DEF Base, TypeOK
  <2>2. CASE lpc' \in {"drain", "commit"}
    <3>1. /\ ops = DocsOfFirst(Len(batch), batch, size)
          /\ DocsOfFirst(Len(batch) - 1, batch, size) < MaxBatchDocs
      BY <1>2, <2>2 DEF CapInv
    <3>2. batch # <<>>
      BY <1>2, <2>2 DEF Base, FlushInv
    <3>3. /\ Len(batch) \in Nat /\ Len(batch) - 1 \in Nat
          /\ \A i \in 1..Len(batch) : batch[i] \in Call /\ Sent(batch[i])
      BY <2>1, <3>2 DEF OrderInv
    <3>4. DocsOfFirst(Len(batch), batch, size') = DocsOfFirst(Len(batch), batch, size)
      BY <3>3, DocsFixed
    <3>5. \A i \in 1..Len(batch) - 1 : batch[i] \in Call /\ Sent(batch[i])
      BY <3>3
    <3>6. DocsOfFirst(Len(batch) - 1, batch, size') = DocsOfFirst(Len(batch) - 1, batch, size)
      BY <3>3, <3>5, DocsFixed
    <3> QED BY <1>2, <2>2, <3>1, <3>4, <3>6, CapLog DEF CapInv
  <2>3. CASE lpc' \notin {"drain", "commit"}
    BY <1>2, <2>3, CapLog DEF CapInv
  <2> QED BY <2>2, <2>3
<1> QED BY <1>1, <1>2, TakeCap, CommitCap, StepKinds

\* The whole inductive invariant, in every behaviour.
LEMMA AllAlways == Spec => [](Base /\ OrderInv /\ AckInv /\ Untold /\ CapInv)
  BY BaseInit, BaseStep, OrderInit, OrderStep, AckInit, AckStep, UntoldInit, UntoldStep,
     CapInit, CapStep, PTL DEF Spec

(***************************************************************************)
(* flush: a segment stored is below the cap without its last call.         *)
(***************************************************************************)
THEOREM SegmentsBounded == Spec => []BatchBounded
<1>1. CapInv => BatchBounded
  BY DEF CapInv
<1> QED BY <1>1, AllAlways, PTL
-----------------------------------------------------------------------------
(***************************************************************************)
(* Refinement of DurableLog.                                               *)
(***************************************************************************)
LEMMA InitMaps == Init => Abstract!Init
<1> SUFFICES ASSUME Init PROVE Abstract!Init
  OBVIOUS
<1>1. Submitted = {}
  BY DEF Init, Submitted, Call
<1> QED BY <1>1, FlattenEmpty DEF Init, Abstract!Init

\* A caller that enters Upsert submits.
LEMMA BeginMaps ==
  ASSUME Base, NEW c \in Callers, Begin(c)
  PROVE Abstract!Submit
<1> DEFINE b == <<c, call[c] + 1>>
<1>1. call[c] \in Nat /\ call[c] < MaxCalls /\ call' = [call EXCEPT ![c] = @ + 1]
  BY BoundsAssumption DEF Begin, Base, TypeOK
<1>2. b \in Call /\ b \notin Submitted
  BY <1>1, BoundsAssumption DEF Call, Submitted
<1>3. Submitted' = Submitted \cup {b}
  <2>1. \A d \in Callers : call[d] \in Nat /\ call'[d] = IF d = c THEN call[c] + 1 ELSE call[d]
    BY <1>1, BoundsAssumption DEF Base, TypeOK
  <2>2. ASSUME NEW d \in Callers, NEW i \in 1..MaxCalls
        PROVE <<d, i>> \in Submitted' <=> <<d, i>> \in Submitted \cup {b}
    <3>1. i \in Nat
      BY BoundsAssumption
    <3> QED BY <2>1, <2>2, <3>1 DEF Submitted, Call
  <2> QED BY <1>2, <2>2 DEF Submitted, Call
<1>4. log' = log /\ acked' = acked /\ resent' = resent
  BY DEF Begin, flushVars
<1> QED BY <1>2, <1>3, <1>4 DEF Abstract!Submit

\* The commit of a batch extends the log, by another copy when it is sent
\* again, or it fails and nothing happens.
LEMMA CommitMaps ==
  ASSUME Base, OrderInv, OrderInv', Untold, StoredUnseen \/ Commit
  PROVE (Abstract!Extend /\ acked' = acked /\ Abstract!Resend) \/ UNCHANGED Abstract!vars
<1>0. resent \in Nat /\ (resent' = resent \/ resent' = resent + 1)
  BY MaxResendsAssumption DEF Base, TypeOK, StoredUnseen, Commit
<1>1. Submitted' = Submitted /\ acked' = acked /\ batch # <<>>
  BY DEF StoredUnseen, Commit, callVars, Submitted, Base, FlushInv
<1>2. CASE Commit /\ Flat' = Flat
  <2>1. resent' = resent
    BY <1>2 DEF Commit
  <2> QED BY <1>1, <1>2, <2>1 DEF Abstract!vars, Flat
<1>3. CASE Flat' = Flat \o batch
  <2> DEFINE m == Len(Flat)
             n == Len(batch)
  <2>1. Flat \in Seq(Call) /\ batch \in Seq(Call)
    BY FlatType DEF Base, TypeOK
  <2>2. /\ Flat' \in Seq(Call) /\ Len(Flat') = m + n /\ m \in Nat /\ n \in Nat
        /\ \A i \in 1..m : Flat'[i] = Flat[i]
        /\ \A i \in 1..m + n : i \notin 1..m => i - m \in 1..n /\ Flat'[i] = batch[i - m]
    BY <1>3, <2>1, ConcatParts
  <2>3. n # 0
    BY <1>1, <2>1
  <2>4. ASSUME NEW i \in m+1..Len(Flat')
        PROVE /\ Flat'[i] \in Submitted \ acked
              /\ resent' > 0 \/ \A j \in 1..i-1 : Flat'[j] # Flat'[i]
    <3>1. i \in 1..m+n /\ i \notin 1..m
      BY <2>2
    <3>2. Flat'[i] \in Submitted \ acked
      <4>1. i - m \in 1..n /\ Flat'[i] = batch[i - m] /\ batch[i - m] \in Call
        BY <2>1, <2>2, <3>1
      <4>2. batch[i - m] \in Submitted
        BY <4>1 DEF OrderInv, Sent, Submitted
      <4>3. batch[i - m] \notin acked
        BY <4>1 DEF Untold
      <4> QED BY <4>1, <4>2, <4>3
    <3>3. ASSUME ~(resent' > 0), NEW j \in 1..i-1, Flat'[j] = Flat'[i] PROVE FALSE
      <4>1. j \in 1..Len(Flat') /\ i \in 1..Len(Flat') /\ j < i
        BY <2>2, <3>1
      <4>2. Before(Flat'[j], Flat'[i])
        BY <3>3, <4>1 DEF OrderInv, FlatOrdered, Before
      <4>3. Flat'[i] \in Call
        BY <2>2, <4>1
      <4>4. Flat'[i][2] \in Nat
        BY <4>3, BoundsAssumption DEF Call
      <4> QED BY <3>3, <4>2, <4>4 DEF Before
    <3> QED BY <3>2, <3>3
  <2>5. Len(Flat') > Len(Flat)
    BY <2>2, <2>3
  <2>6. Abstract!Extend
    BY <1>1, <2>2, <2>4, <2>5 DEF Abstract!Extend, Flat
  <2>7. Abstract!Resend
    BY <1>0 DEF Abstract!Resend
  <2> QED BY <1>1, <2>6, <2>7
<1> QED BY <1>2, <1>3, CommitFlat

\* An Upsert that returns nil acknowledges a write of the log.
LEMMA AwaitMaps ==
  ASSUME Base, AckInv, NEW c \in Callers, Await(c)
  PROVE Abstract!Next \/ UNCHANGED Abstract!vars
<1>1. Submitted' = Submitted /\ log' = log /\ resent' = resent /\ Abstract!Resend
  BY DEF Await, Submitted, flushVars, Abstract!Resend
<1>2. CASE result[Current(c)] = "nil"
  <2>1. InLog(Current(c)) /\ acked' = acked \cup {Current(c)}
    BY <1>2, CurrentType DEF Await, AckInv, Base
  <2>2. Current(c) \in Abstract!Listed(FlattenSeq(log)')
    BY <1>1, <2>1 DEF InLog, Flat, Abstract!Listed
  <2>3. Abstract!Ack
    BY <1>1, <2>1, <2>2 DEF Abstract!Ack
  <2> QED BY <1>1, <2>3 DEF Abstract!Next
<1>3. CASE result[Current(c)] # "nil"
  BY <1>1, <1>3 DEF Await, Abstract!vars
<1> QED BY <1>2, <1>3

\* Every step is a step of the durable log, or none of it.
LEMMA StepMaps ==
  ASSUME Base, OrderInv, OrderInv', AckInv, Untold, [Next]_vars
  PROVE [Abstract!Next]_(Abstract!vars)
<1> USE DEF gateVars, flushVars, callVars
<1>1. ASSUME NEW c \in Callers, Begin(c) PROVE Abstract!Next
  BY <1>1, BeginMaps DEF Abstract!Next
<1>2. CASE StoredUnseen \/ Commit
  BY <1>2, CommitMaps DEF Abstract!Next
<1>3. ASSUME NEW c \in Callers, Await(c) PROVE Abstract!Next \/ UNCHANGED Abstract!vars
  BY <1>3, AwaitMaps
<1>4. CASE call' = call /\ log' = log /\ acked' = acked /\ resent' = resent
  BY <1>4 DEF Abstract!vars, Submitted
<1>5. ASSUME NEW c \in Callers, Receive(c) \/ Coalesce(c) \/ Enter(c) \/ Cancel(c)
      PROVE call' = call /\ log' = log /\ acked' = acked /\ resent' = resent
  BY <1>5 DEF Receive, Coalesce, Take, Enter, Cancel
<1>6. CASE DrainEnd \/ Reply \/ Exit
  BY <1>4, <1>6 DEF DrainEnd, Reply, Exit
<1>7. ASSUME NEW k \in Closers, Closer(k)
      PROVE call' = call /\ log' = log /\ acked' = acked /\ resent' = resent
  BY <1>7 DEF Closer, CloseFirst, CloseInbox, CloseAgain, CloseReturn
<1>8. CASE UNCHANGED vars
  BY <1>4, <1>8 DEF vars
<1> QED BY <1>1, <1>2, <1>3, <1>4, <1>5, <1>6, <1>7, <1>8 DEF Next, Flusher, Caller

(***************************************************************************)
(* The goroutines of a Committer together keep the contract of Upsert: nil *)
(* is for a write in the log, and the log only grows at its end: by writes *)
(* not there yet, or, when an append was sent again, by copies of writes   *)
(* that nobody has been told of.                                           *)
(***************************************************************************)
THEOREM Contract == Spec => ImplementsDurableLog
<1> DEFINE All == Base /\ OrderInv /\ AckInv /\ Untold /\ CapInv
<1>1. All /\ All' /\ [Next]_vars => [Abstract!Next]_(Abstract!vars)
  BY StepMaps
<1> QED BY <1>1, InitMaps, AllAlways, PTL DEF Spec, ImplementsDurableLog, Abstract!Spec
=============================================================================
