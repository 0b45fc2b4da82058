-------------------------- MODULE NvmeCacheProofs --------------------------
(***************************************************************************)
(* The read cache, for any number of keys, readers, slots and faults.      *)
(*                                                                         *)
(* The properties speak of the ring outside its mutex.  What makes them    *)
(* true is said of every moment: "Held" is what each slot counts for in    *)
(* the middle of a put, when the slot under the cursor has been given up   *)
(* and not yet claimed again.  byKey is always the inverse of that; the    *)
(* rest of the invariant follows the put from file to index.               *)
(***************************************************************************)
EXTENDS NvmeCache, DataInduction, FiniteSetTheorems

Entries == [key : Keys, body : {"whole", "torn"}]
Bodies == {"none", "whole", "torn"}
Places == {"idle", "ring", "fetch", "put", "open", "write", "indexOpen", "indexWrite", "insert"}

\* Where a reader stands while it has the mutex; in the first two the slot
\* under the cursor holds nothing.
Claiming == {"open", "write"}
Inside == Claiming \cup {"indexOpen", "indexWrite"}

\* The mutex is held by the reader that is inside put, hence by at most one.
MutexInv == \A r \in Readers : pc[r] \in Inside <=> owner = r

\* A call under way has its key, and the body it is going to store.
CallInv ==
  \A r \in Readers :
    /\ pc[r] # "idle" => want[r] \in Keys
    /\ pc[r] \in Inside \cup {"put", "insert"} => body[r] \in {"whole", "torn"}

\* A process that is not up has nobody in it and nothing in memory.
DownInv == up # "up" => lru = <<>> /\ \A r \in Readers : pc[r] = "idle"

Claimed == \E r \in Readers : owner = r /\ pc[r] \in Claiming

\* What slot i counts for.
Held(i) == IF Claimed /\ i = cursor THEN None ELSE slots[i]

\* byKey is the inverse of that, in the middle of a put, too.
RingInv ==
  /\ \A k \in DOMAIN byKey : Held(byKey[k]) = k
  /\ \A i \in Slots : Held(i) # None => Held(i) \in DOMAIN byKey /\ byKey[Held(i)] = i

\* The key that is put is nowhere in the ring until its file is written.
ClaimInv == \A r \in Readers : pc[r] \in Claiming => want[r] \notin DOMAIN byKey

\* An index that parses names no key twice.
IndexInv ==
  index.state = "whole" =>
    \A i, j \in 0..index.capacity - 1 :
      index.slots[i] = index.slots[j] /\ index.slots[i] # None => i = j

\* The ring and the calls of its readers.
Shape == TypeOK /\ MutexInv /\ CallInv /\ DownInv /\ RingInv /\ ClaimInv /\ IndexInv

USE CapacityAssumption, NamesAssumption, FaultsAssumption

-----------------------------------------------------------------------------
(***************************************************************************)
(* The list in memory.                                                     *)
(***************************************************************************)
\* No key twice, and no more than the capacity.
LruInv ==
  /\ DramCapacity = 0 \/ Len(lru) <= DramCapacity
  /\ \A i, j \in DOMAIN lru : lru[i].key = lru[j].key => i = j

\* Putting an entry in front of a list moves every other one place back.
LEMMA PrependIs ==
  ASSUME NEW T, NEW s \in Seq(T), NEW e \in T
  PROVE /\ <<e>> \o s \in Seq(T) /\ Len(<<e>> \o s) = Len(s) + 1
        /\ (<<e>> \o s)[1] = e
        /\ \A i \in 1..Len(s) : (<<e>> \o s)[i + 1] = s[i]
  OBVIOUS

\* The entry in place i moves to the front; those before it move back.
LEMMA FrontedIs ==
  ASSUME NEW e \in Entries, lru \in Seq(Entries), NEW i \in DOMAIN lru
  PROVE /\ Fronted(e, i) \in Seq(Entries) /\ Len(Fronted(e, i)) = Len(lru)
        /\ Fronted(e, i)[1] = e
        /\ \A j \in 1..Len(lru) - 1 :
             Fronted(e, i)[j + 1] = IF j < i THEN lru[j] ELSE lru[j + 1]
<1>1. i \in 1..Len(lru) /\ Len(lru) \in Nat
  OBVIOUS
<1> DEFINE s == RemoveAt(lru, i)
<1>2. /\ s \in Seq(Entries) /\ Len(s) = Len(lru) - 1
      /\ \A j \in 1..Len(lru) - 1 : s[j] = IF j < i THEN lru[j] ELSE lru[j + 1]
  BY <1>1, RemoveAtIs
<1>3. Fronted(e, i) = <<e>> \o s
  BY DEF Fronted
<1> HIDE DEF s
<1>4. /\ <<e>> \o s \in Seq(Entries) /\ Len(<<e>> \o s) = Len(s) + 1
      /\ (<<e>> \o s)[1] = e
      /\ \A j \in 1..Len(s) : (<<e>> \o s)[j + 1] = s[j]
  BY <1>2, PrependIs
<1> QED BY <1>1, <1>2, <1>3, <1>4

\* It stays a list without repetitions when the new entry is of the same key.
LEMMA FrontedDistinct ==
  ASSUME NEW e \in Entries, lru \in Seq(Entries), LruInv, NEW i \in Cached(e.key),
         NEW l, l = Fronted(e, i)
  PROVE /\ l \in Seq(Entries)
        /\ DramCapacity = 0 \/ Len(l) <= DramCapacity
        /\ \A p, q \in DOMAIN l : l[p].key = l[q].key => p = q
        /\ \A p \in DOMAIN l : l[p] = e \/ \E q \in DOMAIN lru : l[p] = lru[q]
<1>1. i \in 1..Len(lru) /\ Len(lru) \in Nat /\ lru[i].key = e.key /\ DOMAIN lru = 1..Len(lru)
  BY DEF Cached
<1>2. /\ l \in Seq(Entries) /\ Len(l) = Len(lru)
      /\ l[1] = e
      /\ \A j \in 1..Len(lru) - 1 : l[j + 1] = IF j < i THEN lru[j] ELSE lru[j + 1]
  BY <1>1, FrontedIs
<1>3. DOMAIN l = 1..Len(lru)
  BY <1>2
<1> DEFINE from(p) == IF p = 1 THEN i ELSE IF p - 1 < i THEN p - 1 ELSE p
<1>4. ASSUME NEW p \in 1..Len(lru)
      PROVE /\ from(p) \in 1..Len(lru) /\ l[p].key = lru[from(p)].key
            /\ p # 1 => l[p] = lru[from(p)]
  <2>1. CASE p = 1
    BY <1>1, <1>2, <2>1
  <2>2. CASE p # 1
    <3>1. p - 1 \in 1..Len(lru) - 1 /\ (p - 1) + 1 = p
      BY <1>1, <2>2
    <3>2. l[p] = IF p - 1 < i THEN lru[p - 1] ELSE lru[p]
      BY <1>2, <3>1
    <3> QED BY <1>1, <2>2, <3>1, <3>2
  <2> QED BY <2>1, <2>2
<1>5. ASSUME NEW p \in 1..Len(lru), NEW q \in 1..Len(lru), from(p) = from(q) PROVE p = q
  BY <1>1, <1>5
<1>6. \A p, q \in 1..Len(lru) : lru[p].key = lru[q].key => p = q
  BY <1>1 DEF LruInv
<1> HIDE DEF from
<1>7. ASSUME NEW p \in DOMAIN l, NEW q \in DOMAIN l, l[p].key = l[q].key PROVE p = q
  <2>1. p \in 1..Len(lru) /\ q \in 1..Len(lru)
    BY <1>3
  <2>2. from(p) \in 1..Len(lru) /\ from(q) \in 1..Len(lru)
        /\ lru[from(p)].key = lru[from(q)].key
    BY <1>4, <1>7, <2>1
  <2> QED BY <1>5, <1>6, <2>1, <2>2
<1>8. ASSUME NEW p \in DOMAIN l PROVE l[p] = e \/ \E q \in DOMAIN lru : l[p] = lru[q]
  BY <1>1, <1>2, <1>3, <1>4
<1>9. DramCapacity = 0 \/ Len(l) <= DramCapacity
  BY <1>2 DEF LruInv
<1> QED BY <1>2, <1>7, <1>8, <1>9

\* Trimming keeps a prefix within the capacity.
LEMMA TrimmedIs ==
  ASSUME NEW l \in Seq(Entries)
  PROVE /\ Trimmed(l) \in Seq(Entries) /\ Len(Trimmed(l)) <= Len(l)
        /\ DramCapacity = 0 \/ Len(Trimmed(l)) <= DramCapacity
        /\ \A j \in 1..Len(Trimmed(l)) : Trimmed(l)[j] = l[j]
<1>1. CASE DramCapacity = 0 \/ Len(l) <= DramCapacity
  BY <1>1 DEF Trimmed
<1>2. CASE ~(DramCapacity = 0 \/ Len(l) <= DramCapacity)
  <2>1. DramCapacity \in 0..Len(l) /\ Trimmed(l) = SubSeq(l, 1, DramCapacity)
    BY <1>2 DEF Trimmed
  <2> QED BY <2>1
<1> QED BY <1>1, <1>2

\* A key that is not in the list, pushed to the front.
LEMMA PushedDistinct ==
  ASSUME NEW e \in Entries, lru \in Seq(Entries), LruInv, Cached(e.key) = {},
         NEW l, l = Trimmed(<<e>> \o lru)
  PROVE /\ l \in Seq(Entries)
        /\ DramCapacity = 0 \/ Len(l) <= DramCapacity
        /\ \A p, q \in DOMAIN l : l[p].key = l[q].key => p = q
        /\ \A p \in DOMAIN l : l[p] = e \/ \E q \in DOMAIN lru : l[p] = lru[q]
<1> DEFINE s == <<e>> \o lru
<1>1. /\ s \in Seq(Entries) /\ Len(s) = Len(lru) + 1 /\ Len(lru) \in Nat
      /\ s[1] = e
      /\ \A i \in 1..Len(lru) : s[i + 1] = lru[i]
  BY PrependIs
<1> HIDE DEF s
<1>2. /\ l \in Seq(Entries) /\ Len(l) <= Len(s)
      /\ DramCapacity = 0 \/ Len(l) <= DramCapacity
      /\ \A j \in 1..Len(l) : l[j] = s[j]
  BY <1>1, TrimmedIs DEF s
<1>3. DOMAIN lru = 1..Len(lru) /\ DOMAIN l = 1..Len(l) /\ Len(l) \in Nat
  BY <1>2
<1>4. ASSUME NEW p \in DOMAIN l
      PROVE \/ p = 1 /\ l[p] = e
            \/ p # 1 /\ p - 1 \in DOMAIN lru /\ l[p] = lru[p - 1] /\ l[p].key # e.key
  <2>1. CASE p = 1
    BY <1>1, <1>2, <1>3, <2>1
  <2>2. CASE p # 1
    <3>1. p - 1 \in 1..Len(lru) /\ (p - 1) + 1 = p
      BY <1>1, <1>2, <1>3, <2>2
    <3>2. l[p] = lru[p - 1]
      BY <1>1, <1>2, <1>3, <3>1
    <3> QED BY <1>3, <2>2, <3>1, <3>2 DEF Cached
  <2> QED BY <2>1, <2>2
<1>5. \A p, q \in DOMAIN lru : lru[p].key = lru[q].key => p = q
  BY DEF LruInv
<1>6. ASSUME NEW p \in DOMAIN l, NEW q \in DOMAIN l, l[p].key = l[q].key PROVE p = q
  <2>1. p \in Int /\ q \in Int
    BY <1>3
  <2> QED BY <1>4, <1>5, <1>6, <2>1
<1> QED BY <1>2, <1>4, <1>6
-----------------------------------------------------------------------------
(***************************************************************************)
(* Types.                                                                  *)
(***************************************************************************)
\* The initial state has its types.
LEMMA TypeInit == Init => TypeOK
<1> SUFFICES ASSUME Init PROVE TypeOK
  OBVIOUS
<1>1. capacity \in Nat \ {0} /\ capacity \in Capacities
  BY DEF Init
<1>2. slots \in [Slots -> Keys \cup {None}] /\ cursor \in Slots
  BY <1>1 DEF Init, Empty, Slots
<1>3. byKey \in [DOMAIN byKey -> Slots] /\ DOMAIN byKey = {}
  BY DEF Init
<1>4. file \in [DOMAIN file -> {"whole", "torn"}] /\ DOMAIN file = {}
  BY DEF Init
<1>5. lru \in Seq([key : Keys, body : {"whole", "torn"}])
  BY DEF Init
<1>6. index \in [state : {"none", "torn", "whole"}, capacity : Nat, cursor : Nat,
                 slots : [0..index.capacity - 1 -> Keys \cup {None}]]
  <2>1. Empty(0) \in [0..0 - 1 -> Keys \cup {None}]
    BY DEF Empty
  <2> QED BY <2>1 DEF Init, NoIndex
<1>7. /\ owner \in Readers \cup {Nobody} /\ up \in {"up", "down", "refused"}
      /\ pc \in [Readers -> {"idle", "ring", "fetch", "put", "open", "write", "indexOpen",
                         "indexWrite", "insert"}]
      /\ want \in [Readers -> Keys \cup {None}]
      /\ body \in [Readers -> {"none", "whole", "torn"}]
      /\ faults \in [{"crash", "diskFull"} -> Nat]
  BY DEF Init
<1>8. DOMAIN held \subseteq Keys /\ held \in [DOMAIN held -> Slots] /\ cut \in BOOLEAN
  BY DEF Init
<1> QED BY <1>1, <1>2, <1>3, <1>4, <1>5, <1>6, <1>7, <1>8 DEF TypeOK

\* The variables of a step that leaves the ring and the disk alone.
Quiet == UNCHANGED <<ringVars, diskVars, runVars, faults>>

\* Such a step keeps the types when it keeps those of the list and the calls.
LEMMA QuietTypes ==
  ASSUME TypeOK, Quiet, lru' \in Seq(Entries),
         pc' \in [Readers -> Places], want' \in [Readers -> Keys \cup {None}],
         body' \in [Readers -> Bodies]
  PROVE TypeOK'
<1>1. Slots' = Slots
  BY DEF Quiet, runVars, Slots
<1> QED BY <1>1 DEF TypeOK, Quiet, ringVars, diskVars, runVars, Places, Bodies, Entries

\* What a reader inserts is an entry.
LEMMA InsertedTypes ==
  ASSUME TypeOK, LruInv, NEW k \in Keys, NEW b \in {"whole", "torn"}, NEW l \in Inserted(k, b)
  PROVE /\ l \in Seq(Entries)
        /\ DramCapacity = 0 \/ Len(l) <= DramCapacity
        /\ \A p, q \in DOMAIN l : l[p].key = l[q].key => p = q
        /\ \A p \in DOMAIN l : l[p] = Entry(k, b) \/ \E q \in DOMAIN lru : l[p] = lru[q]
<1> DEFINE e == Entry(k, b)
<1>1. e \in Entries /\ e.key = k
  BY DEF Entry, Entries
<1>2. lru \in Seq(Entries)
  BY DEF TypeOK, Entries
<1> HIDE DEF e
<1>3. CASE Cached(k) = {}
  <2>1. l = Trimmed(<<e>> \o lru)
    BY <1>3 DEF Inserted, e
  <2> QED BY <1>1, <1>2, <1>3, <2>1, PushedDistinct DEF e
<1>4. CASE Cached(k) # {}
  <2>1. PICK i \in Cached(k) : l = Fronted(e, i)
    BY <1>4 DEF Inserted, e
  <2> QED BY <1>1, <1>2, <2>1, FrontedDistinct DEF e
<1> QED BY <1>3, <1>4

\* What a hit leaves behind.
LEMMA HitTypes ==
  ASSUME TypeOK, LruInv, NEW k \in Keys, NEW i \in Cached(k), NEW l, l = Fronted(lru[i], i)
  PROVE /\ l \in Seq(Entries)
        /\ DramCapacity = 0 \/ Len(l) <= DramCapacity
        /\ \A p, q \in DOMAIN l : l[p].key = l[q].key => p = q
        /\ \A p \in DOMAIN l : \E q \in DOMAIN lru : l[p] = lru[q]
<1>1. lru \in Seq(Entries)
  BY DEF TypeOK, Entries
<1>2. i \in DOMAIN lru /\ lru[i].key = k /\ lru[i] \in Entries
  BY <1>1 DEF Cached
<1> DEFINE e == lru[i]
<1> HIDE DEF e
<1>3. e \in Entries /\ i \in Cached(e.key) /\ l = Fronted(e, i)
  BY <1>2 DEF e
<1>4. /\ l \in Seq(Entries)
      /\ DramCapacity = 0 \/ Len(l) <= DramCapacity
      /\ \A p, q \in DOMAIN l : l[p].key = l[q].key => p = q
      /\ \A p \in DOMAIN l : l[p] = e \/ \E q \in DOMAIN lru : l[p] = lru[q]
  BY <1>1, <1>3, FrontedDistinct
<1> QED BY <1>2, <1>4 DEF e

\* The list of every step.
LEMMA LruStep ==
  ASSUME TypeOK, CallInv, LruInv, [Next]_vars
  PROVE LruInv' /\ lru' \in Seq(Entries)
<1>0. lru \in Seq(Entries)
  BY DEF TypeOK, Entries
<1>1. ASSUME NEW r \in Readers, NEW k \in Keys, Lookup(r, k) PROVE LruInv' /\ lru' \in Seq(Entries)
  <2>1. CASE \E i \in Cached(k) : lru' = Fronted(lru[i], i)
    <3>1. PICK i \in Cached(k) : lru' = Fronted(lru[i], i)
      BY <2>1
    <3> DEFINE l == Fronted(lru[i], i)
    <3>2. /\ l \in Seq(Entries)
          /\ DramCapacity = 0 \/ Len(l) <= DramCapacity
          /\ \A p, q \in DOMAIN l : l[p].key = l[q].key => p = q
      BY HitTypes
    <3> HIDE DEF l
    <3>3. lru' = l
      BY <3>1 DEF l
    <3> QED BY <3>2, <3>3 DEF LruInv
  <2>2. CASE UNCHANGED lru
    BY <1>0, <2>2 DEF LruInv
  <2> QED BY <1>1, <2>1, <2>2 DEF Lookup
<1>2. ASSUME NEW r \in Readers, Insert(r) PROVE LruInv' /\ lru' \in Seq(Entries)
  <2>1. want[r] \in Keys /\ body[r] \in {"whole", "torn"} /\ lru' \in Inserted(want[r], body[r])
    BY <1>2 DEF Insert, CallInv
  <2> QED BY <2>1, InsertedTypes DEF LruInv
<1>3. CASE lru' = lru
  BY <1>0, <1>3 DEF LruInv
<1>4. CASE lru' = <<>>
  BY <1>4 DEF LruInv
<1>5. ASSUME NEW r \in Readers, Read(r)
      PROVE (\E k \in Keys : Lookup(r, k)) \/ Insert(r) \/ lru' = lru
  BY <1>5 DEF Read, RingHit, RingMiss, Fetch, FetchFails, PutBegin, PutOpen, PutWrite,
        PutWriteFails, PersistOpen, PersistWrite
<1>6. CASE Crash \/ Restart \/ RestartRefused \/ UNCHANGED vars
  BY <1>3, <1>4, <1>6 DEF Crash, Restart, RestartRefused, vars
<1> QED BY <1>1, <1>2, <1>3, <1>5, <1>6 DEF Next

\* A reader only ever changes its own place, key and body.
Own(r) ==
  /\ \E p \in Places : pc' = [pc EXCEPT ![r] = p]
  /\ \E k \in Keys \cup {None} : want' = [want EXCEPT ![r] = k]
  /\ \E b \in Bodies : body' = [body EXCEPT ![r] = b]

\* Which keeps the types of the three.
LEMMA OwnTypes ==
  ASSUME TypeOK, NEW r \in Readers, Own(r)
  PROVE /\ pc' \in [Readers -> Places] /\ want' \in [Readers -> Keys \cup {None}]
        /\ body' \in [Readers -> Bodies]
  BY DEF TypeOK, Own, Places, Bodies

\* Every step of a reader is of that kind.
LEMMA ReadIsOwn ==
  ASSUME TypeOK, NEW r \in Readers, Read(r)
  PROVE Own(r)
<1>0. /\ pc \in [Readers -> Places] /\ want \in [Readers -> Keys \cup {None}]
      /\ body \in [Readers -> Bodies]
      /\ pc = [pc EXCEPT ![r] = pc[r]] /\ want = [want EXCEPT ![r] = want[r]]
      /\ body = [body EXCEPT ![r] = body[r]]
  BY DEF TypeOK, Places, Bodies
<1>1. pc[r] \in Places /\ want[r] \in Keys \cup {None} /\ body[r] \in Bodies
  BY <1>0
<1>2. ASSUME NEW k \in Keys, Lookup(r, k) PROVE Own(r)
  <2>1. "ring" \in Places
    BY DEF Places
  <2> QED BY <1>0, <1>1, <1>2, <2>1 DEF Lookup, Own, Goto
<1>3. ASSUME RingHit(r) PROVE Own(r)
  <2>1. file[want[r]] \in Bodies /\ "insert" \in Places
    BY <1>3 DEF RingHit, TypeOK, Bodies, Places
  <2> QED BY <1>0, <1>1, <1>3, <2>1 DEF RingHit, Own, Goto
<1>4. ASSUME Fetch(r) \/ FetchFails(r) \/ Insert(r) PROVE Own(r)
  <2>1. {"idle", "put"} \subseteq Places /\ {"none", "whole"} \subseteq Bodies
    BY DEF Places, Bodies
  <2> QED BY <1>0, <1>1, <1>4, <2>1 DEF Fetch, FetchFails, Insert, Own, Goto
<1>5. ASSUME RingMiss(r) \/ PutBegin(r) \/ PutOpen(r) \/ PutWrite(r) \/ PutWriteFails(r)
             \/ PersistOpen(r) \/ PersistWrite(r)
      PROVE Own(r)
  <2>1. \E p \in Places : pc' = [pc EXCEPT ![r] = p]
    <3>1. {"fetch", "open", "write", "indexOpen", "indexWrite", "insert"} \subseteq Places
      BY DEF Places
    <3> QED BY <1>5, <3>1 DEF RingMiss, PutBegin, PutOpen, PutWrite, PutWriteFails, PersistOpen,
               PersistWrite, Goto
  <2>2. want' = want /\ body' = body
    BY <1>5 DEF RingMiss, PutBegin, PutOpen, PutWrite, PutWriteFails, PersistOpen, PersistWrite
  <2> QED BY <1>0, <1>1, <2>1, <2>2 DEF Own
<1> QED BY <1>2, <1>3, <1>4, <1>5 DEF Read

\* The slots that put leaves, with its key and its victim gone.
LEMMA ClearedTypes ==
  ASSUME TypeOK, NEW k \in Keys
  PROVE /\ Cleared(k) \in [Slots -> Keys \cup {None}]
        /\ capacity \in Nat \ {0} /\ Slots = 0..capacity - 1 /\ NextCursor \in Slots
<1>1. capacity \in Nat \ {0}
  BY DEF TypeOK
<1>2. Cleared(k) \in [Slots -> Keys \cup {None}]
  BY DEF Cleared, TypeOK
<1>3. cursor \in Nat /\ (cursor + 1) % capacity \in 0..capacity - 1
  BY <1>1 DEF TypeOK, Slots
<1> QED BY <1>1, <1>2, <1>3 DEF NextCursor, Slots

\* The steps inside the ring keep its types.
LEMMA RingTypes ==
  ASSUME TypeOK, CallInv, NEW r \in Readers, lru' \in Seq(Entries),
         \/ RingMiss(r) \/ PutBegin(r) \/ PutOpen(r) \/ PutWrite(r) \/ PutWriteFails(r)
         \/ PersistOpen(r) \/ PersistWrite(r)
  PROVE TypeOK'
<1>1. Own(r)
  BY ReadIsOwn DEF Read
<1>2. /\ pc' \in [Readers -> Places] /\ want' \in [Readers -> Keys \cup {None}]
      /\ body' \in [Readers -> Bodies]
  BY <1>1, OwnTypes
<1>3. capacity' = capacity /\ up' = up /\ Slots' = Slots /\ held' = held /\ cut' = cut
  BY DEF RingMiss, PutBegin, PutOpen, PutWrite, PutWriteFails, PersistOpen, PersistWrite,
         runVars, Slots
<1>4. want[r] \in Keys /\ owner' \in Readers \cup {Nobody}
  BY DEF RingMiss, PutBegin, PutOpen, PutWrite, PutWriteFails, PersistOpen, PersistWrite,
         CallInv, ringVars, TypeOK
<1>5. faults' \in [{"crash", "diskFull"} -> Nat]
  <2>1. faults' = faults \/ \E kind \in Faults : faults' = [faults EXCEPT ![kind] = @ + 1]
    BY DEF RingMiss, PutBegin, PutOpen, PutWrite, PutWriteFails, PersistOpen, PersistWrite, Fault
  <2> QED BY <2>1 DEF TypeOK
<1>6. /\ byKey \in [DOMAIN byKey -> Slots] /\ DOMAIN byKey \subseteq Keys
      /\ file \in [DOMAIN file -> {"whole", "torn"}] /\ DOMAIN file \subseteq Keys
      /\ slots \in [Slots -> Keys \cup {None}] /\ cursor \in Slots
  BY DEF TypeOK
<1>7. slots' \in [Slots -> Keys \cup {None}] /\ cursor' \in Slots
  BY <1>4, <1>6, ClearedTypes DEF RingMiss, PutBegin, PutOpen, PutWrite, PutWriteFails,
     PersistOpen, PersistWrite, Emptied, ringVars
<1>8. DOMAIN byKey' \subseteq Keys /\ byKey' \in [DOMAIN byKey' -> Slots]
  <2>1. CASE byKey' = byKey
    BY <1>6, <2>1
  <2>2. CASE \E S : byKey' = Without(byKey, S)
    BY <1>6, <2>2 DEF Without
  <2>3. CASE byKey' = Put(byKey, want[r], cursor)
    BY <1>4, <1>6, <2>3 DEF Put
  <2> QED BY <2>1, <2>2, <2>3 DEF RingMiss, PutBegin, PutOpen, PutWrite, PutWriteFails,
             PersistOpen, PersistWrite, Emptied, ringVars
<1>9. DOMAIN file' \subseteq Keys /\ file' \in [DOMAIN file' -> {"whole", "torn"}]
  <2>1. CASE file' = file
    BY <1>6, <2>1
  <2>2. CASE \E S : file' = Without(file, S)
    BY <1>6, <2>2 DEF Without
  <2>3. CASE \E b \in {"whole", "torn"} : file' = Put(file, want[r], b)
    BY <1>4, <1>6, <2>3 DEF Put
  <2> QED BY <2>1, <2>2, <2>3 DEF RingMiss, PutBegin, PutOpen, PutWrite, PutWriteFails,
             PersistOpen, PersistWrite, diskVars, FilesLeft
<1>10. index' \in [state : {"none", "torn", "whole"}, capacity : Nat, cursor : Nat,
                   slots : [0..index'.capacity - 1 -> Keys \cup {None}]]
  <2>1. CASE index' = index
    BY <2>1 DEF TypeOK
  <2>2. CASE index' = [NoIndex EXCEPT !.state = "torn"]
    <3>1. Empty(0) \in [0..0 - 1 -> Keys \cup {None}]
      BY DEF Empty
    <3> QED BY <2>2, <3>1 DEF NoIndex
  <2>3. CASE index' = Persisted
    <3>1. capacity \in Nat /\ cursor \in Nat /\ slots \in [0..capacity - 1 -> Keys \cup {None}]
      BY <1>6, ClearedTypes, <1>4 DEF Slots
    <3> QED BY <2>3, <3>1 DEF Persisted
  <2> QED BY <2>1, <2>2, <2>3 DEF RingMiss, PutBegin, PutOpen, PutWrite, PutWriteFails,
             PersistOpen, PersistWrite, diskVars
<1>11. capacity' \in Capacities /\ up' \in {"up", "down", "refused"}
  BY <1>3 DEF TypeOK
<1> QED BY <1>2, <1>3, <1>4, <1>5, <1>7, <1>8, <1>9, <1>10, <1>11
        DEF TypeOK, Places, Bodies, Entries

\* The steps outside the ring.
Outside(r) ==
  (\E k \in Keys : Lookup(r, k)) \/ RingHit(r) \/ Fetch(r) \/ FetchFails(r) \/ Insert(r)

\* They leave the ring and the disk alone.
LEMMA OutsideQuiet == ASSUME NEW r, Outside(r) PROVE Quiet
  BY DEF Outside, Lookup, RingHit, Fetch, FetchFails, Insert, Quiet

\* And they keep the types.
LEMMA OutsideTypes ==
  ASSUME TypeOK, NEW r \in Readers, Outside(r), lru' \in Seq(Entries)
  PROVE TypeOK'
<1>1. Quiet
  BY OutsideQuiet
<1>2. Own(r)
  BY ReadIsOwn DEF Read, Outside
<1> QED BY <1>1, <1>2, OwnTypes, QuietTypes

\* What a process starts with on the directory of an earlier one.
LEMMA RestartAdopts ==
  ASSUME TypeOK, Restart
  PROVE /\ capacity' \in Capacities /\ capacity' \in Nat \ {0} /\ Slots' = 0..capacity' - 1
        /\ slots' \in [Slots' -> Keys \cup {None}]
        /\ DOMAIN byKey' = Resident'
        /\ \A k \in DOMAIN byKey' : byKey'[k] \in Slots' /\ slots'[byKey'[k]] = k
        /\ byKey' \in [DOMAIN byKey' -> Slots']
        /\ cursor' \in Slots'
        /\ \/ index.state = "whole" /\ index.capacity = capacity' /\ slots' = index.slots
           \/ \A i \in Slots' : slots'[i] = None
        /\ index.state = "whole" /\ index.capacity = capacity' => slots' = index.slots
<1>1. PICK n \in Capacities :
        LET adopted == IF Adopts(n) THEN index.slots ELSE Empty(n)
        IN  /\ capacity' = n
            /\ cursor' = IF Adopts(n) THEN index.cursor % n ELSE 0
            /\ slots' = adopted
            /\ byKey' = [k \in Range(adopted) \ {None} |->
                           CHOOSE i \in DOMAIN adopted : adopted[i] = k]
  BY DEF Restart
<1> DEFINE adopted == IF Adopts(n) THEN index.slots ELSE Empty(n)
<1>2. n \in Nat \ {0} /\ Slots' = 0..n - 1
  BY <1>1 DEF Slots
<1>3. adopted \in [0..n - 1 -> Keys \cup {None}]
  <2>1. CASE Adopts(n)
    <3>1. index.slots \in [0..index.capacity - 1 -> Keys \cup {None}]
      BY DEF TypeOK
    <3> QED BY <2>1, <3>1 DEF Adopts
  <2>2. CASE ~Adopts(n)
    BY <2>2 DEF Empty
  <2> QED BY <2>1, <2>2
<1>4. /\ \/ index.state = "whole" /\ index.capacity = n /\ adopted = index.slots
         \/ \A i \in 0..n - 1 : adopted[i] = None
      /\ index.state = "whole" /\ index.capacity = n => adopted = index.slots
  BY DEF Adopts, Empty
<1>5. cursor' \in 0..n - 1
  <2>1. index.cursor \in Nat
    BY DEF TypeOK
  <2>2. index.cursor % n \in 0..n - 1 /\ 0 \in 0..n - 1
    BY <1>2, <2>1
  <2> QED BY <1>1, <2>2
<1> HIDE DEF adopted
<1>6. slots' = adopted /\ capacity' = n
      /\ byKey' = [k \in Range(adopted) \ {None} |-> CHOOSE i \in DOMAIN adopted : adopted[i] = k]
  BY <1>1 DEF adopted
<1>7. Range(adopted) = {adopted[i] : i \in 0..n - 1} /\ DOMAIN adopted = 0..n - 1
  BY <1>3 DEF Range
<1>8. DOMAIN byKey' = Resident'
  BY <1>2, <1>6, <1>7 DEF Resident
<1>9. ASSUME NEW k \in DOMAIN byKey' PROVE byKey'[k] \in 0..n - 1 /\ adopted[byKey'[k]] = k
  <2>1. \E i \in DOMAIN adopted : adopted[i] = k
    BY <1>6, <1>7, <1>9
  <2>2. byKey'[k] = CHOOSE i \in DOMAIN adopted : adopted[i] = k
    BY <1>6, <1>9
  <2> QED BY <1>7, <2>1, <2>2
<1>10. byKey' \in [DOMAIN byKey' -> Slots']
  BY <1>2, <1>6, <1>9
<1> QED BY <1>2, <1>3, <1>4, <1>5, <1>6, <1>8, <1>9, <1>10

\* The process is killed, started again, or refuses to start.
LEMMA CrashTypes ==
  ASSUME TypeOK, Crash \/ Restart \/ RestartRefused, lru' \in Seq(Entries)
  PROVE TypeOK'
<1>1. CASE Crash
  <2>1. Slots' = Slots /\ capacity' = capacity /\ capacity \in Nat \ {0}
    BY <1>1 DEF Crash, Slots, TypeOK
  <2>2. slots' \in [Slots -> Keys \cup {None}] /\ 0 \in Slots
    BY <1>1, <2>1 DEF Crash, Empty, Slots
  <2>3. DOMAIN byKey' \subseteq Keys /\ byKey' \in [DOMAIN byKey' -> Slots]
    BY <1>1 DEF Crash, Without, TypeOK
  <2>4. faults' \in [{"crash", "diskFull"} -> Nat]
    <3>1. faults' = [faults EXCEPT !["crash"] = @ + 1]
      BY <1>1 DEF Crash, Fault
    <3> QED BY <3>1 DEF TypeOK
  <2>5. /\ pc' \in [Readers -> {"idle", "ring", "fetch", "put", "open", "write", "indexOpen",
                         "indexWrite", "insert"}]
        /\ want' \in [Readers -> Keys \cup {None}]
        /\ body' \in [Readers -> {"none", "whole", "torn"}]
    BY <1>1 DEF Crash
  <2>6. owner' = Nobody /\ up' = "down" /\ cursor' = 0 /\ file' = file /\ index' = index
    BY <1>1 DEF Crash, diskVars
  <2>7. DOMAIN held' \subseteq Keys /\ held' \in [DOMAIN held' -> Slots] /\ cut' \in BOOLEAN
    BY <1>1 DEF Crash, Without, TypeOK
  <2> QED BY <2>1, <2>2, <2>3, <2>4, <2>5, <2>6, <2>7 DEF TypeOK, Entries
<1>2. CASE Restart
  <2>1. /\ owner' = owner /\ file' = file /\ index' = index /\ pc' = pc /\ want' = want
        /\ body' = body /\ faults' = faults /\ up' = "up"
    BY <1>2 DEF Restart, diskVars, readVars
  <2>2. /\ capacity' \in Capacities /\ slots' \in [Slots' -> Keys \cup {None}]
        /\ byKey' \in [DOMAIN byKey' -> Slots'] /\ DOMAIN byKey' \subseteq Keys
        /\ cursor' \in Slots'
    BY <1>2, RestartAdopts DEF Resident
  <2>3. DOMAIN held' \subseteq Keys /\ held' \in [DOMAIN held' -> Slots'] /\ cut' \in BOOLEAN
    BY <1>2 DEF Restart
  <2> QED BY <2>1, <2>2, <2>3 DEF TypeOK, Entries
<1>3. CASE RestartRefused
  <2>1. Slots' = Slots
    BY <1>3 DEF RestartRefused, Slots
  <2> QED BY <1>3, <2>1 DEF RestartRefused, TypeOK, ringVars, diskVars, readVars
<1> QED BY <1>1, <1>2, <1>3

\* Every step keeps the types.
LEMMA TypeStep ==
  ASSUME TypeOK, CallInv, LruInv, [Next]_vars
  PROVE TypeOK'
<1>0. lru' \in Seq(Entries)
  BY LruStep
<1>1. ASSUME NEW r \in Readers, Read(r) PROVE TypeOK'
  <2>1. \/ Outside(r)
        \/ RingMiss(r) \/ PutBegin(r) \/ PutOpen(r) \/ PutWrite(r) \/ PutWriteFails(r)
        \/ PersistOpen(r) \/ PersistWrite(r)
    BY <1>1 DEF Read, Outside
  <2> QED BY <1>0, <2>1, OutsideTypes, RingTypes
<1>2. CASE Crash \/ Restart \/ RestartRefused
  BY <1>0, <1>2, CrashTypes
<1>3. CASE UNCHANGED vars
  <2>1. Slots' = Slots
    BY <1>3 DEF vars, Slots
  <2> QED BY <1>3, <2>1 DEF vars, ringVars, diskVars, readVars, TypeOK
<1> QED BY <1>1, <1>2, <1>3 DEF Next

-----------------------------------------------------------------------------
(***************************************************************************)
(* The ring.                                                               *)
(***************************************************************************)
\* A reader takes steps in a process that is up, and it stays up.
LEMMA ReadIsUp ==
  ASSUME TypeOK, DownInv, NEW r \in Readers, Read(r)
  PROVE up' = up /\ up = "up"
<1>1. CASE \E k \in Keys : Lookup(r, k)
  BY <1>1 DEF Lookup, runVars
<1>2. CASE ~ \E k \in Keys : Lookup(r, k)
  <2>1. pc[r] # "idle" /\ up' = up
    BY <1>2 DEF Read, RingHit, RingMiss, Fetch, FetchFails, Insert, PutBegin, PutOpen,
       PutWrite, PutWriteFails, PersistOpen, PersistWrite, runVars
  <2> QED BY <2>1 DEF DownInv, TypeOK
<1> QED BY <1>1, <1>2

\* The control of a reader: only the reader inside put has the mutex, and a
\* call has its key and its body.
LEMMA ControlStep ==
  ASSUME TypeOK, MutexInv, CallInv, DownInv, [Next]_vars
  PROVE MutexInv' /\ CallInv' /\ DownInv'
<1>0. /\ pc \in [Readers -> Places] /\ want \in [Readers -> Keys \cup {None}]
      /\ body \in [Readers -> Bodies] /\ Nobody \notin Readers
  BY DEF TypeOK, Places, Bodies
<1>1. ASSUME NEW r \in Readers, Read(r) PROVE MutexInv' /\ CallInv' /\ DownInv'
  <2>1. Own(r)
    BY <1>1, ReadIsOwn
  <2>2. ASSUME NEW s \in Readers, s # r
        PROVE pc'[s] = pc[s] /\ want'[s] = want[s] /\ body'[s] = body[s]
    BY <1>0, <2>1, <2>2 DEF Own
  <2>3. up' = up /\ up = "up"
    BY <1>1, ReadIsUp
  <2>4. \/ pc[r] \notin Inside /\ pc'[r] \notin Inside /\ owner' = owner
        \/ pc[r] \notin Inside /\ pc'[r] \in Inside /\ owner = Nobody /\ owner' = r
        \/ pc[r] \in Inside /\ pc'[r] \in Inside /\ owner' = owner
        \/ pc[r] \in Inside /\ pc'[r] \notin Inside /\ owner' = Nobody
    BY <1>0, <1>1 DEF Read, Lookup, RingHit, RingMiss, Fetch, FetchFails, Insert, PutBegin, PutOpen,
       PutWrite, PutWriteFails, PersistOpen, PersistWrite, Goto, ringVars, Inside, Claiming
  <2>5. MutexInv'
    BY <1>0, <2>2, <2>4 DEF MutexInv
  <2>6. /\ pc'[r] # "idle" => want'[r] \in Keys
        /\ pc'[r] \in Inside \cup {"put", "insert"} => body'[r] \in {"whole", "torn"}
    BY <1>0, <1>1 DEF Read, Lookup, RingHit, RingMiss, Fetch, FetchFails, Insert, PutBegin, PutOpen,
       PutWrite, PutWriteFails, PersistOpen, PersistWrite, Goto, Inside, Claiming, CallInv, TypeOK
  <2>7. CallInv'
    BY <2>2, <2>6 DEF CallInv
  <2> QED BY <2>3, <2>5, <2>7 DEF DownInv
<1>2. CASE Crash
  BY <1>0, <1>2 DEF Crash, MutexInv, CallInv, DownInv, Inside, Claiming
<1>3. CASE Restart \/ RestartRefused
  <2>1. owner' = owner /\ pc' = pc /\ want' = want /\ body' = body /\ lru' = lru
        /\ (up' # "up" => up # "up")
    BY <1>3 DEF Restart, RestartRefused, readVars, ringVars
  <2> QED BY <2>1 DEF MutexInv, CallInv, DownInv
<1>4. CASE UNCHANGED vars
  BY <1>4 DEF vars, ringVars, diskVars, readVars, MutexInv, CallInv, DownInv
<1> QED BY <1>1, <1>2, <1>3, <1>4 DEF Next

\* A free mutex, or one held for the index, means that every slot counts.
LEMMA HeldIs ==
  ASSUME MutexInv
  PROVE /\ owner = Nobody => ~Claimed
        /\ \A r \in Readers : pc[r] \in Claiming => Claimed /\ owner = r
        /\ \A r \in Readers : pc[r] \in Inside \ Claiming => ~Claimed /\ owner = r
        /\ ~Claimed => \A i : Held(i) = slots[i]
        /\ Claimed => \A i : Held(i) = IF i = cursor THEN None ELSE slots[i]
  BY DEF MutexInv, Claimed, Held, Inside, Claiming

\* A step outside the ring: the mutex is where it was, and so is the put of its holder.
LEMMA OutsideRing ==
  ASSUME TypeOK, MutexInv, RingInv, ClaimInv, NEW r \in Readers, Outside(r)
  PROVE RingInv' /\ ClaimInv'
<1>1. Quiet /\ pc[r] \notin Inside /\ pc'[r] \notin Inside
  BY DEF Outside, Lookup, RingHit, Fetch, FetchFails, Insert, Quiet, Inside, Claiming, Goto, TypeOK
<1>2. ASSUME NEW s \in Readers, s # r PROVE pc'[s] = pc[s] /\ want'[s] = want[s]
  BY <1>2, ReadIsOwn DEF Read, Outside, Own, TypeOK
<1>3. Slots' = Slots /\ slots' = slots /\ byKey' = byKey /\ cursor' = cursor /\ owner' = owner
  BY <1>1 DEF Quiet, runVars, ringVars, Slots
<1>4. Claimed' = Claimed
  BY <1>1, <1>2, <1>3 DEF Claimed, Inside
<1>5. ASSUME NEW i PROVE Held(i)' = Held(i)
  BY <1>3, <1>4 DEF Held
<1>6. RingInv'
  BY <1>3, <1>5 DEF RingInv
<1>7. ClaimInv'
  BY <1>1, <1>2, <1>3 DEF ClaimInv, Inside
<1> QED BY <1>6, <1>7

\* A ring whose every slot counts.
FullInv ==
  /\ \A k \in DOMAIN byKey : slots[byKey[k]] = k
  /\ \A i \in Slots : slots[i] # None => slots[i] \in DOMAIN byKey /\ byKey[slots[i]] = i

\* A ring whose slot under the cursor does not.
PartInv ==
  /\ \A k \in DOMAIN byKey : byKey[k] # cursor /\ slots[byKey[k]] = k
  /\ \A i \in Slots : i # cursor /\ slots[i] # None =>
                        slots[i] \in DOMAIN byKey /\ byKey[slots[i]] = i

\* RingInv says the one or the other, as nobody or somebody is in put.
LEMMA RingForms ==
  ASSUME TypeOK
  PROVE /\ ~Claimed => (RingInv <=> FullInv)
        /\ Claimed => (RingInv <=> PartInv)
<1>1. \A k \in DOMAIN byKey : k # None /\ byKey[k] \in Slots
  BY DEF TypeOK
<1> QED BY <1>1 DEF RingInv, FullInv, PartInv, Held

\* A file that has vanished: its slot is cleared.
LEMMA RingMissRing ==
  ASSUME TypeOK, FullInv, NEW r \in Readers, RingMiss(r)
  PROVE FullInv'
<1> DEFINE k == want[r]
           gone == k \in DOMAIN byKey /\ slots[byKey[k]] = k
<1>1. Slots' = Slots /\ slots \in [Slots -> Keys \cup {None}]
      /\ \A x \in DOMAIN byKey : x # None /\ byKey[x] \in Slots
  BY DEF RingMiss, runVars, Slots, TypeOK
<1>2. CASE ~gone
  <2>1. slots' = slots /\ byKey' = byKey
    BY <1>2 DEF RingMiss
  <2> QED BY <1>1, <2>1 DEF FullInv
<1>3. CASE gone
  <2>1. /\ slots' = [slots EXCEPT ![byKey[k]] = None]
        /\ byKey' = [x \in DOMAIN byKey \ {k} |-> byKey[x]]
    BY <1>3 DEF RingMiss, Without
  <2>2. \A x \in DOMAIN byKey' : byKey'[x] # byKey[k] /\ slots'[byKey'[x]] = x
    BY <1>1, <1>3, <2>1 DEF FullInv
  <2>3. ASSUME NEW i \in Slots, slots'[i] # None
        PROVE slots'[i] \in DOMAIN byKey' /\ byKey'[slots'[i]] = i
    <3>1. i # byKey[k] /\ slots'[i] = slots[i]
      BY <1>1, <1>3, <2>1, <2>3
    <3>2. slots[i] \in DOMAIN byKey /\ byKey[slots[i]] = i
      BY <2>3, <3>1 DEF FullInv
    <3> QED BY <1>3, <2>1, <3>1, <3>2
  <2> QED BY <1>1, <2>2, <2>3 DEF FullInv
<1> QED BY <1>2, <1>3

\* put: the old slot of the key is cleared, and that under the cursor given up.
LEMMA PutBeginRing ==
  ASSUME TypeOK, FullInv, NEW r \in Readers, PutBegin(r)
  PROVE PartInv' /\ want[r] \notin DOMAIN byKey'
<1> DEFINE k == want[r]
           c == Cleared(k)
<1>1. /\ Slots' = Slots /\ slots \in [Slots -> Keys \cup {None}] /\ cursor \in Slots
      /\ \A x \in DOMAIN byKey : x # None /\ byKey[x] \in Slots
      /\ cursor' = cursor
  BY DEF PutBegin, runVars, Slots, TypeOK
<1>2. slots' = c /\ byKey' = [x \in DOMAIN byKey \ {k, c[cursor]} |-> byKey[x]]
  BY DEF PutBegin, Without
<1>3. \A i \in Slots : c[i] = IF k \in DOMAIN byKey /\ byKey[k] = i THEN None ELSE slots[i]
  BY DEF Cleared
<1> HIDE DEF c
<1>4. ASSUME NEW x \in DOMAIN byKey'
      PROVE byKey'[x] # cursor' /\ slots'[byKey'[x]] = x
  <2>1. x \in DOMAIN byKey /\ x # k /\ x # c[cursor] /\ byKey'[x] = byKey[x]
    BY <1>2
  <2>2. slots[byKey[x]] = x /\ byKey[x] \in Slots
    BY <1>1, <2>1 DEF FullInv
  <2>3. k \in DOMAIN byKey => byKey[k] # byKey[x]
    BY <2>1, <2>2 DEF FullInv
  <2>4. c[byKey[x]] = x
    BY <1>3, <2>2, <2>3
  <2> QED BY <1>1, <1>2, <2>1, <2>4
<1>5. ASSUME NEW i \in Slots, i # cursor, slots'[i] # None
      PROVE slots'[i] \in DOMAIN byKey' /\ byKey'[slots'[i]] = i
  <2>1. slots'[i] = slots[i] /\ ~(k \in DOMAIN byKey /\ byKey[k] = i)
    BY <1>2, <1>3, <1>5
  <2>2. slots[i] \in DOMAIN byKey /\ byKey[slots[i]] = i
    BY <1>5, <2>1 DEF FullInv
  <2>3. slots[i] # k
    BY <2>1, <2>2
  <2>4. slots[i] # c[cursor]
    <3>1. c[cursor] = None \/ c[cursor] = slots[cursor]
      BY <1>1, <1>3
    <3> QED BY <1>1, <1>5, <2>1, <2>2, <3>1 DEF FullInv
  <2> QED BY <1>2, <2>1, <2>2, <2>3, <2>4
<1>6. k \notin DOMAIN byKey'
  BY <1>2
<1> QED BY <1>1, <1>4, <1>5, <1>6 DEF PartInv

\* The file is written: the slot under the cursor counts again.
LEMMA PutWriteRing ==
  ASSUME TypeOK, PartInv, NEW r \in Readers, PutWrite(r), want[r] \in Keys,
         want[r] \notin DOMAIN byKey
  PROVE FullInv'
<1> DEFINE k == want[r]
<1>1. /\ Slots' = Slots /\ slots \in [Slots -> Keys \cup {None}] /\ cursor \in Slots
      /\ \A x \in DOMAIN byKey : byKey[x] \in Slots
      /\ k # None
  BY DEF PutWrite, runVars, Slots, TypeOK
<1>2. /\ slots' = [slots EXCEPT ![cursor] = k]
      /\ byKey' = [x \in DOMAIN byKey \cup {k} |-> IF x = k THEN cursor ELSE byKey[x]]
  BY DEF PutWrite, Put
<1>3. ASSUME NEW x \in DOMAIN byKey' PROVE slots'[byKey'[x]] = x
  BY <1>1, <1>2 DEF PartInv
<1>4. ASSUME NEW i \in Slots, slots'[i] # None
      PROVE slots'[i] \in DOMAIN byKey' /\ byKey'[slots'[i]] = i
  <2>1. CASE i = cursor
    BY <1>1, <1>2, <2>1
  <2>2. CASE i # cursor
    <3>1. slots'[i] = slots[i] /\ slots[i] \in DOMAIN byKey /\ byKey[slots[i]] = i
      BY <1>1, <1>2, <1>4, <2>2 DEF PartInv
    <3> QED BY <1>2, <3>1
  <2> QED BY <2>1, <2>2
<1> QED BY <1>1, <1>3, <1>4 DEF FullInv

\* The write fails: the slot under the cursor is empty and counts again.
LEMMA PutWriteFailsRing ==
  ASSUME TypeOK, PartInv, NEW r \in Readers, PutWriteFails(r)
  PROVE FullInv'
<1>1. /\ Slots' = Slots /\ slots \in [Slots -> Keys \cup {None}] /\ cursor \in Slots
      /\ \A x \in DOMAIN byKey : byKey[x] \in Slots
      /\ slots' = [slots EXCEPT ![cursor] = None] /\ byKey' = byKey
  BY DEF PutWriteFails, Emptied, runVars, Slots, TypeOK
<1> QED BY <1>1 DEF FullInv, PartInv

\* A fresh process: what it adopts is an index without repetitions.
LEMMA RestartRing ==
  ASSUME TypeOK, IndexInv, Restart
  PROVE FullInv'
<1>1. /\ capacity' \in Nat \ {0} /\ Slots' = 0..capacity' - 1
      /\ DOMAIN byKey' = Resident'
      /\ \A k \in DOMAIN byKey' : byKey'[k] \in Slots' /\ slots'[byKey'[k]] = k
      /\ \/ index.state = "whole" /\ index.capacity = capacity' /\ slots' = index.slots
         \/ \A i \in Slots' : slots'[i] = None
  BY RestartAdopts
<1>2. ASSUME NEW i \in Slots', slots'[i] # None
      PROVE slots'[i] \in DOMAIN byKey' /\ byKey'[slots'[i]] = i
  <2>1. index.state = "whole" /\ index.capacity = capacity' /\ slots' = index.slots
    BY <1>1, <1>2
  <2>2. slots'[i] \in DOMAIN byKey'
    BY <1>1, <1>2 DEF Resident
  <2>3. byKey'[slots'[i]] \in Slots' /\ slots'[byKey'[slots'[i]]] = slots'[i]
    BY <1>1, <2>2
  <2> QED BY <1>1, <1>2, <2>1, <2>2, <2>3 DEF IndexInv
<1> QED BY <1>1, <1>2 DEF FullInv

\* Every step keeps byKey the inverse of the slots, and the index without repetitions.
LEMMA RingStep ==
  ASSUME Shape, [Next]_vars, MutexInv'
  PROVE RingInv' /\ ClaimInv' /\ IndexInv'
<1> USE DEF Shape
<1>0. Nobody \notin Readers /\ pc \in [Readers -> Places]
  BY DEF TypeOK, Places
<1>1. ASSUME NEW r \in Readers, Read(r) PROVE RingInv' /\ ClaimInv' /\ IndexInv'
  <2>0. Own(r) /\ \A s \in Readers : s # r => pc'[s] = pc[s] /\ want'[s] = want[s]
    BY <1>1, ReadIsOwn DEF Own, TypeOK
  <2>1. CASE Outside(r)
    <3>1. index' = index
      BY <2>1, OutsideQuiet DEF Quiet, diskVars
    <3> QED BY <2>1, <3>1, OutsideRing DEF IndexInv
  <2>2. CASE RingMiss(r)
    <3>1. owner = Nobody /\ owner' = Nobody /\ index' = index
      BY <2>2 DEF RingMiss, diskVars
    <3>2. ~Claimed /\ ~Claimed' /\ \A s \in Readers : pc'[s] \notin Claiming
      BY <1>0, <3>1 DEF Claimed, MutexInv, Inside
    <3>3. FullInv'
      BY <2>2, <3>2, RingForms, RingMissRing
    <3> QED BY <3>1, <3>2, <3>3 DEF FullInv, RingInv, Held, ClaimInv, IndexInv
  <2>3. CASE PutBegin(r)
    <3>1. owner = Nobody /\ owner' = r /\ pc'[r] = "open" /\ index' = index /\ want' = want
      BY <1>0, <2>3 DEF PutBegin, Goto
    <3>2. ~Claimed /\ Claimed' /\ \A s \in Readers : pc'[s] \in Claiming => s = r
      BY <1>0, <3>1 DEF Claimed, Claiming, MutexInv, Inside
    <3>3. PartInv' /\ want[r] \notin DOMAIN byKey'
      BY <2>3, <3>2, RingForms, PutBeginRing
    <3>4. RingInv'
      <4>1. \A k \in DOMAIN byKey' : byKey'[k] # cursor' /\ slots'[byKey'[k]] = k
        BY <3>3 DEF PartInv
      <4> QED BY <3>2, <3>3, <4>1 DEF PartInv, RingInv, Held
    <3> QED BY <3>1, <3>2, <3>3, <3>4 DEF ClaimInv, IndexInv
  <2>4. CASE PutOpen(r)
    <3>1. /\ pc[r] = "open" /\ pc'[r] = "write" /\ want' = want /\ index' = index
          /\ Slots' = Slots /\ slots' = slots /\ byKey' = byKey /\ cursor' = cursor /\ owner' = owner
      BY <1>0, <2>4 DEF PutOpen, Goto, ringVars, runVars, Slots
    <3>2. Claimed' = Claimed
      BY <2>0, <3>1 DEF Claimed, Claiming
    <3>3. \A i : Held(i)' = Held(i)
      BY <3>1, <3>2 DEF Held
    <3>4. ClaimInv'
      BY <2>0, <3>1 DEF ClaimInv, Claiming
    <3>5. RingInv'
      BY <3>1, <3>3 DEF RingInv
    <3> QED BY <3>1, <3>4, <3>5 DEF IndexInv
  <2>5. CASE PutWrite(r) \/ PutWriteFails(r)
    <3>1. /\ pc[r] = "write" /\ pc'[r] \notin Claiming /\ index' = index
      BY <1>0, <2>5 DEF PutWrite, PutWriteFails, Goto, diskVars, Claiming
    <3>2. Claimed /\ owner = r /\ \A s \in Readers : pc'[s] \notin Claiming
      BY <1>0, <2>0, <3>1 DEF Claimed, Claiming, MutexInv, Inside
    <3>3. ~Claimed'
      BY <3>2 DEF Claimed
    <3>4. PartInv /\ want[r] \in Keys /\ want[r] \notin DOMAIN byKey
      BY <3>1, <3>2, RingForms DEF CallInv, ClaimInv, Claiming
    <3>5. FullInv'
      BY <2>5, <3>4, PutWriteRing, PutWriteFailsRing
    <3> QED BY <3>1, <3>2, <3>3, <3>5 DEF FullInv, RingInv, Held, ClaimInv, IndexInv
  <2>6. CASE PersistOpen(r) \/ PersistWrite(r)
    <3>1. /\ pc[r] \in {"indexOpen", "indexWrite"} /\ pc'[r] \notin Claiming /\ want' = want
          /\ Slots' = Slots /\ slots' = slots /\ byKey' = byKey /\ cursor' = cursor
      BY <1>0, <2>6 DEF PersistOpen, PersistWrite, Goto, ringVars, runVars, Claiming, Slots
    <3>2. ~Claimed /\ owner = r /\ \A s \in Readers : pc'[s] \notin Claiming
      BY <1>0, <2>0, <3>1 DEF Claimed, Claiming, MutexInv, Inside
    <3>3. ~Claimed'
      BY <3>2 DEF Claimed
    <3>4. RingInv' /\ FullInv
      <4>1. \A i : Held(i)' = Held(i)
        BY <3>1, <3>2, <3>3 DEF Held
      <4>2. RingInv'
        BY <3>1, <4>1 DEF RingInv
      <4> QED BY <3>2, <4>2, RingForms
    <3>5. IndexInv'
      <4>1. CASE index' = index
        BY <4>1 DEF IndexInv
      <4>2. CASE index' = [NoIndex EXCEPT !.state = "torn"]
        BY <4>2 DEF IndexInv, NoIndex
      <4>3. CASE index' = Persisted
        <5>1. /\ \A i, j \in 0..capacity - 1 : slots[i] = slots[j] /\ slots[i] # None => i = j
          BY <3>4 DEF FullInv, Slots
        <5> QED BY <4>3, <5>1 DEF IndexInv, Persisted
      <4> QED BY <2>6, <4>1, <4>2, <4>3 DEF PersistOpen, PersistWrite
    <3> QED BY <3>2, <3>4, <3>5 DEF ClaimInv
  <2> QED BY <1>1, <2>1, <2>2, <2>3, <2>4, <2>5, <2>6 DEF Read, Outside
<1>2. CASE Crash
  <2>1. /\ DOMAIN byKey' = {} /\ Slots' = Slots /\ index' = index
        /\ \A s \in Readers : pc'[s] = "idle"
    BY <1>2 DEF Crash, Without, TypeOK, diskVars, Slots
  <2>2. \A i \in Slots : slots'[i] = None
    BY <1>2 DEF Crash, Empty, Slots
  <2>3. ~Claimed'
    BY <2>1 DEF Claimed, Claiming
  <2> QED BY <2>1, <2>2, <2>3 DEF RingInv, Held, ClaimInv, Claiming, IndexInv
<1>3. CASE Restart
  <2>1. pc' = pc /\ up = "down" /\ index' = index
    BY <1>3 DEF Restart, readVars, diskVars
  <2>2. ~Claimed' /\ \A s \in Readers : pc'[s] \notin Claiming
    BY <2>1 DEF DownInv, Claimed, Claiming
  <2>3. FullInv'
    BY <1>3, RestartRing
  <2> QED BY <2>1, <2>2, <2>3 DEF FullInv, RingInv, Held, ClaimInv, IndexInv
<1>4. CASE RestartRefused \/ UNCHANGED vars
  <2>1. /\ Slots' = Slots /\ slots' = slots /\ byKey' = byKey /\ cursor' = cursor /\ owner' = owner
        /\ pc' = pc /\ want' = want /\ index' = index
    BY <1>4 DEF RestartRefused, vars, ringVars, diskVars, readVars, Slots
  <2>2. Claimed' = Claimed
    BY <2>1 DEF Claimed
  <2>3. \A i : Held(i)' = Held(i)
    BY <2>1, <2>2 DEF Held
  <2>4. RingInv'
    BY <2>1, <2>3 DEF RingInv
  <2> QED BY <2>1, <2>4 DEF ClaimInv, IndexInv
<1> QED BY <1>1, <1>2, <1>3, <1>4 DEF Next

-----------------------------------------------------------------------------
(***************************************************************************)
(* The index, the files and the bodies.                                    *)
(***************************************************************************)
Writing == \E r \in Readers : pc[r] = "indexWrite"

\* The index has k in slot i.
IndexNames(k, i) == index.state = "whole" /\ index.capacity = capacity /\ index.slots[i] = k

\* An index that is not cut short names what the ring holds, or held when the
\* process was killed, but for the key that is being put: what a put gives up
\* may still be named, what it adds is not yet.
WarmInv ==
  /\ Writing => index.state = "torn"
  /\ up = "up" => IF index.state = "torn" THEN Writing \/ faults["diskFull"] > 0
                     ELSE \A k \in DOMAIN byKey : k \in InHand \/ IndexNames(k, byKey[k])
  /\ up # "up" => IF index.state = "torn" THEN cut \/ faults["diskFull"] > 0
                     ELSE \A k \in DOMAIN held : IndexNames(k, held[k])

\* What a crash leaves behind is noticed by nobody before it.
KilledInv == faults["crash"] = 0 => up = "up"

\* Every file is that of a slot, or of the slot that is being written.
FileInv ==
  faults["crash"] + faults["diskFull"] = 0 =>
    \A k \in DOMAIN file : \/ k \in DOMAIN byKey
                           \/ \E r \in Readers : pc[r] \in Claiming /\ want[r] = k

\* A torn file belongs to no slot, and its content to nobody.
WholeInv ==
  faults["crash"] = 0 =>
    /\ \A k \in DOMAIN byKey \cap DOMAIN file : file[k] = "whole"
    /\ \A r \in Readers : body[r] # "torn"
    /\ \A i \in DOMAIN lru : lru[i].body # "torn"

\* The number of faults of a kind only grows.
LEMMA FaultsGrow ==
  ASSUME TypeOK, [Next]_vars
  PROVE /\ faults["crash"] \in Nat /\ faults["diskFull"] \in Nat
        /\ faults'["crash"] \in Nat /\ faults'["diskFull"] \in Nat
        /\ faults["crash"] <= faults'["crash"] /\ faults["diskFull"] <= faults'["diskFull"]
        /\ Crash => faults'["crash"] > 0
        /\ \A r \in Readers : PutWriteFails(r) => faults'["diskFull"] > 0
        /\ \A r \in Readers : PersistWrite(r) => index' = Persisted \/ faults'["diskFull"] > 0
<1>1. faults \in [{"crash", "diskFull"} -> Nat]
  BY DEF TypeOK
<1>2. ASSUME NEW kind, Fault(kind)
      PROVE /\ kind \in {"crash", "diskFull"} /\ faults'[kind] > 0
            /\ faults'["crash"] \in Nat /\ faults'["diskFull"] \in Nat
            /\ faults["crash"] <= faults'["crash"] /\ faults["diskFull"] <= faults'["diskFull"]
  <2>1. kind \in {"crash", "diskFull"} /\ faults' = [faults EXCEPT ![kind] = @ + 1]
    BY <1>2 DEF Fault
  <2> QED BY <1>1, <2>1
<1>3. (\E kind : Fault(kind)) \/ faults' = faults
  <2>1. ASSUME NEW r \in Readers, Read(r) PROVE (\E kind : Fault(kind)) \/ faults' = faults
    BY <2>1 DEF Read, Lookup, RingHit, RingMiss, Fetch, FetchFails, PutBegin, PutOpen, PutWrite,
       PutWriteFails, PersistOpen, PersistWrite, Insert
  <2> QED BY <2>1 DEF Next, Crash, Restart, RestartRefused, vars
<1>4. Crash => faults'["crash"] > 0
  BY <1>2 DEF Crash
<1>5. \A r \in Readers : PutWriteFails(r) => faults'["diskFull"] > 0
  BY <1>2 DEF PutWriteFails
<1>6. \A r \in Readers : PersistWrite(r) => index' = Persisted \/ faults'["diskFull"] > 0
  BY <1>2 DEF PersistWrite
<1> QED BY <1>1, <1>2, <1>3, <1>4, <1>5, <1>6

\* Before the first kill the process is up.
LEMMA KilledStep ==
  ASSUME TypeOK, KilledInv, [Next]_vars
  PROVE KilledInv'
<1>1. CASE Crash \/ Restart
  <2>1. faults'["crash"] > 0 \/ up' = "up"
    BY <1>1, FaultsGrow DEF Restart
  <2> QED BY <2>1, FaultsGrow DEF KilledInv
<1>2. CASE RestartRefused
  BY <1>2 DEF KilledInv, RestartRefused
<1>3. ASSUME NEW r \in Readers, Read(r) PROVE up' = up
  BY <1>3 DEF Read, Lookup, RingHit, RingMiss, Fetch, FetchFails, PutBegin, PutOpen, PutWrite,
     PutWriteFails, PersistOpen, PersistWrite, Insert, runVars
<1>4. CASE UNCHANGED vars
  BY <1>4 DEF vars, KilledInv
<1> QED BY <1>1, <1>2, <1>3, <1>4, FaultsGrow DEF KilledInv, Next

\* The ring gains no key, and nobody lets go of one, but by a write or a restart.
LEMMA RingShrinks ==
  ASSUME Shape, NEW r \in Readers,
         Outside(r) \/ RingMiss(r) \/ PutBegin(r) \/ PutOpen(r)
  PROVE /\ capacity' = capacity /\ index' = index
        /\ Writing' = Writing /\ pc[r] # "indexWrite"
        /\ \A k \in DOMAIN byKey' : k \in DOMAIN byKey /\ byKey'[k] = byKey[k]
        /\ \A k \in InHand : k \in InHand'
<1> USE DEF Shape
<1>0. Nobody \notin Readers /\ pc \in [Readers -> Places] /\ want \in [Readers -> Keys \cup {None}]
  BY DEF TypeOK, Places
<1>1. Own(r) /\ \A s \in Readers : s # r => pc'[s] = pc[s] /\ want'[s] = want[s]
  BY ReadIsOwn DEF Own, TypeOK, Read, Outside
<1>2. capacity' = capacity /\ index' = index
  BY OutsideQuiet DEF Quiet, RingMiss, PutBegin, PutOpen, runVars, diskVars
<1>3. pc[r] # "indexWrite" /\ pc'[r] # "indexWrite"
  BY <1>0 DEF Outside, Lookup, RingHit, Fetch, FetchFails, Insert, RingMiss, PutBegin, PutOpen, Goto
<1>4. Writing' = Writing
  BY <1>1, <1>3 DEF Writing
<1>5. \A k \in DOMAIN byKey' : k \in DOMAIN byKey /\ byKey'[k] = byKey[k]
  <2>1. byKey' = byKey \/ \E S : byKey' = Without(byKey, S)
    BY OutsideQuiet DEF Quiet, RingMiss, PutBegin, PutOpen, ringVars
  <2> QED BY <2>1 DEF Without
<1>6. ASSUME NEW s \in Readers, owner = s PROVE owner' = s /\ want'[s] = want[s]
  <2>1. CASE s = r
    <3>1. pc[r] \in Inside
      BY <1>6, <2>1 DEF MutexInv
    <3>2. PutOpen(r)
      BY <1>0, <1>6, <2>1, <3>1 DEF Outside, Lookup, RingHit, Fetch, FetchFails, Insert, RingMiss,
         PutBegin, Inside, Claiming
    <3> QED BY <1>6, <2>1, <3>2 DEF PutOpen, ringVars
  <2>2. CASE s # r
    <3>1. owner' = owner
      BY <1>0, <1>6, OutsideQuiet DEF Quiet, RingMiss, PutBegin, PutOpen, ringVars
    <3> QED BY <1>1, <1>6, <2>2, <3>1
  <2> QED BY <2>1, <2>2
<1>7. \A k \in InHand : k \in InHand'
  BY <1>6 DEF InHand
<1> QED BY <1>2, <1>3, <1>4, <1>5, <1>7

\* Who has the mutex, and what it puts.
LEMMA InHandIs ==
  ASSUME Shape, NEW r \in Readers, pc[r] \in Inside
  PROVE owner = r /\ InHand = {want[r]} /\ \A s \in Readers : pc[s] \in Inside => s = r
  BY DEF Shape, MutexInv, InHand

\* The index names what the ring holds.
LEMMA WarmStep ==
  ASSUME Shape, WarmInv, [Next]_vars
  PROVE WarmInv'
<1> USE DEF Shape
<1>0. Nobody \notin Readers /\ pc \in [Readers -> Places] /\ faults["diskFull"] \in Nat
      /\ faults'["diskFull"] \in Nat /\ faults["diskFull"] <= faults'["diskFull"]
  BY FaultsGrow DEF TypeOK, Places
<1>1. ASSUME NEW r \in Readers, Read(r) PROVE WarmInv'
  <2>0. up = "up" /\ up' = "up"
    BY <1>1, ReadIsUp
  <2>1. Own(r) /\ \A s \in Readers : s # r => pc'[s] = pc[s] /\ want'[s] = want[s]
    BY <1>1, ReadIsOwn DEF Own, TypeOK
  <2>2. CASE Outside(r) \/ RingMiss(r) \/ PutBegin(r) \/ PutOpen(r)
    <3>1. /\ capacity' = capacity /\ index' = index /\ Writing' = Writing
          /\ \A k \in DOMAIN byKey' : k \in DOMAIN byKey /\ byKey'[k] = byKey[k]
          /\ \A k \in InHand : k \in InHand'
      BY <2>2, RingShrinks
    <3> QED BY <1>0, <2>0, <3>1 DEF WarmInv, IndexNames
  <2>3. CASE PutWrite(r)
    <3>1. /\ pc[r] = "write" /\ pc'[r] = "indexOpen" /\ want' = want /\ owner' = owner
          /\ index' = index /\ capacity' = capacity /\ byKey' = Put(byKey, want[r], cursor)
      BY <1>0, <2>3 DEF PutWrite, Goto, runVars
    <3>2. pc[r] \in Inside
      BY <3>1 DEF Inside, Claiming
    <3>3. Writing' = Writing /\ InHand' = InHand /\ InHand = {want[r]}
      BY <2>1, <3>1, <3>2, InHandIs DEF Writing, InHand
    <3>4. \A k \in DOMAIN byKey' : k = want[r] \/ (k \in DOMAIN byKey /\ byKey'[k] = byKey[k])
      BY <3>1 DEF Put
    <3> QED BY <1>0, <2>0, <3>1, <3>3, <3>4 DEF WarmInv, IndexNames
  <2>4. CASE PutWriteFails(r)
    <3>1. /\ pc[r] = "write" /\ pc'[r] = "insert" /\ index' = index /\ capacity' = capacity
          /\ byKey' = byKey /\ faults'["diskFull"] > 0
      BY <1>0, <2>4, FaultsGrow DEF PutWriteFails, Emptied, Goto, runVars, diskVars
    <3>2. pc[r] \in Claiming /\ pc[r] \in Inside
      BY <3>1 DEF Inside, Claiming
    <3>3. InHand = {want[r]} /\ want[r] \notin DOMAIN byKey
      BY <3>2, InHandIs DEF ClaimInv
    <3>4. Writing' = Writing
      BY <2>1, <3>1 DEF Writing
    <3> QED BY <2>0, <3>1, <3>3, <3>4 DEF WarmInv, IndexNames
  <2>5. CASE PersistOpen(r)
    <3>1. index'.state = "torn" /\ pc'[r] = "indexWrite"
      BY <1>0, <2>5 DEF PersistOpen, Goto, NoIndex
    <3>2. Writing'
      BY <3>1 DEF Writing
    <3> QED BY <2>0, <3>1, <3>2 DEF WarmInv
  <2>6. CASE PersistWrite(r)
    <3>1. /\ pc[r] = "indexWrite" /\ pc'[r] = "insert"
          /\ capacity' = capacity /\ byKey' = byKey
      BY <1>0, <2>6 DEF PersistWrite, Goto, runVars
    <3>2. pc[r] \in Inside /\ pc[r] \notin Claiming
      BY <3>1 DEF Inside, Claiming
    <3>3. owner = r /\ ~Writing'
      BY <2>1, <3>1, <3>2, InHandIs DEF Writing, Inside
    <3>4. CASE index' = Persisted
      <4>1. ~Claimed
        BY <3>2, <3>3 DEF Claimed
      <4>2. \A k \in DOMAIN byKey : slots[byKey[k]] = k
        BY <4>1 DEF RingInv, Held
      <4>3. index'.state = "whole" /\ index'.capacity = capacity /\ index'.slots = slots
        BY <3>4 DEF Persisted
      <4> QED BY <2>0, <3>1, <3>3, <4>2, <4>3 DEF WarmInv, IndexNames
    <3>5. CASE index' = index
      <4>1. Writing /\ index.state = "torn"
        BY <3>1 DEF Writing, WarmInv
      <4>2. index.state # Persisted.state
        BY <4>1 DEF Persisted
      <4>3. index' # Persisted
        BY <3>5, <4>2
      <4>4. faults'["diskFull"] > 0
        BY <2>6, <4>3, FaultsGrow
      <4> QED BY <2>0, <3>3, <3>5, <4>1, <4>4 DEF WarmInv
    <3> QED BY <2>6, <3>4, <3>5 DEF PersistWrite
  <2> QED BY <1>1, <2>2, <2>3, <2>4, <2>5, <2>6 DEF Read, Outside
<1>2. CASE Crash
  <2>1. /\ up = "up" /\ up' = "down" /\ index' = index /\ capacity' = capacity
        /\ held' = Without(byKey, InHand) /\ cut' = Writing
        /\ \A r \in Readers : pc'[r] = "idle"
    BY <1>2 DEF Crash, diskVars, Writing
  <2>2. ~Writing'
    BY <2>1 DEF Writing
  <2>3. \A k \in DOMAIN held' : k \in DOMAIN byKey /\ k \notin InHand /\ held'[k] = byKey[k]
    BY <2>1 DEF Without
  <2> QED BY <1>0, <2>1, <2>2, <2>3 DEF WarmInv, IndexNames
<1>3. CASE Restart
  <2>1. /\ pc' = pc /\ up = "down" /\ up' = "up" /\ index' = index /\ index.state # "torn"
    BY <1>3 DEF Restart, readVars, diskVars
  <2>2. ~Writing'
    BY <2>1 DEF Writing, DownInv
  <2>3. /\ DOMAIN byKey' = Resident'
        /\ \A k \in DOMAIN byKey' : byKey'[k] \in Slots' /\ slots'[byKey'[k]] = k
        /\ \/ index.state = "whole" /\ index.capacity = capacity' /\ slots' = index.slots
           \/ \A i \in Slots' : slots'[i] = None
    BY <1>3, RestartAdopts
  <2>4. None \notin DOMAIN byKey'
    BY <2>3 DEF Resident
  <2> QED BY <2>1, <2>2, <2>3, <2>4 DEF WarmInv, IndexNames
<1>4. CASE RestartRefused \/ UNCHANGED vars
  <2>1. /\ pc' = pc /\ byKey' = byKey /\ index' = index /\ capacity' = capacity /\ owner' = owner
        /\ want' = want /\ held' = held /\ cut' = cut /\ faults' = faults
        /\ up' = up \/ (up = "down" /\ up' = "refused")
    BY <1>4 DEF RestartRefused, vars, ringVars, diskVars, readVars
  <2>2. Writing' = Writing /\ InHand' = InHand
    BY <2>1 DEF Writing, InHand
  <2> QED BY <2>1, <2>2 DEF WarmInv, IndexNames
<1> QED BY <1>1, <1>2, <1>3, <1>4 DEF Next

\* Before any fault there is a slot for every file.
LEMMA FileStep ==
  ASSUME Shape, KilledInv, FileInv, [Next]_vars
  PROVE FileInv'
<1> USE DEF Shape
<1>0. Nobody \notin Readers /\ pc \in [Readers -> Places] /\ want \in [Readers -> Keys \cup {None}]
  BY DEF TypeOK, Places
<1> DEFINE Named(k) == k \in DOMAIN byKey \/ \E s \in Readers : pc[s] \in Claiming /\ want[s] = k
<1> SUFFICES ASSUME faults'["crash"] + faults'["diskFull"] = 0, NEW k \in DOMAIN file'
             PROVE Named(k)'
  BY DEF FileInv
<1>1. faults["crash"] = 0 /\ faults["diskFull"] = 0 /\ faults'["crash"] = 0 /\ faults'["diskFull"] = 0
  <2>1. /\ faults["crash"] \in Nat /\ faults["diskFull"] \in Nat
        /\ faults'["crash"] \in Nat /\ faults'["diskFull"] \in Nat
        /\ faults["crash"] <= faults'["crash"] /\ faults["diskFull"] <= faults'["diskFull"]
    BY FaultsGrow
  <2>2. faults'["crash"] + faults'["diskFull"] = 0
    OBVIOUS
  <2> QED BY <2>1, <2>2
<1>2. \A x \in DOMAIN file : Named(x)
  BY <1>1 DEF FileInv
<1>3. ASSUME NEW r \in Readers, Read(r) PROVE Named(k)'
  <2>0. \A s \in Readers : s # r => pc'[s] = pc[s] /\ want'[s] = want[s]
    BY <1>3, ReadIsOwn DEF Own, TypeOK
  <2>1. CASE Outside(r) \/ PersistOpen(r) \/ PersistWrite(r)
    <3>1. file' = file /\ byKey' = byKey
      BY <2>1, OutsideQuiet DEF Quiet, PersistOpen, PersistWrite, ringVars, diskVars
    <3>2. pc[r] \notin Claiming
      BY <2>1 DEF Outside, Lookup, RingHit, Fetch, FetchFails, Insert, PersistOpen, PersistWrite,
         Claiming
    <3> QED BY <1>2, <2>0, <3>1, <3>2
  <2>2. CASE RingMiss(r)
    <3>1. /\ file' = file /\ owner = Nobody
          /\ byKey' = byKey \/ (want[r] \notin DOMAIN file /\ byKey' = Without(byKey, {want[r]}))
      BY <2>2 DEF RingMiss, diskVars
    <3>2. \A s \in Readers : pc[s] \notin Claiming
      BY <1>0, <3>1 DEF MutexInv, Inside
    <3>3. k \in DOMAIN file /\ k \in DOMAIN byKey
      BY <1>2, <3>1, <3>2
    <3>4. k \in DOMAIN byKey'
      BY <3>1, <3>3 DEF Without
    <3> QED BY <3>4
  <2>3. CASE PutBegin(r)
    <3>1. /\ file' = FilesLeft(want[r]) /\ owner = Nobody
          /\ byKey' = Without(byKey, {want[r], Cleared(want[r])[cursor]})
          /\ pc' = [pc EXCEPT ![r] = "open"] /\ want' = want
      BY <2>3 DEF PutBegin, Goto
    <3>2. \A s \in Readers : pc[s] \notin Claiming
      BY <1>0, <3>1 DEF MutexInv, Inside
    <3>3. k \in DOMAIN file /\ k # Cleared(want[r])[cursor] /\ k \in DOMAIN byKey
      BY <1>2, <3>1, <3>2 DEF FilesLeft, Without
    <3>4. pc'[r] \in Claiming /\ want'[r] = want[r]
      BY <1>0, <3>1 DEF Claiming
    <3>5. k # want[r] => k \in DOMAIN byKey'
      BY <3>1, <3>3 DEF Without
    <3> QED BY <3>4, <3>5
  <2>4. CASE PutOpen(r)
    <3>1. /\ file' = Put(file, want[r], "torn") /\ byKey' = byKey
          /\ pc' = [pc EXCEPT ![r] = "write"] /\ want' = want
      BY <2>4 DEF PutOpen, Goto, ringVars
    <3>2. k \in DOMAIN file \/ k = want[r]
      BY <3>1 DEF Put
    <3>3. \A s \in Readers : pc[s] \in Claiming \/ s = r => pc'[s] \in Claiming
      BY <1>0, <3>1 DEF Claiming
    <3> QED BY <1>2, <3>1, <3>2, <3>3
  <2>5. CASE PutWrite(r)
    <3>1. /\ file' = Put(file, want[r], "whole") /\ byKey' = Put(byKey, want[r], cursor)
          /\ want' = want
      BY <2>5 DEF PutWrite
    <3>2. k \in DOMAIN file \/ k = want[r]
      BY <3>1 DEF Put
    <3>3. DOMAIN byKey' = DOMAIN byKey \cup {want[r]}
      BY <3>1 DEF Put
    <3> QED BY <1>2, <2>0, <3>1, <3>2, <3>3
  <2>6. CASE PutWriteFails(r)
    BY <1>1, <2>6, FaultsGrow
  <2> QED BY <1>3, <2>1, <2>2, <2>3, <2>4, <2>5, <2>6 DEF Read, Outside
<1>4. CASE Crash
  BY <1>1, <1>4, FaultsGrow
<1>5. CASE Restart \/ RestartRefused
  BY <1>1, <1>5 DEF Restart, RestartRefused, KilledInv
<1>6. CASE UNCHANGED vars
  BY <1>2, <1>6 DEF vars, ringVars, diskVars, readVars
<1> QED BY <1>3, <1>4, <1>5, <1>6 DEF Next

\* Before the first kill nobody has half a file.
LEMMA WholeStep ==
  ASSUME Shape, LruInv, KilledInv, WholeInv, [Next]_vars
  PROVE WholeInv'
<1> USE DEF Shape
<1>0. /\ body \in [Readers -> Bodies] /\ file \in [DOMAIN file -> {"whole", "torn"}]
  BY DEF TypeOK, Bodies
<1> SUFFICES ASSUME faults'["crash"] = 0
             PROVE /\ \A k \in DOMAIN byKey' \cap DOMAIN file' : file'[k] = "whole"
                   /\ \A r \in Readers : body'[r] # "torn"
                   /\ \A i \in DOMAIN lru' : lru'[i].body # "torn"
  BY DEF WholeInv
<1>1. /\ \A k \in DOMAIN byKey \cap DOMAIN file : file[k] = "whole"
      /\ \A r \in Readers : body[r] # "torn"
      /\ \A i \in DOMAIN lru : lru[i].body # "torn"
      /\ up = "up"
  BY FaultsGrow DEF WholeInv, KilledInv
<1>2. ASSUME NEW r \in Readers, Read(r)
      PROVE \A k \in DOMAIN byKey' \cap DOMAIN file' : file'[k] = "whole"
  <2>1. CASE Outside(r) \/ PersistOpen(r) \/ PersistWrite(r) \/ PutWriteFails(r)
    <3>1. file' = file /\ byKey' = byKey
      BY <2>1, OutsideQuiet DEF Quiet, PersistOpen, PersistWrite, PutWriteFails, Emptied, ringVars,
         diskVars
    <3> QED BY <1>1, <3>1
  <2>2. CASE RingMiss(r) \/ PutBegin(r)
    <3>1. /\ file' = file \/ file' = FilesLeft(want[r])
          /\ byKey' = byKey \/ \E S : byKey' = Without(byKey, S)
      BY <2>2 DEF RingMiss, PutBegin, diskVars
    <3>2. \A k \in DOMAIN file' : k \in DOMAIN file /\ file'[k] = file[k]
      BY <3>1 DEF FilesLeft, Without
    <3>3. \A k \in DOMAIN byKey' : k \in DOMAIN byKey
      BY <3>1 DEF Without
    <3> QED BY <1>1, <3>2, <3>3
  <2>3. CASE PutOpen(r)
    <3>1. file' = Put(file, want[r], "torn") /\ byKey' = byKey /\ want[r] \notin DOMAIN byKey
      BY <2>3 DEF PutOpen, ringVars, ClaimInv, Claiming
    <3> QED BY <1>1, <3>1 DEF Put
  <2>4. CASE PutWrite(r)
    <3>1. file' = Put(file, want[r], "whole") /\ byKey' = Put(byKey, want[r], cursor)
      BY <2>4 DEF PutWrite
    <3> QED BY <1>1, <3>1 DEF Put
  <2> QED BY <1>2, <2>1, <2>2, <2>3, <2>4 DEF Read, Outside
<1>3. ASSUME NEW r \in Readers, Read(r) PROVE \A s \in Readers : body'[s] # "torn"
  <2>1. CASE RingHit(r)
    <3>1. want[r] \in DOMAIN byKey \cap DOMAIN file /\ body' = [body EXCEPT ![r] = file[want[r]]]
      BY <2>1 DEF RingHit
    <3> QED BY <1>0, <1>1, <3>1
  <2>2. CASE ~RingHit(r)
    <3>1. body' = body \/ \E b \in {"none", "whole"} : body' = [body EXCEPT ![r] = b]
      BY <1>3, <2>2 DEF Read, Lookup, RingMiss, Fetch, FetchFails, PutBegin, PutOpen, PutWrite,
         PutWriteFails, PersistOpen, PersistWrite, Insert
    <3> QED BY <1>0, <1>1, <3>1
  <2> QED BY <2>1, <2>2
<1>4. ASSUME NEW r \in Readers, Read(r) PROVE \A i \in DOMAIN lru' : lru'[i].body # "torn"
  <2>1. ASSUME NEW k \in Keys, NEW i \in Cached(k), lru' = Fronted(lru[i], i)
        PROVE \A p \in DOMAIN lru' : lru'[p].body # "torn"
    <3> DEFINE l == Fronted(lru[i], i)
    <3>1. \A p \in DOMAIN l : \E q \in DOMAIN lru : l[p] = lru[q]
      BY HitTypes
    <3> HIDE DEF l
    <3>2. lru' = l
      BY <2>1 DEF l
    <3> QED BY <1>1, <3>1, <3>2
  <2>2. CASE Insert(r)
    <3>1. want[r] \in Keys /\ body[r] \in {"whole", "torn"} /\ lru' \in Inserted(want[r], body[r])
      BY <2>2 DEF Insert, CallInv
    <3>2. \A p \in DOMAIN lru' : lru'[p] = Entry(want[r], body[r]) \/ \E q \in DOMAIN lru : lru'[p] = lru[q]
      BY <3>1, InsertedTypes
    <3> QED BY <1>1, <3>1, <3>2 DEF Entry
  <2>3. CASE lru' = lru
    BY <1>1, <2>3
  <2>4. \/ \E k \in Keys : \E i \in Cached(k) : lru' = Fronted(lru[i], i)
        \/ Insert(r) \/ lru' = lru
    BY <1>4 DEF Read, Lookup, RingHit, RingMiss, Fetch, FetchFails, PutBegin, PutOpen, PutWrite,
       PutWriteFails, PersistOpen, PersistWrite
  <2> QED BY <2>1, <2>2, <2>3, <2>4
<1>5. CASE Crash
  BY <1>5, FaultsGrow
<1>6. CASE Restart \/ RestartRefused
  BY <1>1, <1>6 DEF Restart, RestartRefused
<1>7. CASE UNCHANGED vars
  BY <1>1, <1>7 DEF vars, ringVars, diskVars, readVars
<1> QED BY <1>2, <1>3, <1>4, <1>5, <1>6, <1>7 DEF Next

\* Both tiers keep their bound: each file has a slot of its own.
LEMMA BoundedBy ==
  ASSUME Shape, FileInv, LruInv
  PROVE TiersBounded
<1> USE DEF Shape
<1>1. /\ Slots = 0..capacity - 1 /\ capacity \in Nat \ {0} /\ cursor \in Slots
      /\ \A k \in DOMAIN byKey : byKey[k] \in Slots
  BY DEF TypeOK, Slots
<1>2. ASSUME faults["crash"] + faults["diskFull"] = 0
      PROVE Cardinality(DOMAIN file) <= capacity
  <2> DEFINE slot == [k \in DOMAIN file |-> IF k \in DOMAIN byKey THEN byKey[k] ELSE cursor]
  <2>1. \A k \in DOMAIN file : \/ k \in DOMAIN byKey
                               \/ \E r \in Readers : pc[r] \in Claiming /\ want[r] = k
    BY <1>2 DEF FileInv
  <2>2. slot \in [DOMAIN file -> Slots]
    BY <1>1
  <2>3. ASSUME NEW k \in DOMAIN file, NEW l \in DOMAIN file, slot[k] = slot[l] PROVE k = l
    <3>1. CASE k \in DOMAIN byKey /\ l \in DOMAIN byKey
      BY <2>3, <3>1 DEF RingInv
    <3>2. CASE k \notin DOMAIN byKey /\ l \notin DOMAIN byKey
      BY <2>1, <3>2 DEF MutexInv, Inside
    <3>3. ASSUME NEW m \in DOMAIN byKey, byKey[m] = cursor, NEW n \in DOMAIN file, n \notin DOMAIN byKey
          PROVE FALSE
      <4>1. PICK r \in Readers : pc[r] \in Claiming
        BY <2>1, <3>3
      <4>2. PartInv
        BY <4>1, HeldIs, RingForms
      <4> QED BY <3>3, <4>2 DEF PartInv
    <3> QED BY <2>3, <3>1, <3>2, <3>3
  <2> HIDE DEF slot
  <2>4. slot \in Injection(DOMAIN file, Slots)
    BY <2>2, <2>3 DEF Injection, IsInjective
  <2>5. IsFiniteSet(Slots) /\ Cardinality(Slots) = capacity
    <3>1. IsFiniteSet(0..capacity - 1) /\ Cardinality(0..capacity - 1) =
            IF 0 > capacity - 1 THEN 0 ELSE (capacity - 1) - 0 + 1
      BY <1>1, FS_Interval
    <3> QED BY <1>1, <3>1
  <2>6. Cardinality(DOMAIN file) <= Cardinality(Slots)
    BY <2>4, <2>5, FS_Injection
  <2> QED BY <2>5, <2>6
<1> QED BY <1>2 DEF TiersBounded, LruInv

-----------------------------------------------------------------------------
(***************************************************************************)
(* The invariant and what follows from it.                                 *)
(***************************************************************************)
Core == Shape /\ LruInv /\ WarmInv /\ KilledInv /\ FileInv /\ WholeInv

\* An empty ring, an empty list and no file satisfy all of it.
LEMMA CoreInit == Init => Core
<1> SUFFICES ASSUME Init PROVE Core
  OBVIOUS
<1>1. TypeOK
  BY TypeInit
<1>2. /\ \A r \in Readers : pc[r] = "idle" /\ body[r] = "none"
      /\ owner = Nobody /\ Nobody \notin Readers /\ up = "up" /\ lru = <<>>
      /\ DOMAIN byKey = {} /\ DOMAIN file = {} /\ index.state = "none"
  BY DEF Init, NoIndex
<1>3. \A i \in Slots : slots[i] = None
  BY DEF Init, Empty, Slots
<1>4. MutexInv /\ CallInv /\ DownInv /\ ClaimInv /\ ~Claimed
  BY <1>2 DEF MutexInv, CallInv, DownInv, ClaimInv, Claimed, Inside, Claiming
<1>5. RingInv /\ IndexInv /\ WarmInv
  BY <1>2, <1>3, <1>4 DEF RingInv, IndexInv, WarmInv, Writing, Held
<1>6. LruInv /\ KilledInv /\ FileInv /\ WholeInv
  BY <1>2 DEF LruInv, KilledInv, FileInv, WholeInv
<1> QED BY <1>1, <1>4, <1>5, <1>6 DEF Core, Shape

\* Every step keeps it.
LEMMA CoreStep == Core /\ [Next]_vars => Core'
<1> SUFFICES ASSUME Core, [Next]_vars PROVE Core'
  OBVIOUS
<1>1. /\ Shape /\ TypeOK /\ MutexInv /\ CallInv /\ DownInv
      /\ LruInv /\ WarmInv /\ KilledInv /\ FileInv /\ WholeInv
  BY DEF Core, Shape
<1>2. TypeOK' /\ LruInv'
  BY <1>1, TypeStep, LruStep
<1>3. MutexInv' /\ CallInv' /\ DownInv'
  BY <1>1, ControlStep
<1>4. Shape'
  BY <1>1, <1>2, <1>3, RingStep DEF Shape
<1>5. WarmInv' /\ KilledInv' /\ FileInv' /\ WholeInv'
  BY <1>1, <1>4, WarmStep, KilledStep, FileStep, WholeStep
<1> QED BY <1>2, <1>4, <1>5 DEF Core

\* It holds for ever.
LEMMA CoreAlways == Spec => []Core
  BY CoreInit, CoreStep, PTL DEF Spec

\* The variables keep their types.
THEOREM TypeCorrect == Spec => []TypeOK
<1>1. Core => TypeOK
  BY DEF Core, Shape
<1> QED BY <1>1, CoreAlways, PTL

\* byKey and slots of the ring are each other's inverse whenever nobody is in
\* put: through concurrent puts of one key, failed writes, kills and reloads.
THEOREM Synchronised == Spec => []RingConsistent
<1>1. ASSUME Core PROVE RingConsistent
  <2> SUFFICES ASSUME owner = Nobody
               PROVE /\ DOMAIN byKey = Resident
                     /\ \A k \in Resident : \A i \in Slots : slots[i] = k <=> byKey[k] = i
    BY DEF RingConsistent
  <2>1. FullInv /\ \A k \in DOMAIN byKey : k # None /\ byKey[k] \in Slots
    BY <1>1, HeldIs, RingForms DEF Core, Shape, TypeOK
  <2> QED BY <2>1 DEF FullInv, Resident
<1> QED BY <1>1, CoreAlways, PTL

\* A process that is started on the directory of a killed one, with the same
\* capacity, has all that the ring held but for the object under way, unless
\* index.json was cut short by a kill inside persist or a full disk: then it
\* does not start.
THEOREM StaysWarm == Spec => WarmRestart
<1> DEFINE Warm ==
      up = "down" =>
       \/ /\ up' = "refused"
          /\ cut \/ faults["diskFull"] > 0
       \/ /\ up' = "up"
          /\ \/ capacity' # capacity
             \/ \A k \in DOMAIN held : k \in DOMAIN byKey' /\ byKey'[k] = held[k]
<1>1. Core /\ [Next]_vars => [Warm]_vars
  <2> SUFFICES ASSUME Core, Next, up = "down" PROVE Warm
    OBVIOUS
  <2>0. Shape /\ WarmInv /\ TypeOK /\ DownInv /\ IndexInv
    BY DEF Core, Shape
  <2>1. CASE RestartRefused
    BY <2>0, <2>1 DEF RestartRefused, WarmInv
  <2>2. CASE Restart
    <3>1. up' = "up" /\ index.state # "torn"
      BY <2>2 DEF Restart
    <3>2. ASSUME capacity' = capacity, NEW k \in DOMAIN held
          PROVE k \in DOMAIN byKey' /\ byKey'[k] = held[k]
      <4>1. /\ index.state = "whole" /\ index.capacity = capacity /\ index.slots[held[k]] = k
            /\ held[k] \in Slots /\ Slots = 0..capacity - 1 /\ k # None
        BY <2>0, <3>1 DEF WarmInv, IndexNames, TypeOK, Slots
      <4>2. /\ slots' = index.slots /\ Slots' = Slots
            /\ DOMAIN byKey' = Resident'
            /\ \A l \in DOMAIN byKey' : byKey'[l] \in Slots' /\ slots'[byKey'[l]] = l
        BY <2>0, <2>2, <3>2, <4>1, RestartAdopts
      <4>3. k \in DOMAIN byKey'
        BY <4>1, <4>2 DEF Resident
      <4>4. byKey'[k] \in 0..index.capacity - 1 /\ index.slots[byKey'[k]] = k
        BY <4>1, <4>2, <4>3
      <4> QED BY <2>0, <4>1, <4>3, <4>4 DEF IndexInv
    <3> QED BY <3>1, <3>2
  <2>3. ~Crash /\ ~(\E r \in Readers : Read(r))
    BY <2>0, ReadIsUp DEF Crash
  <2> QED BY <2>1, <2>2, <2>3 DEF Next
<1> QED BY <1>1, CoreAlways, PTL DEF Spec, WarmRestart

\* Neither tier outgrows its capacity, and memory holds no object twice.
THEOREM Bounded == Spec => []TiersBounded
<1>1. Core => TiersBounded
  BY BoundedBy DEF Core
<1> QED BY <1>1, CoreAlways, PTL

\* Until the process is killed nobody is handed a half-written file.
THEOREM NeverTorn == Spec => []BodyIsWhole
<1>1. Core => BodyIsWhole
  BY DEF Core, WholeInv, BodyIsWhole
<1> QED BY <1>1, CoreAlways, PTL
=============================================================================
