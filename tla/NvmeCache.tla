----------------------------- MODULE NvmeCache -----------------------------
(***************************************************************************)
(* The read cache of one process (internal/cache/cache.go, nvme.go): an    *)
(* LRU list in memory over a FIFO ring of files on local disk over the     *)
(* object store.  Concurrent readers walk the tiers down and fill them on  *)
(* the way back; the ring is under one mutex, but each file operation in   *)
(* it is a step of its own, because the process may be killed between any  *)
(* two of them and is then started again on what the disk holds.           *)
(*                                                                         *)
(* Only immutable objects are read through the cache, so a body is either  *)
(* "whole" or "torn": the file was truncated for a write that never ended. *)
(* A file is named by the hash of its key, hence by the key.               *)
(***************************************************************************)
EXTENDS Naturals, Sequences, FiniteSets, SequencesExt

CONSTANTS
  Keys,           \* keys of immutable objects; all are in the object store
  None,           \* the key of an empty slot
  Readers,        \* goroutines that call GetCached
  Nobody,         \* the mutex of the ring is free
  Capacities,     \* the numbers of slots the process is started with
  DramCapacity,   \* entries of the LRU list; 0 is unbounded
  Faults,         \* subset of {"crash", "diskFull"}
  MaxFaults       \* bound of the model: faults in a behaviour

ASSUME CapacityAssumption == Capacities \subseteq Nat \ {0} /\ DramCapacity \in Nat
ASSUME NamesAssumption == None \notin Keys /\ Nobody \notin Readers
ASSUME FaultsAssumption == Faults \subseteq {"crash", "diskFull"} /\ MaxFaults \in Nat

VARIABLES
  lru,      \* entries in memory, the most recently used first
  capacity, \* slots of the ring
  slots,    \* the key in each slot of the ring
  byKey,    \* the slot of each key
  cursor,   \* the slot the next put overwrites
  owner,    \* the reader that holds the mutex of the ring
  file,     \* on disk: the .obj files and what they hold
  index,    \* on disk: index.json
  up,       \* "up", "down" after a crash, "refused" when load has failed
  pc,       \* where each reader stands in GetCached
  want,     \* the key it was called with
  body,     \* the body it has in hand
  faults,   \* number of faults of each kind so far
  held,     \* history: what the killed process held, but for a put under way
  cut       \* history: whether it was killed while it wrote index.json

diskVars == <<file, index>>
ringVars == <<slots, byKey, cursor, owner>>
readVars == <<pc, want, body>>
vars == <<lru, capacity, ringVars, diskVars, up, readVars, faults, held, cut>>

\* What no step of a running process changes.
runVars == <<capacity, up, held, cut>>

Slots == 0..capacity - 1
Empty(n) == [i \in 0..n - 1 |-> None]
NoIndex == [state |-> "none", capacity |-> 0, cursor |-> 0, slots |-> Empty(0)]

Init ==
  /\ lru = <<>>
  /\ capacity \in Capacities
  /\ slots = Empty(capacity)
  /\ byKey = [k \in {} |-> 0]
  /\ cursor = 0
  /\ owner = Nobody
  /\ file = [k \in {} |-> "whole"]
  /\ index = NoIndex
  /\ up = "up"
  /\ pc = [r \in Readers |-> "idle"]
  /\ want = [r \in Readers |-> None]
  /\ body = [r \in Readers |-> "none"]
  /\ faults = [kind \in {"crash", "diskFull"} |-> 0]
  /\ held = [k \in {} |-> 0]
  /\ cut = FALSE

Fault(kind) ==
  /\ kind \in Faults
  /\ faults["crash"] + faults["diskFull"] < MaxFaults
  /\ faults' = [faults EXCEPT ![kind] = @ + 1]

\* f with x mapped to y, and f without the keys in S.
Put(f, x, y) == [z \in DOMAIN f \cup {x} |-> IF z = x THEN y ELSE f[z]]
Without(f, S) == [z \in DOMAIN f \ S |-> f[z]]

Goto(r, where) == pc' = [pc EXCEPT ![r] = where]
-----------------------------------------------------------------------------
\* The places of k in the list: one, or none.
Cached(k) == {i \in DOMAIN lru : lru[i].key = k}

\* The list with the entry in place i at the front, as e.
Fronted(e, i) == <<e>> \o RemoveAt(lru, i)

\* The list without the least recently used entries that are too many.
Trimmed(l) == IF DramCapacity = 0 \/ Len(l) <= DramCapacity THEN l
                                                  ELSE SubSeq(l, 1, DramCapacity)

Entry(k, b) == [key |-> k, body |-> b]

\* Mutant of Inserted: a key another reader has inserted meanwhile is not noticed.
InsertedBlind(k, b) == {Trimmed(<<Entry(k, b)>> \o lru)}

\* insertLocked: refreshed and moved to the front, or pushed there and the tail evicted.
Inserted(k, b) ==
  IF Cached(k) = {} THEN {Trimmed(<<Entry(k, b)>> \o lru)}
                    ELSE {Fronted(Entry(k, b), i) : i \in Cached(k)}

\* GetCached looks in memory: a hit is moved to the front and returned.
Lookup(r, k) ==
  /\ up = "up"
  /\ pc[r] = "idle"
  /\ \/ \E i \in Cached(k) : /\ lru' = Fronted(lru[i], i)
                             /\ UNCHANGED <<pc, want>>
     \/ /\ Cached(k) = {}
        /\ want' = [want EXCEPT ![r] = k]
        /\ Goto(r, "ring")
        /\ UNCHANGED lru
  /\ UNCHANGED <<ringVars, diskVars, runVars, body, faults>>

\* nvmeRing.get finds the file of a resident key.
RingHit(r) ==
  LET k == want[r] IN
  /\ pc[r] = "ring"
  /\ owner = Nobody
  /\ k \in DOMAIN byKey /\ slots[byKey[k]] = k /\ k \in DOMAIN file
  /\ body' = [body EXCEPT ![r] = file[k]]
  /\ Goto(r, "insert")
  /\ UNCHANGED <<lru, ringVars, diskVars, runVars, want, faults>>

\* It does not: the key is not resident, or its file has vanished and the slot
\* is cleared.  Either way the body is to come from the object store.
RingMiss(r) ==
  LET k == want[r]
      gone == k \in DOMAIN byKey /\ slots[byKey[k]] = k
  IN /\ pc[r] = "ring"
     /\ owner = Nobody
     /\ ~(gone /\ k \in DOMAIN file)
     /\ slots' = IF gone THEN [slots EXCEPT ![byKey[k]] = None] ELSE slots
     /\ byKey' = IF gone THEN Without(byKey, {k}) ELSE byKey
     /\ Goto(r, "fetch")
     /\ UNCHANGED <<lru, cursor, owner, diskVars, runVars, want, body, faults>>

\* The object store answers, or fails and the call with it.
Fetch(r) ==
  /\ pc[r] = "fetch"
  /\ body' = [body EXCEPT ![r] = "whole"]
  /\ Goto(r, "put")
  /\ UNCHANGED <<lru, ringVars, diskVars, runVars, want, faults>>

FetchFails(r) ==
  /\ pc[r] = "fetch"
  /\ want' = [want EXCEPT ![r] = None]
  /\ Goto(r, "idle")
  /\ UNCHANGED <<lru, ringVars, diskVars, runVars, body, faults>>
-----------------------------------------------------------------------------
\* Mutant of Cleared: put does not clear an old slot of its key.
ClearedNot(k) == slots

\* The slots without the key that is put.
Cleared(k) == [i \in Slots |-> IF k \in DOMAIN byKey /\ byKey[k] = i
                               THEN None ELSE slots[i]]

\* The files without that of the slot under the cursor.
FilesLeft(k) == Without(file, {Cleared(k)[cursor]})

\* nvmeRing.put takes the mutex, clears and evicts.
PutBegin(r) ==
  LET k == want[r] IN
  /\ pc[r] = "put"
  /\ owner = Nobody
  /\ owner' = r
  /\ slots' = Cleared(k)
  /\ byKey' = Without(byKey, {k, Cleared(k)[cursor]})
  /\ file' = FilesLeft(k)
  /\ Goto(r, "open")
  /\ UNCHANGED <<lru, cursor, index, runVars, want, body, faults>>

\* os.WriteFile truncates or creates the slot file ...
PutOpen(r) ==
  /\ pc[r] = "open"
  /\ file' = Put(file, want[r], "torn")
  /\ Goto(r, "write")
  /\ UNCHANGED <<lru, ringVars, index, runVars, want, body, faults>>

NextCursor == (cursor + 1) % capacity

\* ... and fills it.
PutWrite(r) ==
  /\ pc[r] = "write"
  /\ file' = Put(file, want[r], "whole")
  /\ slots' = [slots EXCEPT ![cursor] = want[r]]
  /\ byKey' = Put(byKey, want[r], cursor)
  /\ cursor' = NextCursor
  /\ Goto(r, "indexOpen")
  /\ UNCHANGED <<lru, owner, index, runVars, want, body, faults>>

\* Mutant of Emptied: the slot is claimed before the write.
EmptiedNot(r) ==
  /\ slots' = [slots EXCEPT ![cursor] = want[r]]
  /\ byKey' = Put(byKey, want[r], cursor)

Emptied(r) == slots' = [slots EXCEPT ![cursor] = None] /\ byKey' = byKey

\* The disk is full: the slot is left empty, the file as it is.
PutWriteFails(r) ==
  /\ pc[r] = "write"
  /\ Fault("diskFull")
  /\ Emptied(r)
  /\ owner' = Nobody
  /\ Goto(r, "insert")
  /\ UNCHANGED <<lru, cursor, diskVars, runVars, want, body>>

\* persist overwrites index.json in the same two steps.
PersistOpen(r) ==
  /\ pc[r] = "indexOpen"
  /\ index' = [NoIndex EXCEPT !.state = "torn"]
  /\ Goto(r, "indexWrite")
  /\ UNCHANGED <<lru, ringVars, file, runVars, want, body, faults>>

\* Mutant of Persisted: the entry of the slot just written is missing.
PersistedEarly ==
  [state |-> "whole", capacity |-> capacity, cursor |-> cursor,
   slots |-> [slots EXCEPT ![(cursor + capacity - 1) % capacity] = None]]

Persisted == [state |-> "whole", capacity |-> capacity, cursor |-> cursor, slots |-> slots]

PersistWrite(r) ==
  /\ pc[r] = "indexWrite"
  /\ \/ index' = Persisted /\ UNCHANGED faults
     \/ Fault("diskFull") /\ UNCHANGED index
  /\ owner' = Nobody
  /\ Goto(r, "insert")
  /\ UNCHANGED <<lru, slots, byKey, cursor, file, runVars, want, body>>

\* The body goes to memory and to the caller.
Insert(r) ==
  /\ pc[r] = "insert"
  /\ lru' \in Inserted(want[r], body[r])
  /\ want' = [want EXCEPT ![r] = None]
  /\ body' = [body EXCEPT ![r] = "none"]
  /\ Goto(r, "idle")
  /\ UNCHANGED <<ringVars, diskVars, runVars, faults>>
-----------------------------------------------------------------------------
\* The key that is being put, if any.
InHand == {want[r] : r \in {s \in Readers : owner = s}}

\* The process is killed: memory is lost, the disk is not.
Crash ==
  /\ up = "up"
  /\ Fault("crash")
  /\ up' = "down"
  /\ lru' = <<>>
  /\ slots' = Empty(capacity)
  /\ byKey' = Without(byKey, Keys)
  /\ cursor' = 0
  /\ owner' = Nobody
  /\ pc' = [r \in Readers |-> "idle"]
  /\ want' = [r \in Readers |-> None]
  /\ body' = [r \in Readers |-> "none"]
  /\ held' = Without(byKey, InHand)
  /\ cut' = \E r \in Readers : pc[r] = "indexWrite"
  /\ UNCHANGED <<capacity, diskVars>>

\* Mutant of Adopts: the index of another capacity is adopted too.
AdoptsAny(n) == index.state = "whole"

\* load adopts an index of its own capacity n.
Adopts(n) == index.state = "whole" /\ index.capacity = n

\* NewWithNVMe on the same directory: load adopts the index or starts empty.
Restart ==
  /\ up = "down"
  /\ index.state # "torn"
  /\ up' = "up"
  /\ \E n \in Capacities :
       LET adopted == IF Adopts(n) THEN index.slots ELSE Empty(n)
       IN  /\ capacity' = n
           /\ cursor' = IF Adopts(n) THEN index.cursor % n ELSE 0
           /\ slots' = adopted
           /\ byKey' = [k \in Range(adopted) \ {None} |->
                          CHOOSE i \in DOMAIN adopted : adopted[i] = k]
  /\ held' = [k \in {} |-> 0]
  /\ cut' = FALSE
  /\ UNCHANGED <<lru, owner, diskVars, readVars, faults>>

\* load fails when the index does not parse, and the process does not start.
RestartRefused ==
  /\ up = "down"
  /\ index.state = "torn"
  /\ up' = "refused"
  /\ UNCHANGED <<lru, capacity, ringVars, diskVars, readVars, faults, held, cut>>

Read(r) ==
  \/ \E k \in Keys : Lookup(r, k)
  \/ RingHit(r) \/ RingMiss(r) \/ Fetch(r) \/ FetchFails(r)
  \/ PutBegin(r) \/ PutOpen(r) \/ PutWrite(r) \/ PutWriteFails(r)
  \/ PersistOpen(r) \/ PersistWrite(r) \/ Insert(r)

Next == (\E r \in Readers : Read(r)) \/ Crash \/ Restart \/ RestartRefused

Spec == Init /\ [][Next]_vars
-----------------------------------------------------------------------------
(***************************************************************************)
(* Properties.                                                             *)
(***************************************************************************)
Resident == {slots[i] : i \in Slots} \ {None}

\* The types of the variables.
TypeOK ==
  /\ lru \in Seq([key : Keys, body : {"whole", "torn"}])
  /\ capacity \in Capacities
  /\ slots \in [Slots -> Keys \cup {None}]
  /\ DOMAIN byKey \subseteq Keys /\ byKey \in [DOMAIN byKey -> Slots]
  /\ cursor \in Slots
  /\ owner \in Readers \cup {Nobody}
  /\ DOMAIN file \subseteq Keys /\ file \in [DOMAIN file -> {"whole", "torn"}]
  /\ index \in [state : {"none", "torn", "whole"}, capacity : Nat, cursor : Nat,
                slots : [0..index.capacity - 1 -> Keys \cup {None}]]
  /\ up \in {"up", "down", "refused"}
  /\ pc \in [Readers -> {"idle", "ring", "fetch", "put", "open", "write", "indexOpen",
                         "indexWrite", "insert"}]
  /\ want \in [Readers -> Keys \cup {None}]
  /\ body \in [Readers -> {"none", "whole", "torn"}]
  /\ faults \in [{"crash", "diskFull"} -> Nat]
  /\ DOMAIN held \subseteq Keys /\ held \in [DOMAIN held -> Slots]
  /\ cut \in BOOLEAN

(***************************************************************************)
(* "byKey is kept in sync with slots": outside the mutex each is the       *)
(* inverse of the other, so no key holds two slots, after concurrent puts  *)
(* of one key, failed writes, crashes and reloads alike.                   *)
(***************************************************************************)
RingConsistent ==
  owner = Nobody =>
    /\ DOMAIN byKey = Resident
    /\ \A k \in Resident : \A i \in Slots : slots[i] = k <=> byKey[k] = i

(***************************************************************************)
(* "A process restart finds its warm data": whenever the process is        *)
(* killed, in the middle of a put or not, the one that is started next on  *)
(* the directory has every object the ring held in its old slot, but for   *)
(* the one that was being put.  Two exceptions: a process started with     *)
(* another capacity starts empty ("we don't try to resize"), and one does  *)
(* not start at all on an index.json that was cut short, which takes a     *)
(* kill inside persist or a full disk.                                     *)
(***************************************************************************)
WarmRestart ==
  [][up = "down" =>
       \/ /\ up' = "refused"
          /\ cut \/ faults["diskFull"] > 0
       \/ /\ up' = "up"
          /\ \/ capacity' # capacity
             \/ \A k \in DOMAIN held : k \in DOMAIN byKey' /\ byKey'[k] = held[k]]_vars

(***************************************************************************)
(* The comment on persist: "the worst case is a stale index after a crash, *)
(* which load tolerates" (nvme.go:138-141), so that a process starts again *)
(* after any kill.  It does not when the kill falls between the truncation *)
(* of index.json and its write: load returns the parse error.              *)
(***************************************************************************)
LoadToleratesCrash == up # "refused"

(***************************************************************************)
(* Both tiers keep their bound although several readers may miss on one    *)
(* key and all insert it: as long as nothing fails there is never a file   *)
(* more on disk than the ring has slots ("a bounded set of slots"), not    *)
(* even during a put, and the DRAM tier holds at most its capacity and no  *)
(* object twice.                                                           *)
(***************************************************************************)
TiersBounded ==
  /\ faults["crash"] + faults["diskFull"] = 0 => Cardinality(DOMAIN file) <= capacity
  /\ DramCapacity = 0 \/ Len(lru) <= DramCapacity
  /\ \A i, j \in DOMAIN lru : lru[i].key = lru[j].key => i = j

(***************************************************************************)
(* put, on a failed write, must "never claim to hold bytes we didn't       *)
(* write": whatever writes fail on a full disk, no reader is handed the    *)
(* half-written file and none gets into memory, until the process is       *)
(* killed (see Restart: get does not validate the file it reads).          *)
(***************************************************************************)
BodyIsWhole ==
  faults["crash"] = 0 => /\ \A r \in Readers : body[r] # "torn"
                         /\ \A i \in DOMAIN lru : lru[i].body # "torn"
=============================================================================
