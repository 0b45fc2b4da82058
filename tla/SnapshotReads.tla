---------------------------- MODULE SnapshotReads ---------------------------
(***************************************************************************)
(* What a namespace promises its readers, without epochs, caches or        *)
(* objects: a log that only grows, and requests that each take effect at   *)
(* one moment.  A query is answered by the fold of the whole log of that   *)
(* moment or by an error, info tells its length, and only a namespace that *)
(* does not exist is "not found".                                          *)
(*                                                                         *)
(* One flaw is part of the promise.  Once no document has a vector, a      *)
(* relic may stay behind: vectors of documents that have lost theirs by    *)
(* then.  A vector query of that time may return any of them that has not  *)
(* been written since, or be told that the namespace is "not found".       *)
(***************************************************************************)
EXTENDS Integers, Sequences

CONSTANTS Clients,    \* those who send requests, one at a time
          Ops,        \* the operations of the log: records [id, kind]
          NoRequest   \* no query is under way

VARIABLES exists,   \* does the namespace exist?
          log,      \* its operations
          relic,    \* the length of the log at which no document had a vector, or 0
          request,  \* the query of each client: [legs, upTo, relic] or NoRequest
          reply     \* what each client has been answered: [status, hits, segments]

vars == <<exists, log, relic, request, reply>>

Legs == {"vector", "text"}

NoReply == [status |-> "none", hits |-> {}, segments |-> 0]
Missing == [status |-> "notFound", hits |-> {}, segments |-> 0]
Found(hits, segments) == [status |-> "ok", hits |-> hits, segments |-> segments]

\* The last operation on each id in the first n, if it matches the leg.
Fold(leg, n) ==
  LET last == {s \in 1..n : \A t \in s + 1..n : log[t].id # log[s].id}
  IN  {<<leg, log[s].id, s - 1, s - 1>> :
         s \in {t \in last : log[t].kind = IF leg = "vector" THEN "vec" ELSE "txt"}}

Answer(q, extra) == Found(extra \cup UNION {Fold(leg, q.upTo) : leg \in q.legs}, 0)

\* What a query may find of a relic: versions with a vector, not written since.
Haunted(q) == q.relic > 0 /\ "vector" \in q.legs
Relics(q) ==
  IF ~Haunted(q) THEN {}
  ELSE {<<"vector", log[s].id, s - 1, s - 1>> :
          s \in {t \in 1..q.relic : /\ log[t].kind = "vec"
                                    /\ \A u \in q.relic + 1..q.upTo : log[u].id # log[t].id}}

Init ==
  /\ exists = FALSE
  /\ log = <<>>
  /\ relic = 0
  /\ request = [c \in Clients |-> NoRequest]
  /\ reply = [c \in Clients |-> NoReply]

Create ==
  /\ ~exists
  /\ exists' = TRUE
  /\ UNCHANGED <<log, relic, request, reply>>

Write ==
  /\ exists
  /\ \E op \in Ops : log' = Append(log, op)
  /\ UNCHANGED <<exists, relic, request, reply>>

\* A relic comes, with a moment at which no document has a vector, or goes.
Haunt ==
  /\ relic' = 0 \/ relic' \in {n \in 1..Len(log) : Fold("vector", n) = {}}
  /\ UNCHANGED <<exists, log, request, reply>>

Free(c) == request[c] = NoRequest /\ reply[c] = NoReply

\* The moment of a query.
Read(c) ==
  /\ Free(c) /\ exists
  /\ \E legs \in (SUBSET Legs) \ {{}} :
       request' = [request EXCEPT ![c] = [legs |-> legs, upTo |-> Len(log), relic |-> relic]]
  /\ UNCHANGED <<exists, log, relic, reply>>

Reply(c) ==
  /\ request[c] # NoRequest /\ reply[c] = NoReply
  /\ \/ \E extra \in SUBSET Relics(request[c]) :
          reply' = [reply EXCEPT ![c] = Answer(request[c], extra)]
     \/ /\ Haunted(request[c])
        /\ reply' = [reply EXCEPT ![c] = Missing]
  /\ UNCHANGED <<exists, log, relic, request>>

Info(c) ==
  /\ Free(c) /\ exists
  /\ reply' = [reply EXCEPT ![c] = Found({}, Len(log))]
  /\ UNCHANGED <<exists, log, relic, request>>

NotFound(c) ==
  /\ Free(c) /\ ~exists
  /\ reply' = [reply EXCEPT ![c] = Missing]
  /\ UNCHANGED <<exists, log, relic, request>>

\* The query ends with an error, which tells the client nothing.
Fail(c) ==
  /\ request[c] # NoRequest /\ reply[c] = NoReply
  /\ request' = [request EXCEPT ![c] = NoRequest]
  /\ UNCHANGED <<exists, log, relic, reply>>

Done(c) ==
  /\ reply[c] # NoReply
  /\ request' = [request EXCEPT ![c] = NoRequest]
  /\ reply' = [reply EXCEPT ![c] = NoReply]
  /\ UNCHANGED <<exists, log, relic>>

Next ==
  \/ Create \/ Write \/ Haunt
  \/ \E c \in Clients : \/ Read(c) \/ Reply(c) \/ Info(c)
                        \/ NotFound(c) \/ Fail(c) \/ Done(c)

Spec == Init /\ [][Next]_vars
=============================================================================
