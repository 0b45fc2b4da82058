----------------------------- MODULE DurableLog -----------------------------
(***************************************************************************)
(* What a namespace promises its writers, with no word of object keys,     *)
(* ETags or retries: a log of batches that only grows at its end, in which *)
(* a batch appears only after it was submitted, and which holds every      *)
(* batch whose Upsert returned nil.                                        *)
(*                                                                         *)
(* A batch whose Upsert failed may still appear, at any later time: the    *)
(* store may have kept the segment although the caller saw an error.  A    *)
(* batch may also appear more than once, when the client library of the    *)
(* store has sent a request again that had taken effect, but never after   *)
(* it was acknowledged.  Real-time order follows: when b is submitted      *)
(* after a was acknowledged, every copy of a is in the log already and b   *)
(* can only be placed behind them.                                         *)
(***************************************************************************)
EXTENDS Naturals, Sequences

CONSTANT Batch

VARIABLES submitted,   \* batches handed to Upsert so far
          log,         \* the visible batches, in the order readers fold them
          acked,       \* batches whose Upsert returned nil
          resent       \* has a request that took effect been sent again?

vars == <<submitted, log, acked, resent>>

Listed(l) == {l[i] : i \in 1..Len(l)}

Init == submitted = {} /\ log = <<>> /\ acked = {} /\ resent = FALSE

Submit ==
  \E b \in Batch \ submitted :
     /\ submitted' = submitted \cup {b}
     /\ UNCHANGED <<log, acked, resent>>

(***************************************************************************)
(* The visible log grows by one or more submitted batches at once: one     *)
(* manifest swap may expose the segments of several writers.               *)
(***************************************************************************)
Extend ==
  /\ Len(log') > Len(log)
  /\ \A i \in 1..Len(log) : log'[i] = log[i]
  /\ \A i \in Len(log)+1..Len(log') :
        /\ log'[i] \in submitted \ acked
        /\ resent' \/ \A j \in 1..i-1 : log'[j] # log'[i]
  /\ submitted' = submitted

Ack ==
  /\ \E b \in Listed(log') : acked' = acked \cup {b}
  /\ submitted' = submitted

\* Such a resend may happen in any step, and cannot be taken back.
Resend == resent => resent'

Next == \/ Submit
        \/ Extend /\ (acked' = acked \/ Ack) /\ Resend
        \/ log' = log /\ Ack /\ Resend
        \/ Resend /\ UNCHANGED <<submitted, log, acked>>

Spec == Init /\ [][Next]_vars
=============================================================================
