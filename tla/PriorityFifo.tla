----------------------------- MODULE PriorityFifo ------------------------------
(***************************************************************************)
(* What the internal queue of the home simulator promises: messages leave  *)
(* in the order they came in, but a message of a user console is taken     *)
(* ahead of the sensor readings before it, and those readings are then     *)
(* gone.                                                                   *)
(***************************************************************************)
EXTENDS Integers, Sequences

CONSTANTS Message, Capacity, Urgent(_)

VARIABLE queue

Init == queue = << >>

Put(m) == Len(queue) < Capacity /\ queue' = Append(queue, m)

\* The k-th message leaves, and whatever is before it.
TakeAt(k) == queue' = SubSeq(queue, k + 1, Len(queue))

TakeUrgent ==
  \E k \in 1 .. Len(queue) :
    /\ Urgent(queue[k])
    /\ \A j \in 1 .. (k - 1) : ~Urgent(queue[j])
    /\ TakeAt(k)

TakeFirst ==
  /\ queue # << >>
  /\ \A k \in 1 .. Len(queue) : ~Urgent(queue[k])
  /\ TakeAt(1)

Next == TakeUrgent \/ TakeFirst \/ \E m \in Message : Put(m)

Spec == Init /\ [][Next]_queue
================================================================================
