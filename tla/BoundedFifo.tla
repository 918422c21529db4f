------------------------------ MODULE BoundedFifo ------------------------------
(***************************************************************************)
(* What a request queue promises: a first-in first-out queue of at most    *)
(* Capacity messages.  A message that finds the queue full is not added;   *)
(* that is a step which leaves the queue as it is.                         *)
(***************************************************************************)
EXTENDS Integers, Sequences

CONSTANTS Message, Capacity

VARIABLE queue

Init == queue = << >>

Put(m) == Len(queue) < Capacity /\ queue' = Append(queue, m)

Take == queue # << >> /\ queue' = Tail(queue)

Next == Take \/ \E m \in Message : Put(m)

Spec == Init /\ [][Next]_queue
================================================================================
