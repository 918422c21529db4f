------------------------------- MODULE RingIndex -------------------------------
(***************************************************************************)
(* Index arithmetic of the circular queues.  Every queue of the repository *)
(* (PROJ24 videoQueue and otherQueue, S023 message_queue) is an array of   *)
(* Slots cells with a front and a back index that move modulo Slots, and   *)
(* keeps one cell free to tell a full ring from an empty one.              *)
(***************************************************************************)
EXTENDS Integers, Sequences

\* (i + 1) % queueSize.  With no slot at all the C expression divides by zero;
\* the callers treat that case before they use the result.
Advance(i, Slots) == IF Slots = 0 THEN i ELSE (i + 1) % Slots

\* The full test of the insertions: (back + 1) % queueSize == front.
RingFull(f, b, Slots) == Advance(b, Slots) = f

\* The number of messages between front and back.
Occupancy(f, b, Slots) == IF f <= b THEN b - f ELSE (b - f) + Slots

\* The cell k places behind front.
Place(f, k, Slots) == (f + k) % Slots

\* The messages of the ring, oldest first.
Contents(cells, f, b, Slots) ==
  [k \in 1 .. Occupancy(f, b, Slots) |-> cells[Place(f, k - 1, Slots)]]
================================================================================
