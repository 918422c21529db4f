----------------------------- MODULE MCAuthManager -----------------------------
(* Values for the model-checking runs of AuthManager. *)
EXTENDS AuthManager, TLC

CONSTANTS u1, u2

\* u1 streams at every pass of its loop; u2 also sends MUSIC alone.
MCInterval ==
  [u \in Users |-> IF u = u1
                   THEN [VIDEO |-> 1, SOCIAL |-> 2, MUSIC |-> 2]
                   ELSE [VIDEO |-> 2, SOCIAL |-> 2, MUSIC |-> 1]]

\* Enough to fill the video ring behind a request that has been handed over; a
\* second user only registers.
Few == [c \in Clients |-> IF c = u1 THEN 4 ELSE 1]
\* Enough for both rings to fill up and to wrap around.
Many == [c \in Clients |-> IF c = u1 THEN 5 ELSE 1]
================================================================================
