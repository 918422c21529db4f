----------------------------- MODULE MCIotDispatch -----------------------------
(* Values for the model-checking runs of IotDispatch. *)
EXTENDS IotDispatch, TLC

CONSTANTS c1, c2, s1

\* One command of a console against two readings of a sensor, the other way
\* round, and one message each.
Readings == [c \in Clients |-> IF c = s1 THEN 2 ELSE 1]
Commands == [c \in Clients |-> IF c = s1 THEN 1 ELSE 2]
One == [c \in Clients |-> 1]
================================================================================
