----------------------------- MODULE MCRootManager -----------------------------
(* Values for the model-checking runs of RootManager. *)
EXTENDS RootManager

CONSTANTS u1, u2, b1

\* An iteration within a second of the last request finds every service due.
Seconds == [s \in Services |-> 1]
\* A registration and an iteration of u1; one command; u2 only opens the pipe.
FewMessages == [c \in Clients |-> CASE c = u1 -> 3 [] c = u2 -> 0 [] OTHER -> 1]
================================================================================
