------------------------------ MODULE MCIotAlerts ------------------------------
(* Values for the model-checking runs of IotAlerts.  A name is the integer its *)
(* bytes make; here they are small integers that are no reading.               *)
EXTENDS IotAlerts

CONSTANTS w1, w2, w3

S1 == 101  S2 == 102  S3 == 103  K1 == 201  K2 == 202  A1 == 301  A2 == 302

\* Two sensors, a key each; 50 is out of the range of both alerts.
TwoReadings == {[sensor |-> S1, key |-> K1, value |-> 5],
                [sensor |-> S2, key |-> K2, value |-> 50]}
\* Three sensors that report the same key.
ThreeReadings == {[sensor |-> x, key |-> K1, value |-> 5] : x \in {S1, S2, S3}}
TwoAlerts == {[id |-> A1, key |-> K1, min |-> 10, max |-> 20],
              [id |-> A2, key |-> K2, min |-> 10, max |-> 20]}
OneAlert == {[id |-> A1, key |-> K1, min |-> 0, max |-> 20]}
================================================================================
