------------------------------ MODULE MCGateway ------------------------------
(* Instances of Gateway for TLC.                                           *)
EXTENDS Gateway, TLC

CONSTANTS m1, live, u1, u2, t1, w1, k1

\* Two updates, the second of them a retry or another one, beside the rotation; or
\* the registration beside one of them.
Grouped ==
    /\ pc[u2] # "idle" => pc[u1] # "idle" /\ pc[w1] = "idle"
    /\ pc[w1] # "idle" => pc[u1] = "idle" \/ pc[t1] = "idle"
=============================================================================
