---------------------------- MODULE MCSettlement ----------------------------
(***************************************************************************)
(* Instances of Settlement for TLC.                                        *)
(***************************************************************************)
EXTENDS Settlement, TLC

CONSTANTS p1, p2, c1, r1, x1, m1, m2, w1, w2, k1

\* Bound of the run: the two payments differ in their amount, and are captured and
\* refunded in full.
PricedApart ==
    /\ \A p, q \in CreateReqs :
          p # q /\ req[p].amount # 0 => req[p].amount # req[q].amount
    /\ \A r \in CaptureReqs \cup RefundReqs :
          req[r].payment # Null => req[r].amount = req[req[r].payment].amount

SettleSymmetry ==
    Permutations({p1, p2}) \cup Permutations({w1, w2}) \cup Permutations({m1, m2})
=============================================================================
