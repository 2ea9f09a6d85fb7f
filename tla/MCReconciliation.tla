-------------------------- MODULE MCReconciliation --------------------------
(***************************************************************************)
(* Instances of Reconciliation for TLC.                                    *)
(***************************************************************************)
EXTENDS Reconciliation, TLC

CONSTANTS p1, p2, m1, w1

OfficeSymmetry == Permutations({p1, p2})
=============================================================================
