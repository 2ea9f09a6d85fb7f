-------------------------- MODULE MCAcquirerRouter --------------------------
(***************************************************************************)
(* Instances of AcquirerRouter for TLC.                                    *)
(***************************************************************************)
EXTENDS AcquirerRouter, FiniteSets, TLC

CONSTANTS a1, b1

CallerSymmetry == Permutations({a1, b1})
=============================================================================
