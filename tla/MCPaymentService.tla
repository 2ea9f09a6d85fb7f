-------------------------- MODULE MCPaymentService --------------------------
(***************************************************************************)
(* Instances of PaymentService for TLC, and the statements of the          *)
(* repository's documents and tests that are checked against it.           *)
(***************************************************************************)
EXTENDS PaymentService, FiniteSetsExt

\* SumOf is the sum of the community modules, on small functions.
ASSUME SumIsSum ==
    \A S \in SUBSET (1..3) : \A w \in [S -> 0..3] :
        SumOf(w) = MapThenSumSet(LAMBDA x : w[x], S)

CONSTANTS p1, p2, c1, c2, r1, r2, x1, m1, k1

Quiet == \A r \in Reqs : pc[r] \in {"idle", "done"}

\* Bound of the run CaptureRefundRace: creates with a key race with each other
\* only, and all other requests are about the payment p1.
KeyedApart ==
    IF \E r \in Reqs : req[r].key # Null
    THEN \A r \in Reqs \ CreateReqs : pc[r] = "idle"
    ELSE \A p \in CreateReqs \ {p1} : pc[p] = "idle"

\* Of requests that are alike the first comes in first.
InOrder ==
    /\ pc[c2] # "idle" => pc[c1] # "idle"
    /\ pc[r2] # "idle" => pc[r1] # "idle"

RaceBound == KeyedApart /\ InOrder

-----------------------------------------------------------------------------
(* Statements of the repository that the code does not keep.               *)

\* docs/idempotency.md: a retry under the same key does not repeat the operation.
OneRefundPerKey ==
    \A r, s \in RefundReqs :
        (/\ acq[r] = "done" /\ acq[s] = "done" /\ req[r].payment = req[s].payment
         /\ req[r].key # Null /\ req[r].key = req[s].key) => r = s

\* tests/invariants.rs: the refunded amount is the sum of the succeeded refunds
\* (read while no request is in flight).
RefundedMatchesSucceeded ==
    Quiet => \A p \in CreateReqs :
        payments[p].refunded =
            SumOf([r \in {r \in RefundReqs : refunds[r].payment = p
                                              /\ refunds[r].status = "succeeded"} |->
                      refunds[r].amount])

\* docs/ledger.md: the paired rows can be written in one transaction, so an
\* approved charge on an untouched row is never refused by the ledger.
ApprovedChargeCommits ==
    \A r \in CreateReqs :
        ~(reply[r] = "error" /\ acq[r] = "done" /\ payments[r].status = "created")
=============================================================================
