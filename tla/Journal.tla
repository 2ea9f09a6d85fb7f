------------------------------- MODULE Journal -------------------------------
(***************************************************************************)
(* What the ledger writer promises the payment service: the double entries *)
(* of a transaction enter the journal together or not at all, once, and    *)
(* nothing is ever taken out of it.  PaymentService and Settlement are     *)
(* written against this abstraction.                                       *)
(***************************************************************************)
EXTENDS PaymentStatus

CONSTANTS Payments, Amounts

VARIABLE journal

\* A transaction books the capture of a payment or its refund.
Txs == {"capture", "refund"} \X Payments

Legs(t, amount) ==
    IF t[1] = "refund" THEN {"refund"}
    ELSE IF Fee(amount) > 0 THEN {"capture", "fee"} ELSE {"capture"}

LegAmount(leg, amount) == IF leg = "fee" THEN Fee(amount) ELSE amount

Entries(t, amount) ==
    {[tx |-> t, leg |-> leg, amount |-> LegAmount(leg, amount)] : leg \in Legs(t, amount)}

JournalInit == journal = {}

Record(t, amount) ==
    /\ \A e \in journal : e.tx # t
    /\ journal' = journal \cup Entries(t, amount)

JournalNext == \E t \in Txs, a \in Amounts : Record(t, a)

JournalSpec == JournalInit /\ [][JournalNext]_journal
=============================================================================
