----------------------------- MODULE Settlement -----------------------------
(***************************************************************************)
(* The settlement worker (crates/settlement-worker/src/settler.rs) running *)
(* beside the payment service, on the same payments table.  At midnight a  *)
(* worker lists the merchants that have captured payments and settles them *)
(* one by one, each in a transaction of its own: captures, refunds and     *)
(* another instance of the worker may run in between.                      *)
(***************************************************************************)
EXTENDS PaymentService, Sequences

CONSTANT Settlers    \* instances of the worker

VARIABLES
    settlements,     \* the settlements rows and their settlement.completed events,
                     \* in commit order; covers (the payments) is history only
    balance,         \* table merchant_balances
    todo             \* the merchants each worker has yet to settle in its batch

svars == <<settlements, balance, todo>>
sysVars == <<vars, svars>>

SettlementRow == [merchant: Merchants, covers: SUBSET CreateReqs, total: Nat, net: Int]

\* Every variable of the worker has its type.
SettlementTypeOK ==
    /\ settlements \in Seq(SettlementRow)
    /\ balance \in [Merchants -> [available: Int, pending: Nat]]
    /\ todo \in [Settlers -> SUBSET Merchants]

SysInit ==
    /\ Init
    /\ settlements = <<>>
    /\ balance = [m \in Merchants |-> [available |-> 0, pending |-> 0]]
    /\ todo = [w \in Settlers |-> {}]

-----------------------------------------------------------------------------

\* Mutant: settled payments are selected again.
CapturedOrSettled(m) == {p \in CreateReqs : Owns(m, p) /\ payments[p].captured > 0}

\* The SELECT of settle_merchant.  settled_at is set exactly with status settled.
Due(m) == {p \in CreateReqs : Owns(m, p) /\ payments[p].status = "captured"}

\* run_settlement_batch: SELECT DISTINCT merchant_id.
StartBatch(w) ==
    /\ todo[w] = {}
    /\ \E m \in Merchants : Due(m) # {}
    /\ todo' = [todo EXCEPT ![w] = {m \in Merchants : Due(m) # {}}]
    /\ UNCHANGED <<vars, settlements, balance>>

Total(S) == SumOf([p \in S |-> CapturedOrAmount(payments[p])])

\* Mutant: the fee is forgotten.
Gross(S) == Total(S)

Net(S) == Total(S) - Fee(Total(S))

\* Mutant: pending is not kept from falling below zero.
NoFloor(pending, total) == pending - total

\* GREATEST(0, pending - total)
Less(pending, total) == IF pending > total THEN pending - total ELSE 0

\* settle_merchant.  FOR UPDATE SKIP LOCKED: any of the due rows may be in the
\* hands of another transaction, so S is any part of them.
SettleMerchant(w, m, S) ==
    /\ m \in todo[w]
    /\ S \subseteq Due(m) /\ S # {}
    /\ settlements' = Append(settlements,
            [merchant |-> m, covers |-> S, total |-> Total(S), net |-> Net(S)])
    /\ payments' = [p \in CreateReqs |->
            IF p \in S THEN [payments[p] EXCEPT !.status = "settled"] ELSE payments[p]]
    /\ balance' = [balance EXCEPT ![m] =
            [available |-> @.available + Net(S), pending |-> Less(@.pending, Total(S))]]
    /\ todo' = [todo EXCEPT ![w] = @ \ {m}]
    /\ UNCHANGED <<refunds, ledger, outbox, acq, pc, req, reply>>

\* Every row is locked or no longer due, or the transaction fails: the merchant
\* is passed over and the batch goes on.
PassOver(w, m) ==
    /\ m \in todo[w]
    /\ todo' = [todo EXCEPT ![w] = @ \ {m}]
    /\ UNCHANGED <<vars, settlements, balance>>

\* The worker dies between two merchants; the next batch starts afresh.
CrashBatch(w) ==
    /\ todo[w] # {}
    /\ todo' = [todo EXCEPT ![w] = {}]
    /\ UNCHANGED <<vars, settlements, balance>>

Settle ==
    \E w \in Settlers :
        \/ StartBatch(w)
        \/ CrashBatch(w)
        \/ \E m \in Merchants :
            \/ PassOver(w, m)
            \/ \E S \in SUBSET CreateReqs : SettleMerchant(w, m, S)

SysNext == (Next /\ UNCHANGED svars) \/ Settle

SysSpec == SysInit /\ [][SysNext]_sysVars

-----------------------------------------------------------------------------
(* Properties                                                              *)

\* A payment is settled if and only if exactly one settlement covers it, and
\* that settlement is its own merchant's: two workers, a crash in the middle of
\* a batch or a merchant list gone stale never pay a payment twice or not at all.
SettledOnce ==
    /\ \A p \in CreateReqs : payments[p].status = "settled" <=>
          \E i \in DOMAIN settlements : p \in settlements[i].covers
    /\ \A i, j \in DOMAIN settlements :
          i # j => settlements[i].covers \cap settlements[j].covers = {}
    /\ \A i \in DOMAIN settlements : \A p \in settlements[i].covers :
          payments[p].merchant = settlements[i].merchant

SettledFor(m) ==
    {p \in CreateReqs : payments[p].status = "settled" /\ payments[p].merchant = m}

\* The settlements of a merchant whose fee lost a unit to the rounding of f64.
ShortSettlements(m) ==
    {i \in DOMAIN settlements : settlements[i].merchant = m /\ settlements[i].total \in Short}

\* A merchant's balance exceeds what its settled payments captured less the fee the
\* ledger booked for each by a unit for each settlement whose total is short, at
\* most: truncating the fee of a batch's total instead of each payment's is never
\* in the merchant's favour otherwise, and no batch pays a payment twice.
PaidWithinCaptures ==
    \A m \in Merchants :
        balance[m].available =<
            SumOf([p \in SettledFor(m) |->
                      payments[p].captured - Fee(payments[p].captured)])
            + Cardinality(ShortSettlements(m))

\* No settlement changes money that is booked: a payment captured or settled stays
\* so, with its captured amount, and a settled one is never settled back, while
\* captures, refunds and failing creates run beside the batch.
SettledIsStable ==
    [][\A p \in CreateReqs : InCaptured(p) =>
            /\ InCaptured(p)'
            /\ payments'[p].captured = payments[p].captured
            /\ payments'[p].refunded >= payments[p].refunded
            /\ payments[p].status = "settled" => payments'[p].status = "settled"]_sysVars
=============================================================================
