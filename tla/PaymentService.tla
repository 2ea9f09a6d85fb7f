--------------------------- MODULE PaymentService ---------------------------
(***************************************************************************)
(* The payment service: PaymentOrchestrator (orchestrator.rs) with its     *)
(* handlers (handlers.rs), queries (db.rs) and LedgerWriter (ledger.rs).   *)
(*                                                                         *)
(* Every HTTP request is a process.  A database transaction that locks the *)
(* payment row is one action; a call to the fraud service or the acquirer  *)
(* lies between two actions, and any other request may run there.  The     *)
(* handler can be dropped at every such point (30 s TimeoutLayer, client   *)
(* disconnect, crash, failing database), the acquirer may act on a call    *)
(* whose caller has given up, and a reply may be lost.                     *)
(***************************************************************************)
EXTENDS PaymentStatus, Sums

CONSTANTS
    Merchants,
    Keys,          \* idempotency keys clients send
    Amounts,       \* amounts clients ask for
    CreateReqs,    \* POST /v1/payments; the request names the payment it creates
    CaptureReqs,   \* POST /v1/payments/:id/capture
    RefundReqs,    \* POST /v1/payments/:id/refund; names the refund it creates
    CancelReqs,    \* POST /v1/payments/:id/cancel
    Null,
    ReferenceFkDeferrable
      \* TRUE: ledger_entries.reference_entry_id is DEFERRABLE INITIALLY
      \* DEFERRED, the schema of docs/ledger.md; FALSE: migration 008 as it
      \* stands, where the debit row cannot name the credit row to come.

Reqs == CreateReqs \cup CaptureReqs \cup RefundReqs \cup CancelReqs

ASSUME RequestAssumption ==
    /\ CreateReqs \cap (CaptureReqs \cup RefundReqs \cup CancelReqs) = {}
    /\ CaptureReqs \cap (RefundReqs \cup CancelReqs) = {}
    /\ RefundReqs \cap CancelReqs = {}
    /\ Null \notin Reqs \cup Merchants \cup Keys
    /\ Null \notin Statuses \cup {"error", "lost", "succeeded"}

ASSUME AmountAssumption == Amounts \subseteq Nat \ {0}

ASSUME FkAssumption == ReferenceFkDeferrable \in BOOLEAN

VARIABLES
    payments,  \* table payments, by payment id
    refunds,   \* table refunds, by refund id
    ledger,    \* debit/credit pairs of ledger_entries
    outbox,    \* rows of outbox_events
    acq,       \* what the acquirer did with the call of each request
    pc,        \* where the handler of each request is
    req,       \* what each accepted request asked for
    reply      \* what each client was told

tables == <<payments, refunds, ledger, outbox>>
vars == <<payments, refunds, ledger, outbox, acq, pc, req, reply>>

PaymentRow == [merchant: Merchants \cup {Null}, key: Keys \cup {Null},
               amount: Nat, method: {"automatic", "manual"},
               status: Statuses \cup {"absent"}, captured: Nat, refunded: Nat]

NoPayment == [merchant |-> Null, key |-> Null, amount |-> 0,
              method |-> "automatic", status |-> "absent",
              captured |-> 0, refunded |-> 0]

RefundRow == [payment: CreateReqs \cup {Null}, merchant: Merchants \cup {Null},
              key: Keys \cup {Null}, amount: Nat,
              status: {"absent", "pending", "succeeded", "failed"}]

NoRefund == [payment |-> Null, merchant |-> Null, key |-> Null, amount |-> 0,
             status |-> "absent"]

\* capture: debit gateway_float, credit merchant_payable; fee: debit
\* merchant_payable, credit fee_income; refund: debit merchant_payable, credit
\* gateway_float.
LedgerPair == [by: Reqs, kind: {"capture", "fee", "refund"},
               payment: CreateReqs, merchant: Merchants, amount: Nat]

EventTypes == {"payment.created", "payment.authorized", "payment.captured",
               "payment.failed", "payment.cancelled",
               "refund.pending", "refund.succeeded"}

OutboxEvent == [by: Reqs, payment: CreateReqs, type: EventTypes,
                topic: {"payments", "webhooks"}]

Request == [payment: CreateReqs \cup {Null}, key: Keys \cup {Null}, amount: Nat]

NoRequest == [payment |-> Null, key |-> Null, amount |-> 0]

\* Every variable has its type.
TypeOK ==
    /\ payments \in [CreateReqs -> PaymentRow]
    /\ refunds \in [RefundReqs -> RefundRow]
    /\ ledger \subseteq LedgerPair
    /\ outbox \subseteq OutboxEvent
    /\ acq \in [Reqs -> {"none", "sent", "done", "refused"}]
    /\ pc \in [Reqs -> {"idle", "fraud", "charging", "capturing", "refunding",
                        "announcing", "done"}]
    /\ req \in [Reqs -> Request]
    /\ reply \in [Reqs -> Statuses \cup {Null, "error", "lost", "succeeded"}]

Init ==
    /\ payments = [p \in CreateReqs |-> NoPayment]
    /\ refunds = [r \in RefundReqs |-> NoRefund]
    /\ ledger = {}
    /\ outbox = {}
    /\ acq = [r \in Reqs |-> "none"]
    /\ pc = [r \in Reqs |-> "idle"]
    /\ req = [r \in Reqs |-> NoRequest]
    /\ reply = [r \in Reqs |-> Null]

-----------------------------------------------------------------------------
(* Queries and writes shared by the handlers.                              *)

\* The row a handler finds by payment id and merchant id.
Owns(m, p) == payments[p].status # "absent" /\ payments[p].merchant = m

\* Mutant: the unique index on payments (merchant_id, idempotency_key) is gone.
NeverTaken(m, k) == m = Null /\ k = Null

\* The unique index on payments (merchant_id, idempotency_key).
KeyTaken(m, k) == k # Null /\ \E p \in CreateReqs : Owns(m, p) /\ payments[p].key = k

\* The unique index on refunds (merchant_id, idempotency_key).
RefundKeyTaken(m, k) ==
    /\ k # Null
    /\ \E r \in RefundReqs : /\ refunds[r].status # "absent"
                             /\ refunds[r].merchant = m
                             /\ refunds[r].key = k

Answer(r, what) ==
    /\ pc' = [pc EXCEPT ![r] = "done"]
    /\ reply' = [reply EXCEPT ![r] = what]

Pair(r, kind, p, amount) ==
    [by |-> r, kind |-> kind, payment |-> p, merchant |-> payments[p].merchant,
     amount |-> amount]

Event(r, p, type, topic) == [by |-> r, payment |-> p, type |-> type, topic |-> topic]

\* Mutant: the fee is written without the capture pair.
FeePairOnly(r, p, amount) == {Pair(r, "fee", p, Fee(amount))}

\* record_capture and, when the fee is positive, record_fee.
CapturePairs(r, p, amount) ==
    {Pair(r, "capture", p, amount)}
        \cup (IF Fee(amount) > 0 THEN {Pair(r, "fee", p, Fee(amount))} ELSE {})

\* Mutant: the webhook copy of an event is not written.
PaymentsTopicOnly(r, p, type) == {Event(r, p, type, "payments")}

\* Outcomes of interest go to both topics.
BothTopics(r, p, type) == {Event(r, p, type, "payments"), Event(r, p, type, "webhooks")}

\* update_payment_status: a blind write, whatever the row's status has become.
SetStatus(p, s) == payments' = [payments EXCEPT ![p].status = s]

\* update_payment_after_charge for a payment that becomes captured.
SetCaptured(p, amount) ==
    payments' = [payments EXCEPT ![p].status = "captured", ![p].captured = amount]

\* A pair can be written only if its debit row may name the later credit row.
LedgerAccepts == ReferenceFkDeferrable

-----------------------------------------------------------------------------
(* create_payment                                                          *)

\* The first transaction: the row and payment.created.
InsertPayment(r, m, k, a, method) ==
    /\ pc[r] = "idle"
    /\ ~KeyTaken(m, k)
    /\ payments' = [payments EXCEPT ![r] =
            [merchant |-> m, key |-> k, amount |-> a, method |-> method,
             status |-> "created", captured |-> 0, refunded |-> 0]]
    /\ outbox' = outbox \cup {Event(r, r, "payment.created", "payments")}
    /\ req' = [req EXCEPT ![r] = [payment |-> r, key |-> k, amount |-> a]]
    /\ pc' = [pc EXCEPT ![r] = "fraud"]
    /\ UNCHANGED <<refunds, ledger, acq, reply>>

\* The key is taken: the existing row is read after the commit and returned.  It
\* is the read that this action times; rows are never deleted.
ReplayPayment(r, m, k, a) ==
    /\ pc[r] = "idle"
    /\ k # Null
    /\ \E p \in CreateReqs :
        /\ Owns(m, p) /\ payments[p].key = k
        /\ req' = [req EXCEPT ![r] = [payment |-> p, key |-> k, amount |-> a]]
        /\ Answer(r, payments[p].status)
    /\ UNCHANGED <<payments, refunds, ledger, outbox, acq>>

\* The failure write shared by a fraud block, a decline and an acquirer error.
FailPayment(r) ==
    /\ SetStatus(r, "failed")
    /\ outbox' = outbox \cup {Event(r, r, "payment.failed", "payments")}
    /\ Answer(r, "error")
    /\ UNCHANGED <<refunds, ledger, acq, req>>

FraudBlocked(r) ==
    /\ pc[r] = "fraud"
    /\ FailPayment(r)

\* Not blocked, or the fraud service failed (fail-open): the charge is sent.
FraudPassed(r) ==
    /\ pc[r] = "fraud"
    /\ acq' = [acq EXCEPT ![r] = "sent"]
    /\ pc' = [pc EXCEPT ![r] = "charging"]
    /\ UNCHANGED <<tables, req, reply>>

\* Mutant: any reply of the acquirer is taken for an approval.
AnyReply(r) == pc[r] = "charging" /\ acq[r] # "none"

Approved(r) == pc[r] = "charging" /\ acq[r] = "done"

\* The transitions the charge needs from the locked row's status on.
ChargePath(p) ==
    /\ CanTransitionTo(payments[p].status, "pending")
    /\ CanTransitionTo("pending", "authorized")
    /\ payments[p].method = "automatic" => CanTransitionTo("authorized", "captured")

\* The transaction after an approved charge.
ChargeApproved(r) ==
    /\ Approved(r)
    /\ ChargePath(r)
    /\ \/ /\ payments[r].method = "automatic"
          /\ LedgerAccepts
          /\ SetCaptured(r, payments[r].amount)
          /\ ledger' = ledger \cup CapturePairs(r, r, payments[r].amount)
          /\ outbox' = outbox \cup BothTopics(r, r, "payment.captured")
          /\ Answer(r, "captured")
       \/ /\ payments[r].method = "manual"
          /\ SetStatus(r, "authorized")
          /\ outbox' = outbox \cup BothTopics(r, r, "payment.authorized")
          /\ Answer(r, "authorized")
          /\ UNCHANGED ledger
    /\ UNCHANGED <<refunds, acq, req>>

\* The charge was approved, but the locked row no longer admits it or the
\* ledger rejects the pair: the transaction rolls back, nothing is written.
ChargeUnrecorded(r) ==
    /\ Approved(r)
    /\ ~ChargePath(r) \/ (payments[r].method = "automatic" /\ ~LedgerAccepts)
    /\ Answer(r, "error")
    /\ UNCHANGED <<tables, acq, req>>

\* Mutant: the HTTP client has no timeout.
ChargeRefused(r) ==
    /\ pc[r] = "charging"
    /\ acq[r] = "refused"
    /\ FailPayment(r)

\* Declined, unreachable, timed out (15 s) or an unreadable reply.
ChargeFailed(r) ==
    /\ pc[r] = "charging"
    /\ FailPayment(r)

-----------------------------------------------------------------------------
(* capture_payment                                                         *)

CaptureAllowed(m, p) ==
    /\ Owns(m, p)
    /\ payments[p].method = "manual"
    /\ CanTransitionTo(payments[p].status, "captured")

\* Checks on an unlocked row, then the acquirer is called.  Amount 0: none given.
StartCapture(r, m, p, a) ==
    /\ pc[r] = "idle"
    /\ CaptureAllowed(m, p)
    /\ req' = [req EXCEPT ![r] = [payment |-> p, key |-> Null, amount |-> a]]
    /\ acq' = [acq EXCEPT ![r] = "sent"]
    /\ pc' = [pc EXCEPT ![r] = "capturing"]
    /\ UNCHANGED <<tables, reply>>

CaptureAmount(r) ==
    IF req[r].amount = 0 THEN payments[req[r].payment].amount ELSE req[r].amount

\* Mutant: the locked row is not checked again after the acquirer's reply.
NoRecheck(p) == payments[p].status # "absent"

\* The second check, on the locked row.
StillCapturable(p) == CanTransitionTo(payments[p].status, "captured")

CaptureApproved(r) ==
    LET p == req[r].payment IN
    /\ pc[r] = "capturing"
    /\ acq[r] = "done"
    /\ StillCapturable(p)
    /\ LedgerAccepts
    /\ SetCaptured(p, CaptureAmount(r))
    /\ ledger' = ledger \cup CapturePairs(r, p, CaptureAmount(r))
    /\ outbox' = outbox \cup BothTopics(r, p, "payment.captured")
    /\ Answer(r, "captured")
    /\ UNCHANGED <<refunds, acq, req>>

\* The call failed, or was approved and the locked row or the ledger refuses:
\* nothing is written either way.
CaptureFailed(r) ==
    /\ pc[r] = "capturing"
    /\ Answer(r, "error")
    /\ UNCHANGED <<tables, acq, req>>

-----------------------------------------------------------------------------
(* create_refund                                                           *)

\* Amount 0: none given, the whole refundable amount.
RefundAmount(p, a) == IF a = 0 THEN RefundableAmount(payments[p]) ELSE a

RefundAllowed(m, p, a) ==
    /\ Owns(m, p)
    /\ CanRefund(payments[p], RefundAmount(p, a))
    /\ payments[p].refunded + RefundAmount(p, a) =< CapturedOrAmount(payments[p])
    /\ LedgerAccepts

\* Mutant: the refunded amount is overwritten instead of raised.
SetRefunded(m, k, p, amount) ==
    payments' = [payments EXCEPT ![p].refunded = amount]

\* Mutant: a full refund also moves the status, outside the state machine.
MarkFullyRefunded(m, k, p, amount) ==
    payments' = [payments EXCEPT ![p] =
        [@ EXCEPT !.refunded = payments[p].refunded + amount,
                  !.status = IF payments[p].refunded + amount = CapturedOrAmount(payments[p])
                             THEN "refunded" ELSE payments[p].status]]

\* increment_refunded_amount, run whether or not the refund row was inserted.
IncrementRefunded(m, k, p, amount) ==
    payments' = [payments EXCEPT ![p].refunded = @ + amount]

\* The reservation transaction.  A taken refund key makes the insert a no-op and
\* changes nothing else.
CreateRefund(r, m, k, p, a) ==
    LET amount == RefundAmount(p, a) IN
    /\ pc[r] = "idle"
    /\ RefundAllowed(m, p, a)
    /\ refunds' = IF RefundKeyTaken(m, k) THEN refunds
                  ELSE [refunds EXCEPT ![r] =
                          [payment |-> p, merchant |-> m, key |-> k,
                           amount |-> amount, status |-> "pending"]]
    /\ IncrementRefunded(m, k, p, amount)
    /\ ledger' = ledger \cup {Pair(r, "refund", p, amount)}
    /\ outbox' = outbox \cup {Event(r, p, "refund.pending", "payments")}
    /\ req' = [req EXCEPT ![r] = [payment |-> p, key |-> k, amount |-> amount]]
    /\ acq' = [acq EXCEPT ![r] = "sent"]
    /\ pc' = [pc EXCEPT ![r] = "refunding"]
    /\ UNCHANGED reply

\* update_refund_status: no row, no effect.
MarkRefund(r, s) ==
    refunds' = IF refunds[r].status = "absent" THEN refunds
               ELSE [refunds EXCEPT ![r].status = s]

\* Mutant: the refund is marked before the acquirer has answered.
RefundCalled(r) == pc[r] = "refunding" /\ acq[r] \in {"sent", "done"}

RefundApproved(r) == pc[r] = "refunding" /\ acq[r] = "done"

\* The status is written by a statement of its own ...
RefundSucceeded(r) ==
    /\ RefundApproved(r)
    /\ MarkRefund(r, "succeeded")
    /\ pc' = [pc EXCEPT ![r] = "announcing"]
    /\ UNCHANGED <<payments, ledger, outbox, acq, req, reply>>

\* ... and the webhook event by a later transaction.
RefundAnnounced(r) ==
    /\ pc[r] = "announcing"
    /\ outbox' = outbox \cup {Event(r, req[r].payment, "refund.succeeded", "webhooks")}
    /\ Answer(r, "succeeded")
    /\ UNCHANGED <<payments, refunds, ledger, acq, req>>

\* Refused, unreachable, timed out or unreadable: the reservation stays.
RefundFailed(r) ==
    /\ pc[r] = "refunding"
    /\ MarkRefund(r, "failed")
    /\ Answer(r, "error")
    /\ UNCHANGED <<payments, ledger, outbox, acq, req>>

-----------------------------------------------------------------------------
(* cancel_payment                                                          *)

CancelAllowed(m, p) == Owns(m, p) /\ CanTransitionTo(payments[p].status, "cancelled")

\* Cancels the row; the acquirer is not told.
CancelPayment(r, m, p) ==
    /\ pc[r] = "idle"
    /\ CancelAllowed(m, p)
    /\ SetStatus(p, "cancelled")
    /\ outbox' = outbox \cup {Event(r, p, "payment.cancelled", "payments")}
    /\ req' = [req EXCEPT ![r] = [payment |-> p, key |-> Null, amount |-> 0]]
    /\ Answer(r, "cancelled")
    /\ UNCHANGED <<refunds, ledger, acq>>

-----------------------------------------------------------------------------
(* Refused requests, dropped handlers, and the acquirer.                   *)

\* A capture, refund or cancel request that its handler refuses.
Reject(r) ==
    /\ pc[r] = "idle"
    /\ \E m \in Merchants, p \in CreateReqs, a \in Amounts \cup {0} :
        \/ r \in CaptureReqs /\ ~CaptureAllowed(m, p)
        \/ r \in RefundReqs /\ ~RefundAllowed(m, p, a)
        \/ r \in CancelReqs /\ ~CancelAllowed(m, p)
    /\ Answer(r, "error")
    /\ UNCHANGED <<tables, acq, req>>

\* The handler is dropped where it waits; an open transaction rolls back.
Abandon(r) ==
    /\ pc[r] \notin {"idle", "done"}
    /\ Answer(r, "lost")
    /\ UNCHANGED <<tables, acq, req>>

\* The acquirer acts on a call, whether or not anyone still waits for it.
AcquirerAccepts(r) ==
    /\ acq[r] = "sent"
    /\ acq' = [acq EXCEPT ![r] = "done"]
    /\ UNCHANGED <<tables, pc, req, reply>>

AcquirerRefuses(r) ==
    /\ acq[r] = "sent"
    /\ acq' = [acq EXCEPT ![r] = "refused"]
    /\ UNCHANGED <<tables, pc, req, reply>>

-----------------------------------------------------------------------------

CreateStep(r) ==
    \/ FraudBlocked(r) \/ FraudPassed(r)
    \/ ChargeApproved(r) \/ ChargeUnrecorded(r) \/ ChargeFailed(r)

CaptureStep(r) == CaptureApproved(r) \/ CaptureFailed(r)

RefundStep(r) == RefundSucceeded(r) \/ RefundAnnounced(r) \/ RefundFailed(r)

\* A client sends a request.
Arrival ==
    \/ \E r \in CreateReqs, m \in Merchants, k \in Keys \cup {Null}, a \in Amounts :
        \/ \E method \in {"automatic", "manual"} : InsertPayment(r, m, k, a, method)
        \/ ReplayPayment(r, m, k, a)
    \/ \E r \in CaptureReqs, m \in Merchants, p \in CreateReqs, a \in Amounts \cup {0} :
        StartCapture(r, m, p, a)
    \/ \E r \in RefundReqs, m \in Merchants, k \in Keys \cup {Null}, p \in CreateReqs,
          a \in Amounts \cup {0} :
        CreateRefund(r, m, k, p, a)
    \/ \E r \in CancelReqs, m \in Merchants, p \in CreateReqs : CancelPayment(r, m, p)
    \/ \E r \in CaptureReqs \cup RefundReqs \cup CancelReqs : Reject(r)

Next ==
    \/ Arrival
    \/ \E r \in CreateReqs : CreateStep(r)
    \/ \E r \in CaptureReqs : CaptureStep(r)
    \/ \E r \in RefundReqs : RefundStep(r)
    \/ \E r \in Reqs : Abandon(r) \/ AcquirerAccepts(r) \/ AcquirerRefuses(r)

Spec == Init /\ [][Next]_vars

\* A started handler keeps running: tokio polls it, the HTTP client gives up
\* after 15 s.  Clients and the acquirer owe nothing.
Fairness ==
    /\ \A r \in CreateReqs : WF_vars(CreateStep(r))
    /\ \A r \in CaptureReqs : WF_vars(CaptureStep(r))
    /\ \A r \in RefundReqs : WF_vars(RefundStep(r))

FairSpec == Spec /\ Fairness

-----------------------------------------------------------------------------
(* Properties                                                              *)

Exists(p) == payments[p].status # "absent"

InCaptured(p) == payments[p].status \in {"captured", "settled"}

\* At most one charge per merchant and idempotency key reaches the acquirer,
\* however requests with that key interleave, time out, fail or are retried
\* (ON CONFLICT DO NOTHING before the charge, replay after it).
SingleChargePerKey ==
    \A p, q \in CreateReqs :
        (/\ acq[p] # "none" /\ acq[q] # "none"
         /\ payments[p].key # Null
         /\ payments[p].key = payments[q].key
         /\ payments[p].merchant = payments[q].merchant) => p = q

\* A payment counts as authorized or captured only if the acquirer really took
\* the charge, and a manual one as captured only if the acquirer also took a
\* capture call for it: no failed, late or lost reply is booked as money.
CapturedIsCharged ==
    \A p \in CreateReqs :
        /\ (payments[p].status = "authorized" \/ InCaptured(p)) => acq[p] = "done"
        /\ (InCaptured(p) /\ payments[p].method = "manual") =>
              \E c \in CaptureReqs : req[c].payment = p /\ acq[c] = "done"

\* The ledger and the payments table agree on captures: a captured payment has
\* exactly one capture pair, of its captured amount and merchant, and exactly one
\* fee pair when the fee is positive; a payment that is not captured has neither.
LedgerMatchesPayments ==
    /\ \A p \in CreateReqs : InCaptured(p) =>
          \E e \in ledger : e.kind = "capture" /\ e.payment = p
    /\ \A p \in CreateReqs : (InCaptured(p) /\ Fee(payments[p].captured) > 0) =>
          \E e \in ledger : e.kind = "fee" /\ e.payment = p
    /\ \A e \in ledger :
          /\ InCaptured(e.payment)
          /\ e.merchant = payments[e.payment].merchant
          /\ e.kind = "capture" => e.amount = payments[e.payment].captured
          /\ e.kind = "fee" => e.amount = Fee(payments[e.payment].captured)
    /\ \A e, f \in ledger :
          (e.kind = f.kind /\ e.payment = f.payment /\ e.kind # "refund") => e = f

\* Refunds are reserved before the acquirer is called and never exceed what was
\* captured, however many refund requests race; nothing is refunded on a payment
\* that is not captured.
RefundWithinCaptured ==
    \A p \in CreateReqs :
        /\ payments[p].refunded =< payments[p].captured
        /\ payments[p].refunded > 0 => InCaptured(p)

Announced(p, type, topic) ==
    \E e \in outbox : e.payment = p /\ e.type = type /\ e.topic = topic

\* The outbox tells the story of the table, whatever crashes or races: every row
\* was announced on creation, each outcome is announced on every topic it goes
\* to if and only if the row reached it.
OutboxMatchesPayments ==
    \A p \in CreateReqs :
        /\ Announced(p, "payment.created", "payments") <=> Exists(p)
        /\ Announced(p, "payment.captured", "payments") <=> InCaptured(p)
        /\ Announced(p, "payment.captured", "webhooks") <=> InCaptured(p)
        /\ Announced(p, "payment.failed", "payments") <=> payments[p].status = "failed"
        /\ payments[p].status = "cancelled" =>
              Announced(p, "payment.cancelled", "payments")
        /\ payments[p].status = "authorized" =>
              Announced(p, "payment.authorized", "webhooks")

\* Once captured, no later step of any request un-captures the payment (the
\* blind status writes of a failing create never land on it), changes the
\* captured amount or lowers the refunded amount; pairs and events are kept.
CapturedIsStable ==
    [][/\ \A p \in CreateReqs : InCaptured(p) =>
            /\ InCaptured(p)'
            /\ payments'[p].captured = payments[p].captured
            /\ payments'[p].refunded >= payments[p].refunded
       /\ ledger \subseteq ledger'
       /\ outbox \subseteq outbox']_vars

\* What a client was told stays true: a captured reply (also a replayed one) of a
\* captured payment, an authorized reply of a charge the acquirer took, a
\* succeeded refund of a refund the acquirer took and the ledger shows.
ToldIsTrue ==
    \A r \in Reqs :
        /\ reply[r] = "captured" => InCaptured(req[r].payment)
        /\ reply[r] = "authorized" => acq[req[r].payment] = "done"
        /\ reply[r] = "succeeded" =>
              /\ acq[r] = "done"
              /\ \E e \in ledger : e.by = r /\ e.kind = "refund"

\* What the pairs of one kind move for a payment.
PairSum(p, kind) ==
    SumOf([e \in {e \in ledger : e.payment = p /\ e.kind = kind} |-> e.amount])

\* What the acquirer has paid back of a payment.
AcquirerRefunded(p) ==
    SumOf([r \in {r \in RefundReqs : req[r].payment = p /\ acq[r] = "done"} |->
              req[r].amount])

\* What the ledger says a merchant is owed for a payment (captures less fees and
\* refunds) is what the payments row says, and the acquirer has never paid back
\* more than the row has reserved, whatever refunds race, fail, time out late or
\* reuse a key.
PayableMatchesRows ==
    \A p \in CreateReqs :
        /\ PairSum(p, "refund") = payments[p].refunded
        /\ PairSum(p, "capture") - PairSum(p, "fee") - PairSum(p, "refund") =
              payments[p].captured - Fee(payments[p].captured) - payments[p].refunded
        /\ AcquirerRefunded(p) =< payments[p].refunded

\* Every request that was started is answered or dropped, even if the acquirer
\* and the fraud service never answer: the HTTP client's timeout ends the wait.
EveryRequestAnswered == \A r \in Reqs : pc[r] # "idle" ~> pc[r] = "done"

-----------------------------------------------------------------------------
(* The inductive invariant the safety properties follow from.              *)

\* A request that was not accepted has left no trace; one that is under way, or
\* was answered with a payment, is about a payment that exists.
RequestInv ==
    \A r \in Reqs :
        /\ pc[r] = "idle" => acq[r] = "none" /\ reply[r] = Null
        /\ (pc[r] \notin {"idle", "done"} \/ reply[r] \in Statuses \cup {"succeeded"}) =>
              req[r].payment \in CreateReqs /\ Exists(req[r].payment)
        /\ pc[r] \in {"fraud", "charging"} => r \in CreateReqs
        /\ pc[r] = "capturing" => r \in CaptureReqs
        /\ pc[r] \in {"refunding", "announcing"} => r \in RefundReqs

\* A payment row and the request that creates it: only that request charges it,
\* and while it does, nothing but a cancellation can have touched the row.
RowInv ==
    \A p \in CreateReqs :
        /\ pc[p] = "idle" => ~Exists(p)
        /\ acq[p] # "none" => Exists(p)
        /\ pc[p] \in {"fraud", "charging"} =>
              req[p].payment = p /\ payments[p].status \in {"created", "cancelled"}
        /\ pc[p] = "fraud" => acq[p] = "none"
        /\ (payments[p].status = "authorized" \/ InCaptured(p)) =>
              acq[p] = "done" /\ pc[p] = "done"
        /\ Exists(p) => payments[p].merchant \in Merchants /\ payments[p].amount > 0

\* The unique index on (merchant_id, idempotency_key).
KeyInv ==
    \A p, q \in CreateReqs :
        (/\ Exists(p) /\ Exists(q)
         /\ payments[p].key # Null
         /\ payments[p].key = payments[q].key
         /\ payments[p].merchant = payments[q].merchant) => p = q

\* captured_amount is set exactly while the payment counts as captured, and
\* bounds refunded_amount.
AmountInv ==
    \A p \in CreateReqs :
        /\ payments[p].refunded =< payments[p].captured
        /\ InCaptured(p) <=> payments[p].captured > 0

\* Only manual payments are captured by a capture request, and a captured manual
\* payment has one whose call the acquirer took.
CaptureInv ==
    /\ \A c \in CaptureReqs : pc[c] = "capturing" =>
          payments[req[c].payment].method = "manual"
    /\ \A p \in CreateReqs : (InCaptured(p) /\ payments[p].method = "manual") =>
          \E c \in CaptureReqs : req[c].payment = p /\ acq[c] = "done" /\ pc[c] = "done"

\* A refund under way has its ledger pair, and is announced only when done.
RefundInv ==
    \A r \in RefundReqs :
        /\ pc[r] \in {"refunding", "announcing"} =>
              \E e \in ledger : e.by = r /\ e.kind = "refund"
        /\ pc[r] = "announcing" => acq[r] = "done"

IInv ==
    /\ TypeOK /\ RequestInv /\ RowInv /\ KeyInv /\ AmountInv /\ CaptureInv
    /\ LedgerMatchesPayments /\ RefundInv /\ ToldIsTrue /\ OutboxMatchesPayments

-----------------------------------------------------------------------------
(* The inductive invariant PayableMatchesRows follows from.                *)

\* The tables hold finitely many rows, and a refund request that was not accepted
\* is in neither the ledger nor the books of any payment.
TraceInv ==
    /\ IsFiniteSet(ledger)
    /\ IsFiniteSet({p \in CreateReqs : Exists(p)})
    /\ \A r \in RefundReqs : pc[r] = "idle" => req[r].payment = Null
    /\ \A e \in ledger : pc[e.by] # "idle"

RefundsOf(p) == {r \in RefundReqs : req[r].payment = p}

\* refunded_amount is the sum of the refund pairs and of the accepted requests.
RefundedInv ==
    \A p \in CreateReqs :
        /\ IsFiniteSet(RefundsOf(p))
        /\ SumOf([r \in RefundsOf(p) |-> req[r].amount]) = payments[p].refunded
        /\ PairSum(p, "refund") = payments[p].refunded

MoneyInv == IInv /\ TraceInv /\ RefundedInv
=============================================================================
