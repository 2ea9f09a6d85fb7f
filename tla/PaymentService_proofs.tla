----------------------- MODULE PaymentService_proofs -----------------------
(***************************************************************************)
(* Proofs about the payment service: IInv is an inductive invariant of     *)
(* Spec for all sets of merchants, keys, amounts and requests, every fee   *)
(* rate and either schema of the ledger table; the safety properties       *)
(* follow.  First what the writes of the handlers do to a row, field by    *)
(* field, then one lemma per conjunct of IInv, each with one step per      *)
(* action, then the theorems; last the sums over the tables, which rest on *)
(* MoneyInv.                                                               *)
(***************************************************************************)
EXTENDS PaymentService, Sums_proofs

\* The columns of a payments row are typed.
LEMMA RowTypes ==
    ASSUME TypeOK, NEW p \in CreateReqs
    PROVE  /\ payments[p].merchant \in Merchants \cup {Null}
           /\ payments[p].key \in Keys \cup {Null}
           /\ payments[p].amount \in Nat
           /\ payments[p].method \in {"automatic", "manual"}
           /\ payments[p].status \in Statuses \cup {"absent"}
           /\ payments[p].captured \in Nat
           /\ payments[p].refunded \in Nat
BY DEF TypeOK, PaymentRow

\* The columns a write to row p leaves alone, and the rows it leaves alone.
Unwritten(p) ==
    /\ \A q \in CreateReqs : q # p => payments'[q] = payments[q]
    /\ payments'[p].merchant = payments[p].merchant
    /\ payments'[p].key = payments[p].key
    /\ payments'[p].amount = payments[p].amount
    /\ payments'[p].method = payments[p].method

\* update_payment_status writes the status column of one row.
LEMMA SetStatusEffect ==
    ASSUME TypeOK, NEW p \in CreateReqs, NEW s \in Statuses, SetStatus(p, s)
    PROVE  /\ payments' \in [CreateReqs -> PaymentRow]
           /\ Unwritten(p)
           /\ payments'[p].status = s
           /\ payments'[p].captured = payments[p].captured
           /\ payments'[p].refunded = payments[p].refunded
BY DEF TypeOK, PaymentRow, SetStatus, Unwritten

\* update_payment_after_charge sets status and captured amount of one row.
LEMMA SetCapturedEffect ==
    ASSUME TypeOK, NEW p \in CreateReqs, NEW amount \in Nat, SetCaptured(p, amount)
    PROVE  /\ payments' \in [CreateReqs -> PaymentRow]
           /\ Unwritten(p)
           /\ payments'[p].status = "captured"
           /\ payments'[p].captured = amount
           /\ payments'[p].refunded = payments[p].refunded
<1> DEFINE row == [payments[p] EXCEPT !.status = "captured", !.captured = amount]
<1>1. payments \in [CreateReqs -> PaymentRow]
  BY DEF TypeOK
<1>2. payments' = [payments EXCEPT ![p] = row]
  BY <1>1 DEF SetCaptured, PaymentRow
<1>3. payments[p] \in PaymentRow
  BY <1>1
<1>4. "captured" \in Statuses \cup {"absent"}
  BY DEF Statuses
<1>5. /\ row \in PaymentRow
      /\ row.status = "captured" /\ row.captured = amount
      /\ row.refunded = payments[p].refunded /\ row.merchant = payments[p].merchant
      /\ row.key = payments[p].key /\ row.amount = payments[p].amount
      /\ row.method = payments[p].method
  BY <1>3, <1>4 DEF PaymentRow
<1> HIDE DEF row
<1> QED
  BY <1>1, <1>2, <1>5 DEF Unwritten

\* increment_refunded_amount raises the refunded amount of one row.
LEMMA IncrementEffect ==
    ASSUME TypeOK, NEW p \in CreateReqs, NEW amount \in Nat, NEW m, NEW k,
           IncrementRefunded(m, k, p, amount)
    PROVE  /\ payments' \in [CreateReqs -> PaymentRow]
           /\ Unwritten(p)
           /\ payments'[p].status = payments[p].status
           /\ payments'[p].captured = payments[p].captured
           /\ payments'[p].refunded = payments[p].refunded + amount
BY DEF TypeOK, PaymentRow, IncrementRefunded, Unwritten

\* update_refund_status keeps the refunds table typed.
LEMMA MarkRefundType ==
    ASSUME TypeOK, NEW r \in RefundReqs, NEW s \in {"succeeded", "failed"},
           MarkRefund(r, s)
    PROVE  refunds' \in [RefundReqs -> RefundRow]
BY DEF TypeOK, RefundRow, MarkRefund

\* The refund amount create_refund computes on an admitted request is positive
\* and within what is left of the captured amount.
LEMMA RefundAmountBound ==
    ASSUME TypeOK, NEW m \in Merchants, NEW p \in CreateReqs,
           NEW a \in Amounts \cup {0}, RefundAllowed(m, p, a)
    PROVE  /\ RefundAmount(p, a) \in Nat \ {0}
           /\ payments[p].refunded + RefundAmount(p, a) =<
                 CapturedOrAmount(payments[p])
           /\ InCaptured(p)
<1>1. /\ CanRefund(payments[p], RefundAmount(p, a))
      /\ payments[p].refunded + RefundAmount(p, a) =< CapturedOrAmount(payments[p])
  BY DEF RefundAllowed
<1>2. RefundAmount(p, a) > 0 /\ InCaptured(p)
  BY <1>1 DEF CanRefund, InCaptured
<1>3. CapturedOrAmount(payments[p]) \in Nat /\ payments[p].refunded \in Nat
  BY RowTypes DEF CapturedOrAmount
<1>4. RefundAmount(p, a) \in Int
  BY <1>3, AmountAssumption DEF RefundAmount, RefundableAmount
<1> QED
  BY <1>1, <1>2, <1>4

\* A capture request captures a positive amount.
LEMMA CaptureAmountPositive ==
    ASSUME TypeOK, RequestInv, RowInv, NEW r \in CaptureReqs, pc[r] = "capturing"
    PROVE  /\ req[r].payment \in CreateReqs
           /\ Exists(req[r].payment)
           /\ CaptureAmount(r) \in Nat \ {0}
<1>1. r \in Reqs /\ req[r].amount \in Nat
  BY DEF Reqs, TypeOK, Request
<1>2. req[r].payment \in CreateReqs /\ Exists(req[r].payment)
  BY <1>1 DEF RequestInv
<1>3. payments[req[r].payment].amount \in Nat \ {0}
  BY <1>2, RowTypes DEF RowInv
<1> QED
  BY <1>1, <1>2, <1>3 DEF CaptureAmount

\* Where the transitions the handlers ask for may start.
LEMMA Transitions ==
    ASSUME NEW s
    PROVE  /\ CanTransitionTo(s, "pending") => s = "created"
           /\ CanTransitionTo(s, "captured") => s = "authorized"
           /\ CanTransitionTo(s, "cancelled") =>
                 s \in {"created", "requires_action", "authorized"}
BY DEF CanTransitionTo, ValidTransitions, Statuses

\* The pairs and the events the handlers insert are typed.
LEMMA CapturePairsType ==
    ASSUME NEW r \in Reqs, NEW p \in CreateReqs, NEW amount \in Nat,
           payments[p].merchant \in Merchants
    PROVE  CapturePairs(r, p, amount) \subseteq LedgerPair
BY FeeIsNat DEF CapturePairs, Pair, LedgerPair

\* The two copies of an event are well-formed outbox rows.
LEMMA BothTopicsType ==
    ASSUME NEW r \in Reqs, NEW p \in CreateReqs, NEW type \in EventTypes
    PROVE  BothTopics(r, p, type) \subseteq OutboxEvent
BY DEF BothTopics, Event, OutboxEvent

\* Every handler step, dropped handler and acquirer step keeps the variables'
\* types.
LEMMA TypeStep == TypeOK /\ RequestInv /\ RowInv /\ [Next]_vars => TypeOK'
<1> SUFFICES ASSUME TypeOK /\ RequestInv /\ RowInv, [Next]_vars PROVE TypeOK'
  OBVIOUS
<1>1. ASSUME NEW r \in CreateReqs, NEW m \in Merchants, NEW k \in Keys \cup {Null},
             NEW a \in Amounts,
             NEW method \in {"automatic", "manual"},
             InsertPayment(r, m, k, a, method)
      PROVE  TypeOK'
  BY <1>1, AmountAssumption
  DEF InsertPayment, KeyTaken, Owns, Event, PaymentRow, Request, OutboxEvent,
      EventTypes, Statuses, TypeOK, Reqs
<1>2. ASSUME NEW r \in CreateReqs, NEW m \in Merchants, NEW k \in Keys \cup {Null},
             NEW a \in Amounts,
             ReplayPayment(r, m, k, a)
      PROVE  TypeOK'
  BY <1>2, AmountAssumption
  DEF ReplayPayment, Owns, Answer, PaymentRow, Request, TypeOK, Reqs
<1>3. ASSUME NEW r \in CreateReqs,
             FraudBlocked(r)
      PROVE  TypeOK'
  BY <1>3, SetStatusEffect
  DEF FraudBlocked, FailPayment, Answer, Event, OutboxEvent, EventTypes, Statuses,
      TypeOK, Reqs
<1>4. ASSUME NEW r \in CreateReqs,
             FraudPassed(r)
      PROVE  TypeOK'
  BY <1>4
  DEF FraudPassed, tables, TypeOK, Reqs
<1>5. ASSUME NEW r \in CreateReqs,
             ChargeApproved(r)
      PROVE  TypeOK'
  <2>1. payments[r].amount \in Nat /\ payments[r].merchant \in Merchants
    BY <1>5, RowTypes, Transitions DEF ChargeApproved, ChargePath, RowInv, Exists
  <2>2. payments' \in [CreateReqs -> PaymentRow]
    BY <1>5, <2>1, SetStatusEffect, SetCapturedEffect DEF ChargeApproved, Statuses
  <2>3. ledger' \subseteq LedgerPair
    BY <1>5, <2>1, CapturePairsType DEF ChargeApproved, TypeOK, Reqs
  <2>4. outbox' \subseteq OutboxEvent
    BY <1>5, BothTopicsType DEF ChargeApproved, TypeOK, Reqs, EventTypes
  <2> QED
    BY <1>5, <2>2, <2>3, <2>4 DEF ChargeApproved, Answer, TypeOK, Reqs, Statuses
<1>6. ASSUME NEW r \in CreateReqs,
             ChargeUnrecorded(r)
      PROVE  TypeOK'
  BY <1>6
  DEF ChargeUnrecorded, Approved, Answer, tables, TypeOK, Reqs
<1>7. ASSUME NEW r \in CreateReqs,
             ChargeFailed(r)
      PROVE  TypeOK'
  BY <1>7, SetStatusEffect
  DEF ChargeFailed, FailPayment, Answer, Event, OutboxEvent, EventTypes, Statuses,
      TypeOK, Reqs
<1>8. ASSUME NEW r \in CaptureReqs, NEW m \in Merchants, NEW p \in CreateReqs,
             NEW a \in Amounts \cup {0},
             StartCapture(r, m, p, a)
      PROVE  TypeOK'
  <2>1. [payment |-> p, key |-> Null, amount |-> a] \in Request
    BY AmountAssumption DEF Request
  <2> QED
    BY <1>8, <2>1 DEF StartCapture, tables, TypeOK, Reqs
<1>9. ASSUME NEW r \in CaptureReqs,
             CaptureApproved(r)
      PROVE  TypeOK'
  <2>1. /\ req[r].payment \in CreateReqs /\ CaptureAmount(r) \in Nat
        /\ payments[req[r].payment].merchant \in Merchants
    BY <1>9, CaptureAmountPositive DEF CaptureApproved, RowInv
  <2>2. payments' \in [CreateReqs -> PaymentRow]
    BY <1>9, <2>1, SetCapturedEffect DEF CaptureApproved
  <2>3. ledger' \subseteq LedgerPair
    BY <1>9, <2>1, CapturePairsType DEF CaptureApproved, TypeOK, Reqs
  <2>4. outbox' \subseteq OutboxEvent
    BY <1>9, <2>1, BothTopicsType DEF CaptureApproved, TypeOK, Reqs, EventTypes
  <2> QED
    BY <1>9, <2>2, <2>3, <2>4 DEF CaptureApproved, Answer, TypeOK, Reqs, Statuses
<1>10. ASSUME NEW r \in CaptureReqs,
             CaptureFailed(r)
      PROVE  TypeOK'
  BY <1>10
  DEF CaptureFailed, Answer, tables, TypeOK, Reqs
<1>11. ASSUME NEW r \in RefundReqs, NEW m \in Merchants, NEW k \in Keys \cup {Null},
              NEW p \in CreateReqs,
             NEW a \in Amounts \cup {0},
             CreateRefund(r, m, k, p, a)
      PROVE  TypeOK'
  BY <1>11, IncrementEffect, RefundAmountBound, RowTypes
  DEF CreateRefund, RefundAllowed, Owns, Pair, Event, RequestInv, RowInv, Exists,
      RefundRow, LedgerPair, OutboxEvent, EventTypes, Request, TypeOK, Reqs
<1>12. ASSUME NEW r \in RefundReqs,
             RefundSucceeded(r)
      PROVE  TypeOK'
  BY <1>12, MarkRefundType
  DEF RefundSucceeded, RefundApproved, TypeOK, Reqs
<1>13. ASSUME NEW r \in RefundReqs,
             RefundAnnounced(r)
      PROVE  TypeOK'
  BY <1>13
  DEF RefundAnnounced, Answer, Event, RequestInv, OutboxEvent, EventTypes, TypeOK, Reqs
<1>14. ASSUME NEW r \in RefundReqs,
             RefundFailed(r)
      PROVE  TypeOK'
  BY <1>14, MarkRefundType
  DEF RefundFailed, Answer, TypeOK, Reqs
<1>15. ASSUME NEW r \in CancelReqs, NEW m \in Merchants, NEW p \in CreateReqs,
             CancelPayment(r, m, p)
      PROVE  TypeOK'
  BY <1>15, SetStatusEffect
  DEF CancelPayment, CancelAllowed, Owns, Answer, Event, OutboxEvent, EventTypes,
      Request, Statuses, TypeOK, Reqs
<1>16. ASSUME NEW r \in CaptureReqs \cup RefundReqs \cup CancelReqs,
             Reject(r)
      PROVE  TypeOK'
  BY <1>16
  DEF Reject, Answer, tables, TypeOK, Reqs
<1>17. ASSUME NEW r \in Reqs,
             Abandon(r)
      PROVE  TypeOK'
  BY <1>17
  DEF Abandon, Answer, tables, TypeOK, Reqs
<1>18. ASSUME NEW r \in Reqs,
             AcquirerAccepts(r)
      PROVE  TypeOK'
  BY <1>18
  DEF AcquirerAccepts, tables, TypeOK, Reqs
<1>19. ASSUME NEW r \in Reqs,
             AcquirerRefuses(r)
      PROVE  TypeOK'
  BY <1>19
  DEF AcquirerRefuses, tables, TypeOK, Reqs
<1>20. CASE UNCHANGED vars
  BY <1>20 DEF vars, TypeOK, Reqs
<1> QED
  BY <1>1, <1>2, <1>3, <1>4, <1>5, <1>6, <1>7, <1>8, <1>9, <1>10, <1>11, <1>12, <1>13,
     <1>14, <1>15, <1>16, <1>17, <1>18, <1>19, <1>20
  DEF Next, Arrival, CreateStep, CaptureStep, RefundStep, Reqs

\* No step leaves a request under way, or answered with a payment, without the
\* payment row it is about.
LEMMA RequestStep == TypeOK /\ RequestInv /\ RowInv /\ [Next]_vars => RequestInv'
<1> SUFFICES ASSUME TypeOK /\ RequestInv /\ RowInv, [Next]_vars PROVE RequestInv'
  OBVIOUS
<1>1. ASSUME NEW r \in CreateReqs, NEW m \in Merchants, NEW k \in Keys \cup {Null},
             NEW a \in Amounts,
             NEW method \in {"automatic", "manual"},
             InsertPayment(r, m, k, a, method)
      PROVE  RequestInv'
  BY <1>1, AmountAssumption
  DEF InsertPayment, KeyTaken, Owns, Event, PaymentRow, Statuses, RequestInv, Exists,
      TypeOK, Reqs
<1>2. ASSUME NEW r \in CreateReqs, NEW m \in Merchants, NEW k \in Keys \cup {Null},
             NEW a \in Amounts,
             ReplayPayment(r, m, k, a)
      PROVE  RequestInv'
  BY <1>2
  DEF ReplayPayment, Owns, Answer, RequestInv, Exists, TypeOK, Reqs
<1>3. ASSUME NEW r \in CreateReqs,
             FraudBlocked(r)
      PROVE  RequestInv'
  BY <1>3, SetStatusEffect
  DEF FraudBlocked, FailPayment, Answer, Event, Unwritten, Statuses, RequestInv, Exists,
      TypeOK, Reqs
<1>4. ASSUME NEW r \in CreateReqs,
             FraudPassed(r)
      PROVE  RequestInv'
  BY <1>4, RequestAssumption
  DEF FraudPassed, tables, RequestInv, Exists, TypeOK, Reqs
<1>5. ASSUME NEW r \in CreateReqs,
             ChargeApproved(r)
      PROVE  RequestInv'
  BY <1>5, SetStatusEffect, SetCapturedEffect, Transitions, RowTypes, RequestAssumption
  DEF ChargeApproved, Approved, ChargePath, Answer, CapturePairs, BothTopics, Pair,
      Event, Unwritten, Statuses, RequestInv, Exists, TypeOK, Reqs
<1>6. ASSUME NEW r \in CreateReqs,
             ChargeUnrecorded(r)
      PROVE  RequestInv'
  BY <1>6
  DEF ChargeUnrecorded, Approved, Answer, tables, RequestInv, Exists, TypeOK, Reqs
<1>7. ASSUME NEW r \in CreateReqs,
             ChargeFailed(r)
      PROVE  RequestInv'
  BY <1>7, SetStatusEffect
  DEF ChargeFailed, FailPayment, Answer, Event, Unwritten, Statuses, RequestInv, Exists,
      TypeOK, Reqs
<1>8. ASSUME NEW r \in CaptureReqs, NEW m \in Merchants, NEW p \in CreateReqs,
             NEW a \in Amounts \cup {0},
             StartCapture(r, m, p, a)
      PROVE  RequestInv'
  BY <1>8
  DEF StartCapture, tables, CaptureAllowed, Owns, RequestInv, Exists, TypeOK, Reqs
<1>9. ASSUME NEW r \in CaptureReqs,
             CaptureApproved(r)
      PROVE  RequestInv'
  BY <1>9, SetCapturedEffect, CaptureAmountPositive, Transitions
  DEF CaptureApproved, StillCapturable, Answer, CapturePairs, BothTopics, Pair, Event,
      Unwritten, Statuses, RequestInv, Exists, TypeOK, Reqs
<1>10. ASSUME NEW r \in CaptureReqs,
             CaptureFailed(r)
      PROVE  RequestInv'
  BY <1>10
  DEF CaptureFailed, Answer, tables, RequestInv, Exists, TypeOK, Reqs
<1>11. ASSUME NEW r \in RefundReqs, NEW m \in Merchants, NEW k \in Keys \cup {Null},
              NEW p \in CreateReqs,
             NEW a \in Amounts \cup {0},
             CreateRefund(r, m, k, p, a)
      PROVE  RequestInv'
  BY <1>11, IncrementEffect, RefundAmountBound
  DEF CreateRefund, RefundAllowed, Owns, Pair, Event, Unwritten, Statuses, RequestInv,
      Exists, TypeOK, Reqs
<1>12. ASSUME NEW r \in RefundReqs,
             RefundSucceeded(r)
      PROVE  RequestInv'
  BY <1>12
  DEF RefundSucceeded, RefundApproved, RequestInv, Exists, TypeOK, Reqs
<1>13. ASSUME NEW r \in RefundReqs,
             RefundAnnounced(r)
      PROVE  RequestInv'
  BY <1>13
  DEF RefundAnnounced, Answer, Event, RequestInv, Exists, TypeOK, Reqs
<1>14. ASSUME NEW r \in RefundReqs,
             RefundFailed(r)
      PROVE  RequestInv'
  BY <1>14
  DEF RefundFailed, Answer, RequestInv, Exists, TypeOK, Reqs
<1>15. ASSUME NEW r \in CancelReqs, NEW m \in Merchants, NEW p \in CreateReqs,
             CancelPayment(r, m, p)
      PROVE  RequestInv'
  BY <1>15, SetStatusEffect, Transitions
  DEF CancelPayment, CancelAllowed, Owns, Answer, Event, Unwritten, Statuses,
      RequestInv, Exists, TypeOK, Reqs
<1>16. ASSUME NEW r \in CaptureReqs \cup RefundReqs \cup CancelReqs,
             Reject(r)
      PROVE  RequestInv'
  <2>1. pc[r] = "idle" /\ Answer(r, "error") /\ UNCHANGED <<tables, acq, req>>
    BY <1>16 DEF Reject
  <2> QED
    BY <2>1 DEF Answer, tables, RequestInv, Exists, TypeOK, Reqs, Statuses
<1>17. ASSUME NEW r \in Reqs,
             Abandon(r)
      PROVE  RequestInv'
  BY <1>17
  DEF Abandon, Answer, tables, RequestInv, Exists, TypeOK, Reqs
<1>18. ASSUME NEW r \in Reqs,
             AcquirerAccepts(r)
      PROVE  RequestInv'
  BY <1>18
  DEF AcquirerAccepts, tables, RequestInv, Exists, TypeOK, Reqs
<1>19. ASSUME NEW r \in Reqs,
             AcquirerRefuses(r)
      PROVE  RequestInv'
  BY <1>19
  DEF AcquirerRefuses, tables, RequestInv, Exists, TypeOK, Reqs
<1>20. CASE UNCHANGED vars
  BY <1>20 DEF vars, RequestInv, Exists, TypeOK, Reqs
<1> QED
  BY <1>1, <1>2, <1>3, <1>4, <1>5, <1>6, <1>7, <1>8, <1>9, <1>10, <1>11, <1>12, <1>13,
     <1>14, <1>15, <1>16, <1>17, <1>18, <1>19, <1>20
  DEF Next, Arrival, CreateStep, CaptureStep, RefundStep, Reqs

\* While a create handler is between its transactions, no step of any other
\* request does more to its row than cancel it.
LEMMA RowStep == TypeOK /\ RequestInv /\ RowInv /\ [Next]_vars => RowInv'
<1> SUFFICES ASSUME TypeOK /\ RequestInv /\ RowInv, [Next]_vars PROVE RowInv'
  OBVIOUS
<1>1. ASSUME NEW r \in CreateReqs, NEW m \in Merchants, NEW k \in Keys \cup {Null},
             NEW a \in Amounts,
             NEW method \in {"automatic", "manual"},
             InsertPayment(r, m, k, a, method)
      PROVE  RowInv'
  BY <1>1, RequestAssumption, AmountAssumption
  DEF InsertPayment, KeyTaken, Owns, Event, PaymentRow, Statuses, RowInv, RequestInv,
      Exists, InCaptured, TypeOK, Reqs
<1>2. ASSUME NEW r \in CreateReqs, NEW m \in Merchants, NEW k \in Keys \cup {Null},
             NEW a \in Amounts,
             ReplayPayment(r, m, k, a)
      PROVE  RowInv'
  BY <1>2, RequestAssumption
  DEF ReplayPayment, Owns, Answer, RowInv, RequestInv, Exists, InCaptured, TypeOK, Reqs
<1>3. ASSUME NEW r \in CreateReqs,
             FraudBlocked(r)
      PROVE  RowInv'
  BY <1>3, RequestAssumption, SetStatusEffect
  DEF FraudBlocked, FailPayment, Answer, Event, Unwritten, Statuses, RowInv, RequestInv,
      Exists, InCaptured, TypeOK, Reqs
<1>4. ASSUME NEW r \in CreateReqs,
             FraudPassed(r)
      PROVE  RowInv'
  BY <1>4, RequestAssumption
  DEF FraudPassed, tables, RowInv, RequestInv, Exists, InCaptured, TypeOK, Reqs
<1>5. ASSUME NEW r \in CreateReqs,
             ChargeApproved(r)
      PROVE  RowInv'
  BY <1>5, RequestAssumption, SetStatusEffect, SetCapturedEffect, Transitions, RowTypes
  DEF ChargeApproved, Approved, ChargePath, Answer, CapturePairs, BothTopics, Pair,
      Event, Unwritten, Statuses, RowInv, RequestInv, Exists, InCaptured, TypeOK, Reqs
<1>6. ASSUME NEW r \in CreateReqs,
             ChargeUnrecorded(r)
      PROVE  RowInv'
  BY <1>6, RequestAssumption
  DEF ChargeUnrecorded, Approved, Answer, tables, RowInv, RequestInv, Exists,
      InCaptured, TypeOK, Reqs
<1>7. ASSUME NEW r \in CreateReqs,
             ChargeFailed(r)
      PROVE  RowInv'
  BY <1>7, RequestAssumption, SetStatusEffect
  DEF ChargeFailed, FailPayment, Answer, Event, Unwritten, Statuses, RowInv, RequestInv,
      Exists, InCaptured, TypeOK, Reqs
<1>8. ASSUME NEW r \in CaptureReqs, NEW m \in Merchants, NEW p \in CreateReqs,
             NEW a \in Amounts \cup {0},
             StartCapture(r, m, p, a)
      PROVE  RowInv'
  BY <1>8, RequestAssumption
  DEF StartCapture, tables, RowInv, RequestInv, Exists, InCaptured, TypeOK, Reqs
<1>9. ASSUME NEW r \in CaptureReqs,
             CaptureApproved(r)
      PROVE  RowInv'
  BY <1>9, RequestAssumption, SetCapturedEffect, CaptureAmountPositive, Transitions
  DEF CaptureApproved, StillCapturable, Answer, CapturePairs, BothTopics, Pair, Event,
      Unwritten, Statuses, RowInv, RequestInv, Exists, InCaptured, TypeOK, Reqs
<1>10. ASSUME NEW r \in CaptureReqs,
             CaptureFailed(r)
      PROVE  RowInv'
  BY <1>10, RequestAssumption
  DEF CaptureFailed, Answer, tables, RowInv, RequestInv, Exists, InCaptured, TypeOK, Reqs
<1>11. ASSUME NEW r \in RefundReqs, NEW m \in Merchants, NEW k \in Keys \cup {Null},
              NEW p \in CreateReqs,
             NEW a \in Amounts \cup {0},
             CreateRefund(r, m, k, p, a)
      PROVE  RowInv'
  BY <1>11, RequestAssumption, IncrementEffect, RefundAmountBound
  DEF CreateRefund, RefundAllowed, Owns, Pair, Event, Unwritten, Statuses, RowInv,
      RequestInv, Exists, InCaptured, TypeOK, Reqs
<1>12. ASSUME NEW r \in RefundReqs,
             RefundSucceeded(r)
      PROVE  RowInv'
  BY <1>12, RequestAssumption
  DEF RefundSucceeded, RefundApproved, RowInv, RequestInv, Exists, InCaptured, TypeOK,
      Reqs
<1>13. ASSUME NEW r \in RefundReqs,
             RefundAnnounced(r)
      PROVE  RowInv'
  BY <1>13, RequestAssumption
  DEF RefundAnnounced, Answer, Event, RowInv, RequestInv, Exists, InCaptured, TypeOK, Reqs
<1>14. ASSUME NEW r \in RefundReqs,
             RefundFailed(r)
      PROVE  RowInv'
  BY <1>14, RequestAssumption
  DEF RefundFailed, Answer, RowInv, RequestInv, Exists, InCaptured, TypeOK, Reqs
<1>15. ASSUME NEW r \in CancelReqs, NEW m \in Merchants, NEW p \in CreateReqs,
             CancelPayment(r, m, p)
      PROVE  RowInv'
  BY <1>15, RequestAssumption, SetStatusEffect, Transitions
  DEF CancelPayment, CancelAllowed, Owns, Answer, Event, Unwritten, Statuses, RowInv,
      RequestInv, Exists, InCaptured, TypeOK, Reqs
<1>16. ASSUME NEW r \in CaptureReqs \cup RefundReqs \cup CancelReqs,
             Reject(r)
      PROVE  RowInv'
  BY <1>16, RequestAssumption
  DEF Reject, Answer, tables, RowInv, RequestInv, Exists, InCaptured, TypeOK, Reqs
<1>17. ASSUME NEW r \in Reqs,
             Abandon(r)
      PROVE  RowInv'
  BY <1>17, RequestAssumption
  DEF Abandon, Answer, tables, RowInv, RequestInv, Exists, InCaptured, TypeOK, Reqs
<1>18. ASSUME NEW r \in Reqs,
             AcquirerAccepts(r)
      PROVE  RowInv'
  BY <1>18, RequestAssumption
  DEF AcquirerAccepts, tables, RowInv, RequestInv, Exists, InCaptured, TypeOK, Reqs
<1>19. ASSUME NEW r \in Reqs,
             AcquirerRefuses(r)
      PROVE  RowInv'
  BY <1>19, RequestAssumption
  DEF AcquirerRefuses, tables, RowInv, RequestInv, Exists, InCaptured, TypeOK, Reqs
<1>20. CASE UNCHANGED vars
  BY <1>20 DEF vars, RowInv, RequestInv, Exists, InCaptured, TypeOK, Reqs
<1> QED
  BY <1>1, <1>2, <1>3, <1>4, <1>5, <1>6, <1>7, <1>8, <1>9, <1>10, <1>11, <1>12, <1>13,
     <1>14, <1>15, <1>16, <1>17, <1>18, <1>19, <1>20
  DEF Next, Arrival, CreateStep, CaptureStep, RefundStep, Reqs

\* The rows other than p are not written.
Others(p) == \A q \in CreateReqs : q # p => payments'[q] = payments[q]

\* The actions that write a payments row or a ledger pair; every other action
\* leaves both alone and at most announces a succeeded refund.
LEMMA TableActions ==
    ASSUME [Next]_vars
    PROVE  \/ \E r \in CreateReqs, m \in Merchants, k \in Keys \cup {Null}, a \in Amounts,
                 method \in {"automatic", "manual"} : InsertPayment(r, m, k, a, method)
           \/ \E r \in CreateReqs : pc[r] \in {"fraud", "charging"} /\ FailPayment(r)
           \/ \E r \in CreateReqs : ChargeApproved(r)
           \/ \E r \in CaptureReqs : CaptureApproved(r)
           \/ \E r \in RefundReqs, m \in Merchants, k \in Keys \cup {Null},
                 p \in CreateReqs, a \in Amounts \cup {0} : CreateRefund(r, m, k, p, a)
           \/ \E r \in CancelReqs, m \in Merchants, p \in CreateReqs : CancelPayment(r, m, p)
           \/ /\ UNCHANGED <<payments, ledger>>
              /\ \/ UNCHANGED outbox
                 \/ \E r \in RefundReqs : outbox' = outbox \cup
                       {Event(r, req[r].payment, "refund.succeeded", "webhooks")}
BY DEF Next, Arrival, CreateStep, CaptureStep, RefundStep, Reject, ReplayPayment,
       FraudBlocked, FraudPassed, ChargeUnrecorded, ChargeFailed, StartCapture,
       CaptureFailed, RefundSucceeded, RefundAnnounced, RefundFailed, Abandon,
       AcquirerAccepts, AcquirerRefuses, tables, vars

\* What each of the writing actions finds and leaves in the row it writes.
LEMMA InsertEffect ==
    ASSUME TypeOK, RowInv, NEW r \in CreateReqs, NEW m \in Merchants,
           NEW k \in Keys \cup {Null}, NEW a \in Amounts,
           NEW method \in {"automatic", "manual"}, InsertPayment(r, m, k, a, method)
    PROVE  /\ payments[r].status = "absent"
           /\ Others(r)
           /\ payments'[r].merchant = m /\ payments'[r].key = k
           /\ payments'[r].status = "created"
           /\ payments'[r].captured = 0 /\ payments'[r].refunded = 0
           /\ ledger' = ledger
           /\ outbox' = outbox \cup {Event(r, r, "payment.created", "payments")}
BY DEF TypeOK, RowInv, Exists, InsertPayment, Others

\* What the failure write of create_payment does to the row: status only.
LEMMA FailEffect ==
    ASSUME TypeOK, RowInv, NEW r \in CreateReqs, pc[r] \in {"fraud", "charging"},
           FailPayment(r)
    PROVE  /\ payments[r].status \in {"created", "cancelled"}
           /\ Others(r) /\ Unwritten(r)
           /\ payments'[r].status = "failed"
           /\ payments'[r].captured = payments[r].captured
           /\ payments'[r].refunded = payments[r].refunded
           /\ ledger' = ledger
           /\ outbox' = outbox \cup {Event(r, r, "payment.failed", "payments")}
<1>1. "failed" \in Statuses
  BY DEF Statuses
<1> QED
  BY <1>1, SetStatusEffect DEF RowInv, FailPayment, Unwritten, Others

\* What the transaction after an approved charge does to the row.
LEMMA ChargeEffect ==
    ASSUME TypeOK, RowInv, NEW r \in CreateReqs, ChargeApproved(r)
    PROVE  /\ payments[r].status = "created"
           /\ Others(r) /\ Unwritten(r)
           /\ payments'[r].refunded = payments[r].refunded
           /\ \/ /\ payments'[r].status = "captured"
                 /\ payments'[r].captured = payments[r].amount
                 /\ ledger' = ledger \cup CapturePairs(r, r, payments[r].amount)
                 /\ outbox' = outbox \cup BothTopics(r, r, "payment.captured")
              \/ /\ payments'[r].status = "authorized"
                 /\ payments'[r].captured = payments[r].captured
                 /\ ledger' = ledger
                 /\ outbox' = outbox \cup BothTopics(r, r, "payment.authorized")
<1>1. "authorized" \in Statuses
  BY DEF Statuses
<1>2. payments[r].status = "created"
  BY Transitions DEF ChargeApproved, ChargePath
<1> QED
  BY <1>1, <1>2, SetStatusEffect, SetCapturedEffect, RowTypes
  DEF ChargeApproved, Unwritten, Others

\* What the capture transaction does to the row.
LEMMA CaptureEffect ==
    ASSUME TypeOK, RequestInv, RowInv, NEW r \in CaptureReqs, CaptureApproved(r)
    PROVE  LET p == req[r].payment IN
           /\ p \in CreateReqs
           /\ CaptureAmount(r) \in Nat \ {0}
           /\ payments[p].status = "authorized"
           /\ Others(p) /\ Unwritten(p)
           /\ payments'[p].status = "captured"
           /\ payments'[p].captured = CaptureAmount(r)
           /\ payments'[p].refunded = payments[p].refunded
           /\ ledger' = ledger \cup CapturePairs(r, p, CaptureAmount(r))
           /\ outbox' = outbox \cup BothTopics(r, p, "payment.captured")
<1>1. pc[r] = "capturing" /\ req[r].payment \in CreateReqs
  BY CaptureAmountPositive DEF CaptureApproved
<1> QED
  BY <1>1, CaptureAmountPositive, SetCapturedEffect, Transitions
  DEF CaptureApproved, StillCapturable, Unwritten, Others

\* What the refund reservation does to the row: refunded_amount only.
LEMMA ReserveEffect ==
    ASSUME TypeOK, NEW r \in RefundReqs, NEW m \in Merchants, NEW k \in Keys \cup {Null},
           NEW p \in CreateReqs, NEW a \in Amounts \cup {0}, CreateRefund(r, m, k, p, a)
    PROVE  /\ InCaptured(p)
           /\ Others(p) /\ Unwritten(p)
           /\ RefundAmount(p, a) \in Nat \ {0}
           /\ payments[p].refunded + RefundAmount(p, a) =< CapturedOrAmount(payments[p])
           /\ payments'[p].status = payments[p].status
           /\ payments'[p].captured = payments[p].captured
           /\ payments'[p].refunded = payments[p].refunded + RefundAmount(p, a)
           /\ ledger' = ledger \cup {Pair(r, "refund", p, RefundAmount(p, a))}
           /\ outbox' = outbox \cup {Event(r, p, "refund.pending", "payments")}
BY RefundAmountBound, IncrementEffect DEF CreateRefund, Unwritten, Others

\* What a cancellation does to the row: status only.
LEMMA CancelEffect ==
    ASSUME TypeOK, NEW r \in CancelReqs, NEW m \in Merchants, NEW p \in CreateReqs,
           CancelPayment(r, m, p)
    PROVE  /\ payments[p].status \in {"created", "requires_action", "authorized"}
           /\ Others(p) /\ Unwritten(p)
           /\ payments'[p].status = "cancelled"
           /\ payments'[p].captured = payments[p].captured
           /\ payments'[p].refunded = payments[p].refunded
           /\ ledger' = ledger
           /\ outbox' = outbox \cup {Event(r, p, "payment.cancelled", "payments")}
<1>1. "cancelled" \in Statuses
  BY DEF Statuses
<1> QED
  BY <1>1, SetStatusEffect, Transitions
    DEF CancelPayment, CancelAllowed, Unwritten, Others

\* insert_payment_idempotent keeps (merchant_id, idempotency_key) unique.
LEMMA KeyStep == TypeOK /\ RowInv /\ RequestInv /\ KeyInv /\ [Next]_vars => KeyInv'
<1> SUFFICES ASSUME TypeOK, RowInv, RequestInv, KeyInv, [Next]_vars PROVE KeyInv'
  OBVIOUS
<1>1. ASSUME NEW r \in CreateReqs, NEW m \in Merchants, NEW k \in Keys \cup {Null},
             NEW a \in Amounts, NEW method \in {"automatic", "manual"},
             InsertPayment(r, m, k, a, method)
      PROVE  KeyInv'
  BY <1>1, InsertEffect DEF InsertPayment, KeyTaken, Owns, KeyInv, Exists, Others
<1>2. ASSUME NEW p \in CreateReqs, Others(p), Unwritten(p), Exists(p)
      PROVE  KeyInv'
  BY <1>2 DEF KeyInv, Exists, Others, Unwritten
<1>3. CASE UNCHANGED payments
  BY <1>3 DEF KeyInv, Exists
<1>4. ASSUME NEW r \in CreateReqs, pc[r] \in {"fraud", "charging"}, FailPayment(r)
      PROVE  KeyInv'
  BY <1>2, <1>4, FailEffect DEF Exists
<1>5. ASSUME NEW r \in CreateReqs, ChargeApproved(r)
      PROVE  KeyInv'
  BY <1>2, <1>5, ChargeEffect DEF Exists
<1>6. ASSUME NEW r \in CaptureReqs, CaptureApproved(r)
      PROVE  KeyInv'
  BY <1>2, <1>6, CaptureEffect DEF Exists
<1>7. ASSUME NEW r \in RefundReqs, NEW m \in Merchants, NEW k \in Keys \cup {Null},
             NEW p \in CreateReqs, NEW a \in Amounts \cup {0}, CreateRefund(r, m, k, p, a)
      PROVE  KeyInv'
  BY <1>2, <1>7, ReserveEffect DEF Exists, InCaptured
<1>8. ASSUME NEW r \in CancelReqs, NEW m \in Merchants, NEW p \in CreateReqs,
             CancelPayment(r, m, p)
      PROVE  KeyInv'
  BY <1>2, <1>8, CancelEffect DEF Exists
<1> QED
  BY <1>1, <1>3, <1>4, <1>5, <1>6, <1>7, <1>8, TableActions

\* The amounts of a row stay consistent with its status and with each other.
LEMMA AmountStep ==
    TypeOK /\ RowInv /\ RequestInv /\ AmountInv /\ [Next]_vars => AmountInv'
<1> SUFFICES ASSUME TypeOK, RowInv, RequestInv, AmountInv, [Next]_vars PROVE AmountInv'
  OBVIOUS
<1>1. ASSUME NEW p \in CreateReqs, Others(p),
             payments'[p].refunded =< payments'[p].captured,
             payments'[p].status \in {"captured", "settled"}
                <=> payments'[p].captured > 0
      PROVE  AmountInv'
  BY <1>1 DEF AmountInv, InCaptured, Others
<1>2. ASSUME NEW r \in CreateReqs, NEW m \in Merchants, NEW k \in Keys \cup {Null},
             NEW a \in Amounts, NEW method \in {"automatic", "manual"},
             InsertPayment(r, m, k, a, method)
      PROVE  AmountInv'
  BY <1>1, <1>2, InsertEffect
<1>3. ASSUME NEW r \in CreateReqs, pc[r] \in {"fraud", "charging"}, FailPayment(r)
      PROVE  AmountInv'
  BY <1>1, <1>3, FailEffect, RowTypes DEF AmountInv, InCaptured
<1>4. ASSUME NEW r \in CreateReqs, ChargeApproved(r)
      PROVE  AmountInv'
  <2>1. payments[r].amount \in Nat \ {0} /\ payments[r].refunded = 0
    BY <1>4, ChargeEffect, RowTypes DEF AmountInv, RowInv, InCaptured, Exists
  <2> QED
    BY <1>1, <1>4, <2>1, ChargeEffect, RowTypes DEF AmountInv, InCaptured
<1>5. ASSUME NEW r \in CaptureReqs, CaptureApproved(r)
      PROVE  AmountInv'
  <2>1. payments[req[r].payment].refunded = 0
    BY <1>5, CaptureEffect, RowTypes DEF AmountInv, InCaptured
  <2> QED
    BY <1>1, <1>5, <2>1, CaptureEffect
<1>6. ASSUME NEW r \in RefundReqs, NEW m \in Merchants, NEW k \in Keys \cup {Null},
             NEW p \in CreateReqs, NEW a \in Amounts \cup {0}, CreateRefund(r, m, k, p, a)
      PROVE  AmountInv'
  BY <1>1, <1>6, ReserveEffect, RowTypes DEF AmountInv, InCaptured, CapturedOrAmount
<1>7. ASSUME NEW r \in CancelReqs, NEW m \in Merchants, NEW p \in CreateReqs,
             CancelPayment(r, m, p)
      PROVE  AmountInv'
  BY <1>1, <1>7, CancelEffect, RowTypes DEF AmountInv, InCaptured
<1>8. CASE UNCHANGED payments
  BY <1>8 DEF AmountInv, InCaptured
<1> QED
  BY <1>2, <1>3, <1>4, <1>5, <1>6, <1>7, <1>8, TableActions

\* A write to a payment that is captured neither before nor after it leaves the
\* ledger in agreement with the table.
LEMMA LedgerFrame ==
    ASSUME TypeOK, LedgerMatchesPayments, NEW p \in CreateReqs, Others(p),
           UNCHANGED ledger, ~InCaptured(p),
           payments'[p].status \notin {"captured", "settled"}
    PROVE  LedgerMatchesPayments'
<1>1. \A q \in CreateReqs : InCaptured(q)' => q # p /\ InCaptured(q)
  BY DEF InCaptured, Others
<1>2. \A e \in ledger : e.payment \in CreateReqs /\ e.payment # p
  BY DEF TypeOK, LedgerPair, LedgerMatchesPayments
<1> QED
  BY <1>1, <1>2 DEF LedgerMatchesPayments, InCaptured, Others

\* record_capture and record_fee on a payment that becomes captured.
LEMMA LedgerCapture ==
    ASSUME TypeOK, LedgerMatchesPayments, NEW p \in CreateReqs, NEW r \in Reqs,
           NEW amount \in Nat, Others(p), ~InCaptured(p),
           payments'[p].status = "captured",
           payments'[p].captured = amount,
           payments'[p].merchant = payments[p].merchant,
           ledger' = ledger \cup CapturePairs(r, p, amount)
    PROVE  LedgerMatchesPayments'
<1>1. \A e \in ledger : e.payment \in CreateReqs /\ e.payment # p
  BY DEF TypeOK, LedgerPair, LedgerMatchesPayments
<1>2. \A e \in ledger' : e \in ledger \/ e \in CapturePairs(r, p, amount)
  OBVIOUS
<1>3. \A e \in CapturePairs(r, p, amount) :
        /\ e.payment = p /\ e.merchant = payments[p].merchant
        /\ \/ e.kind = "capture" /\ e.amount = amount
           \/ e.kind = "fee" /\ e.amount = Fee(amount)
  BY DEF CapturePairs, Pair
<1>4. \A e, f \in CapturePairs(r, p, amount) : e.kind = f.kind => e = f
  BY DEF CapturePairs, Pair
<1>5. /\ \E e \in CapturePairs(r, p, amount) : e.kind = "capture" /\ e.payment = p
      /\ Fee(amount) > 0 =>
            \E e \in CapturePairs(r, p, amount) : e.kind = "fee" /\ e.payment = p
  <2>1. Pair(r, "capture", p, amount) \in CapturePairs(r, p, amount)
    BY DEF CapturePairs
  <2>2. Fee(amount) > 0 => Pair(r, "fee", p, Fee(amount)) \in CapturePairs(r, p, amount)
    BY DEF CapturePairs
  <2>3. \A kind, n : /\ Pair(r, kind, p, n).kind = kind
                      /\ Pair(r, kind, p, n).payment = p
    BY DEF Pair
  <2> QED
    BY <2>1, <2>2, <2>3
<1>6. InCaptured(p)' /\ \A q \in CreateReqs : q # p => (InCaptured(q)' <=> InCaptured(q))
  BY DEF InCaptured, Others
<1>7. \A q \in CreateReqs : InCaptured(q)' =>
        /\ \E e \in ledger' : e.kind = "capture" /\ e.payment = q
        /\ Fee(payments'[q].captured) > 0 =>
              \E e \in ledger' : e.kind = "fee" /\ e.payment = q
  BY <1>5, <1>6 DEF LedgerMatchesPayments, Others
<1>8. \A e \in ledger' :
        /\ InCaptured(e.payment)'
        /\ e.merchant = payments'[e.payment].merchant
        /\ e.kind = "capture" => e.amount = payments'[e.payment].captured
        /\ e.kind = "fee" => e.amount = Fee(payments'[e.payment].captured)
  BY <1>1, <1>2, <1>3, <1>6 DEF LedgerMatchesPayments, Others
<1>9. \A e, f \in ledger' :
        (e.kind = f.kind /\ e.payment = f.payment /\ e.kind # "refund") => e = f
  BY <1>1, <1>2, <1>3, <1>4 DEF LedgerMatchesPayments
<1> QED
  BY <1>7, <1>8, <1>9 DEF LedgerMatchesPayments

\* Every capture and nothing else is in the ledger, after every step.
LEMMA LedgerStep ==
    TypeOK /\ RowInv /\ RequestInv /\ LedgerMatchesPayments /\ [Next]_vars
        => LedgerMatchesPayments'
<1> SUFFICES ASSUME TypeOK, RowInv, RequestInv, LedgerMatchesPayments, [Next]_vars
             PROVE  LedgerMatchesPayments'
  OBVIOUS
<1>1. ASSUME NEW r \in CreateReqs, NEW m \in Merchants, NEW k \in Keys \cup {Null},
             NEW a \in Amounts, NEW method \in {"automatic", "manual"},
             InsertPayment(r, m, k, a, method)
      PROVE  LedgerMatchesPayments'
  BY <1>1, InsertEffect, LedgerFrame DEF InCaptured
<1>2. ASSUME NEW r \in CreateReqs, pc[r] \in {"fraud", "charging"}, FailPayment(r)
      PROVE  LedgerMatchesPayments'
  BY <1>2, FailEffect, LedgerFrame DEF InCaptured
<1>3. ASSUME NEW r \in CreateReqs, ChargeApproved(r)
      PROVE  LedgerMatchesPayments'
  BY <1>3, ChargeEffect, LedgerFrame, LedgerCapture, RowTypes
  DEF InCaptured, Unwritten, Reqs
<1>4. ASSUME NEW r \in CaptureReqs, CaptureApproved(r)
      PROVE  LedgerMatchesPayments'
  BY <1>4, CaptureEffect, LedgerCapture DEF InCaptured, Unwritten, Reqs
<1>5. ASSUME NEW r \in RefundReqs, NEW m \in Merchants, NEW k \in Keys \cup {Null},
             NEW p \in CreateReqs, NEW a \in Amounts \cup {0}, CreateRefund(r, m, k, p, a)
      PROVE  LedgerMatchesPayments'
  <2>1. \A q \in CreateReqs :
          /\ InCaptured(q)' <=> InCaptured(q)
          /\ payments'[q].captured = payments[q].captured
          /\ payments'[q].merchant = payments[q].merchant
    BY <1>5, ReserveEffect DEF InCaptured, Others, Unwritten
  <2>2. \A e \in ledger : e.payment \in CreateReqs
    BY DEF TypeOK, LedgerPair
  <2>3. \A e \in ledger' : \/ e \in ledger
                           \/ /\ e.kind = "refund" /\ e.payment = p
                              /\ e.merchant = payments[p].merchant
    BY <1>5, ReserveEffect DEF Pair
  <2>4. InCaptured(p) /\ ledger \subseteq ledger'
    BY <1>5, ReserveEffect
  <2> QED
    BY <2>1, <2>2, <2>3, <2>4 DEF LedgerMatchesPayments
<1>6. ASSUME NEW r \in CancelReqs, NEW m \in Merchants, NEW p \in CreateReqs,
             CancelPayment(r, m, p)
      PROVE  LedgerMatchesPayments'
  BY <1>6, CancelEffect, LedgerFrame DEF InCaptured
<1>7. CASE UNCHANGED <<payments, ledger>>
  BY <1>7 DEF LedgerMatchesPayments, InCaptured
<1> QED
  BY <1>1, <1>2, <1>3, <1>4, <1>5, <1>6, <1>7, TableActions

\* What an insert_outbox_event announces, and nothing else.
LEMMA AnnounceOne ==
    ASSUME NEW r, NEW p, NEW type, NEW topic,
           outbox' = outbox \cup {Event(r, p, type, topic)},
           NEW q, NEW t, NEW u
    PROVE  Announced(q, t, u)' <=>
              (Announced(q, t, u) \/ (q = p /\ t = type /\ u = topic))
<1>1. /\ Event(r, p, type, topic) \in outbox'
      /\ Event(r, p, type, topic).payment = p
      /\ Event(r, p, type, topic).type = type
      /\ Event(r, p, type, topic).topic = topic
  BY DEF Event
<1>2. ASSUME q = p, t = type, u = topic
      PROVE  Announced(q, t, u)'
  BY <1>1, <1>2 DEF Announced
<1> QED
  BY <1>1, <1>2 DEF Announced

\* Adding both copies of an event announces exactly that event on both topics.
LEMMA AnnounceBoth ==
    ASSUME NEW r, NEW p, NEW type, outbox' = outbox \cup BothTopics(r, p, type),
           NEW q, NEW t, NEW u
    PROVE  Announced(q, t, u)' <=>
              (Announced(q, t, u) \/ (q = p /\ t = type /\ u \in {"payments", "webhooks"}))
<1>1. \A topic \in {"payments", "webhooks"} :
        /\ Event(r, p, type, topic) \in outbox'
        /\ Event(r, p, type, topic).payment = p
        /\ Event(r, p, type, topic).type = type
        /\ Event(r, p, type, topic).topic = topic
  BY DEF Event, BothTopics
<1>2. \A e \in outbox' : e \in outbox \/
        \E topic \in {"payments", "webhooks"} : e = Event(r, p, type, topic)
  BY DEF BothTopics
<1>3. ASSUME q = p, t = type, u \in {"payments", "webhooks"}
      PROVE  Announced(q, t, u)'
  BY <1>1, <1>3 DEF Announced
<1> QED
  BY <1>1, <1>2, <1>3 DEF Announced

\* Every status a payment reaches is announced in the transaction that sets it.
LEMMA OutboxStep ==
    TypeOK /\ RowInv /\ RequestInv /\ OutboxMatchesPayments /\ [Next]_vars
        => OutboxMatchesPayments'
<1> SUFFICES ASSUME TypeOK, RowInv, RequestInv, OutboxMatchesPayments, [Next]_vars
             PROVE  OutboxMatchesPayments'
  OBVIOUS
<1> USE DEF OutboxMatchesPayments, Exists, InCaptured, Others
<1>1. ASSUME NEW r \in CreateReqs, NEW m \in Merchants, NEW k \in Keys \cup {Null},
             NEW a \in Amounts, NEW method \in {"automatic", "manual"},
             InsertPayment(r, m, k, a, method)
      PROVE  OutboxMatchesPayments'
  BY <1>1, InsertEffect, AnnounceOne
<1>2. ASSUME NEW r \in CreateReqs, pc[r] \in {"fraud", "charging"}, FailPayment(r)
      PROVE  OutboxMatchesPayments'
  BY <1>2, FailEffect, AnnounceOne
<1>3. ASSUME NEW r \in CreateReqs, ChargeApproved(r)
      PROVE  OutboxMatchesPayments'
  BY <1>3, ChargeEffect, AnnounceBoth
<1>4. ASSUME NEW r \in CaptureReqs, CaptureApproved(r)
      PROVE  OutboxMatchesPayments'
  BY <1>4, CaptureEffect, AnnounceBoth
<1>5. ASSUME NEW r \in RefundReqs, NEW m \in Merchants, NEW k \in Keys \cup {Null},
             NEW p \in CreateReqs, NEW a \in Amounts \cup {0}, CreateRefund(r, m, k, p, a)
      PROVE  OutboxMatchesPayments'
  BY <1>5, ReserveEffect, AnnounceOne
<1>6. ASSUME NEW r \in CancelReqs, NEW m \in Merchants, NEW p \in CreateReqs,
             CancelPayment(r, m, p)
      PROVE  OutboxMatchesPayments'
  BY <1>6, CancelEffect, AnnounceOne
<1>7. ASSUME UNCHANGED <<payments, ledger>>,
             \/ UNCHANGED outbox
             \/ \E r \in RefundReqs : outbox' = outbox \cup
                   {Event(r, req[r].payment, "refund.succeeded", "webhooks")}
      PROVE  OutboxMatchesPayments'
  <2>1. CASE UNCHANGED outbox
    BY <1>7, <2>1 DEF Announced
  <2>2. ASSUME NEW r \in RefundReqs,
               outbox' = outbox \cup
                   {Event(r, req[r].payment, "refund.succeeded", "webhooks")}
        PROVE  OutboxMatchesPayments'
    BY <1>7, <2>2, AnnounceOne
  <2> QED
    BY <1>7, <2>1, <2>2
<1> QED
  BY <1>1, <1>2, <1>3, <1>4, <1>5, <1>6, <1>7, TableActions

\* A captured manual payment keeps the capture request whose call the acquirer
\* took.
LEMMA CaptureInvStep ==
    TypeOK /\ RequestInv /\ RowInv /\ AmountInv /\ CaptureInv /\ [Next]_vars
        => CaptureInv'
<1> SUFFICES ASSUME TypeOK /\ RequestInv /\ RowInv /\ AmountInv /\ CaptureInv, [Next]_vars
             PROVE CaptureInv'
  OBVIOUS
<1>1. ASSUME NEW r \in CreateReqs, NEW m \in Merchants, NEW k \in Keys \cup {Null},
             NEW a \in Amounts,
             NEW method \in {"automatic", "manual"},
             InsertPayment(r, m, k, a, method)
      PROVE  CaptureInv'
  BY <1>1, RequestAssumption, AmountAssumption
  DEF InsertPayment, KeyTaken, Owns, Event, PaymentRow, Statuses, CaptureInv, RowInv,
      RequestInv, InCaptured, Exists, TypeOK, Reqs
<1>2. ASSUME NEW r \in CreateReqs, NEW m \in Merchants, NEW k \in Keys \cup {Null},
             NEW a \in Amounts,
             ReplayPayment(r, m, k, a)
      PROVE  CaptureInv'
  BY <1>2, RequestAssumption
  DEF ReplayPayment, Owns, Answer, CaptureInv, RowInv, RequestInv, InCaptured, Exists,
      TypeOK, Reqs
<1>3. ASSUME NEW r \in CreateReqs,
             FraudBlocked(r)
      PROVE  CaptureInv'
  BY <1>3, RequestAssumption, SetStatusEffect
  DEF FraudBlocked, FailPayment, Answer, Event, Unwritten, Statuses, CaptureInv, RowInv,
      RequestInv, InCaptured, Exists, TypeOK, Reqs
<1>4. ASSUME NEW r \in CreateReqs,
             FraudPassed(r)
      PROVE  CaptureInv'
  BY <1>4, RequestAssumption
  DEF FraudPassed, tables, CaptureInv, RowInv, RequestInv, InCaptured, Exists, TypeOK,
      Reqs
<1>5. ASSUME NEW r \in CreateReqs,
             ChargeApproved(r)
      PROVE  CaptureInv'
  <2>1. /\ Unwritten(r)
        /\ payments[r].method = "manual" => payments'[r].status = "authorized"
    <3>1. CASE payments[r].method = "automatic"
      BY <1>5, <3>1, SetCapturedEffect, RowTypes DEF ChargeApproved
    <3>2. CASE payments[r].method = "manual"
      BY <1>5, <3>2, SetStatusEffect DEF ChargeApproved, Statuses
    <3> QED
      BY <3>1, <3>2, RowTypes
  <2>2. /\ acq' = acq /\ req' = req
        /\ \A c \in CaptureReqs : pc'[c] = pc[c]
    BY <1>5, RequestAssumption DEF ChargeApproved, Answer, TypeOK, Reqs
  <2>3. \A c \in CaptureReqs : pc[c] = "capturing" => req[c].payment \in CreateReqs
    BY DEF RequestInv, Reqs
  <2> QED
    BY <2>1, <2>2, <2>3 DEF Unwritten, CaptureInv, InCaptured
<1>6. ASSUME NEW r \in CreateReqs,
             ChargeUnrecorded(r)
      PROVE  CaptureInv'
  BY <1>6, RequestAssumption
  DEF ChargeUnrecorded, Approved, Answer, tables, CaptureInv, RowInv, RequestInv,
      InCaptured, Exists, TypeOK, Reqs
<1>7. ASSUME NEW r \in CreateReqs,
             ChargeFailed(r)
      PROVE  CaptureInv'
  BY <1>7, RequestAssumption, SetStatusEffect
  DEF ChargeFailed, FailPayment, Answer, Event, Unwritten, Statuses, CaptureInv, RowInv,
      RequestInv, InCaptured, Exists, TypeOK, Reqs
<1>8. ASSUME NEW r \in CaptureReqs, NEW m \in Merchants, NEW p \in CreateReqs,
             NEW a \in Amounts \cup {0},
             StartCapture(r, m, p, a)
      PROVE  CaptureInv'
  BY <1>8, RequestAssumption
  DEF StartCapture, tables, CaptureAllowed, Owns, CaptureInv, RowInv, RequestInv,
      InCaptured, Exists, TypeOK, Reqs
<1>9. ASSUME NEW r \in CaptureReqs,
             CaptureApproved(r)
      PROVE  CaptureInv'
  BY <1>9, RequestAssumption, SetCapturedEffect, CaptureAmountPositive, Transitions
  DEF CaptureApproved, StillCapturable, Answer, CapturePairs, BothTopics, Pair, Event,
      Unwritten, Statuses, CaptureInv, RowInv, RequestInv, InCaptured, Exists, TypeOK,
      Reqs
<1>10. ASSUME NEW r \in CaptureReqs,
             CaptureFailed(r)
      PROVE  CaptureInv'
  BY <1>10, RequestAssumption
  DEF CaptureFailed, Answer, tables, CaptureInv, RowInv, RequestInv, InCaptured, Exists,
      TypeOK, Reqs
<1>11. ASSUME NEW r \in RefundReqs, NEW m \in Merchants, NEW k \in Keys \cup {Null},
              NEW p \in CreateReqs,
             NEW a \in Amounts \cup {0},
             CreateRefund(r, m, k, p, a)
      PROVE  CaptureInv'
  BY <1>11, RequestAssumption, IncrementEffect, RefundAmountBound
  DEF CreateRefund, RefundAllowed, Owns, Pair, Event, Unwritten, Statuses, CaptureInv,
      RowInv, RequestInv, InCaptured, Exists, TypeOK, Reqs
<1>12. ASSUME NEW r \in RefundReqs,
             RefundSucceeded(r)
      PROVE  CaptureInv'
  BY <1>12, RequestAssumption
  DEF RefundSucceeded, RefundApproved, CaptureInv, RowInv, RequestInv, InCaptured,
      Exists, TypeOK, Reqs
<1>13. ASSUME NEW r \in RefundReqs,
             RefundAnnounced(r)
      PROVE  CaptureInv'
  BY <1>13, RequestAssumption
  DEF RefundAnnounced, Answer, Event, CaptureInv, RowInv, RequestInv, InCaptured,
      Exists, TypeOK, Reqs
<1>14. ASSUME NEW r \in RefundReqs,
             RefundFailed(r)
      PROVE  CaptureInv'
  BY <1>14, RequestAssumption
  DEF RefundFailed, Answer, CaptureInv, RowInv, RequestInv, InCaptured, Exists, TypeOK,
      Reqs
<1>15. ASSUME NEW r \in CancelReqs, NEW m \in Merchants, NEW p \in CreateReqs,
             CancelPayment(r, m, p)
      PROVE  CaptureInv'
  <2>1. \A q \in CreateReqs : /\ payments'[q].method = payments[q].method
                              /\ InCaptured(q)' => InCaptured(q)
    BY <1>15, CancelEffect DEF Others, Unwritten, InCaptured
  <2>2. \A c \in CaptureReqs : pc'[c] = pc[c] /\ req'[c] = req[c] /\ acq'[c] = acq[c]
    BY <1>15, RequestAssumption DEF CancelPayment, Answer, TypeOK, Reqs
  <2>3. \A c \in CaptureReqs : pc[c] = "capturing" => req[c].payment \in CreateReqs
    BY DEF RequestInv, Reqs
  <2> QED
    BY <2>1, <2>2, <2>3 DEF CaptureInv
<1>16. ASSUME NEW r \in CaptureReqs \cup RefundReqs \cup CancelReqs,
             Reject(r)
      PROVE  CaptureInv'
  <2>1. pc[r] = "idle" /\ Answer(r, "error") /\ UNCHANGED <<tables, acq, req>>
    BY <1>16 DEF Reject
  <2> QED
    BY <2>1 DEF Answer, tables, CaptureInv, InCaptured, TypeOK, Reqs
<1>17. ASSUME NEW r \in Reqs,
             Abandon(r)
      PROVE  CaptureInv'
  BY <1>17, RequestAssumption
  DEF Abandon, Answer, tables, CaptureInv, RowInv, RequestInv, InCaptured, Exists,
      TypeOK, Reqs
<1>18. ASSUME NEW r \in Reqs,
             AcquirerAccepts(r)
      PROVE  CaptureInv'
  BY <1>18, RequestAssumption
  DEF AcquirerAccepts, tables, CaptureInv, RowInv, RequestInv, InCaptured, Exists,
      TypeOK, Reqs
<1>19. ASSUME NEW r \in Reqs,
             AcquirerRefuses(r)
      PROVE  CaptureInv'
  BY <1>19, RequestAssumption
  DEF AcquirerRefuses, tables, CaptureInv, RowInv, RequestInv, InCaptured, Exists,
      TypeOK, Reqs
<1>20. CASE UNCHANGED vars
  BY <1>20 DEF vars, CaptureInv, RowInv, RequestInv, InCaptured, Exists, TypeOK, Reqs
<1> QED
  BY <1>1, <1>2, <1>3, <1>4, <1>5, <1>6, <1>7, <1>8, <1>9, <1>10, <1>11, <1>12, <1>13,
     <1>14, <1>15, <1>16, <1>17, <1>18, <1>19, <1>20
  DEF Next, Arrival, CreateStep, CaptureStep, RefundStep, Reqs

\* A refund under way keeps its ledger pair, and is announced only after the
\* acquirer took it.
LEMMA RefundInvStep ==
    TypeOK /\ RequestInv /\ RowInv /\ RefundInv /\ [Next]_vars
        => RefundInv'
<1> SUFFICES ASSUME TypeOK /\ RequestInv /\ RowInv /\ RefundInv, [Next]_vars
             PROVE RefundInv'
  OBVIOUS
<1>1. ASSUME NEW r \in CreateReqs, NEW m \in Merchants, NEW k \in Keys \cup {Null},
             NEW a \in Amounts,
             NEW method \in {"automatic", "manual"},
             InsertPayment(r, m, k, a, method)
      PROVE  RefundInv'
  BY <1>1, RequestAssumption, AmountAssumption
  DEF InsertPayment, KeyTaken, Owns, Event, PaymentRow, Statuses, RefundInv, TypeOK, Reqs
<1>2. ASSUME NEW r \in CreateReqs, NEW m \in Merchants, NEW k \in Keys \cup {Null},
             NEW a \in Amounts,
             ReplayPayment(r, m, k, a)
      PROVE  RefundInv'
  BY <1>2, RequestAssumption
  DEF ReplayPayment, Owns, Answer, RefundInv, TypeOK, Reqs
<1>3. ASSUME NEW r \in CreateReqs,
             FraudBlocked(r)
      PROVE  RefundInv'
  BY <1>3, RequestAssumption, SetStatusEffect
  DEF FraudBlocked, FailPayment, Answer, Event, Unwritten, Statuses, RefundInv, TypeOK,
      Reqs
<1>4. ASSUME NEW r \in CreateReqs,
             FraudPassed(r)
      PROVE  RefundInv'
  BY <1>4, RequestAssumption
  DEF FraudPassed, tables, RefundInv, TypeOK, Reqs
<1>5. ASSUME NEW r \in CreateReqs,
             ChargeApproved(r)
      PROVE  RefundInv'
  BY <1>5, RequestAssumption, SetStatusEffect, SetCapturedEffect, Transitions, RowTypes
  DEF ChargeApproved, Approved, ChargePath, Answer, CapturePairs, BothTopics, Pair,
      Event, Unwritten, Statuses, RefundInv, TypeOK, Reqs
<1>6. ASSUME NEW r \in CreateReqs,
             ChargeUnrecorded(r)
      PROVE  RefundInv'
  BY <1>6, RequestAssumption
  DEF ChargeUnrecorded, Approved, Answer, tables, RefundInv, TypeOK, Reqs
<1>7. ASSUME NEW r \in CreateReqs,
             ChargeFailed(r)
      PROVE  RefundInv'
  BY <1>7, RequestAssumption, SetStatusEffect
  DEF ChargeFailed, FailPayment, Answer, Event, Unwritten, Statuses, RefundInv, TypeOK,
      Reqs
<1>8. ASSUME NEW r \in CaptureReqs, NEW m \in Merchants, NEW p \in CreateReqs,
             NEW a \in Amounts \cup {0},
             StartCapture(r, m, p, a)
      PROVE  RefundInv'
  BY <1>8, RequestAssumption
  DEF StartCapture, tables, RefundInv, TypeOK, Reqs
<1>9. ASSUME NEW r \in CaptureReqs,
             CaptureApproved(r)
      PROVE  RefundInv'
  BY <1>9, RequestAssumption, SetCapturedEffect, CaptureAmountPositive, Transitions
  DEF CaptureApproved, StillCapturable, Answer, CapturePairs, BothTopics, Pair, Event,
      Unwritten, Statuses, RefundInv, TypeOK, Reqs
<1>10. ASSUME NEW r \in CaptureReqs,
             CaptureFailed(r)
      PROVE  RefundInv'
  BY <1>10, RequestAssumption
  DEF CaptureFailed, Answer, tables, RefundInv, TypeOK, Reqs
<1>11. ASSUME NEW r \in RefundReqs, NEW m \in Merchants, NEW k \in Keys \cup {Null},
              NEW p \in CreateReqs,
             NEW a \in Amounts \cup {0},
             CreateRefund(r, m, k, p, a)
      PROVE  RefundInv'
  <2>1. Pair(r, "refund", p, RefundAmount(p, a)) \in ledger'
    BY <1>11 DEF CreateRefund
  <2>2. \E e \in ledger' : e.by = r /\ e.kind = "refund"
    BY <2>1 DEF Pair
  <2> QED
    BY <1>11, <2>2 DEF CreateRefund, RefundInv, TypeOK, Reqs
<1>12. ASSUME NEW r \in RefundReqs,
             RefundSucceeded(r)
      PROVE  RefundInv'
  BY <1>12, RequestAssumption
  DEF RefundSucceeded, RefundApproved, RefundInv, TypeOK, Reqs
<1>13. ASSUME NEW r \in RefundReqs,
             RefundAnnounced(r)
      PROVE  RefundInv'
  BY <1>13, RequestAssumption
  DEF RefundAnnounced, Answer, Event, RefundInv, TypeOK, Reqs
<1>14. ASSUME NEW r \in RefundReqs,
             RefundFailed(r)
      PROVE  RefundInv'
  BY <1>14, RequestAssumption
  DEF RefundFailed, Answer, RefundInv, TypeOK, Reqs
<1>15. ASSUME NEW r \in CancelReqs, NEW m \in Merchants, NEW p \in CreateReqs,
             CancelPayment(r, m, p)
      PROVE  RefundInv'
  BY <1>15, RequestAssumption, SetStatusEffect, Transitions
  DEF CancelPayment, CancelAllowed, Owns, Answer, Event, Unwritten, Statuses, RefundInv,
      TypeOK, Reqs
<1>16. ASSUME NEW r \in CaptureReqs \cup RefundReqs \cup CancelReqs,
             Reject(r)
      PROVE  RefundInv'
  <2>1. pc[r] = "idle" /\ Answer(r, "error") /\ UNCHANGED <<tables, acq, req>>
    BY <1>16 DEF Reject
  <2> QED
    BY <2>1 DEF Answer, tables, RefundInv, TypeOK, Reqs
<1>17. ASSUME NEW r \in Reqs,
             Abandon(r)
      PROVE  RefundInv'
  BY <1>17, RequestAssumption
  DEF Abandon, Answer, tables, RefundInv, TypeOK, Reqs
<1>18. ASSUME NEW r \in Reqs,
             AcquirerAccepts(r)
      PROVE  RefundInv'
  BY <1>18, RequestAssumption
  DEF AcquirerAccepts, tables, RefundInv, TypeOK, Reqs
<1>19. ASSUME NEW r \in Reqs,
             AcquirerRefuses(r)
      PROVE  RefundInv'
  BY <1>19, RequestAssumption
  DEF AcquirerRefuses, tables, RefundInv, TypeOK, Reqs
<1>20. CASE UNCHANGED vars
  BY <1>20 DEF vars, RefundInv, TypeOK, Reqs
<1> QED
  BY <1>1, <1>2, <1>3, <1>4, <1>5, <1>6, <1>7, <1>8, <1>9, <1>10, <1>11, <1>12, <1>13,
     <1>14, <1>15, <1>16, <1>17, <1>18, <1>19, <1>20
  DEF Next, Arrival, CreateStep, CaptureStep, RefundStep, Reqs

\* A captured payment stays captured with its amount, its refunded amount does
\* not fall, and pairs and events are kept: the step form of CapturedIsStable.
LEMMA StableStep ==
    ASSUME TypeOK, RowInv, RequestInv, [Next]_vars
    PROVE  /\ \A p \in CreateReqs : InCaptured(p) =>
                /\ InCaptured(p)'
                /\ payments'[p].captured = payments[p].captured
                /\ payments'[p].refunded >= payments[p].refunded
           /\ ledger \subseteq ledger'
           /\ outbox \subseteq outbox'
<1> DEFINE Goal == /\ \A p \in CreateReqs : InCaptured(p) =>
                        /\ InCaptured(p)'
                        /\ payments'[p].captured = payments[p].captured
                        /\ payments'[p].refunded >= payments[p].refunded
                   /\ ledger \subseteq ledger'
                   /\ outbox \subseteq outbox'
<1> USE DEF InCaptured, Others
<1>1. ASSUME NEW r \in CreateReqs, NEW m \in Merchants, NEW k \in Keys \cup {Null},
             NEW a \in Amounts, NEW method \in {"automatic", "manual"},
             InsertPayment(r, m, k, a, method)
      PROVE  Goal
  BY <1>1, InsertEffect, RowTypes
<1>2. ASSUME NEW r \in CreateReqs, pc[r] \in {"fraud", "charging"}, FailPayment(r)
      PROVE  Goal
  BY <1>2, FailEffect, RowTypes
<1>3. ASSUME NEW r \in CreateReqs, ChargeApproved(r)
      PROVE  Goal
  BY <1>3, ChargeEffect, RowTypes
<1>4. ASSUME NEW r \in CaptureReqs, CaptureApproved(r)
      PROVE  Goal
  BY <1>4, CaptureEffect, RowTypes
<1>5. ASSUME NEW r \in RefundReqs, NEW m \in Merchants, NEW k \in Keys \cup {Null},
             NEW p \in CreateReqs, NEW a \in Amounts \cup {0}, CreateRefund(r, m, k, p, a)
      PROVE  Goal
  BY <1>5, ReserveEffect, RowTypes
<1>6. ASSUME NEW r \in CancelReqs, NEW m \in Merchants, NEW p \in CreateReqs,
             CancelPayment(r, m, p)
      PROVE  Goal
  BY <1>6, CancelEffect, RowTypes
<1>7. ASSUME UNCHANGED <<payments, ledger>>,
             \/ UNCHANGED outbox
             \/ \E r \in RefundReqs : outbox' = outbox \cup
                   {Event(r, req[r].payment, "refund.succeeded", "webhooks")}
      PROVE  Goal
  BY <1>7, RowTypes
<1> HIDE DEF Goal
<1>8. Goal
  BY <1>1, <1>2, <1>3, <1>4, <1>5, <1>6, <1>7, TableActions
<1> QED
  BY <1>8 DEF Goal

\* No step of any request makes an answer already given untrue.
LEMMA ToldStep ==
    TypeOK /\ RequestInv /\ RowInv /\ RefundInv /\ ToldIsTrue /\ [Next]_vars
        => ToldIsTrue'
<1> SUFFICES ASSUME TypeOK /\ RequestInv /\ RowInv /\ RefundInv /\ ToldIsTrue, [Next]_vars
             PROVE ToldIsTrue'
  OBVIOUS
<1>1. ASSUME NEW r \in CreateReqs, NEW m \in Merchants, NEW k \in Keys \cup {Null},
             NEW a \in Amounts,
             NEW method \in {"automatic", "manual"},
             InsertPayment(r, m, k, a, method)
      PROVE  ToldIsTrue'
  <2>1. reply[r] \notin {"captured", "authorized", "succeeded"}
    BY <1>1, RequestAssumption DEF InsertPayment, RequestInv, Reqs, Statuses
  <2> QED
    BY <1>1, <2>1, RequestAssumption, InsertEffect
    DEF InsertPayment, Others, ToldIsTrue, RequestInv, RowInv, InCaptured, Exists,
        TypeOK, Reqs, Statuses
<1>2. ASSUME NEW r \in CreateReqs, NEW m \in Merchants, NEW k \in Keys \cup {Null},
             NEW a \in Amounts,
             ReplayPayment(r, m, k, a)
      PROVE  ToldIsTrue'
  <2>1. PICK p \in CreateReqs : /\ Owns(m, p)
                               /\ req' = [req EXCEPT ![r] = [payment |-> p, key |-> k, amount |-> a]]
                               /\ Answer(r, payments[p].status)
    BY <1>2 DEF ReplayPayment
  <2>2. /\ req'[r].payment = p /\ reply'[r] = payments[p].status
        /\ \A q \in Reqs : q # r => req'[q] = req[q] /\ reply'[q] = reply[q]
        /\ UNCHANGED <<payments, ledger, acq>>
    BY <1>2, <2>1 DEF ReplayPayment, Answer, TypeOK, Reqs
  <2>3. payments[p].status # "succeeded"
    BY RowTypes DEF Statuses
  <2> QED
    BY <2>2, <2>3 DEF ToldIsTrue, RowInv, InCaptured
<1>3. ASSUME NEW r \in CreateReqs,
             FraudBlocked(r)
      PROVE  ToldIsTrue'
  BY <1>3, RequestAssumption, SetStatusEffect
  DEF FraudBlocked, FailPayment, Answer, Event, Unwritten, Statuses, ToldIsTrue,
      RefundInv, RequestInv, RowInv, InCaptured, Exists, TypeOK, Reqs
<1>4. ASSUME NEW r \in CreateReqs,
             FraudPassed(r)
      PROVE  ToldIsTrue'
  BY <1>4, RequestAssumption
  DEF FraudPassed, tables, ToldIsTrue, RefundInv, RequestInv, RowInv, InCaptured,
      Exists, TypeOK, Reqs
<1>5. ASSUME NEW r \in CreateReqs,
             ChargeApproved(r)
      PROVE  ToldIsTrue'
  <2>1. reply'[r] \in {"captured", "authorized"} /\ acq' = acq /\ req' = req
    BY <1>5 DEF ChargeApproved, Answer, TypeOK, Reqs
  <2>2. reply'[r] = "captured" => payments'[r].status = "captured"
    <3>1. CASE payments[r].method = "automatic"
      BY <1>5, <3>1, SetCapturedEffect, RowTypes DEF ChargeApproved
    <3>2. CASE payments[r].method = "manual"
      BY <1>5, <3>2 DEF ChargeApproved, Answer, TypeOK, Reqs
    <3> QED
      BY <3>1, <3>2, RowTypes
  <2>3. \A q \in Reqs : q # r => reply'[q] = reply[q]
    BY <1>5 DEF ChargeApproved, Answer, TypeOK, Reqs
  <2>4. acq[r] = "done" /\ req[r].payment = r
    BY <1>5 DEF ChargeApproved, Approved, RowInv
  <2>5. \A q \in CreateReqs : InCaptured(q) => InCaptured(q)'
    BY <1>5, StableStep
  <2> QED
    <3>1. ledger \subseteq ledger'
      BY <1>5, StableStep
    <3>2. \A q \in Reqs : reply[q] = "captured" => req[q].payment \in CreateReqs
      BY DEF RequestInv, Statuses
    <3> QED
      BY <2>1, <2>2, <2>3, <2>4, <2>5, <3>1, <3>2 DEF ToldIsTrue, InCaptured
<1>6. ASSUME NEW r \in CreateReqs,
             ChargeUnrecorded(r)
      PROVE  ToldIsTrue'
  BY <1>6, RequestAssumption
  DEF ChargeUnrecorded, Approved, Answer, tables, ToldIsTrue, RefundInv, RequestInv,
      RowInv, InCaptured, Exists, TypeOK, Reqs
<1>7. ASSUME NEW r \in CreateReqs,
             ChargeFailed(r)
      PROVE  ToldIsTrue'
  BY <1>7, RequestAssumption, SetStatusEffect
  DEF ChargeFailed, FailPayment, Answer, Event, Unwritten, Statuses, ToldIsTrue,
      RefundInv, RequestInv, RowInv, InCaptured, Exists, TypeOK, Reqs
<1>8. ASSUME NEW r \in CaptureReqs, NEW m \in Merchants, NEW p \in CreateReqs,
             NEW a \in Amounts \cup {0},
             StartCapture(r, m, p, a)
      PROVE  ToldIsTrue'
  <2>1. reply[r] \notin {"captured", "authorized", "succeeded"}
    BY <1>8, RequestAssumption DEF StartCapture, RequestInv, Reqs, Statuses
  <2> QED
    BY <1>8, <2>1, RequestAssumption, Transitions
    DEF StartCapture, CaptureAllowed, Owns, tables, ToldIsTrue, RequestInv, RowInv,
        InCaptured, Exists, TypeOK, Reqs, Statuses
<1>9. ASSUME NEW r \in CaptureReqs,
             CaptureApproved(r)
      PROVE  ToldIsTrue'
  BY <1>9, RequestAssumption, SetCapturedEffect, CaptureAmountPositive, Transitions
  DEF CaptureApproved, StillCapturable, Answer, CapturePairs, BothTopics, Pair, Event,
      Unwritten, Statuses, ToldIsTrue, RefundInv, RequestInv, RowInv, InCaptured,
      Exists, TypeOK, Reqs
<1>10. ASSUME NEW r \in CaptureReqs,
             CaptureFailed(r)
      PROVE  ToldIsTrue'
  BY <1>10, RequestAssumption
  DEF CaptureFailed, Answer, tables, ToldIsTrue, RefundInv, RequestInv, RowInv,
      InCaptured, Exists, TypeOK, Reqs
<1>11. ASSUME NEW r \in RefundReqs, NEW m \in Merchants, NEW k \in Keys \cup {Null},
              NEW p \in CreateReqs,
             NEW a \in Amounts \cup {0},
             CreateRefund(r, m, k, p, a)
      PROVE  ToldIsTrue'
  BY <1>11, RequestAssumption, IncrementEffect, RefundAmountBound
  DEF CreateRefund, RefundAllowed, Owns, Pair, Event, Unwritten, Statuses, ToldIsTrue,
      RefundInv, RequestInv, RowInv, InCaptured, Exists, TypeOK, Reqs
<1>12. ASSUME NEW r \in RefundReqs,
             RefundSucceeded(r)
      PROVE  ToldIsTrue'
  BY <1>12, RequestAssumption
  DEF RefundSucceeded, RefundApproved, ToldIsTrue, RefundInv, RequestInv, RowInv,
      InCaptured, Exists, TypeOK, Reqs
<1>13. ASSUME NEW r \in RefundReqs,
             RefundAnnounced(r)
      PROVE  ToldIsTrue'
  BY <1>13, RequestAssumption
  DEF RefundAnnounced, Answer, Event, ToldIsTrue, RefundInv, RequestInv, RowInv,
      InCaptured, Exists, TypeOK, Reqs
<1>14. ASSUME NEW r \in RefundReqs,
             RefundFailed(r)
      PROVE  ToldIsTrue'
  BY <1>14, RequestAssumption
  DEF RefundFailed, Answer, ToldIsTrue, RefundInv, RequestInv, RowInv, InCaptured,
      Exists, TypeOK, Reqs
<1>15. ASSUME NEW r \in CancelReqs, NEW m \in Merchants, NEW p \in CreateReqs,
             CancelPayment(r, m, p)
      PROVE  ToldIsTrue'
  BY <1>15, RequestAssumption, SetStatusEffect, Transitions
  DEF CancelPayment, CancelAllowed, Owns, Answer, Event, Unwritten, Statuses,
      ToldIsTrue, RefundInv, RequestInv, RowInv, InCaptured, Exists, TypeOK, Reqs
<1>16. ASSUME NEW r \in CaptureReqs \cup RefundReqs \cup CancelReqs,
             Reject(r)
      PROVE  ToldIsTrue'
  <2>1. pc[r] = "idle" /\ Answer(r, "error") /\ UNCHANGED <<tables, acq, req>>
    BY <1>16 DEF Reject
  <2> QED
    BY <2>1 DEF Answer, tables, ToldIsTrue, RequestInv, InCaptured, TypeOK, Reqs, Statuses
<1>17. ASSUME NEW r \in Reqs,
             Abandon(r)
      PROVE  ToldIsTrue'
  BY <1>17, RequestAssumption
  DEF Abandon, Answer, tables, ToldIsTrue, RefundInv, RequestInv, RowInv, InCaptured,
      Exists, TypeOK, Reqs
<1>18. ASSUME NEW r \in Reqs,
             AcquirerAccepts(r)
      PROVE  ToldIsTrue'
  BY <1>18, RequestAssumption
  DEF AcquirerAccepts, tables, ToldIsTrue, RefundInv, RequestInv, RowInv, InCaptured,
      Exists, TypeOK, Reqs
<1>19. ASSUME NEW r \in Reqs,
             AcquirerRefuses(r)
      PROVE  ToldIsTrue'
  BY <1>19, RequestAssumption
  DEF AcquirerRefuses, tables, ToldIsTrue, RefundInv, RequestInv, RowInv, InCaptured,
      Exists, TypeOK, Reqs
<1>20. CASE UNCHANGED vars
  BY <1>20
    DEF vars, ToldIsTrue, RefundInv, RequestInv, RowInv, InCaptured, Exists, TypeOK,
        Reqs
<1> QED
  BY <1>1, <1>2, <1>3, <1>4, <1>5, <1>6, <1>7, <1>8, <1>9, <1>10, <1>11, <1>12, <1>13,
     <1>14, <1>15, <1>16, <1>17, <1>18, <1>19, <1>20
  DEF Next, Arrival, CreateStep, CaptureStep, RefundStep, Reqs

-----------------------------------------------------------------------------
(* The theorems.                                                           *)

\* The empty database and no request started satisfy the invariant.
LEMMA InitIInv == Init => IInv
<1> SUFFICES ASSUME Init PROVE IInv
  OBVIOUS
<1>1. TypeOK
  BY DEF Init, TypeOK, NoPayment, NoRefund, NoRequest, PaymentRow, RefundRow, Request
<1>2. \A p \in CreateReqs : /\ payments[p].status = "absent"
                            /\ payments[p].captured = 0 /\ payments[p].refunded = 0
  BY DEF Init, NoPayment
<1>3. \A r \in Reqs : pc[r] = "idle" /\ acq[r] = "none" /\ reply[r] = Null
  BY DEF Init
<1>4. ledger = {} /\ outbox = {}
  BY DEF Init
<1>5. RequestInv /\ RowInv /\ KeyInv /\ AmountInv
  BY <1>2, <1>3, RequestAssumption
  DEF RequestInv, RowInv, KeyInv, AmountInv, Exists, InCaptured, Reqs
<1>6. CaptureInv /\ RefundInv /\ ToldIsTrue
  BY <1>2, <1>3, RequestAssumption
  DEF CaptureInv, RefundInv, ToldIsTrue, InCaptured, Reqs, Statuses
<1>7. LedgerMatchesPayments /\ OutboxMatchesPayments
  BY <1>2, <1>4
  DEF LedgerMatchesPayments, OutboxMatchesPayments, Announced, Exists, InCaptured
<1> QED
  BY <1>1, <1>5, <1>6, <1>7 DEF IInv

\* Every step of the payment service preserves the invariant.
LEMMA NextIInv == IInv /\ [Next]_vars => IInv'
BY TypeStep, RequestStep, RowStep, KeyStep, AmountStep, CaptureInvStep, LedgerStep,
   RefundInvStep, ToldStep, OutboxStep
DEF IInv

\* IInv holds in every reachable state, for every choice of the constants.
THEOREM Invariance == Spec => []IInv
<1>1. Init => IInv
  BY InitIInv
<1>2. IInv /\ [Next]_vars => IInv'
  BY NextIInv
<1> QED
  BY <1>1, <1>2, PTL DEF Spec

\* The tables, the handlers' program counters and the replies are typed.
THEOREM TypeCorrect == Spec => []TypeOK
<1>1. IInv => TypeOK
  BY DEF IInv
<1> QED
  BY <1>1, Invariance, PTL

\* At most one charge per merchant and idempotency key reaches the acquirer.
THEOREM ChargeOnce == Spec => []SingleChargePerKey
<1>1. IInv => SingleChargePerKey
  BY DEF IInv, RowInv, KeyInv, SingleChargePerKey
<1> QED
  BY <1>1, Invariance, PTL

\* No payment is booked as authorized or captured without the acquirer.
THEOREM NoPhantomCapture == Spec => []CapturedIsCharged
<1>1. IInv => CapturedIsCharged
  BY DEF IInv, RowInv, CaptureInv, CapturedIsCharged
<1> QED
  BY <1>1, Invariance, PTL

\* The ledger holds the capture and the fee of each captured payment once.
THEOREM LedgerExact == Spec => []LedgerMatchesPayments
<1>1. IInv => LedgerMatchesPayments
  BY DEF IInv
<1> QED
  BY <1>1, Invariance, PTL

\* Racing refunds never exceed the captured amount.
THEOREM NoOverRefund == Spec => []RefundWithinCaptured
<1>1. IInv => RefundWithinCaptured
  BY RowTypes DEF IInv, AmountInv, RefundWithinCaptured, InCaptured
<1> QED
  BY <1>1, Invariance, PTL

\* The outbox announces exactly what the payments table went through.
THEOREM OutboxExact == Spec => []OutboxMatchesPayments
<1>1. IInv => OutboxMatchesPayments
  BY DEF IInv
<1> QED
  BY <1>1, Invariance, PTL

\* Replies stay true.
THEOREM RepliesHold == Spec => []ToldIsTrue
<1>1. IInv => ToldIsTrue
  BY DEF IInv
<1> QED
  BY <1>1, Invariance, PTL

\* No step undoes a capture, and pairs and events are never removed.
THEOREM CaptureStable == Spec => CapturedIsStable
<1>1. IInv /\ [Next]_vars =>
        [/\ \A p \in CreateReqs : InCaptured(p) =>
                /\ InCaptured(p)'
                /\ payments'[p].captured = payments[p].captured
                /\ payments'[p].refunded >= payments[p].refunded
         /\ ledger \subseteq ledger'
         /\ outbox \subseteq outbox']_vars
  BY StableStep DEF IInv
<1> QED
  BY <1>1, Invariance, PTL DEF Spec, CapturedIsStable

-----------------------------------------------------------------------------
(* The sums: what is refunded is in the ledger, to the cent.               *)

\* No step forgets that a request was started, and only the reservation of a
\* refund rewrites what a refund request asked for.
LEMMA RequestFrame ==
    ASSUME TypeOK, [Next]_vars
    PROVE  /\ \A q \in Reqs : pc[q] # "idle" => pc'[q] # "idle"
           /\ \/ \A q \in RefundReqs : req'[q] = req[q]
              \/ \E r \in RefundReqs, m \in Merchants, k \in Keys \cup {Null},
                    p \in CreateReqs, a \in Amounts \cup {0} : CreateRefund(r, m, k, p, a)
<1> DEFINE Started == \A q \in Reqs : pc[q] # "idle" => pc'[q] # "idle"
           Kept == \A q \in RefundReqs : req'[q] = req[q]
           Reserved == \E r \in RefundReqs, m \in Merchants, k \in Keys \cup {Null},
                          p \in CreateReqs, a \in Amounts \cup {0} :
                          CreateRefund(r, m, k, p, a)
<1>0. pc \in [Reqs -> {"idle", "fraud", "charging", "capturing", "refunding",
                       "announcing", "done"}]
      /\ req \in [Reqs -> Request] /\ RefundReqs \subseteq Reqs
  BY DEF TypeOK, Reqs
<1>1. ASSUME NEW r \in Reqs, NEW s, s # "idle", pc' = [pc EXCEPT ![r] = s]
      PROVE  Started
  BY <1>0, <1>1
<1>2. ASSUME NEW r \in Reqs \ RefundReqs, NEW x, req' = [req EXCEPT ![r] = x]
      PROVE  Kept
  BY <1>0, <1>2
<1>3. CreateReqs \cup CaptureReqs \cup CancelReqs \subseteq Reqs \ RefundReqs
  BY RequestAssumption DEF Reqs
<1>4. ASSUME NEW r \in CreateReqs, NEW m \in Merchants, NEW k \in Keys \cup {Null},
             NEW a \in Amounts, NEW method \in {"automatic", "manual"},
             InsertPayment(r, m, k, a, method)
      PROVE  Started /\ Kept
  BY <1>1, <1>2, <1>3, <1>4 DEF InsertPayment
<1>5. ASSUME NEW r \in CreateReqs, NEW m \in Merchants, NEW k \in Keys \cup {Null},
             NEW a \in Amounts, ReplayPayment(r, m, k, a)
      PROVE  Started /\ Kept
  BY <1>1, <1>2, <1>3, <1>5 DEF ReplayPayment, Answer
<1>6. ASSUME NEW r \in CreateReqs, CreateStep(r)
      PROVE  Started /\ Kept
  <2>1. /\ pc' = [pc EXCEPT ![r] = "charging"] \/ pc' = [pc EXCEPT ![r] = "done"]
        /\ UNCHANGED req
    BY <1>6 DEF CreateStep, FraudBlocked, FraudPassed, ChargeApproved, ChargeUnrecorded,
                ChargeFailed, FailPayment, Answer
  <2>2. Started
    BY <1>1, <1>3, <2>1
  <2>3. Kept
    BY <2>1
  <2> QED
    BY <2>2, <2>3
<1>7. ASSUME NEW r \in CaptureReqs, NEW m \in Merchants, NEW p \in CreateReqs,
             NEW a \in Amounts \cup {0}, StartCapture(r, m, p, a)
      PROVE  Started /\ Kept
  BY <1>1, <1>2, <1>3, <1>7 DEF StartCapture
<1>8. ASSUME NEW r \in CaptureReqs, CaptureStep(r)
      PROVE  Started /\ Kept
  <2>1. pc' = [pc EXCEPT ![r] = "done"] /\ UNCHANGED req
    BY <1>8 DEF CaptureStep, CaptureApproved, CaptureFailed, Answer
  <2>2. Started
    BY <1>1, <1>3, <2>1
  <2>3. Kept
    BY <2>1
  <2> QED
    BY <2>2, <2>3
<1>9. ASSUME NEW r \in RefundReqs, NEW m \in Merchants, NEW k \in Keys \cup {Null},
             NEW p \in CreateReqs, NEW a \in Amounts \cup {0}, CreateRefund(r, m, k, p, a)
      PROVE  Started /\ Reserved
  BY <1>0, <1>1, <1>9 DEF CreateRefund
<1>10. ASSUME NEW r \in RefundReqs, RefundStep(r)
       PROVE  Started /\ Kept
  BY <1>0, <1>1, <1>10
  DEF RefundStep, RefundSucceeded, RefundAnnounced, RefundFailed, Answer
<1>11. ASSUME NEW r \in CancelReqs, NEW m \in Merchants, NEW p \in CreateReqs,
              CancelPayment(r, m, p)
       PROVE  Started /\ Kept
  BY <1>1, <1>2, <1>3, <1>11 DEF CancelPayment, Answer
<1>12. ASSUME NEW r \in Reqs, Reject(r) \/ Abandon(r)
       PROVE  Started /\ Kept
  <2>1. pc' = [pc EXCEPT ![r] = "done"] /\ UNCHANGED req
    BY <1>12 DEF Reject, Abandon, Answer
  <2>2. Started
    BY <1>1, <2>1
  <2>3. Kept
    BY <2>1
  <2> QED
    BY <2>2, <2>3
<1>13. ASSUME NEW r \in Reqs, AcquirerAccepts(r) \/ AcquirerRefuses(r)
       PROVE  Started /\ Kept
  BY <1>13 DEF AcquirerAccepts, AcquirerRefuses
<1>14. ASSUME UNCHANGED vars PROVE Started /\ Kept
  BY <1>14 DEF vars
<1> HIDE DEF Started, Kept, Reserved
<1>15. Started /\ (Kept \/ Reserved)
  <2>1. CASE Arrival
    BY <1>4, <1>5, <1>7, <1>9, <1>11, <1>12, <2>1 DEF Arrival, Reqs
  <2>2. CASE ~Arrival /\ Next
    BY <1>6, <1>8, <1>10, <1>12, <1>13, <2>2 DEF Next
  <2> QED
    BY <2>1, <2>2, <1>14
<1> QED
  BY <1>15 DEF Started, Kept, Reserved

\* What a step that reserves no refund does to the books: no refunded amount and
\* no refund pair changes, and at most one payment row and two pairs are new.
LEMMA BooksFrame ==
    ASSUME IInv, [Next]_vars, NEW D, D = ledger' \ ledger,
           ~\E r \in RefundReqs, m \in Merchants, k \in Keys \cup {Null},
               p \in CreateReqs, a \in Amounts \cup {0} : CreateRefund(r, m, k, p, a)
    PROVE  /\ \A p \in CreateReqs : payments'[p].refunded = payments[p].refunded
           /\ \E p : \A q \in CreateReqs : Exists(q)' => Exists(q) \/ q = p
           /\ ledger \subseteq ledger'
           /\ \E e, f : D \subseteq {e, f}
           /\ \A e \in D : e.kind # "refund" /\ pc'[e.by] # "idle"
<1> DEFINE Goal == /\ \A p \in CreateReqs : payments'[p].refunded = payments[p].refunded
                   /\ \E p : \A q \in CreateReqs : Exists(q)' => Exists(q) \/ q = p
                   /\ ledger \subseteq ledger'
                   /\ \E e, f : D \subseteq {e, f}
                   /\ \A e \in D : e.kind # "refund" /\ pc'[e.by] # "idle"
<1> USE DEF Others
<1>0. TypeOK /\ RequestInv /\ RowInv /\ AmountInv
  BY DEF IInv
<1>1. ASSUME NEW r \in CreateReqs, NEW m \in Merchants, NEW k \in Keys \cup {Null},
             NEW a \in Amounts, NEW method \in {"automatic", "manual"},
             InsertPayment(r, m, k, a, method)
      PROVE  Goal
  <2>1. payments[r].refunded = 0
    BY <1>0, <1>1, InsertEffect, RowTypes DEF AmountInv, InCaptured
  <2>2. D = {} /\ ledger \subseteq ledger'
    BY <1>0, <1>1, InsertEffect
  <2> QED
    BY <1>0, <1>1, <2>1, <2>2, InsertEffect DEF Exists
<1>2. ASSUME NEW p \in CreateReqs, Exists(p), Others(p),
             payments'[p].refunded = payments[p].refunded
      PROVE  /\ \A q \in CreateReqs : payments'[q].refunded = payments[q].refunded
             /\ \E x : \A q \in CreateReqs : Exists(q)' => Exists(q) \/ q = x
  BY <1>2 DEF Exists
<1>3. ASSUME NEW r \in Reqs, NEW p \in CreateReqs, NEW n, pc'[r] = "done",
             ledger' = ledger \cup CapturePairs(r, p, n)
      PROVE  /\ ledger \subseteq ledger'
             /\ \E e, f : D \subseteq {e, f}
             /\ \A e \in D : e.kind # "refund" /\ pc'[e.by] # "idle"
  <2> DEFINE c == Pair(r, "capture", p, n)
             f == Pair(r, "fee", p, Fee(n))
  <2>1. D \subseteq {c, f}
    BY <1>3 DEF CapturePairs
  <2>2. /\ c.kind = "capture" /\ c.by = r
        /\ f.kind = "fee" /\ f.by = r
    BY DEF Pair
  <2> HIDE DEF c, f
  <2> QED
    BY <1>3, <2>1, <2>2
<1>4. ASSUME NEW r \in CreateReqs, pc[r] \in {"fraud", "charging"}, FailPayment(r)
      PROVE  Goal
  <2>1. D = {} /\ ledger \subseteq ledger'
    BY <1>0, <1>4, FailEffect
  <2>2. Exists(r) /\ Others(r) /\ payments'[r].refunded = payments[r].refunded
    BY <1>0, <1>4, FailEffect DEF Exists
  <2> QED
    BY <1>2, <2>1, <2>2
<1>5. ASSUME NEW r \in CreateReqs, ChargeApproved(r)
      PROVE  Goal
  <2>1. Exists(r) /\ Others(r) /\ payments'[r].refunded = payments[r].refunded
    BY <1>0, <1>5, ChargeEffect DEF Exists
  <2>2. r \in Reqs /\ pc'[r] = "done"
    BY <1>0, <1>5 DEF ChargeApproved, Answer, TypeOK, Reqs
  <2>3. CASE ledger' = ledger \cup CapturePairs(r, r, payments[r].amount)
    BY <1>2, <1>3, <2>1, <2>2, <2>3
  <2>4. CASE ledger' = ledger
    <3>1. D = {} /\ ledger \subseteq ledger'
      BY <2>4
    <3> QED
      BY <1>2, <2>1, <3>1
  <2> QED
    BY <1>0, <1>5, <2>3, <2>4, ChargeEffect
<1>6. ASSUME NEW r \in CaptureReqs, CaptureApproved(r)
      PROVE  Goal
  <2> DEFINE p == req[r].payment
  <2>1. /\ p \in CreateReqs /\ Exists(p) /\ Others(p)
        /\ payments'[p].refunded = payments[p].refunded
        /\ ledger' = ledger \cup CapturePairs(r, p, CaptureAmount(r))
    BY <1>0, <1>6, CaptureEffect DEF Exists
  <2>2. r \in Reqs /\ pc'[r] = "done"
    BY <1>0, <1>6 DEF CaptureApproved, Answer, TypeOK, Reqs
  <2> HIDE DEF p
  <2> QED
    BY <1>2, <1>3, <2>1, <2>2
<1>7. ASSUME NEW r \in CancelReqs, NEW m \in Merchants, NEW p \in CreateReqs,
             CancelPayment(r, m, p)
      PROVE  Goal
  <2>1. D = {} /\ ledger \subseteq ledger'
    BY <1>0, <1>7, CancelEffect
  <2>2. Exists(p) /\ Others(p) /\ payments'[p].refunded = payments[p].refunded
    BY <1>0, <1>7, CancelEffect DEF Exists
  <2> QED
    BY <1>2, <2>1, <2>2
<1>8. ASSUME UNCHANGED <<payments, ledger>> PROVE Goal
  BY <1>8 DEF Exists
<1> HIDE DEF Goal
<1>9. Goal
  BY <1>1, <1>4, <1>5, <1>6, <1>7, <1>8, TableActions
<1> QED
  BY <1>9 DEF Goal

\* A step that reserves no refund changes none of the sums.
LEMMA MoneyFrame ==
    ASSUME MoneyInv, [Next]_vars,
           ~\E r \in RefundReqs, m \in Merchants, k \in Keys \cup {Null},
               p \in CreateReqs, a \in Amounts \cup {0} : CreateRefund(r, m, k, p, a)
    PROVE  TraceInv' /\ RefundedInv'
<1> DEFINE D == ledger' \ ledger
<1>0. IInv /\ TypeOK
  BY DEF MoneyInv, IInv
<1>1. /\ \A p \in CreateReqs : payments'[p].refunded = payments[p].refunded
      /\ \E p : \A q \in CreateReqs : Exists(q)' => Exists(q) \/ q = p
      /\ ledger \subseteq ledger'
      /\ \E e, f : D \subseteq {e, f}
      /\ \A e \in D : e.kind # "refund" /\ pc'[e.by] # "idle"
  BY <1>0, BooksFrame
<1>2. /\ \A q \in Reqs : pc[q] # "idle" => pc'[q] # "idle"
      /\ \A q \in RefundReqs : req'[q] = req[q]
  BY <1>0, RequestFrame
<1>3. IsFiniteSet(ledger')
  <2>1. PICK e, f : D \subseteq {e, f}
    BY <1>1
  <2>2. IsFiniteSet({e}) /\ IsFiniteSet({f}) /\ IsFiniteSet(ledger)
    BY FS_Singleton DEF MoneyInv, TraceInv
  <2>3. IsFiniteSet((ledger \cup {e}) \cup {f})
    BY <2>2, FS_Union
  <2>4. ledger' \subseteq (ledger \cup {e}) \cup {f}
    BY <2>1
  <2> QED
    BY <2>3, <2>4, FS_Subset
<1>4. IsFiniteSet({p \in CreateReqs : Exists(p)}')
  <2> DEFINE E == {p \in CreateReqs : Exists(p)}
             F == {p \in CreateReqs : Exists(p)'}
  <2>1. PICK p : \A q \in CreateReqs : Exists(q)' => Exists(q) \/ q = p
    BY <1>1
  <2>2. F \subseteq E \cup {p}
    BY <2>1
  <2>3. IsFiniteSet(E)
    BY DEF MoneyInv, TraceInv
  <2> HIDE DEF E, F
  <2>4. IsFiniteSet(E \cup {p})
    BY <2>3, FS_Singleton, FS_Union
  <2>5. IsFiniteSet(F)
    BY <2>2, <2>4, FS_Subset
  <2> QED
    BY <2>5 DEF F
<1>5. \A r \in RefundReqs : pc'[r] = "idle" => req'[r].payment = Null
  BY <1>2 DEF MoneyInv, TraceInv, Reqs
<1>6. \A e \in ledger' : pc'[e.by] # "idle"
  <2>1. \A e \in ledger : e.by \in Reqs /\ pc[e.by] # "idle"
    BY <1>0 DEF MoneyInv, TraceInv, TypeOK, LedgerPair
  <2> QED
    BY <1>1, <1>2, <2>1
<1>7. TraceInv'
  BY <1>3, <1>4, <1>5, <1>6 DEF TraceInv
<1>8. RefundedInv'
  <2> SUFFICES ASSUME NEW p \in CreateReqs
               PROVE  /\ IsFiniteSet(RefundsOf(p)')
                      /\ SumOf([r \in RefundsOf(p)' |-> req'[r].amount]) = payments'[p].refunded
                      /\ PairSum(p, "refund")' = payments'[p].refunded
    BY DEF RefundedInv
  <2>1. RefundsOf(p)' = RefundsOf(p)
    BY <1>2 DEF RefundsOf
  <2>2. [r \in RefundsOf(p)' |-> req'[r].amount] = [r \in RefundsOf(p) |-> req[r].amount]
    BY <1>2, <2>1 DEF RefundsOf
  <2>3. {e \in ledger' : e.payment = p /\ e.kind = "refund"} =
          {e \in ledger : e.payment = p /\ e.kind = "refund"}
    BY <1>1
  <2>4. PairSum(p, "refund")' = PairSum(p, "refund")
    BY <2>3 DEF PairSum
  <2> QED
    BY <1>1, <2>1, <2>2, <2>4 DEF MoneyInv, RefundedInv
<1> QED
  BY <1>7, <1>8

\* The reservation adds the amount to the row, to the refund pairs and to the
\* accepted requests of one payment, and to nothing else.
LEMMA MoneyReserve ==
    ASSUME MoneyInv, NEW r \in RefundReqs, NEW m \in Merchants, NEW k \in Keys \cup {Null},
           NEW p \in CreateReqs, NEW a \in Amounts \cup {0}, CreateRefund(r, m, k, p, a)
    PROVE  TraceInv' /\ RefundedInv'
<1> DEFINE n == RefundAmount(p, a)
           new == Pair(r, "refund", p, n)
<1>0. IInv /\ TypeOK /\ r \in Reqs
  BY DEF MoneyInv, IInv, Reqs
<1>1. /\ n \in Nat /\ Others(p)
      /\ payments'[p].status = payments[p].status
      /\ payments'[p].refunded = payments[p].refunded + n
      /\ ledger' = ledger \cup {new}
  BY <1>0, ReserveEffect
<1>2. new.by = r /\ new.kind = "refund" /\ new.payment = p /\ new.amount = n
  BY DEF Pair
<1>3. /\ pc[r] = "idle" /\ pc'[r] = "refunding"
      /\ \A q \in Reqs : q # r => pc'[q] = pc[q] /\ req'[q] = req[q]
      /\ req'[r].payment = p /\ req'[r].amount = n
  BY <1>0 DEF CreateRefund, TypeOK
<1> HIDE DEF n, new
<1>4. new \notin ledger
  BY <1>2, <1>3 DEF MoneyInv, TraceInv
<1>5. TraceInv'
  <2>1. IsFiniteSet(ledger')
    BY <1>1, FS_AddElement DEF MoneyInv, TraceInv
  <2>2. \A q \in CreateReqs : Exists(q)' <=> Exists(q)
    BY <1>1 DEF Exists, Others
  <2>3. {q \in CreateReqs : Exists(q)}' = {q \in CreateReqs : Exists(q)}
    BY <2>2
  <2>4. IsFiniteSet({q \in CreateReqs : Exists(q)}')
    BY <2>3 DEF MoneyInv, TraceInv
  <2>5. \A q \in RefundReqs : pc'[q] = "idle" => req'[q].payment = Null
    BY <1>3 DEF MoneyInv, TraceInv, Reqs
  <2>6. \A e \in ledger : e.by \in Reqs /\ pc[e.by] # "idle"
    BY <1>0 DEF MoneyInv, TraceInv, TypeOK, LedgerPair
  <2>7. \A e \in ledger' : pc'[e.by] # "idle"
    BY <1>1, <1>2, <1>3, <2>6
  <2> QED
    BY <2>1, <2>4, <2>5, <2>7 DEF TraceInv
<1>6. r \notin UNION {RefundsOf(q) : q \in CreateReqs}
  BY <1>3, RequestAssumption DEF MoneyInv, TraceInv, RefundsOf, Reqs
<1>7. ASSUME NEW q \in CreateReqs, q # p
      PROVE  /\ IsFiniteSet(RefundsOf(q)')
             /\ SumOf([s \in RefundsOf(q)' |-> req'[s].amount]) = payments'[q].refunded
             /\ PairSum(q, "refund")' = payments'[q].refunded
  <2>1. RefundsOf(q)' = RefundsOf(q)
    BY <1>3, <1>6, <1>7 DEF RefundsOf, Reqs
  <2>2. [s \in RefundsOf(q)' |-> req'[s].amount] = [s \in RefundsOf(q) |-> req[s].amount]
    BY <1>3, <1>6, <2>1 DEF RefundsOf, Reqs
  <2>3. {e \in ledger' : e.payment = q /\ e.kind = "refund"} =
          {e \in ledger : e.payment = q /\ e.kind = "refund"}
    BY <1>1, <1>2, <1>7
  <2>4. PairSum(q, "refund")' = PairSum(q, "refund")
    BY <2>3 DEF PairSum
  <2>5. payments'[q].refunded = payments[q].refunded
    BY <1>1, <1>7 DEF Others
  <2> QED
    BY <2>1, <2>2, <2>4, <2>5 DEF MoneyInv, RefundedInv
<1>8. IsFiniteSet(RefundsOf(p)') /\
      SumOf([s \in RefundsOf(p)' |-> req'[s].amount]) = payments'[p].refunded
  <2> DEFINE R == RefundsOf(p)
             w == [s \in R \cup {r} |-> req'[s].amount]
  <2>1. RefundsOf(p)' = R \cup {r}
    BY <1>3 DEF RefundsOf, Reqs
  <2>2. r \notin R /\ R \subseteq Reqs
    BY <1>6 DEF RefundsOf, Reqs
  <2>3. \A s \in R : req'[s].amount = req[s].amount /\ req[s].amount \in Nat
    BY <1>0, <1>3, <2>2 DEF TypeOK, Request
  <2>4. IsFiniteSet(R) /\ SumOf([s \in R |-> req[s].amount]) = payments[p].refunded
    BY DEF MoneyInv, RefundedInv
  <2> HIDE DEF R
  <2>5. w \in [R \cup {r} -> Nat] /\ w[r] = n
    BY <1>1, <1>3, <2>3
  <2>6. [s \in R |-> w[s]] = [s \in R |-> req[s].amount]
    BY <2>3
  <2> HIDE DEF w
  <2>7. SumOf(w) = SumOf([s \in R |-> w[s]]) + w[r]
    BY <2>2, <2>4, <2>5, SumAdd
  <2>8. IsFiniteSet(R \cup {r})
    BY <2>4, FS_AddElement
  <2>9. SumOf(w) = payments'[p].refunded
    BY <1>1, <2>4, <2>5, <2>6, <2>7
  <2> QED
    BY <2>1, <2>8, <2>9 DEF w
<1>9. PairSum(p, "refund")' = payments'[p].refunded
  <2> DEFINE E == {e \in ledger : e.payment = p /\ e.kind = "refund"}
             w == [e \in E \cup {new} |-> e.amount]
  <2>1. {e \in ledger' : e.payment = p /\ e.kind = "refund"} = E \cup {new}
    BY <1>1, <1>2
  <2>2. E \subseteq ledger /\ new \notin E
    BY <1>4
  <2>3. IsFiniteSet(E)
    BY <2>2, FS_Subset DEF MoneyInv, TraceInv
  <2>4. \A e \in E : e.amount \in Nat
    BY <1>0, <2>2 DEF TypeOK, LedgerPair
  <2>5. SumOf([e \in E |-> e.amount]) = payments[p].refunded
    BY DEF MoneyInv, RefundedInv, PairSum
  <2>6. PairSum(p, "refund")' = SumOf(w)
    BY <2>1 DEF PairSum
  <2> HIDE DEF E
  <2>7. w \in [E \cup {new} -> Nat] /\ w[new] = n
    BY <1>1, <1>2, <2>4
  <2>8. [e \in E |-> w[e]] = [e \in E |-> e.amount]
    OBVIOUS
  <2> HIDE DEF w
  <2>9. SumOf(w) = SumOf([e \in E |-> w[e]]) + w[new]
    BY <2>2, <2>3, <2>7, SumAdd
  <2> QED
    BY <1>1, <2>5, <2>6, <2>7, <2>8, <2>9
<1>10. RefundedInv'
  BY <1>7, <1>8, <1>9 DEF RefundedInv
<1> QED
  BY <1>5, <1>10

\* Every step of the payment service keeps the sums.
LEMMA MoneyStep == MoneyInv /\ [Next]_vars => MoneyInv'
<1> SUFFICES ASSUME MoneyInv, [Next]_vars PROVE MoneyInv'
  OBVIOUS
<1>1. IInv'
  BY NextIInv DEF MoneyInv
<1>2. TraceInv' /\ RefundedInv'
  BY MoneyFrame, MoneyReserve
<1> QED
  BY <1>1, <1>2 DEF MoneyInv

\* The empty tables sum up to nothing.
LEMMA InitMoney == Init => MoneyInv
<1> SUFFICES ASSUME Init PROVE MoneyInv
  OBVIOUS
<1>1. /\ \A p \in CreateReqs : payments[p].status = "absent" /\ payments[p].refunded = 0
      /\ \A r \in Reqs : pc[r] = "idle" /\ req[r].payment = Null
      /\ ledger = {}
  BY DEF Init, NoPayment, NoRequest
<1>2. {p \in CreateReqs : Exists(p)} = {}
  BY <1>1 DEF Exists
<1>3. IsFiniteSet({})
  BY FS_EmptySet
<1>4. TraceInv
  BY <1>1, <1>2, <1>3 DEF TraceInv, Reqs
<1>5. ASSUME NEW p \in CreateReqs
      PROVE  /\ IsFiniteSet(RefundsOf(p))
             /\ SumOf([r \in RefundsOf(p) |-> req[r].amount]) = payments[p].refunded
             /\ PairSum(p, "refund") = payments[p].refunded
  <2>1. RefundsOf(p) = {}
    BY <1>1, RequestAssumption DEF RefundsOf, Reqs
  <2>2. {e \in ledger : e.payment = p /\ e.kind = "refund"} = {}
    BY <1>1
  <2>3. SumOf([r \in {} |-> req[r].amount]) = 0
    BY SumEmpty
  <2>4. SumOf([e \in {} |-> e.amount]) = 0
    BY SumEmpty
  <2> QED
    BY <1>1, <1>3, <2>1, <2>2, <2>3, <2>4 DEF PairSum
<1> QED
  BY <1>4, <1>5, InitIInv DEF MoneyInv, RefundedInv

\* The pairs of one kind other than refund are one pair or none.
LEMMA OnePairSum ==
    ASSUME MoneyInv, NEW p \in CreateReqs, NEW kind \in {"capture", "fee"}, NEW n \in Nat,
           \A e \in ledger : e.payment = p /\ e.kind = kind => e.amount = n,
           (~\E e \in ledger : e.payment = p /\ e.kind = kind) => n = 0
    PROVE  PairSum(p, kind) = n
<1> DEFINE E == {e \in ledger : e.payment = p /\ e.kind = kind}
           w == [e \in E |-> e.amount]
<1>1. CASE E = {}
  <2>1. w \in [{} -> Nat] /\ n = 0
    BY <1>1
  <2> QED
    BY <2>1, SumEmpty DEF PairSum
<1>2. CASE E # {}
  <2>1. PICK x : x \in E
    BY <1>2
  <2>2. E = {x}
    BY <2>1 DEF MoneyInv, IInv, LedgerMatchesPayments
  <2>3. w \in [{x} -> Nat] /\ w[x] = n
    BY <2>1, <2>2
  <2>4. PairSum(p, kind) = SumOf(w)
    BY DEF PairSum
  <2> HIDE DEF w
  <2> QED
    BY <2>3, <2>4, SumSingle
<1> QED
  BY <1>1, <1>2

\* What the sums say of the ledger, the row and the acquirer.
LEMMA MoneyPayable == MoneyInv => PayableMatchesRows
<1> SUFFICES ASSUME MoneyInv, NEW p \in CreateReqs
             PROVE  /\ PairSum(p, "refund") = payments[p].refunded
                    /\ PairSum(p, "capture") - PairSum(p, "fee") - PairSum(p, "refund") =
                         payments[p].captured - Fee(payments[p].captured)
                            - payments[p].refunded
                    /\ AcquirerRefunded(p) =< payments[p].refunded
  BY DEF PayableMatchesRows
<1>0. /\ TypeOK /\ AmountInv /\ LedgerMatchesPayments
      /\ payments[p].captured \in Nat /\ payments[p].refunded \in Nat
  BY RowTypes DEF MoneyInv, IInv
<1>1. PairSum(p, "refund") = payments[p].refunded
  BY DEF MoneyInv, RefundedInv
<1>2. ~InCaptured(p) => payments[p].captured = 0
  BY <1>0 DEF AmountInv
<1>3. PairSum(p, "capture") = payments[p].captured
  <2>1. \A e \in ledger : e.payment = p /\ e.kind = "capture" =>
          e.amount = payments[p].captured
    BY <1>0 DEF LedgerMatchesPayments
  <2>2. (~\E e \in ledger : e.payment = p /\ e.kind = "capture") => payments[p].captured = 0
    BY <1>0, <1>2 DEF LedgerMatchesPayments
  <2> QED
    BY <1>0, <2>1, <2>2, OnePairSum
<1>4. PairSum(p, "fee") = Fee(payments[p].captured)
  <2>0. Fee(payments[p].captured) \in Nat
    BY <1>0, FeeIsNat
  <2>1. \A e \in ledger : e.payment = p /\ e.kind = "fee" =>
          e.amount = Fee(payments[p].captured)
    BY <1>0 DEF LedgerMatchesPayments
  <2>2. Fee(0) = 0
    BY NoFee
  <2>3. (~\E e \in ledger : e.payment = p /\ e.kind = "fee") => Fee(payments[p].captured) = 0
    BY <1>0, <1>2, <2>0, <2>2 DEF LedgerMatchesPayments
  <2> HIDE DEF Fee
  <2> QED
    BY <2>0, <2>1, <2>3, OnePairSum
<1>5. AcquirerRefunded(p) =< payments[p].refunded
  <2> DEFINE R == RefundsOf(p)
             S == {r \in RefundReqs : req[r].payment = p /\ acq[r] = "done"}
             v == [r \in S |-> req[r].amount]
             w == [r \in R |-> req[r].amount]
  <2>1. S \subseteq R
    BY DEF RefundsOf
  <2>2. IsFiniteSet(R) /\ SumOf(w) = payments[p].refunded
    BY DEF MoneyInv, RefundedInv
  <2>3. \A r \in R : req[r].amount \in Nat
    BY <1>0 DEF RefundsOf, TypeOK, Request, Reqs
  <2>4. AcquirerRefunded(p) = SumOf(v)
    BY DEF AcquirerRefunded
  <2> HIDE DEF R, S
  <2>5. v \in [S -> Nat] /\ w \in [R -> Nat] /\ \A r \in S : v[r] =< w[r]
    BY <2>1, <2>3
  <2> HIDE DEF v, w
  <2>6. SumOf(v) =< SumOf(w)
    BY <2>1, <2>2, <2>5, SumMonotone
  <2> QED
    BY <2>2, <2>4, <2>6
<1> QED
  BY <1>1, <1>3, <1>4, <1>5

\* The sums are kept in every reachable state.
THEOREM MoneyInvariance == Spec => []MoneyInv
BY InitMoney, MoneyStep, PTL DEF Spec

\* What the ledger says a merchant is owed is what the row says, for any number
\* of racing, failing and repeated refunds, and the acquirer never pays back more.
THEOREM BooksBalance == Spec => []PayableMatchesRows
BY MoneyInvariance, MoneyPayable, PTL
=============================================================================
