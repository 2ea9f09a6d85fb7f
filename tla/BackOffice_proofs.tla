------------------------- MODULE BackOffice_proofs -------------------------
(***************************************************************************)
(* The settlement worker and the reconciliation run beside the payment     *)
(* service, for any number of workers, merchants and requests, every fee   *)
(* rate and any period.                                                    *)
(*                                                                         *)
(* Settlement: the invariants of the payment service survive the worker's  *)
(* writes, every payment is settled once, and no merchant is paid more     *)
(* than its settled payments are worth.                                    *)
(*                                                                         *)
(* Reconciliation: no alarm is false and no failed charge is overlooked.   *)
(* What a run has read may be out of date when it is used; the argument is *)
(* that what the verdicts rest on (the charge, its date and amount, being  *)
(* captured, the date of the capture) never changes.                       *)
(***************************************************************************)
EXTENDS Reconciliation, PaymentService_proofs

\* What a settlement does to the payments table: the rows of S, all captured,
\* become settled, and no other column of any row changes.
LEMMA SettleEffect ==
    ASSUME TypeOK, NEW w \in Settlers, NEW m \in Merchants, NEW S \in SUBSET CreateReqs,
           SettleMerchant(w, m, S)
    PROVE  /\ payments' \in [CreateReqs -> PaymentRow]
           /\ \A p \in CreateReqs :
                /\ payments'[p].merchant = payments[p].merchant
                /\ payments'[p].key = payments[p].key
                /\ payments'[p].amount = payments[p].amount
                /\ payments'[p].method = payments[p].method
                /\ payments'[p].captured = payments[p].captured
                /\ payments'[p].refunded = payments[p].refunded
                /\ p \in S => /\ payments[p].status = "captured"
                              /\ payments[p].merchant = m
                              /\ payments'[p].status = "settled"
                /\ p \notin S => payments'[p].status = payments[p].status
  <1> DEFINE row(p) == [payments[p] EXCEPT !.status = "settled"]
  <1>1. payments' = [p \in CreateReqs |-> IF p \in S THEN row(p) ELSE payments[p]]
    BY DEF SettleMerchant
  <1>2. \A p \in CreateReqs :
          /\ row(p) \in PaymentRow
          /\ row(p).merchant = payments[p].merchant /\ row(p).key = payments[p].key
          /\ row(p).amount = payments[p].amount /\ row(p).method = payments[p].method
          /\ row(p).captured = payments[p].captured
          /\ row(p).refunded = payments[p].refunded
          /\ row(p).status = "settled"
    BY DEF TypeOK, PaymentRow, Statuses
  <1>3. \A p \in S : payments[p].status = "captured" /\ payments[p].merchant = m
    BY DEF SettleMerchant, Due, Owns
  <1> HIDE DEF row
  <1>4. QED
    BY <1>1, <1>2, <1>3 DEF TypeOK

\* What the invariant of the payment service says of a row does not tell captured
\* from settled.
LEMMA SettleKeepsCaptured ==
    ASSUME TypeOK, NEW w \in Settlers, NEW m \in Merchants, NEW S \in SUBSET CreateReqs,
           SettleMerchant(w, m, S), NEW p \in CreateReqs
    PROVE  /\ Exists(p)' <=> Exists(p)
           /\ InCaptured(p)' <=> InCaptured(p)
           /\ \A s \in {"created", "cancelled", "authorized", "failed"} :
                payments'[p].status = s <=> payments[p].status = s
  BY SettleEffect DEF Exists, InCaptured

\* A settlement preserves the invariant of the payment service.
LEMMA SettleIInv ==
    ASSUME IInv, NEW w \in Settlers, NEW m \in Merchants, NEW S \in SUBSET CreateReqs,
           SettleMerchant(w, m, S)
    PROVE  IInv'
  <1>0. TypeOK /\ UNCHANGED <<refunds, ledger, outbox, acq, pc, req, reply>>
    BY DEF IInv, SettleMerchant
  <1> DEFINE Same(p) == /\ payments'[p].merchant = payments[p].merchant
                        /\ payments'[p].key = payments[p].key
                        /\ payments'[p].amount = payments[p].amount
                        /\ payments'[p].method = payments[p].method
                        /\ payments'[p].captured = payments[p].captured
                        /\ payments'[p].refunded = payments[p].refunded
  <1>1. \A p \in CreateReqs : Same(p)
    BY <1>0, SettleEffect
  <1>2. \A p \in CreateReqs :
          /\ Exists(p)' <=> Exists(p)
          /\ InCaptured(p)' <=> InCaptured(p)
          /\ \A s \in {"created", "cancelled", "authorized", "failed"} :
                payments'[p].status = s <=> payments[p].status = s
    BY <1>0, SettleKeepsCaptured
  <1>3. TypeOK'
    BY <1>0, SettleEffect DEF TypeOK
  <1>4. RequestInv'
    BY <1>0, <1>2 DEF IInv, RequestInv
  <1>5. RowInv'
    BY <1>0, <1>1, <1>2 DEF IInv, RowInv
  <1>6. KeyInv'
    BY <1>0, <1>1, <1>2 DEF IInv, KeyInv
  <1>7. AmountInv'
    BY <1>0, <1>1, <1>2 DEF IInv, AmountInv
  <1>8. CaptureInv'
    <2>1. \A c \in CaptureReqs : pc[c] = "capturing" => req[c].payment \in CreateReqs
      BY DEF IInv, RequestInv, Reqs
    <2>2. QED
      BY <1>0, <1>1, <1>2, <2>1 DEF IInv, CaptureInv
  <1>9. LedgerMatchesPayments'
    <2>1. \A e \in ledger : e.payment \in CreateReqs
      BY <1>0 DEF TypeOK, LedgerPair
    <2>2. QED
      BY <1>0, <1>1, <1>2, <2>1 DEF IInv, LedgerMatchesPayments
  <1>10. RefundInv'
    BY <1>0 DEF IInv, RefundInv
  <1>11. ToldIsTrue'
    <2>1. \A r \in Reqs : reply[r] = "captured" => req[r].payment \in CreateReqs
      BY DEF IInv, RequestInv, Statuses
    <2>2. QED
      BY <1>0, <1>2, <2>1 DEF IInv, ToldIsTrue
  <1>12. OutboxMatchesPayments'
    BY <1>0, <1>2 DEF IInv, OutboxMatchesPayments, Announced
  <1>13. QED
    BY <1>3, <1>4, <1>5, <1>6, <1>7, <1>8, <1>9, <1>10, <1>11, <1>12 DEF IInv

\* A step of the whole system is a step of the payment service, a settlement, or
\* changes no table.
LEMMA SysActions ==
    ASSUME [SysNext]_sysVars
    PROVE  \/ [Next]_vars /\ UNCHANGED <<settlements, balance>>
           \/ \E w \in Settlers, m \in Merchants, S \in SUBSET CreateReqs :
                SettleMerchant(w, m, S)
  BY DEF SysNext, Settle, StartBatch, CrashBatch, PassOver, svars, sysVars

\* Every step of the whole system preserves the payment service's invariant.
LEMMA SysIInvStep == IInv /\ [SysNext]_sysVars => IInv'
  BY SysActions, NextIInv, SettleIInv

\* The invariant of the payment service holds beside any number of workers.
THEOREM SysInvariance == SysSpec => []IInv
  <1>1. SysInit => IInv
    BY InitIInv DEF SysInit
  <1>2. QED
    BY <1>1, SysIInvStep, PTL DEF SysSpec

-----------------------------------------------------------------------------
(* Every payment is settled once.                                          *)

\* The settlements table is a sequence of settlements of payments.
Shape ==
    /\ \E R : settlements \in Seq(R)
    /\ \A i \in DOMAIN settlements : settlements[i].covers \subseteq CreateReqs

\* The payment service never writes status settled, and never a row that has it.
LEMMA SettledFrame ==
    ASSUME TypeOK, RequestInv, RowInv, [Next]_vars, NEW p \in CreateReqs
    PROVE  /\ payments'[p].status = "settled" <=> payments[p].status = "settled"
           /\ payments[p].status = "settled" =>
                 payments'[p].merchant = payments[p].merchant
  <1> DEFINE Goal == /\ payments'[p].status = "settled" <=> payments[p].status = "settled"
                     /\ payments[p].status = "settled" =>
                           payments'[p].merchant = payments[p].merchant
  <1> USE DEF Others, Unwritten
  <1>1. ASSUME NEW r \in CreateReqs, NEW m \in Merchants, NEW k \in Keys \cup {Null},
               NEW a \in Amounts, NEW method \in {"automatic", "manual"},
               InsertPayment(r, m, k, a, method)
        PROVE  Goal
    BY <1>1, InsertEffect
  <1>2. ASSUME NEW r \in CreateReqs, pc[r] \in {"fraud", "charging"}, FailPayment(r)
        PROVE  Goal
    BY <1>2, FailEffect
  <1>3. ASSUME NEW r \in CreateReqs, ChargeApproved(r)
        PROVE  Goal
    BY <1>3, ChargeEffect
  <1>4. ASSUME NEW r \in CaptureReqs, CaptureApproved(r)
        PROVE  Goal
    BY <1>4, CaptureEffect
  <1>5. ASSUME NEW r \in RefundReqs, NEW m \in Merchants, NEW k \in Keys \cup {Null},
               NEW q \in CreateReqs, NEW a \in Amounts \cup {0}, CreateRefund(r, m, k, q, a)
        PROVE  Goal
    BY <1>5, ReserveEffect
  <1>6. ASSUME NEW r \in CancelReqs, NEW m \in Merchants, NEW q \in CreateReqs,
               CancelPayment(r, m, q)
        PROVE  Goal
    BY <1>6, CancelEffect
  <1>7. ASSUME UNCHANGED <<payments, ledger>>
        PROVE  Goal
    BY <1>7
  <1> HIDE DEF Goal, Others, Unwritten
  <1>8. Goal
    BY <1>1, <1>2, <1>3, <1>4, <1>5, <1>6, <1>7, TableActions
  <1>9. QED
    BY <1>8 DEF Goal

\* A settlement covers captured rows, which no earlier settlement covers.
LEMMA SettleOnce ==
    ASSUME IInv, Shape, SettledOnce, NEW w \in Settlers, NEW m \in Merchants,
           NEW S \in SUBSET CreateReqs, SettleMerchant(w, m, S)
    PROVE  Shape' /\ SettledOnce'
  <1> DEFINE new == [merchant |-> m, covers |-> S, total |-> Total(S), net |-> Net(S)]
             n == Len(settlements)
  <1>1. PICK R : settlements \in Seq(R)
    BY DEF Shape
  <1>2. settlements' = Append(settlements, new) /\ new.covers = S /\ new.merchant = m
    BY DEF SettleMerchant
  <1> HIDE DEF new
  <1>3. settlements \in Seq(R \cup {new}) /\ new \in R \cup {new}
    BY <1>1
  <1>4. /\ settlements' \in Seq(R \cup {new})
        /\ n \in Nat
        /\ DOMAIN settlements = 1..n /\ DOMAIN settlements' = 1..(n + 1)
        /\ settlements'[n + 1] = new
        /\ \A i \in 1..n : settlements'[i] = settlements[i]
    BY <1>2, <1>3
  <1>5. Shape'
    BY <1>2, <1>4 DEF Shape
  <1> DEFINE Covered(p) == \E i \in 1..n : p \in settlements[i].covers
  <1>6. \A p \in CreateReqs : /\ p \in S => payments[p].status = "captured"
                              /\ p \in S => payments[p].merchant = m
                              /\ payments'[p].merchant = payments[p].merchant
                              /\ p \in S => payments'[p].status = "settled"
                              /\ p \notin S => payments'[p].status = payments[p].status
    BY SettleEffect DEF IInv
  <1>7. \A p \in CreateReqs : payments[p].status = "settled" <=> Covered(p)
    BY <1>4 DEF SettledOnce
  <1>8. \A i \in 1..n : settlements[i].covers \cap S = {}
    BY <1>4, <1>6, <1>7
  <1>9. \A p \in CreateReqs : payments'[p].status = "settled" <=>
          \E i \in 1..(n + 1) : p \in settlements'[i].covers
    <2>1. \A p \in CreateReqs : (\E i \in 1..(n + 1) : p \in settlements'[i].covers) <=>
                                   (Covered(p) \/ p \in S)
      <3>1. \A i \in 1..(n + 1) : i \in 1..n \/ i = n + 1
        BY <1>4
      <3>2. 1..n \subseteq 1..(n + 1) /\ n + 1 \in 1..(n + 1)
        BY <1>4
      <3>3. QED
        BY <1>2, <1>4, <3>1, <3>2
    <2>2. QED
      BY <1>6, <1>7, <2>1
  <1>10. \A i, j \in 1..(n + 1) :
           i # j => settlements'[i].covers \cap settlements'[j].covers = {}
    <2>1. \A i, j \in 1..n : i # j => settlements[i].covers \cap settlements[j].covers = {}
      BY <1>4 DEF SettledOnce
    <2>2. QED
      BY <1>2, <1>4, <1>8, <2>1
  <1>11. \A i \in 1..(n + 1) : \A p \in settlements'[i].covers :
           payments'[p].merchant = settlements'[i].merchant
    <2>1. \A i \in 1..n : \A p \in settlements[i].covers :
            p \in CreateReqs /\ payments[p].merchant = settlements[i].merchant
      BY <1>4 DEF SettledOnce, Shape
    <2>2. QED
      BY <1>2, <1>4, <1>6, <2>1
  <1>12. QED
    BY <1>4, <1>5, <1>9, <1>10, <1>11 DEF SettledOnce

\* Every payment is settled once, by its own merchant's settlement, for any
\* number of workers whose batches overlap, skip locked rows or die half way.
THEOREM PaidOnce == SysSpec => []SettledOnce
  <1> DEFINE Inv == IInv /\ Shape /\ SettledOnce
  <1>1. SysInit => Inv
    <2> SUFFICES ASSUME SysInit PROVE Inv
      OBVIOUS
    <2>1. IInv /\ settlements = <<>>
      BY InitIInv DEF SysInit
    <2>2. \A p \in CreateReqs : payments[p].status = "absent"
      BY DEF SysInit, Init, NoPayment
    <2>3. settlements \in Seq({}) /\ DOMAIN settlements = {}
      BY <2>1
    <2>4. QED
      BY <2>1, <2>2, <2>3 DEF Shape, SettledOnce
  <1>2. Inv /\ [SysNext]_sysVars => Inv'
    <2> SUFFICES ASSUME Inv, [SysNext]_sysVars PROVE Inv'
      OBVIOUS
    <2>1. IInv'
      BY SysIInvStep
    <2>2. CASE [Next]_vars /\ UNCHANGED <<settlements, balance>>
      <3>1. \A p \in CreateReqs :
              /\ payments'[p].status = "settled" <=> payments[p].status = "settled"
              /\ payments[p].status = "settled" =>
                    payments'[p].merchant = payments[p].merchant
        BY <2>2, SettledFrame DEF IInv
      <3>2. Shape'
        BY <2>2 DEF Shape
      <3>3. SettledOnce'
        BY <2>2, <3>1 DEF Shape, SettledOnce
      <3>4. QED
        BY <2>1, <3>2, <3>3
    <2>3. CASE \E w \in Settlers, m \in Merchants, S \in SUBSET CreateReqs :
                 SettleMerchant(w, m, S)
      BY <2>1, <2>3, SettleOnce
    <2>4. QED
      BY <2>2, <2>3, SysActions
  <1>3. QED
    BY <1>1, <1>2, PTL DEF SysSpec

\* No step of the whole system undoes a capture or a settlement.
THEOREM SettlementStable == SysSpec => SettledIsStable
  <1> DEFINE Stable ==
        \A p \in CreateReqs : InCaptured(p) =>
            /\ InCaptured(p)'
            /\ payments'[p].captured = payments[p].captured
            /\ payments'[p].refunded >= payments[p].refunded
            /\ payments[p].status = "settled" => payments'[p].status = "settled"
  <1>1. IInv /\ [SysNext]_sysVars => [Stable]_sysVars
    <2> SUFFICES ASSUME IInv, [SysNext]_sysVars PROVE Stable
      OBVIOUS
    <2>1. CASE [Next]_vars /\ UNCHANGED <<settlements, balance>>
      BY <2>1, StableStep, SettledFrame DEF IInv
    <2>2. ASSUME NEW w \in Settlers, NEW m \in Merchants, NEW S \in SUBSET CreateReqs,
                 SettleMerchant(w, m, S)
          PROVE  Stable
      BY <2>2, SettleEffect, SettleKeepsCaptured, RowTypes DEF IInv, InCaptured
    <2>3. QED
      BY <2>1, <2>2, SysActions
  <1>2. QED
    BY <1>1, SysInvariance, PTL DEF SysSpec, SettledIsStable

-----------------------------------------------------------------------------
(* What the settlements pay.                                               *)

\* The fee of settler.rs:91 never exceeds the amount.
LEMMA FeeWithin == ASSUME NEW n \in Nat PROVE Fee(n) =< n
  <1>0. Fee(n) \in Nat /\ ExactFee(n) \in Nat /\ Fee(n) =< ExactFee(n)
    BY FeeIsNat
  <1>1. FeeNum \in Nat /\ FeeDen \in Nat /\ FeeDen > 0 /\ FeeNum =< FeeDen
    BY FeeAssumption
  <1>2. n * FeeNum =< n * FeeDen
    BY <1>1
  <1>3. ExactFee(n) * FeeDen =< n * FeeNum
    BY <1>1, <1>0 DEF ExactFee
  <1>4. ExactFee(n) * FeeDen =< n * FeeDen
    <2>1. n * FeeNum \in Nat /\ n * FeeDen \in Nat /\ ExactFee(n) * FeeDen \in Nat
      BY <1>0, <1>1
    <2>2. QED
      BY <1>2, <1>3, <2>1
  <1>5. ExactFee(n) =< n
    BY <1>0, <1>1, <1>4
  <1>6. QED
    BY <1>0, <1>5

\* Without rounding errors, truncating once, on a sum, takes at least as much as
\* truncating twice.
LEMMA FeeOfSum ==
    ASSUME NEW a \in Nat, NEW b \in Nat
    PROVE  ExactFee(a) + ExactFee(b) =< ExactFee(a + b)
  <1> DEFINE x == a * FeeNum
             y == b * FeeNum
             d == FeeDen
  <1>1. x \in Nat /\ y \in Nat /\ d \in Nat /\ d > 0
    BY FeeAssumption
  <1>2. (a + b) * FeeNum = x + y
    BY FeeAssumption
  <1>3. /\ ExactFee(a) = x \div d /\ ExactFee(b) = y \div d
        /\ ExactFee(a + b) = (x + y) \div d
    BY <1>2 DEF ExactFee
  <1> HIDE DEF x, y, d
  <1>4. ASSUME NEW z \in Nat
        PROVE  z \div d \in Nat /\ d * (z \div d) =< z /\ z < d * (z \div d) + d
    BY <1>1
  <1>5. QED
    <2> DEFINE q == x \div d
               r == y \div d
               s == (x + y) \div d
    <2>1. /\ q \in Nat /\ d * q =< x
          /\ r \in Nat /\ d * r =< y
          /\ s \in Nat /\ x + y < d * s + d
      BY <1>1, <1>4
    <2> HIDE DEF q, r, s
    <2>2. d * (q + r) = d * q + d * r /\ d * (s + 1) = d * s + d
      BY <1>1, <2>1
    <2>3. d * q \in Nat /\ d * r \in Nat /\ d * s \in Nat
      BY <1>1, <2>1
    <2>4. d * (q + r) < d * (s + 1)
      BY <1>1, <2>1, <2>2, <2>3
    <2>5. q + r < s + 1
      BY <1>1, <2>1, <2>4
    <2>6. q + r =< s
      BY <2>1, <2>5
    <2>7. QED
      BY <1>3, <2>6 DEF q, r, s

\* What a batch pays is at most what its payments are worth one by one, and a unit
\* more if its total is short.
LEMMA NetBound ==
    ASSUME NEW T, IsFiniteSet(T), NEW c \in [T -> Nat]
    PROVE  SumOf(c) - Fee(SumOf(c)) =<
               SumOf([p \in T |-> c[p] - Fee(c[p])]) + (IF SumOf(c) \in Short THEN 1 ELSE 0)
  <1> DEFINE g == [p \in T |-> c[p] - Fee(c[p])]
             cOn(U) == [p \in U |-> c[p]]
             gOn(U) == [p \in U |-> g[p]]
             Good(U) == SumOf(cOn(U)) - ExactFee(SumOf(cOn(U))) =< SumOf(gOn(U))
             G == {U \in SUBSET T : Good(U)}
  <1>1. \A p \in T : c[p] \in Nat /\ g[p] \in Nat /\ g[p] = c[p] - Fee(c[p])
    BY FeeIsNat, FeeWithin
  <1>2. g = [p \in T |-> g[p]] /\ cOn(T) = c
    OBVIOUS
  <1> HIDE DEF g
  <1>3. {} \in G
    <2>1. SumOf(cOn({})) = 0 /\ SumOf(gOn({})) = 0
      BY SumEmpty
    <2>2. ExactFee(0) = 0
      BY FeeAssumption DEF ExactFee
    <2>3. QED
      BY <2>1, <2>2
  <1>4. ASSUME NEW U \in SUBSET T, NEW x \in T \ U, U \in G
        PROVE  U \cup {x} \in G
    <2> DEFINE V == U \cup {x}
               C == SumOf(cOn(U))
               W == SumOf(gOn(U))
    <2>1. IsFiniteSet(U) /\ V \in SUBSET T
      BY FS_Subset
    <2>2. /\ cOn(U) \in [U -> Nat] /\ gOn(U) \in [U -> Nat]
          /\ cOn(V) \in [V -> Nat] /\ gOn(V) \in [V -> Nat]
      BY <1>1
    <2>3. /\ [p \in U |-> cOn(V)[p]] = cOn(U) /\ cOn(V)[x] = c[x]
          /\ [p \in U |-> gOn(V)[p]] = gOn(U) /\ gOn(V)[x] = g[x]
      OBVIOUS
    <2>4. C - ExactFee(C) =< W
      BY <1>4
    <2> HIDE DEF cOn, gOn
    <2>5. C \in Nat /\ W \in Nat
      BY <2>1, <2>2, SumNat
    <2>6. SumOf(cOn(V)) = C + c[x] /\ SumOf(gOn(V)) = W + g[x]
      BY <2>1, <2>2, <2>3, SumAdd
    <2> HIDE DEF C, W
    <2>7. ExactFee(C) + ExactFee(c[x]) =< ExactFee(C + c[x])
      BY <1>1, <2>5, FeeOfSum
    <2>8. /\ ExactFee(C) \in Nat /\ ExactFee(c[x]) \in Nat /\ ExactFee(C + c[x]) \in Nat
          /\ Fee(c[x]) \in Nat /\ Fee(c[x]) =< ExactFee(c[x])
      BY <1>1, <2>5, FeeIsNat
    <2>9. (C + c[x]) - ExactFee(C + c[x]) =< W + g[x]
      BY <1>1, <2>4, <2>5, <2>7, <2>8
    <2>10. QED
      BY <2>1, <2>6, <2>9
  <1> HIDE DEF G
  <1>5. T \in G
    BY <1>3, <1>4, SubsetInduction
  <1>6. /\ SumOf(c) \in Nat /\ gOn(T) = g /\ SumOf(g) \in Nat
    <2>1. g \in [T -> Nat]
      BY <1>1, <1>2
    <2>2. QED
      BY <1>2, <2>1, SumNat
  <1>7. SumOf(c) - ExactFee(SumOf(c)) =< SumOf(g)
    BY <1>2, <1>5, <1>6 DEF G
  <1>8. /\ Fee(SumOf(c)) \in Nat /\ ExactFee(SumOf(c)) \in Nat
        /\ Fee(SumOf(c)) = IF SumOf(c) \in Short THEN ExactFee(SumOf(c)) - 1
                           ELSE ExactFee(SumOf(c))
    BY <1>6, FeeIsNat
  <1>9. SumOf(c) - Fee(SumOf(c)) =< SumOf(g) + (IF SumOf(c) \in Short THEN 1 ELSE 0)
    BY <1>6, <1>7, <1>8
  <1>10. QED
    BY <1>9 DEF g

\* A settlement changes none of the sums of the payment service.
LEMMA SettleMoney ==
    ASSUME MoneyInv, NEW w \in Settlers, NEW m \in Merchants, NEW S \in SUBSET CreateReqs,
           SettleMerchant(w, m, S)
    PROVE  MoneyInv'
  <1>0. IInv /\ TypeOK /\ UNCHANGED <<ledger, pc, req>>
    BY DEF MoneyInv, IInv, SettleMerchant
  <1>1. \A p \in CreateReqs : /\ Exists(p)' <=> Exists(p)
                              /\ payments'[p].refunded = payments[p].refunded
    BY <1>0, SettleEffect, SettleKeepsCaptured
  <1>2. {p \in CreateReqs : Exists(p)}' = {p \in CreateReqs : Exists(p)}
    BY <1>1
  <1>3. TraceInv'
    BY <1>0, <1>2 DEF MoneyInv, TraceInv
  <1>4. ASSUME NEW p \in CreateReqs
        PROVE  RefundsOf(p)' = RefundsOf(p) /\ PairSum(p, "refund")' = PairSum(p, "refund")
    BY <1>0 DEF RefundsOf, PairSum
  <1>5. RefundedInv'
    BY <1>0, <1>1, <1>4 DEF MoneyInv, RefundedInv
  <1>6. QED
    BY <1>0, <1>3, <1>5, SettleIInv DEF MoneyInv

\* What a settlement adds up: finitely many rows, each with its captured amount.
LEMMA SettleTotals ==
    ASSUME MoneyInv, NEW w \in Settlers, NEW m \in Merchants, NEW S \in SUBSET CreateReqs,
           SettleMerchant(w, m, S)
    PROVE  /\ IsFiniteSet(S)
           /\ [p \in S |-> payments[p].captured] \in [S -> Nat]
           /\ Total(S) = SumOf([p \in S |-> payments[p].captured])
           /\ Total(S) \in Nat
           /\ Net(S) \in Int
  <1> DEFINE c == [p \in S |-> payments[p].captured]
  <1>0. TypeOK /\ AmountInv
    BY DEF MoneyInv, IInv
  <1>1. \A p \in S : p \in CreateReqs /\ Exists(p) /\ InCaptured(p)
    BY <1>0, SettleEffect DEF Exists, InCaptured
  <1>2. IsFiniteSet(S)
    <2>1. S \subseteq {p \in CreateReqs : Exists(p)}
      BY <1>1
    <2>2. QED
      BY <2>1, FS_Subset DEF MoneyInv, TraceInv
  <1>3. \A p \in S : /\ payments[p].captured \in Nat
                     /\ CapturedOrAmount(payments[p]) = payments[p].captured
    BY <1>0, <1>1, RowTypes DEF AmountInv, CapturedOrAmount
  <1>4. c \in [S -> Nat] /\ Total(S) = SumOf(c)
    BY <1>3 DEF Total
  <1> HIDE DEF c
  <1>5. Total(S) \in Nat
    BY <1>2, <1>4, SumNat
  <1>6. Net(S) \in Int
    BY <1>5, FeeIsNat DEF Net
  <1>7. QED
    BY <1>2, <1>4, <1>5, <1>6 DEF c

\* The worker's variables keep their types.
LEMMA SettlementTypeStep ==
    ASSUME MoneyInv, SettlementTypeOK, [SysNext]_sysVars
    PROVE  SettlementTypeOK'
  <1>1. todo' \in [Settlers -> SUBSET Merchants]
    <2>0. todo \in [Settlers -> SUBSET Merchants]
      BY DEF SettlementTypeOK
    <2>1. ASSUME NEW w \in Settlers, StartBatch(w) \/ CrashBatch(w)
          PROVE  todo' \in [Settlers -> SUBSET Merchants]
      <3>1. PICK T \in SUBSET Merchants : todo' = [todo EXCEPT ![w] = T]
        BY <2>1 DEF StartBatch, CrashBatch
      <3>2. QED
        BY <2>0, <3>1
    <2>2. ASSUME NEW w \in Settlers, NEW m \in Merchants, NEW S \in SUBSET CreateReqs,
                 PassOver(w, m) \/ SettleMerchant(w, m, S)
          PROVE  todo' \in [Settlers -> SUBSET Merchants]
      <3>1. todo' = [todo EXCEPT ![w] = todo[w] \ {m}]
        BY <2>0, <2>2 DEF PassOver, SettleMerchant
      <3>2. QED
        BY <2>0, <3>1
    <2>3. CASE UNCHANGED todo
      BY <2>0, <2>3
    <2>4. QED
      BY <2>1, <2>2, <2>3 DEF SysNext, Settle, svars, sysVars
  <1>2. ASSUME NEW w \in Settlers, NEW m \in Merchants, NEW S \in SUBSET CreateReqs,
               SettleMerchant(w, m, S)
        PROVE  SettlementTypeOK'
    <2> DEFINE new == [merchant |-> m, covers |-> S, total |-> Total(S), net |-> Net(S)]
               b == [available |-> balance[m].available + Net(S),
                     pending |-> Less(balance[m].pending, Total(S))]
    <2>1. Total(S) \in Nat /\ Net(S) \in Int
      BY <1>2, SettleTotals
    <2>2. new \in SettlementRow
      BY <2>1 DEF SettlementRow
    <2>3. balance[m].available \in Int /\ balance[m].pending \in Nat
      BY DEF SettlementTypeOK
    <2>4. Less(balance[m].pending, Total(S)) \in Nat
      BY <2>1, <2>3 DEF Less
    <2>5. b \in [available: Int, pending: Nat]
      BY <2>1, <2>3, <2>4
    <2>6. settlements' = Append(settlements, new) /\ balance' = [balance EXCEPT ![m] = b]
      BY <1>2 DEF SettleMerchant
    <2> HIDE DEF new, b
    <2>7. settlements' \in Seq(SettlementRow)
      BY <2>2, <2>6 DEF SettlementTypeOK
    <2>8. balance' \in [Merchants -> [available: Int, pending: Nat]]
      BY <2>5, <2>6 DEF SettlementTypeOK
    <2>9. QED
      BY <1>1, <2>7, <2>8 DEF SettlementTypeOK
  <1>3. CASE UNCHANGED <<settlements, balance>>
    BY <1>1, <1>3 DEF SettlementTypeOK
  <1>4. QED
    BY <1>2, <1>3, SysActions

\* The short settlements of a merchant are counted, and a settlement adds one if its
\* own total is short.
LEMMA ShortCount ==
    ASSUME SettlementTypeOK, NEW n \in Merchants
    PROVE  /\ Cardinality(ShortSettlements(n)) \in Nat
           /\ \A w \in Settlers, m \in Merchants, S \in SUBSET CreateReqs :
                 SettleMerchant(w, m, S) =>
                    Cardinality(ShortSettlements(n)') = Cardinality(ShortSettlements(n))
                        + (IF n = m /\ Total(S) \in Short THEN 1 ELSE 0)
  <1>1. settlements \in Seq(SettlementRow) /\ Len(settlements) \in Nat
    BY DEF SettlementTypeOK
  <1>2. ShortSettlements(n) \subseteq 1..Len(settlements)
    BY <1>1 DEF ShortSettlements
  <1>3. IsFiniteSet(1..Len(settlements))
    BY <1>1, FS_Interval
  <1>4. IsFiniteSet(ShortSettlements(n))
    BY <1>2, <1>3, FS_Subset
  <1>5. Cardinality(ShortSettlements(n)) \in Nat
    BY <1>4, FS_CardinalityType
  <1>6. ASSUME NEW w \in Settlers, NEW m \in Merchants, NEW S \in SUBSET CreateReqs,
               SettleMerchant(w, m, S)
        PROVE  Cardinality(ShortSettlements(n)') = Cardinality(ShortSettlements(n))
                    + (IF n = m /\ Total(S) \in Short THEN 1 ELSE 0)
    <2> DEFINE new == [merchant |-> m, covers |-> S, total |-> Total(S), net |-> Net(S)]
               k == Len(settlements) + 1
    <2>1. settlements' = Append(settlements, new)
      BY <1>6 DEF SettleMerchant
    <2>2. new.merchant = m /\ new.total = Total(S)
      OBVIOUS
    <2> HIDE DEF new
    <2>3. /\ DOMAIN settlements = 1..Len(settlements)
          /\ DOMAIN settlements' = 1..k /\ settlements'[k] = new
          /\ \A i \in 1..Len(settlements) : settlements'[i] = settlements[i]
      BY <1>1, <2>1
    <2>4. k \notin 1..Len(settlements) /\ 1..k = (1..Len(settlements)) \cup {k}
      BY <1>1
    <2> HIDE DEF k
    <2>5. ShortSettlements(n)' = {i \in DOMAIN settlements' :
            settlements'[i].merchant = n /\ settlements'[i].total \in Short}
      BY DEF ShortSettlements
    <2>6. CASE n = m /\ Total(S) \in Short
      <3>1. ShortSettlements(n)' = ShortSettlements(n) \cup {k}
        BY <2>2, <2>3, <2>4, <2>5, <2>6 DEF ShortSettlements
      <3>2. k \notin ShortSettlements(n)
        BY <1>2, <2>4
      <3>3. QED
        BY <1>4, <2>6, <3>1, <3>2, FS_AddElement
    <2>7. CASE ~(n = m /\ Total(S) \in Short)
      <3>1. ShortSettlements(n)' = ShortSettlements(n)
        BY <2>2, <2>3, <2>4, <2>5, <2>7 DEF ShortSettlements
      <3>2. QED
        BY <1>5, <2>7, <3>1
    <2>8. QED
      BY <2>6, <2>7
  <1>7. QED
    BY <1>5, <1>6

\* A settlement pays a merchant at most what the payments it settles are worth, and
\* a unit more if its total is short.
LEMMA SettlePays ==
    ASSUME MoneyInv, SettlementTypeOK, PaidWithinCaptures, NEW w \in Settlers,
           NEW m \in Merchants, NEW S \in SUBSET CreateReqs, SettleMerchant(w, m, S)
    PROVE  PaidWithinCaptures'
  <1> DEFINE worth(p) == payments[p].captured - Fee(payments[p].captured)
             paid(n) == [p \in SettledFor(n) |-> worth(p)]
  <1>0. TypeOK
    BY DEF MoneyInv, IInv
  <1>1. \A p \in CreateReqs :
          /\ payments'[p].captured = payments[p].captured
          /\ payments'[p].merchant = payments[p].merchant
          /\ p \in S => /\ payments[p].status = "captured" /\ payments[p].merchant = m
                        /\ payments'[p].status = "settled"
          /\ p \notin S => payments'[p].status = payments[p].status
    BY <1>0, SettleEffect
  <1>2. \A p \in CreateReqs : worth(p) \in Nat /\ payments[p].captured \in Nat
    BY <1>0, RowTypes, FeeIsNat, FeeWithin
  <1>s. \A n \in Merchants :
          /\ Cardinality(ShortSettlements(n)) \in Nat
          /\ Cardinality(ShortSettlements(n)') = Cardinality(ShortSettlements(n))
                + (IF n = m /\ Total(S) \in Short THEN 1 ELSE 0)
    BY ShortCount
  <1>3. \A n \in Merchants :
          /\ balance[n].available \in Int
          /\ balance[n].available =< SumOf(paid(n)) + Cardinality(ShortSettlements(n))
    BY DEF SettlementTypeOK, PaidWithinCaptures
  <1>4. /\ balance'[m].available = balance[m].available + Net(S)
        /\ \A n \in Merchants : n # m => balance'[n] = balance[n]
    BY DEF SettleMerchant, SettlementTypeOK
  <1>5. ASSUME NEW n \in Merchants
        PROVE  SumOf([p \in SettledFor(n)' |->
                         payments'[p].captured - Fee(payments'[p].captured)]) =
               SumOf([p \in SettledFor(n)' |-> worth(p)])
    BY <1>1 DEF SettledFor
  <1>6. ASSUME NEW n \in Merchants, n # m
        PROVE  balance'[n].available =<
                   SumOf([p \in SettledFor(n)' |-> worth(p)]) + Cardinality(ShortSettlements(n)')
    <2>1. SettledFor(n)' = SettledFor(n)
      BY <1>1, <1>6 DEF SettledFor
    <2>2. Cardinality(ShortSettlements(n)') = Cardinality(ShortSettlements(n))
      BY <1>6, <1>s
    <2>3. QED
      BY <1>3, <1>4, <1>6, <2>1, <2>2
  <1>7. balance'[m].available =<
            SumOf([p \in SettledFor(m)' |-> worth(p)]) + Cardinality(ShortSettlements(m)')
    <2> DEFINE T == SettledFor(m)
               c == [p \in S |-> payments[p].captured]
               all == [p \in T \cup S |-> worth(p)]
    <2>1. SettledFor(m)' = T \cup S /\ T \cap S = {}
      BY <1>1 DEF SettledFor
    <2>2. T \subseteq {p \in CreateReqs : Exists(p)} /\ T \subseteq CreateReqs
      BY DEF SettledFor, Exists
    <2>3. IsFiniteSet(T)
      BY <2>2, FS_Subset DEF MoneyInv, TraceInv
    <2>4. /\ IsFiniteSet(S) /\ c \in [S -> Nat] /\ Total(S) = SumOf(c)
          /\ Total(S) \in Nat /\ Net(S) \in Int
      BY SettleTotals
    <2>5. [p \in S |-> c[p] - Fee(c[p])] = [p \in S |-> worth(p)]
      OBVIOUS
    <2>6. SumOf(c) - Fee(SumOf(c)) =<
            SumOf([p \in S |-> c[p] - Fee(c[p])]) + (IF SumOf(c) \in Short THEN 1 ELSE 0)
      BY <2>4, NetBound
    <2>7. Net(S) =< SumOf([p \in S |-> worth(p)]) + (IF Total(S) \in Short THEN 1 ELSE 0)
      BY <2>4, <2>5, <2>6 DEF Net
    <2> HIDE DEF T, c, worth
    <2>8. all \in [T \cup S -> Nat]
      BY <1>2, <2>2
    <2>9. /\ [p \in T |-> all[p]] = [p \in T |-> worth(p)]
          /\ [p \in S |-> all[p]] = [p \in S |-> worth(p)]
      OBVIOUS
    <2>10. /\ [p \in T |-> worth(p)] \in [T -> Nat]
           /\ [p \in S |-> worth(p)] \in [S -> Nat]
      BY <1>2, <2>2
    <2> HIDE DEF all
    <2>11. SumOf(all) = SumOf([p \in T |-> all[p]]) + SumOf([p \in S |-> all[p]])
      BY <2>1, <2>3, <2>4, <2>8, SumDisjoint
    <2>12. /\ SumOf([p \in T |-> worth(p)]) \in Nat
           /\ SumOf([p \in S |-> worth(p)]) \in Nat
      BY <2>3, <2>4, <2>10, SumNat
    <2>13. /\ balance[m].available \in Int
           /\ balance[m].available =<
                 SumOf([p \in T |-> worth(p)]) + Cardinality(ShortSettlements(m))
      BY <1>3 DEF T
    <2>s. /\ Cardinality(ShortSettlements(m)) \in Nat
          /\ Cardinality(ShortSettlements(m)') = Cardinality(ShortSettlements(m))
                + (IF Total(S) \in Short THEN 1 ELSE 0)
      BY <1>s
    <2>14. balance'[m].available =< SumOf(all) + Cardinality(ShortSettlements(m)')
      BY <1>4, <2>4, <2>7, <2>9, <2>11, <2>12, <2>13, <2>s
    <2>15. QED
      BY <2>1, <2>14 DEF all
  <1> HIDE DEF worth
  <1>8. ASSUME NEW n \in Merchants
        PROVE  balance'[n].available =<
                 SumOf([p \in SettledFor(n)' |->
                           payments'[p].captured - Fee(payments'[p].captured)])
                 + Cardinality(ShortSettlements(n)')
    BY <1>5, <1>6, <1>7
  <1>9. QED
    BY <1>8 DEF PaidWithinCaptures

\* No other step changes what the settled payments are worth.
LEMMA PaidFrame ==
    ASSUME IInv, PaidWithinCaptures, [Next]_vars, UNCHANGED <<settlements, balance>>
    PROVE  PaidWithinCaptures'
  <1>1. \A p \in CreateReqs :
          /\ payments'[p].status = "settled" <=> payments[p].status = "settled"
          /\ payments[p].status = "settled" =>
                /\ payments'[p].merchant = payments[p].merchant
                /\ payments'[p].captured = payments[p].captured
    BY SettledFrame, StableStep DEF IInv, InCaptured
  <1>2. ASSUME NEW m \in Merchants
        PROVE  balance'[m].available =<
                 SumOf([p \in SettledFor(m)' |->
                           payments'[p].captured - Fee(payments'[p].captured)])
                 + Cardinality(ShortSettlements(m)')
    <2>1. SettledFor(m)' = SettledFor(m)
      BY <1>1 DEF SettledFor
    <2>2. \A p \in SettledFor(m) : payments'[p].captured = payments[p].captured
      BY <1>1 DEF SettledFor
    <2>3. [p \in SettledFor(m)' |-> payments'[p].captured - Fee(payments'[p].captured)] =
            [p \in SettledFor(m) |-> payments[p].captured - Fee(payments[p].captured)]
      BY <2>1, <2>2
    <2>4. ShortSettlements(m)' = ShortSettlements(m)
      BY DEF ShortSettlements
    <2>5. QED
      BY <2>3, <2>4 DEF PaidWithinCaptures
  <1>3. QED
    BY <1>2 DEF PaidWithinCaptures

\* The sums of the payment service, the types of the worker's variables and the
\* bound on what it pays, together.
PayInv == MoneyInv /\ SettlementTypeOK /\ PaidWithinCaptures

\* PayInv holds in every reachable state of the payment service and the workers.
THEOREM PayInvariance == SysSpec => []PayInv
  <1>1. SysInit => PayInv
    <2> SUFFICES ASSUME SysInit PROVE PayInv
      OBVIOUS
    <2>1. MoneyInv
      BY InitMoney DEF SysInit
    <2>2. SettlementTypeOK
      BY DEF SysInit, SettlementTypeOK
    <2>3. ASSUME NEW m \in Merchants
          PROVE  balance[m].available =<
                   SumOf([p \in SettledFor(m) |->
                             payments[p].captured - Fee(payments[p].captured)])
                   + Cardinality(ShortSettlements(m))
      <3>1. SettledFor(m) = {}
        BY DEF SysInit, Init, NoPayment, SettledFor
      <3>2. SumOf([p \in {} |-> payments[p].captured - Fee(payments[p].captured)]) = 0
        BY SumEmpty
      <3>3. balance[m].available = 0
        BY DEF SysInit
      <3>4. Cardinality(ShortSettlements(m)) \in Nat
        BY <2>2, ShortCount
      <3>5. QED
        BY <3>1, <3>2, <3>3, <3>4
    <2>4. QED
      BY <2>1, <2>2, <2>3 DEF PayInv, PaidWithinCaptures
  <1>2. PayInv /\ [SysNext]_sysVars => PayInv'
    <2> SUFFICES ASSUME PayInv, [SysNext]_sysVars PROVE PayInv'
      OBVIOUS
    <2>0. MoneyInv /\ IInv /\ SettlementTypeOK /\ PaidWithinCaptures
      BY DEF PayInv, MoneyInv
    <2>1. SettlementTypeOK'
      BY <2>0, SettlementTypeStep
    <2>2. CASE [Next]_vars /\ UNCHANGED <<settlements, balance>>
      <3>1. MoneyInv'
        BY <2>0, <2>2, MoneyStep
      <3>2. PaidWithinCaptures'
        BY <2>0, <2>2, PaidFrame
      <3>3. QED
        BY <2>1, <3>1, <3>2 DEF PayInv
    <2>3. CASE \E w \in Settlers, m \in Merchants, S \in SUBSET CreateReqs :
                 SettleMerchant(w, m, S)
      BY <2>0, <2>1, <2>3, SettleMoney, SettlePays DEF PayInv
    <2>4. QED
      BY <2>2, <2>3, SysActions
  <1>3. QED
    BY <1>1, <1>2, PTL DEF SysSpec

\* The settlements, the balances and the batches are typed; in particular a
\* pending balance never falls below zero.
THEOREM SettlementTypes == SysSpec => []SettlementTypeOK
  <1>1. PayInv => SettlementTypeOK
    BY DEF PayInv
  <1>2. QED
    BY <1>1, PayInvariance, PTL

\* For every fee rate and every set of amounts that f64 truncates short, and however
\* the workers cut the due payments into batches, a merchant is paid at most what
\* its settled payments are worth and a unit for each settlement that is short.
THEOREM NeverOverpaid == SysSpec => []PaidWithinCaptures
  <1>1. PayInv => PaidWithinCaptures
    BY DEF PayInv
  <1>2. QED
    BY <1>1, PayInvariance, PTL

\* The ledger and the rows agree on what a merchant is owed while any number of
\* workers settles payments.
THEOREM BooksBalanceBesideSettlement == SysSpec => []PayableMatchesRows
  <1>1. PayInv => PayableMatchesRows
    BY MoneyPayable DEF PayInv
  <1>2. QED
    BY <1>1, PayInvariance, PTL

-----------------------------------------------------------------------------
(* Reconciliation.                                                         *)

\* What the other services may do to a payment: a charge stays made, a capture
\* stays booked, and a payment keeps its amount, which its request asked for.
PaymentMove(p) ==
    /\ acq[p] = "done" => acq'[p] = "done"
    /\ payments[p].captured > 0 => payments'[p].captured > 0
    /\ Exists(p) => /\ Exists(p)' /\ payments'[p].amount = payments[p].amount
                    /\ req'[p] = req[p]
    /\ ~Exists(p) /\ Exists(p)' => req'[p].amount = payments'[p].amount

\* A charge that was made stays made.
LEMMA ChargesStay ==
    ASSUME TypeOK, RequestInv, RowInv, [Next]_vars, NEW p \in CreateReqs, acq[p] = "done"
    PROVE  acq'[p] = "done"
  <1>0. p \in Reqs /\ acq \in [Reqs -> {"none", "sent", "done", "refused"}]
    BY DEF TypeOK, Reqs
  <1>1. ASSUME NEW r \in Reqs, acq[r] # "done", NEW x, acq' = [acq EXCEPT ![r] = x]
        PROVE  acq'[p] = "done"
    BY <1>0, <1>1
  <1>2. ASSUME NEW r \in CreateReqs, FraudPassed(r) PROVE acq'[p] = "done"
    BY <1>1, <1>2 DEF FraudPassed, RowInv, Reqs
  <1>3. ASSUME NEW r \in CaptureReqs, NEW m, NEW q, NEW a, StartCapture(r, m, q, a)
        PROVE  acq'[p] = "done"
    BY <1>1, <1>3 DEF StartCapture, RequestInv, Reqs
  <1>4. ASSUME NEW r \in RefundReqs, NEW m, NEW k, NEW q, NEW a, CreateRefund(r, m, k, q, a)
        PROVE  acq'[p] = "done"
    BY <1>1, <1>4 DEF CreateRefund, RequestInv, Reqs
  <1>5. ASSUME NEW r \in Reqs, AcquirerAccepts(r) \/ AcquirerRefuses(r)
        PROVE  acq'[p] = "done"
    BY <1>1, <1>5 DEF AcquirerAccepts, AcquirerRefuses
  <1>6. ASSUME acq' = acq PROVE acq'[p] = "done"
    BY <1>6
  <1>7. QED
    BY <1>2, <1>3, <1>4, <1>5, <1>6
    DEF Next, Arrival, CreateStep, CaptureStep, RefundStep, InsertPayment, ReplayPayment,
        FraudBlocked, FailPayment, ChargeApproved, ChargeUnrecorded, ChargeFailed,
        CaptureApproved, CaptureFailed, RefundSucceeded, RefundAnnounced, RefundFailed,
        CancelPayment, Reject, Abandon, vars

\* A request that is under way or answered is not written again.
LEMMA RequestsStay ==
    ASSUME TypeOK, [Next]_vars, NEW p \in CreateReqs, pc[p] # "idle"
    PROVE  req'[p] = req[p]
  <1>0. p \in Reqs /\ req \in [Reqs -> Request]
    BY DEF TypeOK, Reqs
  <1>1. ASSUME NEW r \in Reqs, pc[r] = "idle", NEW x, req' = [req EXCEPT ![r] = x]
        PROVE  req'[p] = req[p]
    BY <1>0, <1>1
  <1>2. ASSUME NEW r \in CreateReqs, NEW m, NEW k, NEW a,
               (\E method \in {"automatic", "manual"} : InsertPayment(r, m, k, a, method))
                  \/ ReplayPayment(r, m, k, a)
        PROVE  req'[p] = req[p]
    BY <1>1, <1>2 DEF InsertPayment, ReplayPayment, Reqs
  <1>3. ASSUME NEW r \in CaptureReqs, NEW m, NEW q, NEW a, StartCapture(r, m, q, a)
        PROVE  req'[p] = req[p]
    BY <1>1, <1>3 DEF StartCapture, Reqs
  <1>4. ASSUME NEW r \in RefundReqs, NEW m, NEW k, NEW q, NEW a, CreateRefund(r, m, k, q, a)
        PROVE  req'[p] = req[p]
    BY <1>1, <1>4 DEF CreateRefund, Reqs
  <1>5. ASSUME NEW r \in CancelReqs, NEW m, NEW q, CancelPayment(r, m, q)
        PROVE  req'[p] = req[p]
    BY <1>1, <1>5 DEF CancelPayment, Reqs
  <1>6. ASSUME req' = req PROVE req'[p] = req[p]
    BY <1>6
  <1>7. QED
    BY <1>2, <1>3, <1>4, <1>5, <1>6
    DEF Next, Arrival, CreateStep, CaptureStep, RefundStep, FraudPassed,
        FraudBlocked, FailPayment, ChargeApproved, ChargeUnrecorded, ChargeFailed,
        CaptureApproved, CaptureFailed, RefundSucceeded, RefundAnnounced, RefundFailed,
        Reject, Abandon, AcquirerAccepts, AcquirerRefuses, vars

\* A payment keeps its amount, and a new one has that of its request.
LEMMA AmountsStay ==
    ASSUME TypeOK, RequestInv, RowInv, [Next]_vars, NEW p \in CreateReqs
    PROVE  /\ Exists(p) => Exists(p)' /\ payments'[p].amount = payments[p].amount
           /\ ~Exists(p) /\ Exists(p)' => req'[p].amount = payments'[p].amount
  <1> DEFINE Goal == /\ Exists(p) => Exists(p)' /\ payments'[p].amount = payments[p].amount
                     /\ ~Exists(p) /\ Exists(p)' => req'[p].amount = payments'[p].amount
  <1> USE DEF Others, Unwritten, Exists
  <1>1. ASSUME NEW r \in CreateReqs, NEW m \in Merchants, NEW k \in Keys \cup {Null},
               NEW a \in Amounts, NEW method \in {"automatic", "manual"},
               InsertPayment(r, m, k, a, method)
        PROVE  Goal
    <2>1. payments[r].status = "absent" /\ Others(r)
      BY <1>1, InsertEffect
    <2>2. payments'[r].amount = a /\ req'[r].amount = a
      BY <1>1 DEF InsertPayment, TypeOK, Reqs
    <2>3. QED
      BY <2>1, <2>2
  <1>2. ASSUME NEW r \in CreateReqs, pc[r] \in {"fraud", "charging"}, FailPayment(r)
        PROVE  Goal
    BY <1>2, FailEffect
  <1>3. ASSUME NEW r \in CreateReqs, ChargeApproved(r)
        PROVE  Goal
    BY <1>3, ChargeEffect
  <1>4. ASSUME NEW r \in CaptureReqs, CaptureApproved(r)
        PROVE  Goal
    BY <1>4, CaptureEffect
  <1>5. ASSUME NEW r \in RefundReqs, NEW m \in Merchants, NEW k \in Keys \cup {Null},
               NEW q \in CreateReqs, NEW a \in Amounts \cup {0}, CreateRefund(r, m, k, q, a)
        PROVE  Goal
    BY <1>5, ReserveEffect
  <1>6. ASSUME NEW r \in CancelReqs, NEW m \in Merchants, NEW q \in CreateReqs,
               CancelPayment(r, m, q)
        PROVE  Goal
    BY <1>6, CancelEffect
  <1>7. ASSUME payments' = payments PROVE Goal
    BY <1>7
  <1> HIDE DEF Goal
  <1>8. Goal
    BY <1>1, <1>2, <1>3, <1>4, <1>5, <1>6, <1>7, TableActions
  <1>9. QED
    BY <1>8 DEF Goal

\* Every step of the payment service or of a settlement worker is such a move.
LEMMA PaymentMoves ==
    ASSUME IInv, [SysNext]_sysVars, NEW p \in CreateReqs
    PROVE  PaymentMove(p)
  <1>0. /\ TypeOK /\ RequestInv /\ RowInv /\ AmountInv
        /\ payments[p].captured \in Nat
    BY RowTypes DEF IInv
  <1>1. CASE [Next]_vars
    <2>1. acq[p] = "done" => acq'[p] = "done"
      BY <1>0, <1>1, ChargesStay
    <2>2. payments[p].captured > 0 => payments'[p].captured > 0
      BY <1>0, <1>1, StableStep DEF AmountInv
    <2>3. Exists(p) => req'[p] = req[p]
      BY <1>0, <1>1, RequestsStay DEF RowInv
    <2>4. QED
      BY <1>0, <1>1, <2>1, <2>2, <2>3, AmountsStay DEF PaymentMove
  <1>2. ASSUME NEW w \in Settlers, NEW m \in Merchants, NEW S \in SUBSET CreateReqs,
               SettleMerchant(w, m, S)
        PROVE  PaymentMove(p)
    <2>1. acq' = acq /\ req' = req
      BY <1>2 DEF SettleMerchant
    <2>2. /\ payments'[p].captured = payments[p].captured
          /\ payments'[p].amount = payments[p].amount
      BY <1>0, <1>2, SettleEffect
    <2>3. Exists(p)' <=> Exists(p)
      BY <1>0, <1>2, SettleKeepsCaptured
    <2>4. QED
      BY <2>1, <2>2, <2>3 DEF PaymentMove
  <1>3. QED
    BY <1>1, <1>2, SysActions

-----------------------------------------------------------------------------
(* The run                                                                 *)

\* The clock and the period are numbers.
LEMMA Numbers ==
    ASSUME ReconciliationTypeOK
    PROVE  /\ clock \in Int /\ MaxClock \in Nat /\ Period \in Nat /\ clock - Period \in Int
           /\ Skew \in Nat
           /\ run.start \in Int /\ run.end \in Int
           /\ \A p \in CreateReqs : createdAt[p] \in Int /\ capturedAt[p] \in Int
  BY ReconciliationAssumption DEF ReconciliationTypeOK, RunState

\* A payment that counts as captured has its charge.
LEMMA CapturedHasCharge ==
    ASSUME IInv, NEW p \in CreateReqs, payments[p].captured > 0
    PROVE  InCaptured(p) /\ Exists(p) /\ acq[p] = "done"
  BY DEF IInv, AmountInv, RowInv, InCaptured, Exists

\* The other services neither move the dates of what was charged and captured nor
\* take a payment out of the period.
LEMMA BusinessStep ==
    ASSUME OfficeInv, Business \/ UNCHANGED officeVars
    PROVE  OfficeInv'
  <1>0. /\ IInv /\ ReconciliationTypeOK /\ ChargedBefore /\ RunInv
        /\ AlarmsAreExplained /\ NothingOverlooked /\ TypeOK
    BY DEF OfficeInv, IInv
  <1>1. [SysNext]_sysVars /\ UNCHANGED <<byChargeId, clock, reversed, run, mismatches>>
    BY DEF Business, officeVars, rvars
  <1>2. IInv'
    BY <1>0, <1>1, SysIInvStep
  <1>3. \A p \in CreateReqs : PaymentMove(p)
    BY <1>0, <1>1, PaymentMoves
  <1>4. \A p \in CreateReqs : payments[p].captured \in Nat /\ payments'[p].captured \in Nat
    BY <1>0, <1>2 DEF IInv, TypeOK, PaymentRow
  <1>5. /\ createdAt' \in [CreateReqs -> Int] /\ capturedAt' \in [CreateReqs -> Int]
        /\ \A p \in CreateReqs :
              /\ createdAt'[p] = createdAt[p] \/ createdAt'[p] =< clock + Skew
              /\ acq[p] = "done" => createdAt'[p] = createdAt[p]
              /\ payments[p].captured > 0 => capturedAt'[p] = capturedAt[p]
    <2>1. CASE UNCHANGED officeVars
      BY <1>0, <1>4, <2>1 DEF officeVars, rvars, ReconciliationTypeOK, sysVars, vars
    <2>2. CASE Business
      <3>1. clock \in Int /\ Skew \in Nat /\ createdAt \in [CreateReqs -> Int]
            /\ capturedAt \in [CreateReqs -> Int]
        BY <1>0, Numbers DEF ReconciliationTypeOK
      <3>2. PICK made \in Dates : createdAt' = [p \in CreateReqs |->
               IF acq[p] # "done" /\ acq'[p] = "done" THEN made ELSE createdAt[p]]
        BY <2>2 DEF Business
      <3>3. PICK booked \in Dates : capturedAt' = [p \in CreateReqs |->
               IF payments[p].captured = 0 /\ payments'[p].captured > 0 THEN booked
               ELSE capturedAt[p]]
        BY <2>2 DEF Business
      <3>4. /\ made \in Int /\ made =< clock + Skew /\ booked \in Int
        BY <3>1, <3>2, <3>3 DEF Dates
      <3>5. QED
        BY <1>4, <3>1, <3>2, <3>3, <3>4
    <2>3. QED
      BY <2>1, <2>2
  <1>6. ReconciliationTypeOK'
    BY <1>0, <1>1, <1>5 DEF ReconciliationTypeOK
  <1>7. ChargedBefore'
    <2>1. ASSUME NEW p \in CreateReqs
          PROVE  /\ createdAt'[p] =< clock + Skew
                 /\ Exists(p)' => req'[p].amount = payments'[p].amount
      <3>1. /\ createdAt[p] =< clock + Skew
            /\ Exists(p) => req[p].amount = payments[p].amount
        BY <1>0 DEF ChargedBefore
      <3>2. createdAt'[p] =< clock + Skew
        BY <1>5, <3>1
      <3>3. Exists(p)' => req'[p].amount = payments'[p].amount
        BY <1>3, <3>1 DEF PaymentMove
      <3>4. QED
        BY <3>2, <3>3
    <2>2. QED
      BY <1>1, <2>1 DEF ChargedBefore
  <1>8. \A v \in CreateReqs \X Kinds : Explained(v) => Explained(v)'
    <2>1. SUFFICES ASSUME NEW v \in CreateReqs \X Kinds, Explained(v) PROVE Explained(v)'
      OBVIOUS
    <2>2. v[1] \in CreateReqs
      OBVIOUS
    <2>3. acq[v[1]] = "done" => acq'[v[1]] = "done" /\ createdAt'[v[1]] = createdAt[v[1]]
      BY <1>3, <1>5, <2>2 DEF PaymentMove
    <2>4. QED
      BY <1>1, <2>1, <2>3 DEF Explained, DatedOutside
  <1>9. CapturedIn(run.start, run.end) \subseteq CapturedIn(run.start, run.end)'
    BY <1>1, <1>3, <1>5 DEF CapturedIn, PaymentMove
  <1>10. RunInv'
    <2>1. run.todo \subseteq CreateReqs \X Kinds
      BY <1>0 DEF ReconciliationTypeOK, RunState
    <2>2. byChargeId' => \A v \in run'.todo : Explained(v)'
      BY <1>0, <1>1, <1>8, <2>1 DEF RunInv
    <2>3. run.step = "read" => run.due \subseteq CapturedIn(run.start, run.end)'
      BY <1>0, <1>9 DEF RunInv
    <2>4. run.step \in {"fetch", "record"} =>
            \A p \in CreateReqs : run.ours[p] # "absent" =>
                p \in CapturedIn(run.start, run.end)' /\ run.ours[p] \in {"captured", "settled"}
      BY <1>0, <1>9 DEF RunInv
    <2>5. QED
      BY <1>0, <1>1, <2>2, <2>3, <2>4 DEF RunInv, Checked
  <1>11. AlarmsAreExplained' /\ NothingOverlooked'
    BY <1>0, <1>1, <1>8
    DEF AlarmsAreExplained, NothingMatches, NothingOverlooked, ReconciliationTypeOK
  <1>12. QED
    BY <1>2, <1>6, <1>7, <1>10, <1>11 DEF OfficeInv

\* Steps that leave the other services alone keep their invariant.
LEMMA OthersIdle ==
    ASSUME IInv, UNCHANGED sysVars
    PROVE  IInv'
  BY SysIInvStep

\* Time passes while no run is under way, and a charge fails at the provider.
LEMMA ProviderStep ==
    ASSUME OfficeInv, Tick \/ \E p \in CreateReqs : Reverse(p)
    PROVE  OfficeInv'
  <1>0. /\ IInv /\ ReconciliationTypeOK /\ ChargedBefore /\ RunInv
        /\ AlarmsAreExplained /\ NothingOverlooked
    BY DEF OfficeInv
  <1>1. /\ UNCHANGED <<vars, byChargeId, createdAt, capturedAt, run, mismatches>>
        /\ UNCHANGED sysVars
        /\ reversed \subseteq reversed' /\ reversed' \subseteq CreateReqs
        /\ \/ clock' = clock
           \/ run.step = "idle" /\ clock < MaxClock /\ clock' = clock + 1
    BY <1>0 DEF Tick, Reverse, sysVars, ReconciliationTypeOK
  <1>2. IInv'
    BY <1>0, <1>1, OthersIdle
  <1>3. UNCHANGED <<payments, acq, req>>
    BY <1>1 DEF vars
  <1>4. clock \in 0..MaxClock /\ clock' \in 0..MaxClock /\ clock =< clock'
    BY <1>0, <1>1, ReconciliationAssumption DEF ReconciliationTypeOK
  <1>5. ReconciliationTypeOK'
    BY <1>0, <1>1, <1>4 DEF ReconciliationTypeOK
  <1>6. ChargedBefore'
    <2>1. \A p \in CreateReqs : createdAt'[p] =< clock' + Skew
      <3>0. clock \in Int /\ clock' \in Int /\ Skew \in Int /\ clock =< clock'
        BY <1>4, ReconciliationAssumption
      <3>1. clock + Skew =< clock' + Skew
        <4>1. \A a, b, c \in Int : a =< b => a + c =< b + c
          OBVIOUS
        <4>2. QED
          BY <3>0, <4>1
      <3>2. \A p \in CreateReqs : createdAt[p] \in Int /\ createdAt[p] =< clock + Skew
        BY <1>0 DEF ChargedBefore, ReconciliationTypeOK
      <3>3. QED
        BY <1>1, <3>0, <3>1, <3>2
    <2>2. QED
      BY <1>0, <1>1, <1>3, <2>1 DEF ChargedBefore, Exists
  <1>7. \A v : Explained(v) => Explained(v)'
    BY <1>1, <1>3 DEF Explained, DatedOutside
  <1>8. RunInv'
    <2>1. CapturedIn(run.start, run.end)' = CapturedIn(run.start, run.end)
      BY <1>1, <1>3 DEF CapturedIn
    <2>2. QED
      BY <1>0, <1>1, <1>7, <2>1 DEF RunInv, Checked
  <1>9. AlarmsAreExplained' /\ NothingOverlooked'
    BY <1>0, <1>1, <1>7 DEF AlarmsAreExplained, NothingMatches, NothingOverlooked
  <1>10. QED
    BY <1>2, <1>5, <1>6, <1>8, <1>9 DEF OfficeInv

\* What the statements of a run leave alone.
RunOnly == UNCHANGED <<sysVars, byChargeId, clock, createdAt, reversed, capturedAt>>

\* A statement of a run has only the run's own part of the invariant to keep.
LEMMA RunKeeps ==
    ASSUME OfficeInv, RunOnly, run' \in RunState, mismatches' \subseteq CreateReqs \X Kinds,
           RunInv', AlarmsAreExplained', NothingOverlooked'
    PROVE  OfficeInv'
  <1>1. IInv'
    BY OthersIdle DEF OfficeInv, RunOnly
  <1>2. ReconciliationTypeOK'
    BY DEF OfficeInv, RunOnly, ReconciliationTypeOK
  <1>3. ChargedBefore'
    BY DEF OfficeInv, RunOnly, ChargedBefore, Exists, sysVars, vars
  <1>4. QED
    BY <1>1, <1>2, <1>3 DEF OfficeInv

\* It explains as before, unless it moves the period or what is known of the list.
LEMMA RunSees ==
    ASSUME RunOnly, run'.start = run.start, run'.end = run.end, run'.partial = run.partial
    PROVE  \A v : Explained(v)' <=> Explained(v)
  BY DEF RunOnly, sysVars, vars, Explained, DatedOutside

\* A run begins with nothing recorded; what is due was captured in its period.
LEMMA StartRunStep ==
    ASSUME OfficeInv, StartRun
    PROVE  OfficeInv'
  <1>0. ReconciliationTypeOK /\ RunOnly
    BY DEF OfficeInv, StartRun, RunOnly
  <1> DEFINE due == CapturedIn(clock - Period, clock) \cap reversed
  <1>1. run' = [status |-> "running", step |-> "read", start |-> clock - Period, end |-> clock,
                ours |-> Unseen, todo |-> {}, partial |-> FALSE, due |-> due,
                checked |-> {}]
    BY DEF StartRun, NoRun
  <1>2. mismatches' = {} /\ clock' = clock /\ reversed' = reversed
    BY DEF StartRun
  <1>3. due \subseteq CreateReqs /\ due \subseteq reversed
        /\ due \subseteq CapturedIn(clock - Period, clock)
    BY <1>0 DEF ReconciliationTypeOK
  <1>4. Unseen \in [CreateReqs -> Statuses \cup {"absent"}]
    BY DEF Unseen
  <1> HIDE DEF due
  <1>5. run' \in RunState
    BY <1>0, <1>1, <1>3, <1>4, Numbers DEF RunState, ReconciliationTypeOK
  <1>6. RunInv'
    <2>1. CapturedIn(clock - Period, clock)' = CapturedIn(clock - Period, clock)
      BY <1>0 DEF RunOnly, sysVars, vars, CapturedIn
    <2>2. run'.due \subseteq CapturedIn(run.start, run.end)'
      BY <1>1, <1>2, <1>3, <2>1
    <2>3. QED
      BY <1>1, <1>2, <1>3, <2>2 DEF RunInv
  <1>7. AlarmsAreExplained' /\ NothingOverlooked'
    BY <1>1, <1>2 DEF AlarmsAreExplained, NothingMatches, NothingOverlooked
  <1>8. QED
    BY <1>0, <1>2, <1>5, <1>6, <1>7, RunKeeps

\* The run reads the payments of its period, the due ones among them.
LEMMA ReadPaymentsStep ==
    ASSUME OfficeInv, ReadPayments
    PROVE  OfficeInv'
  <1>0. IInv /\ ReconciliationTypeOK /\ RunInv /\ RunOnly /\ run \in RunState
    BY DEF OfficeInv, ReadPayments, RunOnly, ReconciliationTypeOK
  <1> DEFINE C == CapturedIn(run.start, run.end)
             ours == [p \in CreateReqs |-> IF p \in C THEN payments[p].status ELSE "absent"]
  <1>1. run' = [status |-> run.status, step |-> "fetch", start |-> run.start, end |-> run.end,
                ours |-> ours, todo |-> run.todo, partial |-> run.partial, due |-> run.due,
                checked |-> run.checked]
    BY <1>0 DEF ReadPayments, RunState
  <1>2. mismatches' = mismatches /\ clock' = clock /\ reversed' = reversed
    BY DEF ReadPayments
  <1>3. \A p \in C : p \in CreateReqs /\ payments[p].status \in Statuses
                   /\ payments[p].status \in {"captured", "settled"}
    <2>1. SUFFICES ASSUME NEW p \in C
                   PROVE  p \in CreateReqs /\ payments[p].status \in Statuses
                          /\ payments[p].status \in {"captured", "settled"}
      OBVIOUS
    <2>2. p \in CreateReqs /\ payments[p].captured > 0
      BY DEF CapturedIn
    <2>3. QED
      BY <1>0, <2>2, CapturedHasCharge DEF InCaptured, Statuses
  <1>4. run.step = "read" /\ run.due \subseteq C /\ run.todo = {} /\ mismatches = {}
        /\ run.end = clock /\ run.start = clock - Period /\ run.status = "running"
        /\ run.due \subseteq reversed
    BY <1>0 DEF RunInv, ReadPayments
  <1>5. CapturedIn(run.start, run.end)' = C
    <2>1. CapturedIn(clock - Period, clock)' = CapturedIn(clock - Period, clock)
      BY <1>0 DEF RunOnly, sysVars, vars, CapturedIn
    <2>2. run'.start = clock - Period /\ run'.end = clock
      BY <1>1, <1>4
    <2>3. QED
      BY <1>2, <1>4, <2>1, <2>2
  <1>6. ours \in [CreateReqs -> Statuses \cup {"absent"}]
    BY <1>3
  <1>7. /\ \A p \in run.due : ours[p] # "absent"
        /\ \A p \in CreateReqs : ours[p] # "absent" => p \in C /\ ours[p] \in {"captured", "settled"}
    BY <1>3, <1>4
  <1> HIDE DEF C, ours
  <1>8. run' \in RunState
    BY <1>0, <1>1, <1>6 DEF RunState
  <1>9. RunInv'
    BY <1>1, <1>2, <1>4, <1>5, <1>7 DEF RunInv
  <1>10. AlarmsAreExplained' /\ NothingOverlooked'
    BY <1>1, <1>2, <1>4 DEF AlarmsAreExplained, NothingMatches, NothingOverlooked
  <1>11. mismatches' \subseteq CreateReqs \X Kinds
    BY <1>2, <1>4
  <1>12. QED
    BY <1>0, <1>8, <1>9, <1>10, <1>11, RunKeeps

\* The verdicts on a list of charges are explained, and cover what is due.
LEMMA VerdictsExplained ==
    ASSUME OfficeInv, run.step = "fetch",
           NEW page \in SUBSET Charges(run.start, run.end), NEW v \in Disagreements(page),
           byChargeId
    PROVE  \/ /\ v[2] = "missing_in_provider" /\ acq[v[1]] = "done"
              /\ DatedOutside(v[1]) \/ page # Charges(run.start, run.end)
           \/ v[2] = "status_mismatch" /\ v[1] \in reversed
  <1>0. /\ IInv /\ ReconciliationTypeOK /\ ChargedBefore /\ RunInv
    BY DEF OfficeInv
  <1>1. v \in CreateReqs \X Kinds /\ v[1] \in CreateReqs /\ run.ours[v[1]] # "absent"
    BY DEF Disagreements
  <1>2. /\ v[1] \in CapturedIn(run.start, run.end)
        /\ run.ours[v[1]] \in {"captured", "settled"}
        /\ run.end = clock
    BY <1>0, <1>1 DEF RunInv
  <1>3. payments[v[1]].captured > 0
    BY <1>2 DEF CapturedIn
  <1>4. acq[v[1]] = "done" /\ Exists(v[1])
    BY <1>0, <1>1, <1>3, CapturedHasCharge
  <1>5. payments[v[1]].amount = ChargeAmount(v[1])
    BY <1>0, <1>1, <1>4 DEF ChargedBefore, ChargeAmount
  <1>6. CASE ~Found(v[1], page)
    <2>1. v[2] = "missing_in_provider"
      BY <1>6 DEF Disagreements
    <2>2. ASSUME page = Charges(run.start, run.end)
          PROVE  DatedOutside(v[1])
      <3>1. v[1] \notin Charges(run.start, run.end)
        BY <1>6, <2>2 DEF Found
      <3>2. ~InPeriod(createdAt[v[1]], run.start, run.end)
        BY <1>1, <1>4, <3>1 DEF Charges
      <3>3. createdAt[v[1]] =< clock + Skew
        BY <1>0, <1>1 DEF ChargedBefore
      <3>4. QED
        BY <1>0, <1>1, <1>2, <3>2, <3>3, Numbers DEF InPeriod, DatedOutside
    <2>3. QED
      BY <1>4, <2>1, <2>2
  <1>7. CASE Found(v[1], page)
    <2>1. /\ v[2] = "status_mismatch"
          /\ ChargeStatus(v[1]) # ExpectedStripe(run.ours[v[1]])
      BY <1>5, <1>7 DEF Disagreements
    <2>2. ExpectedStripe(run.ours[v[1]]) = "succeeded"
      BY <1>2 DEF ExpectedStripe
    <2>3. QED
      BY <2>1, <2>2 DEF ChargeStatus
  <1>8. QED
    BY <1>6, <1>7

\* A payment whose charge has failed is reported, as missing or by its status.
LEMMA DueIsReported ==
    ASSUME OfficeInv, run.step = "fetch", NEW page, NEW p \in run.due
    PROVE  \E v \in Disagreements(page) : v[1] = p
  <1>0. p \in CreateReqs /\ p \in reversed /\ run.ours[p] \in {"captured", "settled"}
    <2>1. p \in CreateReqs /\ p \in reversed
      BY DEF OfficeInv, ReconciliationTypeOK, RunState, RunInv
    <2>2. QED
      BY <2>1 DEF OfficeInv, RunInv
  <1>1. ExpectedStripe(run.ours[p]) = "succeeded" /\ ChargeStatus(p) = "failed"
    BY <1>0 DEF ExpectedStripe, ChargeStatus
  <1>2. CASE Found(p, page)
    <2>1. <<p, "status_mismatch">> \in Disagreements(page)
      BY <1>0, <1>1, <1>2 DEF Disagreements, Kinds
    <2>2. QED
      BY <2>1
  <1>3. CASE ~Found(p, page)
    <2>1. <<p, "missing_in_provider">> \in Disagreements(page)
      BY <1>0, <1>3 DEF Disagreements, Kinds
    <2>2. QED
      BY <2>1
  <1>4. QED
    BY <1>2, <1>3

\* Looked up by another id, every payment that was read is missing.
LEMMA NoneIsFound ==
    ASSUME NEW page, ~byChargeId
    PROVE  Disagreements(page) = Checked \X {"missing_in_provider"}
  <1>1. \A v \in CreateReqs \X Kinds :
           v \in Disagreements(page) <=> run.ours[v[1]] # "absent" /\ v[2] = "missing_in_provider"
    BY DEF Disagreements, Found
  <1>2. Disagreements(page) \subseteq CreateReqs \X Kinds
    BY DEF Disagreements
  <1>3. Checked \X {"missing_in_provider"} \subseteq CreateReqs \X Kinds
    BY DEF Checked, Kinds
  <1>4. \A v \in CreateReqs \X Kinds :
           v \in Checked \X {"missing_in_provider"} <=>
               run.ours[v[1]] # "absent" /\ v[2] = "missing_in_provider"
    BY DEF Checked
  <1>5. QED
    BY <1>1, <1>2, <1>3, <1>4

\* The run turns the list of charges into what it will record.
LEMMA FetchChargesStep ==
    ASSUME OfficeInv, FetchCharges
    PROVE  OfficeInv'
  <1>0. /\ ReconciliationTypeOK /\ RunInv /\ RunOnly /\ run \in RunState /\ run.step = "fetch"
        /\ mismatches' = mismatches /\ clock' = clock /\ reversed' = reversed
    BY DEF OfficeInv, FetchCharges, RunOnly, ReconciliationTypeOK
  <1>1. PICK page \in Pages(Charges(run.start, run.end)) \cup {{}} :
          run' = [run EXCEPT !.step = "record", !.todo = Disagreements(page),
                             !.partial = page # Charges(run.start, run.end)]
    BY DEF FetchCharges
  <1>2. page \in SUBSET Charges(run.start, run.end)
    BY DEF Pages
  <1> DEFINE found == Disagreements(page)
             partial == page # Charges(run.start, run.end)
  <1>3. run' = [status |-> run.status, step |-> "record", start |-> run.start, end |-> run.end,
                ours |-> run.ours, todo |-> found, partial |-> partial, due |-> run.due,
                checked |-> run.checked]
    BY <1>0, <1>1 DEF RunState
  <1>4. found \subseteq CreateReqs \X Kinds /\ partial \in BOOLEAN
    BY DEF Disagreements
  <1>5. \A p \in run.due : \E v \in found : v[1] = p
    BY <1>0, DueIsReported
  <1>6. byChargeId' => \A v \in found : Explained(v)'
    <2>1. SUFFICES ASSUME byChargeId, NEW v \in found PROVE Explained(v)'
      BY <1>0 DEF RunOnly
    <2>2. UNCHANGED <<acq, createdAt, reversed>>
      BY <1>0 DEF RunOnly, sysVars, vars
    <2>3. run'.start = run.start /\ run'.end = run.end
          /\ run'.partial = (page # Charges(run.start, run.end))
      BY <1>3
    <2>4. DatedOutside(v[1])' <=> DatedOutside(v[1])
      BY <2>2, <2>3 DEF DatedOutside
    <2>5. QED
      BY <1>0, <1>2, <2>1, <2>2, <2>3, <2>4, VerdictsExplained DEF Explained
  <1>6a. ~byChargeId' => found = Checked' \X {"missing_in_provider"}
    <2>1. Checked' = Checked
      BY <1>3 DEF Checked
    <2>2. QED
      BY <1>0, <2>1, NoneIsFound DEF RunOnly
  <1> HIDE DEF found, partial
  <1>7. mismatches = {} /\ run.status = "running" /\ run.end = clock /\ run.start = clock - Period
    BY <1>0 DEF RunInv
  <1>8. run' \in RunState
    BY <1>0, <1>3, <1>4 DEF RunState
  <1>9. CapturedIn(run.start, run.end)' = CapturedIn(run.start, run.end)
    BY <1>0, <1>3 DEF RunOnly, sysVars, vars, CapturedIn
  <1>10. RunInv'
    BY <1>0, <1>3, <1>5, <1>6, <1>6a, <1>7, <1>9 DEF RunInv
  <1>11. AlarmsAreExplained' /\ NothingOverlooked'
    BY <1>0, <1>3, <1>7 DEF AlarmsAreExplained, NothingMatches, NothingOverlooked
  <1>12. mismatches' \subseteq CreateReqs \X Kinds
    BY <1>0, <1>7
  <1>13. QED
    BY <1>0, <1>8, <1>10, <1>11, <1>12, RunKeeps

\* A verdict moves from what is to be recorded to what is recorded.
LEMMA RecordMismatchStep ==
    ASSUME OfficeInv, NEW x \in CreateReqs \X Kinds, RecordMismatch(x)
    PROVE  OfficeInv'
  <1>0. /\ ReconciliationTypeOK /\ RunInv /\ AlarmsAreExplained /\ NothingOverlooked
        /\ RunOnly /\ run \in RunState
        /\ run.step = "record" /\ x \in run.todo /\ mismatches' = mismatches \cup {x}
        /\ clock' = clock /\ reversed' = reversed
    BY DEF OfficeInv, RecordMismatch, RunOnly, ReconciliationTypeOK
  <1>1. run' = [status |-> run.status, step |-> run.step, start |-> run.start, end |-> run.end,
                ours |-> run.ours, todo |-> run.todo \ {x}, partial |-> run.partial,
                due |-> run.due, checked |-> run.checked]
    BY <1>0 DEF RecordMismatch, RunState
  <1>2. run' \in RunState
    BY <1>0, <1>1 DEF RunState
  <1>3. \A v : Explained(v)' <=> Explained(v)
    BY <1>0, <1>1, RunSees
  <1>4. CapturedIn(run.start, run.end)' = CapturedIn(run.start, run.end)
    BY <1>0, <1>1 DEF RunOnly, sysVars, vars, CapturedIn
  <1>5. mismatches' \cup run'.todo = mismatches \cup run.todo
    BY <1>0, <1>1
  <1>6. RunInv'
    <2>1. /\ run'.due \subseteq reversed'
          /\ byChargeId' => \A v \in run'.todo : Explained(v)'
      BY <1>0, <1>1, <1>3 DEF RunInv, RunOnly
    <2>0. ~byChargeId' => mismatches' \cup run'.todo = Checked' \X {"missing_in_provider"}
      <3>1. Checked' = Checked
        BY <1>1 DEF Checked
      <3>2. QED
        BY <1>0, <1>5, <3>1 DEF RunInv, RunOnly
    <2>2. run'.step = "record" => \A p \in run'.due : \E v \in mismatches' \cup run'.todo : v[1] = p
      BY <1>0, <1>1, <1>5 DEF RunInv
    <2>3. QED
      BY <1>0, <1>1, <1>4, <2>0, <2>1, <2>2 DEF RunInv
  <1>7. AlarmsAreExplained'
    <2>1. byChargeId' = byChargeId /\ run'.status = "running"
      BY <1>0, <1>1 DEF RunOnly, RunInv
    <2>2. QED
      BY <1>0, <1>3, <2>1 DEF AlarmsAreExplained, NothingMatches, RunInv
  <1>8. NothingOverlooked'
    BY <1>0, <1>1 DEF NothingOverlooked, RunInv
  <1>9. mismatches' \subseteq CreateReqs \X Kinds
    BY <1>0 DEF ReconciliationTypeOK
  <1>10. QED
    BY <1>0, <1>2, <1>6, <1>7, <1>8, <1>9, RunKeeps

\* A run that completes has recorded all it had to; one that fails or is left
\* behind keeps what it has recorded.
LEMMA CloseStep ==
    ASSUME OfficeInv, CompleteRun \/ EndRun
    PROVE  OfficeInv'
  <1>0. /\ ReconciliationTypeOK /\ RunInv /\ AlarmsAreExplained
        /\ RunOnly /\ run \in RunState /\ mismatches' = mismatches /\ reversed' = reversed
    BY DEF OfficeInv, CompleteRun, EndRun, RunOnly, ReconciliationTypeOK
  <1>1. PICK s \in {"completed", "failed", "running"} :
          /\ run' = Closed(s)
          /\ s = "completed" => run.step = "record" /\ run.todo = {}
    BY DEF CompleteRun, EndRun
  <1>2. run' = [status |-> s, step |-> "idle", start |-> run.start, end |-> run.end,
                ours |-> Unseen, todo |-> {}, partial |-> run.partial, due |-> run.due,
                checked |-> IF s = "completed" THEN Checked ELSE {}]
    BY <1>0, <1>1 DEF Closed, RunState
  <1>3. run' \in RunState
    BY <1>0, <1>2 DEF RunState, Unseen, Checked
  <1>4. \A v : Explained(v)' <=> Explained(v)
    BY <1>0, <1>2, RunSees
  <1>5. RunInv'
    BY <1>0, <1>2 DEF RunInv
  <1>6. AlarmsAreExplained'
    <2>1. byChargeId' = byChargeId
      BY <1>0 DEF RunOnly
    <2>2. CASE byChargeId
      BY <1>0, <1>4, <2>1, <2>2 DEF AlarmsAreExplained
    <2>3. CASE ~byChargeId
      <3>1. ASSUME s = "completed"
            PROVE  mismatches' = run'.checked \X {"missing_in_provider"}
        BY <1>0, <1>1, <1>2, <2>3, <3>1 DEF RunInv
      <3>2. QED
        BY <1>2, <2>1, <2>3, <3>1 DEF AlarmsAreExplained, NothingMatches
    <2>4. QED
      BY <2>2, <2>3
  <1>7. NothingOverlooked'
    BY <1>0, <1>1, <1>2 DEF NothingOverlooked, RunInv
  <1>8. mismatches' \subseteq CreateReqs \X Kinds
    BY <1>0 DEF ReconciliationTypeOK
  <1>9. QED
    BY <1>0, <1>3, <1>5, <1>6, <1>7, <1>8, RunKeeps

\* Every step keeps the invariant.
LEMMA OfficeStep ==
    ASSUME OfficeInv, [OfficeNext]_officeVars
    PROVE  OfficeInv'
  BY BusinessStep, ProviderStep, StartRunStep, ReadPaymentsStep, FetchChargesStep,
     RecordMismatchStep, CloseStep
  DEF OfficeNext, Reconcile

\* The invariant holds at first: nothing is charged, captured or recorded.
LEMMA OfficeStart == OfficeInit => OfficeInv
  <1>1. SUFFICES ASSUME OfficeInit PROVE OfficeInv
    OBVIOUS
  <1>2. IInv
    BY <1>1, InitIInv DEF OfficeInit, SysInit
  <1>3. ReconciliationTypeOK
    BY <1>1, ReconciliationAssumption
    DEF OfficeInit, ReconciliationTypeOK, RunState, NoRun, Unseen
  <1>4. ChargedBefore
    BY <1>1, ReconciliationAssumption
    DEF OfficeInit, SysInit, Init, ChargedBefore, Exists, NoPayment
  <1>5. RunInv /\ AlarmsAreExplained /\ NothingOverlooked
    BY <1>1 DEF OfficeInit, NoRun, RunInv, AlarmsAreExplained, NothingMatches, NothingOverlooked
  <1>6. QED
    BY <1>2, <1>3, <1>4, <1>5 DEF OfficeInv

\* The inductive invariant of the reconciliation run beside the other services
\* (OfficeInv holds in every state).
THEOREM OfficeInvariance == OfficeSpec => []OfficeInv
  <1>1. OfficeInit => OfficeInv
    BY OfficeStart
  <1>2. OfficeInv /\ [OfficeNext]_officeVars => OfficeInv'
    BY OfficeStep
  <1>3. QED
    BY <1>1, <1>2, PTL DEF OfficeSpec

\* Whatever is captured, settled, refunded or reversed while a run is between its
\* statements, and whatever the clocks of the three services show, a run that looks
\* charges up by their ids raises no alarm without a cause, and one that looks them
\* up by what the Stripe adapter stored raises one for every payment it checks
\* (reconcile_stripe).
THEOREM NoFalseAlarm == OfficeSpec => []AlarmsAreExplained
  <1>1. OfficeInv => AlarmsAreExplained
    BY DEF OfficeInv
  <1> QED
    BY <1>1, OfficeInvariance, PTL

\* A run that completes has reported every charge of its period that had failed
\* before it began (reconcile_stripe).
THEOREM FailuresReported == OfficeSpec => []NothingOverlooked
  <1>1. OfficeInv => NothingOverlooked
    BY DEF OfficeInv
  <1> QED
    BY <1>1, OfficeInvariance, PTL

\* A reconciliation run only reads what the other services write: with its own
\* variables hidden, the back office is the payment service and the workers, so
\* what is proved of SysSpec holds beside it.
THEOREM ReconciliationOnlyReads == OfficeSpec => SysSpec
  <1>1. OfficeInit => SysInit
    BY DEF OfficeInit
  <1>2. [OfficeNext]_officeVars => [SysNext]_sysVars
    BY DEF OfficeNext, Business, Tick, Reconcile, StartRun, ReadPayments, FetchCharges,
           RecordMismatch, CompleteRun, EndRun, Reverse, officeVars
  <1>3. QED
    BY <1>1, <1>2, PTL DEF OfficeSpec, SysSpec

\* With all three at work, every payment is settled once, no merchant is paid more
\* than PaidWithinCaptures allows, and ledger and rows agree on what each is owed.
THEOREM BackOfficeBooks ==
    OfficeSpec => [](SettledOnce /\ PaidWithinCaptures /\ PayableMatchesRows)
  BY ReconciliationOnlyReads, PaidOnce, NeverOverpaid, BooksBalanceBesideSettlement, PTL
=============================================================================
