--------------------------- MODULE PaymentStatus ---------------------------
(***************************************************************************)
(* The payment state machine and the money arithmetic of the gateway:      *)
(* crates/common/src/models.rs (PaymentStatus, Payment), the wrapper       *)
(* crates/payment-service/src/state_machine.rs, and the fee formula of the *)
(* orchestrator.  Constant operators only.                                 *)
(***************************************************************************)
EXTENDS Integers

CONSTANTS
    FeeNum,   \* system_fee_percentage is FeeNum / FeeDen (default 0.02)
    FeeDen,
    Short     \* the amounts whose fee is a whole number, but whose product in f64
              \* falls just below it (1500 at 0.018; none at 0.02)

ASSUME FeeAssumption ==
    /\ FeeNum \in Nat
    /\ FeeDen \in Nat \ {0}
    /\ FeeNum =< FeeDen
    /\ Short \subseteq {a \in Nat : a * FeeNum > 0 /\ (a * FeeNum) % FeeDen = 0}

Statuses == {"created", "pending", "requires_action", "authorized", "captured",
             "settled", "failed", "cancelled", "refunded", "disputed"}

ValidTransitions ==
    [s \in Statuses |->
        CASE s = "created"         -> {"pending", "cancelled"}
          [] s = "pending"         -> {"authorized", "failed", "requires_action"}
          [] s = "requires_action" -> {"authorized", "failed", "cancelled"}
          [] s = "authorized"      -> {"captured", "cancelled"}
          [] s = "captured"        -> {"settled", "disputed"}
          [] s = "settled"         -> {"disputed"}
          [] OTHER                 -> {}]

\* PaymentStateMachine::transition succeeds exactly on a listed transition;
\* "absent" stands for a row that is not there and has no transition.
CanTransitionTo(s, t) == s \in Statuses /\ t \in ValidTransitions[s]

Terminal == {"settled", "failed", "cancelled", "refunded", "disputed"}

\* Mutant: a partial capture is forgotten by the refund limit.
FullAmount(row) == row.amount

\* COALESCE(captured_amount, amount): 0 stands for a NULL captured_amount, since
\* every captured amount is positive (validation and ledger CHECK amount > 0).
CapturedOrAmount(row) == IF row.captured = 0 THEN row.amount ELSE row.captured

RefundableAmount(row) == CapturedOrAmount(row) - row.refunded

CanRefund(row, amount) ==
    /\ row.status \in {"captured", "settled"}
    /\ amount > 0
    /\ amount =< RefundableAmount(row)

\* The fee without rounding errors, truncated.
ExactFee(amount) == (amount * FeeNum) \div FeeDen

\* (amount as f64 * system_fee_percentage) as i64.  The rate and the product are
\* each rounded to 53 bits: while amount * FeeNum is below 2^51 that is too little
\* to carry a product past a whole number it does not reach, but one that should
\* be whole may end up just below and be truncated to the number before.
Fee(amount) == ExactFee(amount) - (IF amount \in Short THEN 1 ELSE 0)
=============================================================================
