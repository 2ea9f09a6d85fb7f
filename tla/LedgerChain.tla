----------------------------- MODULE LedgerChain -----------------------------
(***************************************************************************)
(* The ledger writer (crates/payment-service/src/ledger.rs), statement by  *)
(* statement, inside the capture and refund transactions of one merchant.  *)
(* Transactions on one payment exclude each other through the row lock;    *)
(* those on different payments interleave at READ COMMITTED: a statement   *)
(* sees the committed rows and those of its own transaction.  A row's hash *)
(* covers the hash before it and the row's id, so a hash stands for the    *)
(* row; the chain is the relation between a row and the one it was hashed  *)
(* onto.                                                                   *)
(***************************************************************************)
EXTENDS PaymentStatus, Sums

CONSTANTS
    Payments,
    Amounts,
    MaxClock,                \* bound on the times the clocks show
    ReferenceFkDeferrable    \* see PaymentService

ASSUME LedgerAssumption ==
    /\ Amounts \subseteq Nat \ {0}
    /\ MaxClock \in Nat
    /\ ReferenceFkDeferrable \in BOOLEAN

Txs == {"capture", "refund"} \X Payments

Accounts == {"gateway_float", "merchant_payable", "fee_income"}

\* Mutant: refunds are debited to an account the ledger does not have.
RefundsToReserve(leg) ==
    IF leg = "capture" THEN "gateway_float"
    ELSE IF leg = "refund" THEN "refund_reserve" ELSE "merchant_payable"

DebitAccount(leg) == IF leg = "capture" THEN "gateway_float" ELSE "merchant_payable"

CreditAccount(leg) ==
    CASE leg = "capture" -> "merchant_payable"
      [] leg = "fee"     -> "fee_income"
      [] leg = "refund"  -> "gateway_float"

\* record_capture and record_fee, or record_refund.  No pair is written for a
\* fee of 0.
FirstLeg(t) == t[1]

\* Mutant: the fee is not booked.
NoFeeLeg(leg, amount) == "none"

NextLeg(leg, amount) ==
    IF leg = "capture" /\ Fee(amount) > 0 THEN "fee" ELSE "none"

LegAmount(leg, amount) == IF leg = "fee" THEN Fee(amount) ELSE amount

VARIABLES
    book,         \* table ledger_entries, committed rows
    own,          \* rows a transaction has inserted and not committed
    tx,           \* where each transaction is, its created_at and the hash it read
    prevBalance,  \* the balance it read
    overlapped,   \* history: transactions that were open while another committed
    behind        \* history: transactions whose clock was not past a row they saw

vars == <<book, own, tx, prevBalance, overlapped, behind>>

Ids == Txs \X {"capture", "fee", "refund"} \X {"debit", "credit"}

Genesis == [id |-> <<"genesis">>, depth |-> 0]

\* A hash read from the table; depth, the number of rows in the chain that ends
\* with it, is history.
Hash == [id: Ids, depth: Nat] \cup {Genesis}

Row == [id: Ids, prev: Hash, depth: Nat, account: Accounts, amount: Nat,
        balanceBefore: Int, balanceAfter: Int, createdAt: Nat]

TxState == [state: {"idle", "open", "committed"}, amount: Nat,
            leg: {"capture", "fee", "refund", "none"},
            step: {"balance", "hash", "debit", "credit"},
            now: Nat, prev: Hash]

Idle == [state |-> "idle", amount |-> 0, leg |-> "none", step |-> "balance",
         now |-> 0, prev |-> Genesis]

Opened(t, amount) ==
    [state |-> "open", amount |-> amount, leg |-> FirstLeg(t), step |-> "balance",
     now |-> 0, prev |-> Genesis]

\* Every variable has its type.
TypeOK ==
    /\ book \subseteq Row
    /\ own \in [Txs -> SUBSET Row]
    /\ tx \in [Txs -> TxState]
    /\ prevBalance \in [Txs -> Int]
    /\ overlapped \subseteq Txs
    /\ behind \subseteq Txs

Init ==
    /\ book = {}
    /\ own = [t \in Txs |-> {}]
    /\ tx = [t \in Txs |-> Idle]
    /\ prevBalance = [t \in Txs |-> 0]
    /\ overlapped = {}
    /\ behind = {}

HashOf(row) == [id |-> row.id, depth |-> row.depth]

SideRows(S, account, side) == {r \in S : r.account = account /\ r.id[3] = side}

SideSum(S, account, side) == SumOf([r \in SideRows(S, account, side) |-> r.amount])

Balance(S, account) == SideSum(S, account, "credit") - SideSum(S, account, "debit")

\* Mutant: the statement runs outside the transaction.
CommittedOnly(t) == book

\* Mutant: rows that are not committed are seen.
Uncommitted(t) == book \cup UNION {own[u] : u \in Txs}

Visible(t) == book \cup own[t]

Latest(S) == {r \in S : \A q \in S : q.createdAt =< r.createdAt}

\* ORDER BY created_at DESC LIMIT 1: the two rows of a pair have the same
\* created_at, so either may come first.
PrevHashes(S) == IF S = {} THEN {Genesis} ELSE {HashOf(r) : r \in Latest(S)}

-----------------------------------------------------------------------------

\* A refund needs the captured payment; its amount is bounded elsewhere.
Begin(t, amount) ==
    /\ tx[t].state = "idle"
    /\ t[1] = "refund" => tx[<<"capture", t[2]>>].state = "committed"
    /\ tx' = [tx EXCEPT ![t] = Opened(t, amount)]
    /\ UNCHANGED <<book, own, prevBalance, overlapped, behind>>

At(t, step) == tx[t].state = "open" /\ tx[t].leg # "none" /\ tx[t].step = step

\* Mutant: the account that is debited is summed up.
SumOfDebited(t) == Balance(Visible(t), DebitAccount(tx[t].leg))

SumOfAccount(t) == Balance(Visible(t), CreditAccount(tx[t].leg))

\* now is what the clock of this process shows, which may be any time: replicas
\* disagree and clocks are set back.  Then the balance of the credited account is
\* summed up.
ReadBalance(t) ==
    /\ At(t, "balance")
    /\ \E now \in 1..MaxClock :
        /\ tx' = [tx EXCEPT ![t].now = now, ![t].step = "hash"]
        /\ behind' = IF \E r \in Visible(t) : now =< r.createdAt THEN behind \cup {t}
                     ELSE behind
    /\ prevBalance' = [prevBalance EXCEPT ![t] = SumOfAccount(t)]
    /\ UNCHANGED <<book, own, overlapped>>

ReadHash(t) ==
    /\ At(t, "hash")
    /\ \E h \in PrevHashes(Visible(t)) :
            tx' = [tx EXCEPT ![t].prev = h, ![t].step = "debit"]
    /\ UNCHANGED <<book, own, prevBalance, overlapped, behind>>

NewRow(t, side, account, prev, after) ==
    [id |-> <<t, tx[t].leg, side>>, prev |-> prev, depth |-> prev.depth + 1,
     account |-> account, amount |-> LegAmount(tx[t].leg, tx[t].amount),
     balanceBefore |-> prevBalance[t], balanceAfter |-> after, createdAt |-> tx[t].now]

\* The debit row names the credit row, which is not there yet.
InsertDebit(t) ==
    /\ At(t, "debit")
    /\ ReferenceFkDeferrable
    /\ LET row == NewRow(t, "debit", DebitAccount(tx[t].leg), tx[t].prev, prevBalance[t])
       IN  /\ own' = [own EXCEPT ![t] = @ \cup {row}]
           /\ tx' = [tx EXCEPT ![t].step = "credit", ![t].prev = HashOf(row)]
    /\ UNCHANGED <<book, prevBalance, overlapped, behind>>

\* With the second row write_double_entry returns, and its variables are gone.
InsertCredit(t) ==
    /\ At(t, "credit")
    /\ own' = [own EXCEPT ![t] = @ \cup
            {NewRow(t, "credit", CreditAccount(tx[t].leg), tx[t].prev,
                    prevBalance[t] + LegAmount(tx[t].leg, tx[t].amount))}]
    /\ tx' = [tx EXCEPT ![t].leg = NextLeg(tx[t].leg, tx[t].amount), ![t].step = "balance",
                        ![t].now = 0, ![t].prev = Genesis]
    /\ prevBalance' = [prevBalance EXCEPT ![t] = 0]
    /\ UNCHANGED <<book, overlapped, behind>>

\* Mutant: an error of the ledger is swallowed and the transaction commits.
Swallowed(t) == tx[t].state = "open"

AllWritten(t) == tx[t].state = "open" /\ tx[t].leg = "none"

OpenTxs == {u \in Txs : tx[u].state = "open"}

Commit(t) ==
    /\ AllWritten(t)
    /\ book' = book \cup own[t]
    /\ own' = [own EXCEPT ![t] = {}]
    /\ tx' = [tx EXCEPT ![t] = [Idle EXCEPT !.state = "committed"]]
    /\ overlapped' = overlapped \cup (OpenTxs \ {t})
    /\ prevBalance' = [prevBalance EXCEPT ![t] = 0]
    /\ UNCHANGED behind

\* A statement fails, the handler is dropped or the process dies.  The request
\* may be made again.
Rollback(t) ==
    /\ tx[t].state = "open"
    /\ own' = [own EXCEPT ![t] = {}]
    /\ tx' = [tx EXCEPT ![t] = Idle]
    /\ prevBalance' = [prevBalance EXCEPT ![t] = 0]
    /\ overlapped' = overlapped \ {t}
    /\ behind' = behind \ {t}
    /\ UNCHANGED book

Statement(t) == ReadBalance(t) \/ ReadHash(t) \/ InsertDebit(t) \/ InsertCredit(t)

Next ==
    \E t \in Txs :
        \/ \E a \in Amounts : Begin(t, a)
        \/ Statement(t) \/ Commit(t) \/ Rollback(t)

Spec == Init /\ [][Next]_vars

-----------------------------------------------------------------------------
(* Properties                                                              *)

JournalOf(rows) == {[tx |-> r.id[1], leg |-> r.id[2], amount |-> r.amount] :
                        r \in {q \in rows : q.id[3] = "credit"}}

Abstract == INSTANCE Journal WITH journal <- JournalOf(book)

\* The committed rows implement the journal that the payment service relies on:
\* a transaction's pairs appear together and once, also when transactions
\* interleave, fail half-way or are made again.
ImplementsJournal == Abstract!JournalSpec

Rooted(r, S) ==
    \/ r.prev = Genesis /\ r.depth = 1
    \/ \E q \in S : HashOf(q) = r.prev /\ r.depth = q.depth + 1

\* The chain is sound, however transactions interleave: every committed row was
\* hashed onto the genesis value or onto a committed row, one step nearer to it.
\* No row hangs on one that was rolled back, and there is no cycle.
ChainIsRooted == \A r \in book : Rooted(r, book)

\* Every committed row has its counterpart: debits equal credits at any time.
RowsPaired ==
    \A r \in book : \E q \in book :
        /\ q.id[1] = r.id[1] /\ q.id[2] = r.id[2] /\ q.id[3] # r.id[3]
        /\ q.amount = r.amount

\* The transactions that overlapped another or dated a row no later than one that
\* was there.
Astray == overlapped \cup behind

\* The chain forks (get_prev_hash) only where two transactions overlapped, where a
\* clock was behind or did not move, or where a row was hashed onto the debit of a
\* pair, beside that pair's own credit.
ForksExplained ==
    \A r, q \in book :
        r # q /\ r.prev = q.prev =>
            \/ r.id[1] \in Astray \/ q.id[1] \in Astray
            \/ \E s \in {r, q} : /\ s.id[3] = "credit"
                                 /\ s.prev.id = <<s.id[1], s.id[2], "debit">>

\* What was there before a transaction wrote a leg.
Prior(t, leg) == book \cup {q \in own[t] : q.id[2] = "capture" /\ leg = "fee"}

\* A transaction during which no other committed leaves exact balances, whatever
\* the clocks show: both rows of a pair, the debit too, carry the balance that the
\* account the pair CREDITS had before its leg and has with the row
\* (write_double_entry).
SerialBalancesExact ==
    [][\A t \in Txs : (tx'[t].state = "committed" /\ tx[t].state # "committed"
                       /\ t \notin overlapped) =>
            \A r \in own[t] :
                /\ r.balanceBefore = Balance(Prior(t, r.id[2]), CreditAccount(r.id[2]))
                /\ r.balanceAfter = Balance(Prior(t, r.id[2]) \cup {r}, CreditAccount(r.id[2]))]_vars

\* The legs an open transaction has written in full.
Written(t) ==
    IF tx[t].leg = "none" THEN Abstract!Legs(t, tx[t].amount)
    ELSE IF tx[t].leg = "fee" THEN {"capture"} ELSE {}

\* What a transaction has inserted: rows of its own, for the amounts of its legs,
\* each leg's debit with its credit but for the leg in hand, and all of them
\* hashed onto rows that are committed or its own.
RowsInv(t) ==
    /\ tx[t].state # "open" => own[t] = {}
    /\ \A r \in own[t] :
          /\ r.id \in Ids /\ r.id[1] = t /\ r.depth \in Nat
          /\ r.amount = LegAmount(r.id[2], tx[t].amount)
          /\ \/ r.id[2] \in Written(t)
             \/ r.id[2] = tx[t].leg /\ r.id[3] = "debit"
          /\ Rooted(r, Visible(t))
    /\ tx[t].state = "open" =>
          /\ tx[t].amount \in Amounts
          /\ tx[t].leg \in Abstract!Legs(t, tx[t].amount) \cup {"none"}
          /\ \A leg \in Written(t), side \in {"debit", "credit"} :
                \E r \in own[t] : r.id = <<t, leg, side>>

\* The hash it goes on from is that of a row that is committed or its own.
PrevInv(t) ==
    /\ At(t, "debit") =>
          \/ tx[t].prev = Genesis
          \/ \E q \in Visible(t) : HashOf(q) = tx[t].prev
    /\ At(t, "credit") =>
          \E q \in own[t] : HashOf(q) = tx[t].prev /\ q.id = <<t, tx[t].leg, "debit">>

\* The inductive invariant behind ChainIsRooted, RowsPaired and ImplementsJournal.
LedgerInv ==
    /\ tx \in [Txs -> TxState] /\ DOMAIN own = Txs
    /\ \A t \in Txs : RowsInv(t) /\ PrevInv(t)
    /\ \A r \in book : /\ r.id \in Ids /\ r.depth \in Nat
                       /\ tx[r.id[1]].state = "committed"
    /\ ChainIsRooted
    /\ RowsPaired
=============================================================================
