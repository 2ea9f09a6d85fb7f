-------------------------- MODULE LedgerChain_proofs --------------------------
(***************************************************************************)
(* Proofs about LedgerChain for any number of payments, any amounts and    *)
(* any interleaving: the chain stays rooted, every row has its             *)
(* counterpart, the committed rows implement Journal, the chain forks only *)
(* where ForksExplained says, and balances are exact but for overlaps.     *)
(***************************************************************************)
EXTENDS LedgerChain, Sums_proofs

USE DEF Txs

\* Genesis is a hash, and so is the hash of any row.
LEMMA HashType ==
    /\ Genesis \in Hash
    /\ \A r : r.id \in Ids /\ r.depth \in Nat => HashOf(r) \in Hash
  BY DEF Hash, HashOf, Genesis

\* Whatever hash the writer reads has a depth, and the rows it makes have one.
LEMMA HashDepth == \A h \in Hash : h.depth \in Nat
  BY DEF Hash, Genesis

\* A row stays rooted when rows are added.
LEMMA RootedMono ==
  ASSUME NEW r, NEW S, NEW T, S \subseteq T, Rooted(r, S)
  PROVE  Rooted(r, T)
  BY DEF Rooted

\* A row hashed onto genesis or onto a row of S is rooted in S.
LEMMA RootedNew ==
  ASSUME NEW r, NEW S, NEW h,
         r.prev = h, r.depth = h.depth + 1,
         h = Genesis \/ \E q \in S : HashOf(q) = h
  PROVE  Rooted(r, S)
  <1>1. CASE h = Genesis
    BY <1>1 DEF Rooted, Genesis
  <1>2. CASE \E q \in S : HashOf(q) = h
    <2>1. PICK q \in S : HashOf(q) = h
      BY <1>2
    <2>2. h.depth = q.depth
      BY <2>1 DEF HashOf
    <2> QED
      BY <2>1, <2>2 DEF Rooted
  <1> QED
    BY <1>1, <1>2

\* A transaction that inserts nothing and stays at its leg keeps its rows in
\* order, whatever the others commit: the book only grows.
LEMMA RowsKeep ==
  ASSUME NEW u \in Txs, RowsInv(u), own'[u] = own[u], book \subseteq book',
         tx'[u].state = tx[u].state, tx'[u].leg = tx[u].leg, tx'[u].amount = tx[u].amount
  PROVE  RowsInv(u)'
  <1>1. Visible(u) \subseteq Visible(u)'
    BY DEF Visible
  <1>2. Written(u)' = Written(u)
    BY DEF Written, Abstract!Legs, Abstract!Fee
  <1>3. \A r \in own[u] : Rooted(r, Visible(u))'
    <2> TAKE r \in own[u]
    <2>1. Rooted(r, Visible(u))
      BY DEF RowsInv
    <2>2. Rooted(r, Visible(u)')
      BY <1>1, <2>1, RootedMono
    <2> QED
      BY <2>2 DEF Rooted, HashOf
  <1>4. (tx[u].state # "open" => own[u] = {})'
    BY DEF RowsInv
  <1>5. (\A r \in own[u] :
          /\ r.id \in Ids /\ r.id[1] = u /\ r.depth \in Nat
          /\ r.amount = LegAmount(r.id[2], tx[u].amount)
          /\ \/ r.id[2] \in Written(u)
             \/ r.id[2] = tx[u].leg /\ r.id[3] = "debit"
          /\ Rooted(r, Visible(u)))'
    BY <1>2, <1>3 DEF RowsInv
  <1>6. (tx[u].state = "open" =>
          /\ tx[u].amount \in Amounts
          /\ tx[u].leg \in Abstract!Legs(u, tx[u].amount) \cup {"none"}
          /\ \A leg \in Written(u), side \in {"debit", "credit"} :
                \E r \in own[u] : r.id = <<u, leg, side>>)'
    BY <1>2 DEF RowsInv, Abstract!Legs, Abstract!Fee
  <1> QED
    BY <1>4, <1>5, <1>6 DEF RowsInv

\* What other transactions do leaves a transaction in order.
LEMMA OthersKeep ==
  ASSUME NEW u \in Txs, RowsInv(u), PrevInv(u),
         tx'[u] = tx[u], own'[u] = own[u], book \subseteq book'
  PROVE  RowsInv(u)' /\ PrevInv(u)'
  <1>1. RowsInv(u)'
    BY RowsKeep
  <1>2. PrevInv(u)'
    BY DEF PrevInv, At, Visible, HashOf
  <1> QED
    BY <1>1, <1>2

-----------------------------------------------------------------------------

\* Nothing is written at the start.
LEMMA LedgerInit == Init => LedgerInv
  <1> SUFFICES ASSUME Init PROVE LedgerInv
    OBVIOUS
  <1>1. tx \in [Txs -> TxState]
    BY HashType DEF Init, Idle, TxState
  <1>2. ASSUME NEW t \in Txs PROVE RowsInv(t) /\ PrevInv(t)
    BY DEF Init, Idle, RowsInv, PrevInv, At
  <1> QED
    BY <1>1, <1>2 DEF Init, LedgerInv, ChainIsRooted, RowsPaired

\* The frame of every action but Commit.
LEMMA Frame ==
  ASSUME LedgerInv, NEW t \in Txs, book' = book,
         \A u \in Txs : u # t => tx'[u] = tx[u] /\ own'[u] = own[u],
         tx'[t] \in TxState, tx[t].state # "committed",
         tx' = [tx EXCEPT ![t] = tx'[t]], DOMAIN own' = Txs,
         RowsInv(t)', PrevInv(t)'
  PROVE  LedgerInv'
  <1>1. tx' \in [Txs -> TxState]
    BY DEF LedgerInv
  <1>2. ASSUME NEW u \in Txs PROVE RowsInv(u)' /\ PrevInv(u)'
    BY OthersKeep DEF LedgerInv
  <1>3. ASSUME NEW r \in book'
        PROVE  /\ r.id \in Ids /\ r.depth \in Nat
               /\ tx'[r.id[1]].state = "committed"
    BY DEF LedgerInv, Ids
  <1>4. ChainIsRooted' /\ RowsPaired'
    BY DEF LedgerInv, ChainIsRooted, RowsPaired, Rooted, HashOf
  <1> QED
    BY <1>1, <1>2, <1>3, <1>4 DEF LedgerInv

\* A transaction begins.
LEMMA BeginStep ==
  ASSUME LedgerInv, NEW t \in Txs, NEW a \in Amounts, Begin(t, a)
  PROVE  LedgerInv'
  <1>1. tx'[t] = Opened(t, a)
    BY DEF Begin, LedgerInv
  <1>2. Opened(t, a) \in TxState
    BY HashType, LedgerAssumption DEF Opened, TxState, FirstLeg
  <1>3. RowsInv(t)' /\ PrevInv(t)'
    BY <1>1 DEF LedgerInv, RowsInv, PrevInv, Begin, Opened, FirstLeg, Written, At,
                Abstract!Legs, Abstract!Fee
  <1> QED
    BY <1>1, <1>2, <1>3, Frame DEF Begin, LedgerInv

\* get_balance only reads: the rows stay as they are.
LEMMA ReadBalanceStep ==
  ASSUME LedgerInv, NEW t \in Txs, ReadBalance(t)
  PROVE  LedgerInv'
  <1>0. PICK n \in Nat : tx' = [tx EXCEPT ![t].now = n, ![t].step = "hash"]
    <2>1. PICK n \in 1..MaxClock : tx' = [tx EXCEPT ![t].now = n, ![t].step = "hash"]
      BY Zenon DEF ReadBalance
    <2>2. n \in Nat
      BY <2>1, LedgerAssumption
    <2> QED
      BY <2>1, <2>2, Zenon
  <1>1. /\ tx'[t] \in TxState
        /\ tx'[t].state = tx[t].state /\ tx'[t].leg = tx[t].leg
        /\ tx'[t].amount = tx[t].amount /\ tx'[t].step = "hash"
    BY <1>0 DEF LedgerInv, TxState
  <1>2. RowsInv(t)'
    BY <1>1, RowsKeep DEF LedgerInv, ReadBalance
  <1>3. PrevInv(t)'
    BY <1>1 DEF PrevInv, At
  <1>4. /\ tx' = [tx EXCEPT ![t] = tx'[t]] /\ book' = book /\ own' = own
        /\ \A u \in Txs : u # t => tx'[u] = tx[u]
        /\ tx[t].state # "committed"
    BY <1>0 DEF ReadBalance, LedgerInv, At
  <1> QED
    BY <1>1, <1>2, <1>3, <1>4, Frame DEF LedgerInv

\* The hash that is read is genesis or that of a visible row.
LEMMA ReadHashStep ==
  ASSUME LedgerInv, NEW t \in Txs, ReadHash(t)
  PROVE  LedgerInv'
  <1>1. PICK h \in PrevHashes(Visible(t)) :
            tx' = [tx EXCEPT ![t].prev = h, ![t].step = "debit"]
    BY DEF ReadHash
  <1>2. h = Genesis \/ \E q \in Visible(t) : HashOf(q) = h
    BY <1>1 DEF PrevHashes, Latest
  <1>3. h \in Hash
    <2>1. ASSUME NEW q \in Visible(t) PROVE q.id \in Ids /\ q.depth \in Nat
      BY DEF LedgerInv, RowsInv, Visible
    <2> QED
      BY <1>2, <2>1, HashType
  <1>4. /\ tx'[t] \in TxState
        /\ tx'[t].state = tx[t].state /\ tx'[t].leg = tx[t].leg
        /\ tx'[t].amount = tx[t].amount /\ tx'[t].step = "debit" /\ tx'[t].prev = h
    BY <1>1, <1>3 DEF LedgerInv, TxState
  <1>5. RowsInv(t)'
    BY <1>4, RowsKeep DEF LedgerInv, ReadHash
  <1>6. PrevInv(t)'
    BY <1>2, <1>4 DEF PrevInv, At, ReadHash, Visible, HashOf
  <1>7. /\ tx' = [tx EXCEPT ![t] = tx'[t]] /\ book' = book /\ own' = own
        /\ \A u \in Txs : u # t => tx'[u] = tx[u]
        /\ tx[t].state # "committed"
    BY <1>1 DEF ReadHash, LedgerInv, At
  <1> QED
    BY <1>4, <1>5, <1>6, <1>7, Frame DEF LedgerInv

\* The amounts of the two modules are the same.
LEMMA SameFee == \A a : Abstract!Fee(a) = Fee(a)
  BY DEF Abstract!Fee, Abstract!ExactFee, Fee, ExactFee

\* The debit row is hashed onto what was read.
LEMMA InsertDebitStep ==
  ASSUME LedgerInv, NEW t \in Txs, InsertDebit(t)
  PROVE  LedgerInv'
  <1> DEFINE row == NewRow(t, "debit", DebitAccount(tx[t].leg), tx[t].prev, prevBalance[t])
  <1>1. /\ row.id = <<t, tx[t].leg, "debit">> /\ row.prev = tx[t].prev
        /\ row.depth = tx[t].prev.depth + 1
        /\ row.amount = LegAmount(tx[t].leg, tx[t].amount)
    BY DEF NewRow
  <1>2. /\ own' = [own EXCEPT ![t] = own[t] \cup {row}]
        /\ tx' = [tx EXCEPT ![t].step = "credit", ![t].prev = HashOf(row)]
        /\ book' = book
        /\ tx[t].state = "open" /\ tx[t].leg # "none" /\ tx[t].step = "debit"
    BY DEF InsertDebit, At
  <1> HIDE DEF row
  <1>3. tx[t] \in TxState
    BY DEF LedgerInv
  <1>4. row.id \in Ids /\ row.depth \in Nat
    <2>1. tx[t].prev.depth \in Nat
      BY <1>3, HashDepth DEF TxState
    <2>2. tx[t].leg \in {"capture", "fee", "refund"}
      BY <1>2, <1>3 DEF TxState
    <2> QED
      BY <1>1, <2>1, <2>2 DEF Ids
  <1>5. HashOf(row) \in Hash
    BY <1>4, HashType
  <1>6. /\ tx'[t] \in TxState
        /\ tx'[t].state = tx[t].state /\ tx'[t].leg = tx[t].leg
        /\ tx'[t].amount = tx[t].amount /\ tx'[t].step = "credit"
        /\ tx'[t].prev = HashOf(row)
    BY <1>2, <1>3, <1>5 DEF LedgerInv, TxState
  <1>7. own'[t] = own[t] \cup {row} /\ DOMAIN own' = Txs
    BY <1>2 DEF LedgerInv
  <1>8. Written(t)' = Written(t) /\ Visible(t) \subseteq Visible(t)'
    BY <1>2, <1>6, <1>7 DEF Written, Visible, Abstract!Legs, Abstract!Fee
  <1>9. \A r \in own'[t] : Rooted(r, Visible(t)')
    <2>1. Rooted(row, Visible(t))
      <3>1. tx[t].prev = Genesis \/ \E q \in Visible(t) : HashOf(q) = tx[t].prev
        BY <1>2 DEF LedgerInv, PrevInv, At
      <3> QED
        BY <1>1, <3>1, RootedNew
    <2>2. \A r \in own[t] : Rooted(r, Visible(t))
      BY DEF LedgerInv, RowsInv
    <2> QED
      BY <1>7, <1>8, <2>1, <2>2, RootedMono
  <1>10. RowsInv(t)
    BY DEF LedgerInv
  <1>11. RowsInv(t)'
    <2>1. \A r \in own'[t] : Rooted(r, Visible(t))'
      BY <1>9 DEF Rooted, HashOf
    <2>2. \A r \in own'[t] :
             /\ r.id \in Ids /\ r.id[1] = t /\ r.depth \in Nat
             /\ r.amount = LegAmount(r.id[2], tx'[t].amount)
             /\ \/ r.id[2] \in Written(t)'
                \/ r.id[2] = tx'[t].leg /\ r.id[3] = "debit"
      BY <1>1, <1>4, <1>6, <1>7, <1>8, <1>10 DEF RowsInv
    <2>3. /\ tx'[t].amount \in Amounts
          /\ tx'[t].leg \in Abstract!Legs(t, tx'[t].amount) \cup {"none"}
          /\ \A leg \in Written(t)', side \in {"debit", "credit"} :
                \E r \in own'[t] : r.id = <<t, leg, side>>
      BY <1>2, <1>6, <1>7, <1>8, <1>10 DEF RowsInv
    <2> QED
      BY <1>2, <1>6, <2>1, <2>2, <2>3 DEF RowsInv, LegAmount, Abstract!Legs, Abstract!Fee, Fee
  <1>12. PrevInv(t)'
    BY <1>1, <1>6, <1>7 DEF PrevInv, At, HashOf
  <1>13. /\ tx' = [tx EXCEPT ![t] = tx'[t]]
         /\ \A u \in Txs : u # t => tx'[u] = tx[u] /\ own'[u] = own[u]
    BY <1>2 DEF LedgerInv
  <1> QED
    BY <1>2, <1>6, <1>7, <1>11, <1>12, <1>13, Frame DEF LedgerInv

\* After a credit the leg is among those written in full, and the next one is a
\* leg of the transaction.
LEMMA LegDone ==
  ASSUME NEW t \in Txs, NEW a, NEW leg \in Abstract!Legs(t, a)
  PROVE  LET next == NextLeg(leg, a)
         IN  /\ next \in Abstract!Legs(t, a) \cup {"none"}
             /\ next \in {"fee", "none"}
             /\ leg = "fee" => next = "none" /\ Abstract!Legs(t, a) = {"capture", "fee"}
             /\ leg # "fee" /\ next = "none" => Abstract!Legs(t, a) = {leg}
             /\ next = "fee" => leg = "capture"
  BY SameFee DEF NextLeg, Abstract!Legs

\* The credit row is hashed onto the debit row and completes the pair.
LEMMA InsertCreditStep ==
  ASSUME LedgerInv, NEW t \in Txs, InsertCredit(t)
  PROVE  LedgerInv'
  <1> DEFINE row == NewRow(t, "credit", CreditAccount(tx[t].leg), tx[t].prev,
                           prevBalance[t] + LegAmount(tx[t].leg, tx[t].amount))
             next == NextLeg(tx[t].leg, tx[t].amount)
  <1>1. /\ row.id = <<t, tx[t].leg, "credit">> /\ row.prev = tx[t].prev
        /\ row.depth = tx[t].prev.depth + 1
        /\ row.amount = LegAmount(tx[t].leg, tx[t].amount)
    BY DEF NewRow
  <1>2. /\ own' = [own EXCEPT ![t] = own[t] \cup {row}]
        /\ tx' = [tx EXCEPT ![t].leg = next, ![t].step = "balance",
                           ![t].now = 0, ![t].prev = Genesis]
        /\ book' = book
        /\ tx[t].state = "open" /\ tx[t].leg # "none" /\ tx[t].step = "credit"
    BY DEF InsertCredit, At
  <1> HIDE DEF row
  <1>3. tx[t] \in TxState /\ RowsInv(t) /\ PrevInv(t)
    BY DEF LedgerInv
  <1>4. row.id \in Ids /\ row.depth \in Nat
    <2>1. tx[t].prev.depth \in Nat
      BY <1>3, HashDepth DEF TxState
    <2>2. tx[t].leg \in {"capture", "fee", "refund"}
      BY <1>2, <1>3 DEF TxState
    <2> QED
      BY <1>1, <2>1, <2>2 DEF Ids
  <1>5. PICK q \in own[t] : HashOf(q) = tx[t].prev /\ q.id = <<t, tx[t].leg, "debit">>
    BY <1>2, <1>3 DEF PrevInv, At
  <1>6. tx[t].leg \in Abstract!Legs(t, tx[t].amount)
    BY <1>2, <1>3 DEF RowsInv
  <1>7. /\ next \in Abstract!Legs(t, tx[t].amount) \cup {"none"}
        /\ next \in {"fee", "none"}
        /\ tx[t].leg = "fee" => next = "none"
                               /\ Abstract!Legs(t, tx[t].amount) = {"capture", "fee"}
        /\ tx[t].leg # "fee" /\ next = "none" => Abstract!Legs(t, tx[t].amount) = {tx[t].leg}
        /\ next = "fee" => tx[t].leg = "capture"
    BY <1>6, LegDone
  <1> HIDE DEF next
  <1>8. /\ tx'[t] \in TxState
        /\ tx'[t].state = tx[t].state /\ tx'[t].leg = next
        /\ tx'[t].amount = tx[t].amount /\ tx'[t].step = "balance"
    BY <1>2, <1>3, <1>7, HashType DEF LedgerInv, TxState
  <1>9. own'[t] = own[t] \cup {row} /\ DOMAIN own' = Txs
    BY <1>2 DEF LedgerInv
  <1>10. Written(t)' = Written(t) \cup {tx[t].leg}
    <2>1. Written(t)' = IF next = "none" THEN Abstract!Legs(t, tx[t].amount)
                        ELSE IF next = "fee" THEN {"capture"} ELSE {}
      BY <1>8 DEF Written, Abstract!Legs, Abstract!Fee
    <2>2. Written(t) = IF tx[t].leg = "fee" THEN {"capture"} ELSE {}
      BY <1>2 DEF Written
    <2> QED
      BY <1>7, <2>1, <2>2
  <1>11. \A r \in own'[t] : Rooted(r, Visible(t)')
    <2>1. Rooted(row, Visible(t))
      BY <1>1, <1>5, RootedNew DEF Visible
    <2>2. Visible(t) \subseteq Visible(t)'
      BY <1>2, <1>9 DEF Visible
    <2> QED
      BY <1>3, <1>9, <2>1, <2>2, RootedMono DEF RowsInv
  <1>12. RowsInv(t)'
    <2>1. \A r \in own'[t] : Rooted(r, Visible(t))'
      BY <1>11 DEF Rooted, HashOf
    <2>2. \A r \in own'[t] :
             /\ r.id \in Ids /\ r.id[1] = t /\ r.depth \in Nat
             /\ r.amount = LegAmount(r.id[2], tx'[t].amount)
             /\ r.id[2] \in Written(t)'
      BY <1>1, <1>3, <1>4, <1>8, <1>9, <1>10 DEF RowsInv
    <2>3. \A leg \in Written(t)', side \in {"debit", "credit"} :
                \E r \in own'[t] : r.id = <<t, leg, side>>
      <3> TAKE leg \in Written(t)', side \in {"debit", "credit"}
      <3>1. CASE leg \in Written(t)
        BY <1>2, <1>3, <1>9, <3>1 DEF RowsInv
      <3>2. CASE leg = tx[t].leg
        BY <1>1, <1>5, <1>9, <3>2
      <3> QED
        BY <1>10, <3>1, <3>2
    <2>4. /\ tx'[t].amount \in Amounts
          /\ tx'[t].leg \in Abstract!Legs(t, tx'[t].amount) \cup {"none"}
      BY <1>2, <1>3, <1>7, <1>8 DEF RowsInv
    <2> QED
      BY <1>2, <1>8, <2>1, <2>2, <2>3, <2>4
         DEF RowsInv, LegAmount, Abstract!Legs, Abstract!Fee, Fee
  <1>13. PrevInv(t)'
    BY <1>8 DEF PrevInv, At
  <1>14. /\ tx' = [tx EXCEPT ![t] = tx'[t]]
         /\ \A u \in Txs : u # t => tx'[u] = tx[u] /\ own'[u] = own[u]
    BY <1>2 DEF LedgerInv
  <1> QED
    BY <1>2, <1>8, <1>9, <1>12, <1>13, <1>14, Frame DEF LedgerInv

\* A transaction that fails takes its rows with it.
LEMMA RollbackStep ==
  ASSUME LedgerInv, NEW t \in Txs, Rollback(t)
  PROVE  LedgerInv'
  <1>1. /\ own'[t] = {} /\ tx'[t] = Idle /\ DOMAIN own' = Txs
        /\ book' = book /\ tx[t].state = "open"
        /\ tx' = [tx EXCEPT ![t] = Idle]
        /\ \A u \in Txs : u # t => tx'[u] = tx[u] /\ own'[u] = own[u]
    BY DEF Rollback, LedgerInv
  <1>2. Idle \in TxState
    BY HashType DEF Idle, TxState
  <1>3. RowsInv(t)' /\ PrevInv(t)'
    BY <1>1 DEF RowsInv, PrevInv, At, Idle
  <1> QED
    BY <1>1, <1>2, <1>3, Frame DEF LedgerInv

\* What a transaction that has written all its legs brings into the book.
LEMMA CommitStep ==
  ASSUME LedgerInv, NEW t \in Txs, Commit(t)
  PROVE  LedgerInv'
  <1>1. /\ book' = book \cup own[t] /\ own' = [own EXCEPT ![t] = {}]
        /\ tx' = [tx EXCEPT ![t] = [Idle EXCEPT !.state = "committed"]]
        /\ tx[t].state = "open" /\ tx[t].leg = "none"
    BY DEF Commit, AllWritten
  <1>2. /\ tx'[t] = [Idle EXCEPT !.state = "committed"] /\ tx'[t].state = "committed"
        /\ tx'[t] \in TxState
    BY <1>1, HashType DEF LedgerInv, Idle, TxState
  <1>3. tx' \in [Txs -> TxState] /\ DOMAIN own' = Txs /\ own'[t] = {}
    BY <1>1, <1>2 DEF LedgerInv
  <1>4. ASSUME NEW u \in Txs PROVE RowsInv(u)' /\ PrevInv(u)'
    <2>1. CASE u = t
      BY <1>2, <1>3, <2>1 DEF RowsInv, PrevInv, At
    <2>2. CASE u # t
      <3>1. tx'[u] = tx[u] /\ own'[u] = own[u] /\ book \subseteq book'
        BY <1>1, <2>2 DEF LedgerInv
      <3> QED
        BY <3>1, OthersKeep DEF LedgerInv
    <2> QED
      BY <2>1, <2>2
  <1>5. RowsInv(t)
    BY DEF LedgerInv
  <1>6. ASSUME NEW r \in book'
        PROVE  /\ r.id \in Ids /\ r.depth \in Nat
               /\ tx'[r.id[1]].state = "committed"
    <2>1. CASE r \in own[t]
      BY <1>2, <1>5, <2>1 DEF RowsInv
    <2>2. CASE r \in book
      BY <1>1, <1>2, <2>2 DEF LedgerInv, Ids
    <2> QED
      BY <1>1, <2>1, <2>2
  <1>7. ChainIsRooted'
    <2>1. \A r \in book : Rooted(r, book)
      BY DEF LedgerInv, ChainIsRooted
    <2>2. \A r \in own[t] : Rooted(r, book')
      BY <1>1, <1>5 DEF RowsInv, Visible
    <2>3. \A r \in book' : Rooted(r, book')
      BY <1>1, <2>1, <2>2, RootedMono
    <2> QED
      BY <2>3 DEF ChainIsRooted, Rooted, HashOf
  <1>8. RowsPaired'
    <2> SUFFICES ASSUME NEW r \in book'
                 PROVE  \E q \in book' : /\ q.id[1] = r.id[1] /\ q.id[2] = r.id[2]
                                         /\ q.id[3] # r.id[3] /\ q.amount = r.amount
      BY DEF RowsPaired
    <2>1. CASE r \in book
      BY <1>1, <2>1 DEF LedgerInv, RowsPaired
    <2>2. CASE r \in own[t]
      <3>1. r.id \in Ids /\ r.id[2] \in Written(t) /\ r.id[1] = t
        BY <1>1, <1>5, <2>2 DEF RowsInv, Ids
      <3>2. PICK side \in {"debit", "credit"} : side # r.id[3]
        BY <3>1 DEF Ids
      <3>3. PICK q \in own[t] : q.id = <<t, r.id[2], side>>
        BY <1>1, <1>5, <3>1 DEF RowsInv
      <3>4. q.amount = r.amount
        BY <1>5, <2>2, <3>3 DEF RowsInv
      <3> QED
        BY <1>1, <3>1, <3>2, <3>3, <3>4
    <2> QED
      BY <1>1, <2>1, <2>2
  <1> QED
    BY <1>3, <1>4, <1>6, <1>7, <1>8 DEF LedgerInv

\* Every step keeps the invariant.
LEMMA LedgerStep == LedgerInv /\ [Next]_vars => LedgerInv'
  <1> SUFFICES ASSUME LedgerInv, [Next]_vars PROVE LedgerInv'
    OBVIOUS
  <1>1. ASSUME NEW t \in Txs, NEW a \in Amounts, Begin(t, a) PROVE LedgerInv'
    BY <1>1, BeginStep
  <1>2. ASSUME NEW t \in Txs, Statement(t) PROVE LedgerInv'
    BY <1>2, ReadBalanceStep, ReadHashStep, InsertDebitStep, InsertCreditStep DEF Statement
  <1>3. ASSUME NEW t \in Txs, Commit(t) PROVE LedgerInv'
    BY <1>3, CommitStep
  <1>4. ASSUME NEW t \in Txs, Rollback(t) PROVE LedgerInv'
    BY <1>4, RollbackStep
  <1>5. CASE UNCHANGED vars
    <2>1. /\ tx' = tx /\ own' = own /\ book' = book
      BY <1>5 DEF vars
    <2>2. ASSUME NEW u \in Txs PROVE RowsInv(u)' /\ PrevInv(u)'
      BY <2>1, OthersKeep DEF LedgerInv
    <2>3. ChainIsRooted' /\ RowsPaired'
      BY <2>1 DEF LedgerInv, ChainIsRooted, RowsPaired, Rooted, HashOf
    <2> QED
      BY <2>1, <2>2, <2>3 DEF LedgerInv
  <1> QED
    BY <1>1, <1>2, <1>3, <1>4, <1>5 DEF Next

\* LedgerInv holds for any payments and amounts, however the transactions
\* interleave, fail and are made again.
THEOREM LedgerInvariance == Spec => []LedgerInv
  BY LedgerInit, LedgerStep, PTL DEF Spec

\* The hash chain stays rooted (get_prev_hash under READ COMMITTED).
THEOREM ChainSound == Spec => []ChainIsRooted
  <1>1. LedgerInv => ChainIsRooted
    BY DEF LedgerInv
  <1> QED
    BY <1>1, LedgerInvariance, PTL

\* Every row of write_double_entry that is ever committed has its counterpart.
THEOREM DoubleEntry == Spec => []RowsPaired
  <1>1. LedgerInv => RowsPaired
    BY DEF LedgerInv
  <1> QED
    BY <1>1, LedgerInvariance, PTL

-----------------------------------------------------------------------------
(* Refinement                                                              *)

\* The entries that a commit adds to the journal are those of the transaction.
LEMMA CommitRecords ==
  ASSUME LedgerInv, NEW t \in Txs, Commit(t)
  PROVE  Abstract!Record(t, tx[t].amount)
  <1>1. /\ book' = book \cup own[t] /\ tx[t].state = "open" /\ tx[t].leg = "none"
        /\ RowsInv(t)
    BY DEF Commit, AllWritten, LedgerInv
  <1>2. \A e \in JournalOf(book) : e.tx # t
    BY <1>1 DEF JournalOf, LedgerInv
  <1>3. Written(t) = Abstract!Legs(t, tx[t].amount)
    BY <1>1 DEF Written
  <1>4. JournalOf(own[t]) \subseteq Abstract!Entries(t, tx[t].amount)
    <2> SUFFICES ASSUME NEW r \in own[t], r.id[3] = "credit"
                 PROVE  [tx |-> r.id[1], leg |-> r.id[2], amount |-> r.amount]
                            \in Abstract!Entries(t, tx[t].amount)
      BY DEF JournalOf
    <2>1. /\ r.id \in Ids /\ r.id[1] = t /\ r.id[2] \in Abstract!Legs(t, tx[t].amount)
          /\ r.amount = LegAmount(r.id[2], tx[t].amount)
      BY <1>1, <1>3 DEF RowsInv
    <2>2. r.amount = Abstract!LegAmount(r.id[2], tx[t].amount)
      BY <2>1, SameFee DEF LegAmount, Abstract!LegAmount
    <2> QED
      BY <2>1, <2>2 DEF Abstract!Entries
  <1>5. Abstract!Entries(t, tx[t].amount) \subseteq JournalOf(own[t])
    <2> SUFFICES ASSUME NEW leg \in Abstract!Legs(t, tx[t].amount)
                 PROVE  [tx |-> t, leg |-> leg,
                         amount |-> Abstract!LegAmount(leg, tx[t].amount)]
                            \in JournalOf(own[t])
      BY DEF Abstract!Entries
    <2>1. PICK r \in own[t] : r.id = <<t, leg, "credit">>
      BY <1>1, <1>3 DEF RowsInv
    <2>2. r.amount = Abstract!LegAmount(leg, tx[t].amount)
      BY <1>1, <2>1, SameFee DEF RowsInv, LegAmount, Abstract!LegAmount
    <2> QED
      BY <2>1, <2>2 DEF JournalOf
  <1>6. JournalOf(book') = JournalOf(book) \cup JournalOf(own[t])
    BY <1>1 DEF JournalOf
  <1>7. JournalOf(book)' = JournalOf(book')
    BY DEF JournalOf
  <1> QED
    BY <1>2, <1>4, <1>5, <1>6, <1>7 DEF Abstract!Record

\* The ledger writer implements the atomic journal: a commit is one Record, every
\* other step leaves the journal alone.
THEOREM LedgerRefines == Spec => ImplementsJournal
  <1>1. Init => Abstract!JournalInit
    BY DEF Init, Abstract!JournalInit, JournalOf
  <1>2. ASSUME LedgerInv, [Next]_vars
        PROVE  [Abstract!JournalNext]_(JournalOf(book))
    <2>1. ASSUME NEW t \in Txs, Commit(t) PROVE Abstract!JournalNext
      <3>1. tx[t].amount \in Amounts
        BY <1>2, <2>1 DEF LedgerInv, RowsInv, Commit, AllWritten
      <3> QED
        BY <1>2, <2>1, <3>1, CommitRecords DEF Abstract!JournalNext, Abstract!Txs
    <2>2. CASE book' = book
      BY <2>2 DEF JournalOf
    <2> QED
      BY <1>2, <2>1, <2>2 DEF Next, Statement, Begin, ReadBalance, ReadHash, InsertDebit,
                              InsertCredit, Rollback, vars
  <1> QED
    BY <1>1, <1>2, LedgerInvariance, PTL DEF Spec, ImplementsJournal, Abstract!JournalSpec

-----------------------------------------------------------------------------
(* Types.  The balance that is read is an integer because the rows that    *)
(* are summed up are finitely many.                                        *)

\* At any time there are finitely many rows.
RowsFinite == IsFiniteSet(book) /\ \A t \in Txs : IsFiniteSet(own[t])

\* The two accounts of a leg are accounts of the ledger, and different ones.
LEMMA LegAccounts ==
  ASSUME NEW leg \in {"capture", "fee", "refund"}
  PROVE  /\ DebitAccount(leg) \in Accounts /\ CreditAccount(leg) \in Accounts
         /\ DebitAccount(leg) # CreditAccount(leg)
  <1>1. CASE leg = "capture"
    BY <1>1 DEF DebitAccount, CreditAccount, Accounts
  <1>2. CASE leg = "fee"
    BY <1>2 DEF DebitAccount, CreditAccount, Accounts
  <1>3. CASE leg = "refund"
    BY <1>3 DEF DebitAccount, CreditAccount, Accounts
  <1> QED
    BY <1>1, <1>2, <1>3

\* The sum of one side of an account is a natural number.
LEMMA SideSumNat ==
  ASSUME NEW S, IsFiniteSet(S), \A r \in S : r.amount \in Nat, NEW account, NEW side
  PROVE  /\ IsFiniteSet(SideRows(S, account, side))
         /\ SideSum(S, account, side) \in Nat
  <1> DEFINE R == SideRows(S, account, side)
             w == [r \in R |-> r.amount]
  <1>1. R \subseteq S
    BY DEF SideRows
  <1>2. IsFiniteSet(R)
    BY <1>1, FS_Subset
  <1>3. w \in [R -> Nat]
    BY <1>1
  <1>4. SumOf(w) \in Nat
    <2> HIDE DEF w, R
    <2> QED
      BY <1>2, <1>3, SumNat
  <1> QED
    BY <1>2, <1>4 DEF SideSum

\* A balance is an integer.
LEMMA BalanceInt ==
  ASSUME NEW S, IsFiniteSet(S), \A r \in S : r.amount \in Nat, NEW account
  PROVE  Balance(S, account) \in Int
  BY SideSumNat DEF Balance

\* The amount of a leg is a natural number.
LEMMA LegAmountNat ==
  ASSUME NEW leg, NEW a \in Nat
  PROVE  LegAmount(leg, a) \in Nat
  BY FeeIsNat DEF LegAmount

\* The rows the writer makes are rows of the table.
LEMMA NewRowType ==
  ASSUME TypeOK, NEW t \in Txs, tx[t].leg # "none", NEW side \in {"debit", "credit"},
         NEW account \in Accounts, NEW after \in Int
  PROVE  NewRow(t, side, account, tx[t].prev, after) \in Row
  <1>1. /\ tx[t] \in TxState /\ prevBalance[t] \in Int
    BY DEF TypeOK
  <1>2. /\ tx[t].leg \in {"capture", "fee", "refund"} /\ tx[t].amount \in Nat
        /\ tx[t].now \in Nat /\ tx[t].prev \in Hash
    BY <1>1 DEF TxState
  <1>3. /\ tx[t].prev.depth + 1 \in Nat /\ LegAmount(tx[t].leg, tx[t].amount) \in Nat
        /\ <<t, tx[t].leg, side>> \in Ids
    BY <1>2, HashDepth, LegAmountNat DEF Ids
  <1> QED
    BY <1>1, <1>2, <1>3 DEF NewRow, Row

\* Every step keeps the types and adds finitely many rows.
LEMMA LedgerTypeStep ==
  ASSUME LedgerInv, TypeOK, RowsFinite, [Next]_vars
  PROVE  TypeOK' /\ RowsFinite'
  <1>0. /\ \A t \in Txs : tx[t] \in TxState /\ own[t] \subseteq Row /\ prevBalance[t] \in Int
        /\ \A t \in Txs : IsFiniteSet(own[t])
        /\ IsFiniteSet(book)
    BY DEF TypeOK, RowsFinite
  <1>a. tx' \in [Txs -> TxState]
    BY LedgerStep DEF LedgerInv
  <1>1. ASSUME NEW t \in Txs, NEW a \in Amounts, Begin(t, a)
        PROVE  TypeOK' /\ RowsFinite'
    BY <1>1, <1>a DEF Begin, TypeOK, RowsFinite
  <1>2. ASSUME NEW t \in Txs, ReadBalance(t) PROVE TypeOK' /\ RowsFinite'
    <2>1. SumOfAccount(t) \in Int
      <3>1. IsFiniteSet(Visible(t))
        BY <1>0, FS_Union DEF Visible
      <3>2. \A r \in Visible(t) : r.amount \in Nat
        BY <1>0 DEF Visible, TypeOK, Row
      <3> QED
        BY <3>1, <3>2, BalanceInt DEF SumOfAccount
    <2>2. prevBalance' \in [Txs -> Int] /\ book' = book /\ own' = own /\ overlapped' = overlapped
      BY <1>2, <2>1 DEF ReadBalance, TypeOK
    <2>3. behind' \subseteq Txs
      BY <1>2 DEF ReadBalance, TypeOK
    <2> QED
      BY <1>a, <2>2, <2>3 DEF TypeOK, RowsFinite
  <1>3. ASSUME NEW t \in Txs, ReadHash(t) PROVE TypeOK' /\ RowsFinite'
    BY <1>3, <1>a DEF ReadHash, TypeOK, RowsFinite
  <1>4. ASSUME NEW t \in Txs, NEW row \in Row, own' = [own EXCEPT ![t] = own[t] \cup {row}],
               prevBalance' \in [Txs -> Int], UNCHANGED <<book, overlapped, behind>>
        PROVE  TypeOK' /\ RowsFinite'
    <2>1. IsFiniteSet(own[t] \cup {row})
      BY <1>0, FS_AddElement
    <2> QED
      BY <1>4, <1>a, <2>1 DEF TypeOK, RowsFinite
  <1>5. ASSUME NEW t \in Txs, InsertDebit(t) PROVE TypeOK' /\ RowsFinite'
    <2> DEFINE row == NewRow(t, "debit", DebitAccount(tx[t].leg), tx[t].prev, prevBalance[t])
    <2>1. tx[t].leg # "none" /\ tx[t].leg \in {"capture", "fee", "refund"}
      BY <1>0, <1>5 DEF InsertDebit, At, TxState
    <2>2. row \in Row
      BY <1>0, <2>1, LegAccounts, NewRowType
    <2>3. /\ own' = [own EXCEPT ![t] = own[t] \cup {row}]
          /\ prevBalance' \in [Txs -> Int] /\ UNCHANGED <<book, overlapped, behind>>
      BY <1>5 DEF InsertDebit, TypeOK
    <2> HIDE DEF row
    <2> QED
      BY <1>4, <2>2, <2>3
  <1>6. ASSUME NEW t \in Txs, InsertCredit(t) PROVE TypeOK' /\ RowsFinite'
    <2> DEFINE row == NewRow(t, "credit", CreditAccount(tx[t].leg), tx[t].prev,
                             prevBalance[t] + LegAmount(tx[t].leg, tx[t].amount))
    <2>1. /\ tx[t].leg # "none" /\ tx[t].leg \in {"capture", "fee", "refund"}
          /\ tx[t].amount \in Nat
      BY <1>0, <1>6 DEF InsertCredit, At, TxState
    <2>2. row \in Row
      <3>1. prevBalance[t] + LegAmount(tx[t].leg, tx[t].amount) \in Int
        BY <1>0, <2>1, LegAmountNat
      <3> QED
        BY <2>1, <3>1, LegAccounts, NewRowType
    <2>3. /\ own' = [own EXCEPT ![t] = own[t] \cup {row}]
          /\ prevBalance' \in [Txs -> Int] /\ UNCHANGED <<book, overlapped, behind>>
      BY <1>6 DEF InsertCredit, TypeOK
    <2> HIDE DEF row
    <2> QED
      BY <1>4, <2>2, <2>3
  <1>7. ASSUME NEW t \in Txs, Commit(t) PROVE TypeOK' /\ RowsFinite'
    <2>1. IsFiniteSet(book \cup own[t]) /\ IsFiniteSet({})
      BY <1>0, FS_Union, FS_EmptySet
    <2> QED
      BY <1>0, <1>7, <1>a, <2>1 DEF Commit, OpenTxs, TypeOK, RowsFinite
  <1>8. ASSUME NEW t \in Txs, Rollback(t) PROVE TypeOK' /\ RowsFinite'
    BY <1>0, <1>8, <1>a, FS_EmptySet DEF Rollback, TypeOK, RowsFinite
  <1>9. CASE UNCHANGED vars
    BY <1>9 DEF vars, TypeOK, RowsFinite
  <1> QED
    BY <1>1, <1>2, <1>3, <1>5, <1>6, <1>7, <1>8, <1>9 DEF Next, Statement

\* The types of LedgerChain, balances included, and the finiteness of its tables.
THEOREM LedgerTypes == Spec => [](TypeOK /\ RowsFinite)
  <1>1. Init => TypeOK /\ RowsFinite
    BY HashType, LedgerAssumption, FS_EmptySet DEF Init, TypeOK, RowsFinite, Idle, TxState
  <1>2. LedgerInv /\ TypeOK /\ RowsFinite /\ [Next]_vars => TypeOK' /\ RowsFinite'
    BY LedgerTypeStep
  <1> QED
    BY <1>1, <1>2, LedgerInvariance, PTL DEF Spec

-----------------------------------------------------------------------------
(* Effects of the statements, row by row.                                  *)

\* No statement of t touches another transaction or the book.
Apart(t) ==
    /\ book' = book /\ overlapped' = overlapped
    /\ \A u \in Txs : u # t => /\ tx'[u] = tx[u] /\ own'[u] = own[u]
                               /\ prevBalance'[u] = prevBalance[u]

\* What ReadBalance leaves behind.
LEMMA ReadBalanceEffect ==
  ASSUME LedgerInv, TypeOK, NEW t \in Txs, ReadBalance(t)
  PROVE  /\ Apart(t) /\ own' = own /\ behind' \in {behind, behind \cup {t}}
         /\ tx[t].state = "open" /\ tx[t].leg # "none" /\ tx[t].step = "balance"
         /\ tx'[t].state = "open" /\ tx'[t].leg = tx[t].leg /\ tx'[t].step = "hash"
         /\ tx'[t].amount = tx[t].amount
         /\ t \notin behind' => \A x \in Visible(t) : x.createdAt < tx'[t].now
         /\ prevBalance'[t] = Balance(Visible(t), CreditAccount(tx[t].leg))
  <1>0. PICK n \in Nat : /\ tx' = [tx EXCEPT ![t].now = n, ![t].step = "hash"]
                         /\ behind' = IF \E x \in Visible(t) : n =< x.createdAt
                                      THEN behind \cup {t} ELSE behind
    <2>1. PICK n \in 1..MaxClock :
             /\ tx' = [tx EXCEPT ![t].now = n, ![t].step = "hash"]
             /\ behind' = IF \E x \in Visible(t) : n =< x.createdAt
                          THEN behind \cup {t} ELSE behind
      BY Zenon DEF ReadBalance
    <2>2. n \in Nat
      BY <2>1, LedgerAssumption
    <2> QED
      BY <2>1, <2>2, Zenon
  <1>1. /\ tx[t].state = "open" /\ tx[t].leg # "none" /\ tx[t].step = "balance"
    BY DEF ReadBalance, At
  <1>2. /\ tx'[t].state = tx[t].state /\ tx'[t].leg = tx[t].leg /\ tx'[t].step = "hash"
        /\ tx'[t].amount = tx[t].amount /\ tx'[t].now = n
        /\ \A u \in Txs : u # t => tx'[u] = tx[u]
    BY <1>0 DEF LedgerInv, TxState
  <1>3. /\ prevBalance'[t] = SumOfAccount(t)
        /\ \A u \in Txs : u # t => prevBalance'[u] = prevBalance[u]
        /\ own' = own /\ book' = book /\ overlapped' = overlapped
    BY DEF ReadBalance, TypeOK
  <1>4. t \notin behind' => \A x \in Visible(t) : x.createdAt < n
    <2>1. \A x \in Visible(t) : x.createdAt \in Nat
      BY DEF TypeOK, Visible, Row
    <2>2. t \notin behind' => \A x \in Visible(t) : ~(n =< x.createdAt)
      BY <1>0
    <2> QED
      BY <2>1, <2>2
  <1>5. behind' \in {behind, behind \cup {t}}
    BY <1>0
  <1> QED
    BY <1>1, <1>2, <1>3, <1>4, <1>5 DEF Apart, SumOfAccount

\* What ReadHash leaves behind.
LEMMA ReadHashEffect ==
  ASSUME LedgerInv, TypeOK, NEW t \in Txs, ReadHash(t)
  PROVE  /\ Apart(t) /\ own' = own /\ behind' = behind /\ prevBalance' = prevBalance
         /\ tx[t].state = "open" /\ tx[t].leg # "none" /\ tx[t].step = "hash"
         /\ tx'[t].state = "open" /\ tx'[t].leg = tx[t].leg /\ tx'[t].step = "debit"
         /\ tx'[t].amount = tx[t].amount /\ tx'[t].now = tx[t].now
         /\ tx'[t].prev \in PrevHashes(Visible(t))
  <1>1. PICK h \in PrevHashes(Visible(t)) :
            tx' = [tx EXCEPT ![t].prev = h, ![t].step = "debit"]
    BY DEF ReadHash
  <1>2. tx[t].state = "open" /\ tx[t].leg # "none" /\ tx[t].step = "hash"
    BY DEF ReadHash, At
  <1>3. /\ tx'[t].state = tx[t].state /\ tx'[t].leg = tx[t].leg /\ tx'[t].step = "debit"
        /\ tx'[t].amount = tx[t].amount /\ tx'[t].now = tx[t].now /\ tx'[t].prev = h
        /\ \A u \in Txs : u # t => tx'[u] = tx[u]
    BY <1>1 DEF LedgerInv, TxState
  <1> QED
    BY <1>1, <1>2, <1>3 DEF ReadHash, Apart

\* What InsertDebit leaves behind.
LEMMA InsertDebitEffect ==
  ASSUME LedgerInv, TypeOK, NEW t \in Txs, InsertDebit(t)
  PROVE  \E row :
         /\ Apart(t) /\ behind' = behind /\ prevBalance' = prevBalance
         /\ own'[t] = own[t] \cup {row}
         /\ row.id = <<t, tx[t].leg, "debit">> /\ row.prev = tx[t].prev
         /\ row.depth = tx[t].prev.depth + 1
         /\ row.account = DebitAccount(tx[t].leg) /\ row.createdAt = tx[t].now
         /\ row.balanceBefore = prevBalance[t] /\ row.balanceAfter = prevBalance[t]
         /\ tx[t].state = "open" /\ tx[t].leg # "none" /\ tx[t].step = "debit"
         /\ tx'[t].state = "open" /\ tx'[t].leg = tx[t].leg /\ tx'[t].step = "credit"
         /\ tx'[t].amount = tx[t].amount /\ tx'[t].now = tx[t].now
         /\ tx'[t].prev = HashOf(row)
  <1> DEFINE row == NewRow(t, "debit", DebitAccount(tx[t].leg), tx[t].prev, prevBalance[t])
  <1>1. /\ row.id = <<t, tx[t].leg, "debit">> /\ row.prev = tx[t].prev
        /\ row.depth = tx[t].prev.depth + 1
        /\ row.account = DebitAccount(tx[t].leg) /\ row.createdAt = tx[t].now
        /\ row.balanceBefore = prevBalance[t] /\ row.balanceAfter = prevBalance[t]
    BY DEF NewRow
  <1>2. /\ own' = [own EXCEPT ![t] = own[t] \cup {row}]
        /\ tx' = [tx EXCEPT ![t].step = "credit", ![t].prev = HashOf(row)]
        /\ tx[t].state = "open" /\ tx[t].leg # "none" /\ tx[t].step = "debit"
        /\ UNCHANGED <<book, prevBalance, overlapped, behind>>
    BY DEF InsertDebit, At
  <1> HIDE DEF row
  <1>3. /\ tx'[t].state = tx[t].state /\ tx'[t].leg = tx[t].leg /\ tx'[t].step = "credit"
        /\ tx'[t].amount = tx[t].amount /\ tx'[t].now = tx[t].now
        /\ tx'[t].prev = HashOf(row)
        /\ \A u \in Txs : u # t => tx'[u] = tx[u]
    BY <1>2 DEF LedgerInv, TxState
  <1>4. own'[t] = own[t] \cup {row} /\ \A u \in Txs : u # t => own'[u] = own[u]
    BY <1>2 DEF LedgerInv
  <1>5. Apart(t)
    BY <1>2, <1>3, <1>4 DEF Apart
  <1> WITNESS row
  <1> QED
    BY <1>1, <1>2, <1>3, <1>4, <1>5

\* What InsertCredit leaves behind.
LEMMA InsertCreditEffect ==
  ASSUME LedgerInv, TypeOK, NEW t \in Txs, InsertCredit(t)
  PROVE  \E row :
         /\ Apart(t) /\ behind' = behind
         /\ own'[t] = own[t] \cup {row}
         /\ row.id = <<t, tx[t].leg, "credit">> /\ row.prev = tx[t].prev
         /\ row.depth = tx[t].prev.depth + 1
         /\ row.account = CreditAccount(tx[t].leg) /\ row.createdAt = tx[t].now
         /\ row.amount = LegAmount(tx[t].leg, tx[t].amount)
         /\ row.balanceBefore = prevBalance[t]
         /\ row.balanceAfter = prevBalance[t] + LegAmount(tx[t].leg, tx[t].amount)
         /\ tx[t].state = "open" /\ tx[t].leg # "none" /\ tx[t].step = "credit"
         /\ tx'[t].state = "open" /\ tx'[t].step = "balance"
         /\ tx'[t].leg = NextLeg(tx[t].leg, tx[t].amount)
  <1> DEFINE row == NewRow(t, "credit", CreditAccount(tx[t].leg), tx[t].prev,
                           prevBalance[t] + LegAmount(tx[t].leg, tx[t].amount))
             next == NextLeg(tx[t].leg, tx[t].amount)
  <1>1. /\ row.id = <<t, tx[t].leg, "credit">> /\ row.prev = tx[t].prev
        /\ row.depth = tx[t].prev.depth + 1
        /\ row.account = CreditAccount(tx[t].leg) /\ row.createdAt = tx[t].now
        /\ row.amount = LegAmount(tx[t].leg, tx[t].amount)
        /\ row.balanceBefore = prevBalance[t]
        /\ row.balanceAfter = prevBalance[t] + LegAmount(tx[t].leg, tx[t].amount)
    BY DEF NewRow
  <1>2. /\ own' = [own EXCEPT ![t] = own[t] \cup {row}]
        /\ tx' = [tx EXCEPT ![t].leg = next, ![t].step = "balance",
                           ![t].now = 0, ![t].prev = Genesis]
        /\ tx[t].state = "open" /\ tx[t].leg # "none" /\ tx[t].step = "credit"
        /\ prevBalance' = [prevBalance EXCEPT ![t] = 0]
        /\ UNCHANGED <<book, overlapped, behind>>
    BY DEF InsertCredit, At
  <1> HIDE DEF row, next
  <1>3. /\ tx'[t].state = tx[t].state /\ tx'[t].step = "balance"
        /\ tx'[t].leg = next
        /\ \A u \in Txs : u # t => tx'[u] = tx[u]
    BY <1>2 DEF LedgerInv, TxState
  <1>4. own'[t] = own[t] \cup {row} /\ \A u \in Txs : u # t => own'[u] = own[u]
    BY <1>2 DEF LedgerInv
  <1>5. Apart(t) /\ tx'[t].leg = NextLeg(tx[t].leg, tx[t].amount)
    BY <1>2, <1>3, <1>4 DEF Apart, next, TypeOK
  <1> WITNESS row
  <1> QED
    BY <1>1, <1>2, <1>3, <1>4, <1>5

-----------------------------------------------------------------------------
(* Forks.  While no other transaction commits and its clock is ahead of    *)
(* what it sees, a row is hashed onto one that is older than it and newer  *)
(* than any row hashed before it.                                          *)

\* No row of S that r was hashed onto is as young as r.
Later(r, S) == \A x \in S : HashOf(x) = r.prev => x.createdAt < r.createdAt

\* Only transactions that went astray have a debit in S hashed onto h.
Alone(h, S) == \A q \in S : q.id[3] = "debit" /\ q.prev = h => q.id[1] \in Astray

\* A credit is hashed onto the debit of its leg, and a leg is written once.
OwnInv(t) ==
    /\ \A r \in own[t] : r.id[3] = "credit" => r.prev.id = <<t, r.id[2], "debit">>
    /\ tx[t].step # "credit" => \A r \in own[t] : r.id[2] # tx[t].leg

\* A transaction that has not gone astray yet.
Fresh(t) == tx[t].state = "open" /\ t \notin Astray

\* What it sees is older than its now, but for the debit of the leg in hand, and
\* nobody else is where it hangs its rows.
FreshRows(t) ==
    /\ tx[t].leg # "none" /\ tx[t].step \in {"hash", "debit"} =>
          \A x \in Visible(t) : x.createdAt < tx[t].now
    /\ tx[t].leg # "none" /\ tx[t].step = "credit" =>
          \A x \in Visible(t) :
              \/ x.createdAt < tx[t].now
              \/ x.createdAt = tx[t].now /\ x.id = <<t, tx[t].leg, "debit">>
    /\ tx[t].leg # "none" /\ tx[t].step = "debit" => Alone(tx[t].prev, Visible(t))
    /\ \A r \in own[t] : r.id[3] = "debit" =>
          Later(r, Visible(t)) /\ Alone(r.prev, Visible(t) \ {r})

FreshInv(t) == Fresh(t) => FreshRows(t)

\* The same of what is committed.
BookInv ==
    \A r \in book :
        /\ r.id[3] = "credit" => r.prev.id = <<r.id[1], r.id[2], "debit">>
        /\ r.id[3] = "debit" /\ r.id[1] \notin Astray =>
              Later(r, book) /\ Alone(r.prev, book \ {r})

\* The inductive invariant behind ForksExplained.
ForkInv == BookInv /\ \A t \in Txs : OwnInv(t) /\ FreshInv(t)

\* A hash that a row of S hangs on is nobody's but that row's of S.
LEMMA HashesKnown ==
  ASSUME NEW S, NEW r, Rooted(r, S), NEW x, x.depth # 0, HashOf(x) = r.prev
  PROVE  \E q \in S : q.id = x.id
  <1>1. CASE r.prev = Genesis
    BY <1>1 DEF HashOf, Genesis
  <1>2. CASE \E q \in S : HashOf(q) = r.prev /\ r.depth = q.depth + 1
    BY <1>2 DEF HashOf
  <1> QED
    BY <1>1, <1>2 DEF Rooted

\* What LedgerInv says of the rows a transaction sees.
LEMMA SeenRows ==
  ASSUME LedgerInv, NEW t \in Txs, NEW r \in Visible(t)
  PROVE  /\ r.id \in Ids /\ r.depth \in Nat /\ r.depth # 0
         /\ Rooted(r, Visible(t))
         /\ r \in book => tx[r.id[1]].state = "committed" /\ Rooted(r, book)
         /\ r \in own[t] => r.id[1] = t /\ tx[t].state = "open"
  <1>1. /\ r.id \in Ids /\ r.depth \in Nat
        /\ r \in book => tx[r.id[1]].state = "committed" /\ Rooted(r, book)
        /\ r \in own[t] => r.id[1] = t /\ tx[t].state = "open" /\ Rooted(r, Visible(t))
    BY DEF LedgerInv, RowsInv, Visible, ChainIsRooted
  <1>2. Rooted(r, Visible(t))
    BY <1>1, RootedMono DEF Visible
  <1>3. \A q \in Visible(t) : q.depth \in Nat
    BY DEF LedgerInv, RowsInv, Visible
  <1>4. r.depth # 0
    BY <1>1, <1>2, <1>3 DEF Rooted
  <1> QED
    BY <1>1, <1>2, <1>4

\* Rows of an open transaction are not what committed rows hang on.
LEMMA LaterVisible ==
  ASSUME LedgerInv, ForkInv, NEW t \in Txs, tx[t].state = "open", t \notin Astray,
         NEW q \in Visible(t), q.id[3] = "debit", q.id[1] \notin Astray
  PROVE  Later(q, Visible(t))
  <1>1. CASE q \in own[t]
    BY <1>1 DEF ForkInv, FreshInv, Fresh, FreshRows
  <1>2. CASE q \in book
    <2>1. Later(q, book) /\ Rooted(q, book)
      BY <1>2, SeenRows DEF ForkInv, BookInv
    <2>2. ASSUME NEW x \in own[t], HashOf(x) = q.prev PROVE FALSE
      <3>1. x \in Visible(t)
        BY DEF Visible
      <3>2. x.depth # 0 /\ x.id[1] = t
        BY <3>1, SeenRows
      <3>3. PICK z \in book : z.id = x.id
        BY <2>1, <2>2, <3>2, HashesKnown
      <3>4. tx[z.id[1]].state = "committed"
        BY DEF LedgerInv
      <3> QED
        BY <3>2, <3>3, <3>4
    <2> QED
      BY <2>1, <2>2 DEF Later, Visible
  <1> QED
    BY <1>1, <1>2 DEF Visible

\* The frame of every action but Commit: only t moves, and it is not committed.
LEMMA ForkFrame ==
  ASSUME LedgerInv, ForkInv, NEW t \in Txs, tx[t].state # "committed",
         book' = book, \A u \in Txs : u # t => (u \in Astray' <=> u \in Astray),
         \A u \in Txs : u # t => tx'[u] = tx[u] /\ own'[u] = own[u],
         OwnInv(t)', FreshInv(t)'
  PROVE  ForkInv'
  <1>1. ASSUME NEW u \in Txs PROVE OwnInv(u)' /\ FreshInv(u)'
    <2>1. CASE u = t
      BY <2>1
    <2>2. CASE u # t
      <3>1. /\ OwnInv(u) /\ FreshInv(u) /\ tx'[u] = tx[u] /\ own'[u] = own[u]
            /\ Visible(u)' = Visible(u)
        BY <2>2 DEF ForkInv, Visible
      <3>2. \A q \in Visible(u) : q.id[1] # t /\ q.id[1] \in Txs
        <4>1. \A q \in Visible(u) : q.id[1] # t
          BY <2>2, SeenRows DEF Visible
        <4>2. \A q \in Visible(u) : q.id \in Ids
          BY SeenRows
        <4>3. \A id \in Ids : id[1] \in Txs
          BY DEF Ids
        <4> QED
          BY <4>1, <4>2, <4>3
      <3>3. OwnInv(u)'
        BY <3>1 DEF OwnInv
      <3>4. Fresh(u)' => Fresh(u)
        BY <2>2, <3>1 DEF Fresh
      <3>5. ASSUME Fresh(u), NEW r \in own[u], r.id[3] = "debit"
            PROVE  Later(r, Visible(u))' /\ Alone(r.prev, Visible(u) \ {r})'
        <4>1. Later(r, Visible(u)) /\ Alone(r.prev, Visible(u) \ {r})
          BY <3>1, <3>5 DEF FreshInv, FreshRows
        <4> QED
          BY <3>1, <3>2, <4>1 DEF Later, Alone, HashOf
      <3>6. ASSUME Fresh(u), tx[u].leg # "none", tx[u].step = "debit"
            PROVE  Alone(tx[u].prev, Visible(u))'
        <4>1. Alone(tx[u].prev, Visible(u))
          BY <3>1, <3>6 DEF FreshInv, FreshRows
        <4> QED
          BY <3>1, <3>2, <4>1 DEF Alone
      <3>7. ASSUME Fresh(u) PROVE FreshRows(u)'
        BY <3>1, <3>5, <3>6, <3>7 DEF FreshInv, FreshRows
      <3> QED
        BY <3>3, <3>4, <3>7 DEF FreshInv
    <2> QED
      BY <2>1, <2>2
  <1>2. BookInv'
    <2>1. \A r \in book : r.id[1] # t /\ r.id[1] \in Txs
      BY DEF LedgerInv, Ids
    <2> QED
      BY <2>1 DEF ForkInv, BookInv, Later, Alone, HashOf
  <1> QED
    BY <1>1, <1>2 DEF ForkInv

\* A transaction begins with no rows.
LEMMA BeginFork ==
  ASSUME LedgerInv, TypeOK, ForkInv, NEW t \in Txs, NEW a \in Amounts, Begin(t, a)
  PROVE  ForkInv'
  <1>1. /\ tx'[t] = Opened(t, a) /\ own[t] = {} /\ tx[t].state = "idle" /\ own' = own
        /\ book' = book /\ Astray' = Astray
        /\ \A u \in Txs : u # t => tx'[u] = tx[u]
    BY DEF Begin, LedgerInv, RowsInv, Astray
  <1>2. OwnInv(t)' /\ FreshInv(t)'
    BY <1>1 DEF OwnInv, FreshInv, FreshRows, Opened
  <1> QED
    BY <1>1, <1>2, ForkFrame

\* now is later than every row, or the clock is behind.
LEMMA ReadBalanceFork ==
  ASSUME LedgerInv, TypeOK, ForkInv, NEW t \in Txs, ReadBalance(t)
  PROVE  ForkInv'
  <1>1. /\ Apart(t) /\ own' = own /\ behind' \in {behind, behind \cup {t}}
        /\ tx[t].state = "open" /\ tx[t].leg # "none" /\ tx[t].step = "balance"
        /\ tx'[t].state = "open" /\ tx'[t].leg = tx[t].leg /\ tx'[t].step = "hash"
        /\ t \notin behind' => \A x \in Visible(t) : x.createdAt < tx'[t].now
    BY ReadBalanceEffect
  <1>2. /\ book' = book /\ Visible(t)' = Visible(t)
        /\ \A u \in Txs : u # t => tx'[u] = tx[u] /\ own'[u] = own[u]
        /\ \A u \in Txs : u # t => (u \in Astray' <=> u \in Astray)
        /\ Astray \subseteq Astray' /\ behind' \subseteq Astray'
    BY <1>1 DEF Apart, Visible, Astray
  <1>3. OwnInv(t)'
    BY <1>1 DEF ForkInv, OwnInv
  <1>4. ASSUME Fresh(t)' PROVE FreshRows(t)'
    <2>1. Fresh(t) /\ t \notin Astray' /\ t \notin behind'
      BY <1>1, <1>2, <1>4 DEF Fresh
    <2>2. FreshRows(t)
      BY <2>1 DEF ForkInv, FreshInv
    <2>3. \A r \in own[t] : r.id[3] = "debit" =>
             Later(r, Visible(t))' /\ Alone(r.prev, Visible(t) \ {r})'
      BY <1>2, <2>2 DEF FreshRows, Later, Alone, HashOf
    <2> QED
      BY <1>1, <1>2, <2>1, <2>3 DEF FreshRows
  <1>5. FreshInv(t)'
    BY <1>4 DEF FreshInv
  <1> QED
    BY <1>1, <1>2, <1>3, <1>5, ForkFrame

\* The row that is read is the youngest: no debit of a transaction that did not go
\* astray hangs on it.
LEMMA ReadHashFork ==
  ASSUME LedgerInv, TypeOK, ForkInv, NEW t \in Txs, ReadHash(t)
  PROVE  ForkInv'
  <1>1. /\ Apart(t) /\ own' = own /\ behind' = behind
        /\ tx[t].state = "open" /\ tx[t].leg # "none" /\ tx[t].step = "hash"
        /\ tx'[t].state = "open" /\ tx'[t].leg = tx[t].leg /\ tx'[t].step = "debit"
        /\ tx'[t].now = tx[t].now /\ tx'[t].prev \in PrevHashes(Visible(t))
    BY ReadHashEffect
  <1>2. /\ book' = book /\ Astray' = Astray /\ Visible(t)' = Visible(t)
        /\ \A u \in Txs : u # t => tx'[u] = tx[u] /\ own'[u] = own[u]
    BY <1>1 DEF Apart, Visible, Astray
  <1>4. OwnInv(t)'
    BY <1>1 DEF ForkInv, OwnInv
  <1>5. ASSUME t \notin Astray PROVE Alone(tx'[t].prev, Visible(t))
    <2> SUFFICES ASSUME NEW q \in Visible(t), q.id[3] = "debit", q.prev = tx'[t].prev,
                        q.id[1] \notin Astray
                 PROVE  FALSE
      BY DEF Alone
    <2>1. PICK y \in Latest(Visible(t)) : tx'[t].prev = HashOf(y)
      BY <1>1 DEF PrevHashes
    <2>2. Later(q, Visible(t))
      BY <1>1, <1>5, LaterVisible
    <2>3. y \in Visible(t) /\ q.createdAt =< y.createdAt
      BY <2>1 DEF Latest
    <2>4. y.createdAt < q.createdAt
      BY <2>1, <2>2, <2>3 DEF Later
    <2>5. y.createdAt \in Nat /\ q.createdAt \in Nat
      BY <2>3 DEF TypeOK, Row, Visible
    <2> QED
      BY <2>3, <2>4, <2>5
  <1>6. FreshInv(t)'
    BY <1>1, <1>2, <1>5 DEF ForkInv, FreshInv, Fresh, FreshRows, Later, Alone, HashOf
  <1> QED
    BY <1>1, <1>2, <1>4, <1>6, ForkFrame

\* A row with a new id and the time of its leg disturbs no row before it.
LEMMA NewRowLater ==
  ASSUME LedgerInv, NEW t \in Txs, NEW row, row.depth # 0,
         \A q \in Visible(t) : q.id # row.id,
         NEW r \in Visible(t), Later(r, Visible(t))
  PROVE  Later(r, Visible(t) \cup {row})
  <1>1. HashOf(row) # r.prev
    BY SeenRows, HashesKnown
  <1> QED
    BY <1>1 DEF Later

\* The debit hangs where no other does, and everything else is older.
LEMMA InsertDebitFork ==
  ASSUME LedgerInv, TypeOK, ForkInv, NEW t \in Txs, InsertDebit(t)
  PROVE  ForkInv'
  <1>1. PICK row :
         /\ Apart(t) /\ behind' = behind
         /\ own'[t] = own[t] \cup {row}
         /\ row.id = <<t, tx[t].leg, "debit">> /\ row.prev = tx[t].prev
         /\ row.depth = tx[t].prev.depth + 1 /\ row.createdAt = tx[t].now
         /\ tx[t].state = "open" /\ tx[t].leg # "none" /\ tx[t].step = "debit"
         /\ tx'[t].state = "open" /\ tx'[t].leg = tx[t].leg /\ tx'[t].step = "credit"
         /\ tx'[t].now = tx[t].now
    BY InsertDebitEffect
  <1>2. /\ book' = book /\ Astray' = Astray /\ Visible(t)' = Visible(t) \cup {row}
        /\ \A u \in Txs : u # t => tx'[u] = tx[u] /\ own'[u] = own[u]
    BY <1>1 DEF Apart, Visible, Astray
  <1>3. row.depth \in Nat /\ row.depth # 0 /\ HashOf(row) # row.prev
    <2>1. tx[t].prev.depth \in Nat
      BY HashDepth DEF LedgerInv, TxState
    <2> QED
      BY <1>1, <2>1 DEF HashOf
  <1>4. ASSUME NEW q \in Visible(t) PROVE q.id # row.id
    <2>1. row.id[1] = t /\ row.id[2] = tx[t].leg
      BY <1>1
    <2>2. q \in own[t] => q.id[2] # tx[t].leg
      BY <1>1 DEF ForkInv, OwnInv
    <2>3. q \in book => q.id[1] # t
      BY <1>1, SeenRows
    <2> QED
      BY <2>1, <2>2, <2>3 DEF Visible
  <1>7. OwnInv(t)'
    BY <1>1 DEF ForkInv, OwnInv
  <1>8. ASSUME Fresh(t) PROVE FreshRows(t)'
    <2>0. FreshRows(t)
      BY <1>8 DEF ForkInv, FreshInv
    <2>1. Alone(tx[t].prev, Visible(t)) /\ \A x \in Visible(t) : x.createdAt < tx[t].now
      BY <1>1, <2>0 DEF FreshRows
    <2>2. ASSUME NEW r \in own[t], r.id[3] = "debit"
          PROVE  Later(r, Visible(t) \cup {row}) /\ Alone(r.prev, (Visible(t) \cup {row}) \ {r})
      <3>1. r \in Visible(t)
        BY DEF Visible
      <3>2. Later(r, Visible(t)) /\ Alone(r.prev, Visible(t) \ {r})
        BY <2>0, <2>2 DEF FreshRows
      <3>3. r.id[1] \notin Astray
        BY <1>8, <3>1, SeenRows DEF Fresh
      <3>4. row.prev # r.prev
        BY <1>1, <2>1, <2>2, <3>1, <3>3 DEF Alone
      <3> QED
        BY <1>3, <1>4, <3>1, <3>2, <3>4, NewRowLater DEF Alone
    <2>3. Later(row, Visible(t) \cup {row}) /\ Alone(row.prev, (Visible(t) \cup {row}) \ {row})
      BY <1>1, <1>3, <2>1 DEF Later, Alone
    <2>4. \A r \in own'[t] : r.id[3] = "debit" =>
             Later(r, Visible(t) \cup {row}) /\ Alone(r.prev, (Visible(t) \cup {row}) \ {r})
      BY <1>1, <2>2, <2>3
    <2>5. \A r \in own'[t] : r.id[3] = "debit" =>
             Later(r, Visible(t))' /\ Alone(r.prev, Visible(t) \ {r})'
      BY <1>2, <2>4 DEF Later, Alone, HashOf
    <2> QED
      BY <1>1, <1>2, <2>1, <2>5 DEF FreshRows
  <1>9. FreshInv(t)'
    BY <1>1, <1>2, <1>8 DEF FreshInv, Fresh
  <1> QED
    BY <1>1, <1>2, <1>7, <1>9, ForkFrame

\* What a transaction at its credit has written: the legs before, and the debit.
LEMMA AtCredit ==
  ASSUME LedgerInv, NEW t \in Txs, tx[t].state = "open", tx[t].leg # "none",
         tx[t].step = "credit"
  PROVE  /\ \A r \in own[t] : r.id # <<t, tx[t].leg, "credit">>
         /\ \A r \in own[t] : r.id[2] # NextLeg(tx[t].leg, tx[t].amount)
         /\ tx[t].leg # NextLeg(tx[t].leg, tx[t].amount)
         /\ tx[t].prev.id = <<t, tx[t].leg, "debit">>
  <1>1. RowsInv(t) /\ PrevInv(t)
    BY DEF LedgerInv
  <1>2. Written(t) = IF tx[t].leg = "fee" THEN {"capture"} ELSE {}
    BY DEF Written
  <1>3. \A r \in own[t] : r.id \in Ids /\ (r.id[2] \in Written(t) \/ (r.id[2] = tx[t].leg /\ r.id[3] = "debit"))
    BY <1>1 DEF RowsInv
  <1>4. PICK q \in own[t] : HashOf(q) = tx[t].prev /\ q.id = <<t, tx[t].leg, "debit">>
    BY <1>1 DEF PrevInv, At
  <1>5. tx[t].prev.id = <<t, tx[t].leg, "debit">>
    BY <1>4 DEF HashOf
  <1>6. /\ NextLeg(tx[t].leg, tx[t].amount) \in {"fee", "none"}
        /\ NextLeg(tx[t].leg, tx[t].amount) = "fee" => tx[t].leg = "capture"
    BY DEF NextLeg
  <1>7. \A r \in own[t] : r.id[2] # "none"
    BY <1>3 DEF Ids
  <1> QED
    BY <1>2, <1>3, <1>5, <1>6, <1>7

\* The credit hangs on the debit of its leg.
LEMMA InsertCreditFork ==
  ASSUME LedgerInv, TypeOK, ForkInv, NEW t \in Txs, InsertCredit(t)
  PROVE  ForkInv'
  <1>1. PICK row :
         /\ Apart(t) /\ behind' = behind
         /\ own'[t] = own[t] \cup {row}
         /\ row.id = <<t, tx[t].leg, "credit">> /\ row.prev = tx[t].prev
         /\ row.depth = tx[t].prev.depth + 1 /\ row.createdAt = tx[t].now
         /\ tx[t].state = "open" /\ tx[t].leg # "none" /\ tx[t].step = "credit"
         /\ tx'[t].state = "open" /\ tx'[t].step = "balance"
         /\ tx'[t].leg = NextLeg(tx[t].leg, tx[t].amount)
    BY InsertCreditEffect
  <1>2. /\ book' = book /\ Astray' = Astray /\ Visible(t)' = Visible(t) \cup {row}
        /\ \A u \in Txs : u # t => tx'[u] = tx[u] /\ own'[u] = own[u]
    BY <1>1 DEF Apart, Visible, Astray
  <1>3. row.depth # 0
    <2>1. tx[t].prev.depth \in Nat
      BY HashDepth DEF LedgerInv, TxState
    <2> QED
      BY <1>1, <2>1
  <1>4. /\ \A r \in own[t] : r.id # <<t, tx[t].leg, "credit">>
        /\ \A r \in own[t] : r.id[2] # tx'[t].leg
        /\ tx[t].leg # tx'[t].leg
        /\ tx[t].prev.id = <<t, tx[t].leg, "debit">>
    BY <1>1, AtCredit
  <1>5. ASSUME NEW q \in Visible(t) PROVE q.id # row.id
    <2>1. row.id[1] = t
      BY <1>1
    <2>2. q \in own[t] => q.id # row.id
      BY <1>1, <1>4
    <2>3. q \in book => q.id[1] # t
      BY <1>1, SeenRows
    <2> QED
      BY <2>1, <2>2, <2>3 DEF Visible
  <1>7. OwnInv(t)'
    BY <1>1, <1>4 DEF ForkInv, OwnInv
  <1>8. ASSUME Fresh(t) PROVE FreshRows(t)'
    <2>1. ASSUME NEW r \in own[t], r.id[3] = "debit"
          PROVE  Later(r, Visible(t) \cup {row}) /\ Alone(r.prev, (Visible(t) \cup {row}) \ {r})
      <3>1. r \in Visible(t)
        BY DEF Visible
      <3>2. Later(r, Visible(t)) /\ Alone(r.prev, Visible(t) \ {r})
        BY <1>8, <2>1 DEF ForkInv, FreshInv, FreshRows
      <3> QED
        BY <1>1, <1>3, <1>5, <3>1, <3>2, NewRowLater DEF Alone
    <2>2. \A r \in own'[t] : r.id[3] = "debit" =>
             Later(r, Visible(t))' /\ Alone(r.prev, Visible(t) \ {r})'
      BY <1>1, <1>2, <2>1 DEF Later, Alone, HashOf
    <2> QED
      BY <1>1, <2>2 DEF FreshRows
  <1>9. FreshInv(t)'
    BY <1>1, <1>2, <1>8 DEF FreshInv, Fresh
  <1> QED
    BY <1>1, <1>2, <1>7, <1>9, ForkFrame

\* A transaction that fails is forgotten; none of its rows is committed.
LEMMA RollbackFork ==
  ASSUME LedgerInv, TypeOK, ForkInv, NEW t \in Txs, Rollback(t)
  PROVE  ForkInv'
  <1>1. /\ own'[t] = {} /\ tx'[t] = Idle /\ tx[t].state = "open"
        /\ book' = book
        /\ \A u \in Txs : u # t => (u \in Astray' <=> u \in Astray)
        /\ \A u \in Txs : u # t => tx'[u] = tx[u] /\ own'[u] = own[u]
    BY DEF Rollback, LedgerInv, Astray
  <1>2. OwnInv(t)' /\ FreshInv(t)'
    BY <1>1 DEF OwnInv, FreshInv, Fresh, Idle
  <1> QED
    BY <1>1, <1>2, ForkFrame

\* All who are open have now overlapped; the rows of t hang as they did.
LEMMA CommitFork ==
  ASSUME LedgerInv, TypeOK, ForkInv, NEW t \in Txs, Commit(t)
  PROVE  ForkInv'
  <1>1. /\ book' = book \cup own[t] /\ book' = Visible(t)
        /\ own'[t] = {} /\ tx[t].state = "open"
        /\ tx'[t] = [Idle EXCEPT !.state = "committed"]
        /\ Astray' = Astray \cup (OpenTxs \ {t})
        /\ \A u \in Txs : u # t => tx'[u] = tx[u] /\ own'[u] = own[u]
    BY DEF Commit, AllWritten, LedgerInv, Visible, Astray
  <1>2. tx'[t].state = "committed"
    BY <1>1 DEF Idle
  <1>4. ASSUME NEW u \in Txs PROVE OwnInv(u)' /\ FreshInv(u)'
    <2>1. ~Fresh(u)'
      BY <1>1, <1>2 DEF Fresh, OpenTxs
    <2>2. OwnInv(u)'
      BY <1>1 DEF ForkInv, OwnInv
    <2> QED
      BY <2>1, <2>2 DEF FreshInv
  <1>5. BookInv'
    <2> SUFFICES ASSUME NEW r \in book'
                 PROVE  /\ r.id[3] = "credit" => r.prev.id = <<r.id[1], r.id[2], "debit">>
                        /\ r.id[3] = "debit" /\ r.id[1] \notin Astray' =>
                              Later(r, book)' /\ Alone(r.prev, book \ {r})'
      BY DEF BookInv
    <2>1. r \in Visible(t) /\ (r \in own[t] => r.id[1] = t)
      BY <1>1, SeenRows
    <2>2. ASSUME r.id[3] = "credit" PROVE r.prev.id = <<r.id[1], r.id[2], "debit">>
      <3>1. CASE r \in book
        BY <2>2, <3>1 DEF ForkInv, BookInv
      <3>2. CASE r \in own[t]
        BY <2>1, <2>2, <3>2 DEF ForkInv, OwnInv
      <3> QED
        BY <1>1, <3>1, <3>2
    <2>3. ASSUME r.id[3] = "debit", r.id[1] \notin Astray'
          PROVE  Later(r, Visible(t)) /\ \A q \in Visible(t) \ {r} :
                    q.id[3] = "debit" /\ q.prev = r.prev => q.id[1] \in Astray'
      <3>1. r.id[1] \notin Astray /\ (r.id[1] # t => r.id[1] \notin OpenTxs)
        BY <1>1, <2>3
      <3>2. CASE r \in own[t]
        BY <1>1, <2>1, <2>3, <3>1, <3>2 DEF ForkInv, FreshInv, Fresh, FreshRows, Alone
      <3>3. CASE r \in book
        <4>1. Later(r, book) /\ Alone(r.prev, book \ {r}) /\ Rooted(r, book)
          BY <2>1, <2>3, <3>1, <3>3, SeenRows DEF ForkInv, BookInv
        <4>2. ASSUME NEW x \in own[t], HashOf(x) = r.prev PROVE FALSE
          <5>1. x \in Visible(t)
            BY DEF Visible
          <5>2. x.depth # 0 /\ x.id[1] = t
            BY <5>1, SeenRows
          <5>3. PICK z \in book : z.id = x.id
            BY <4>1, <4>2, <5>2, HashesKnown
          <5>4. tx[z.id[1]].state = "committed"
            BY DEF LedgerInv
          <5> QED
            BY <1>1, <5>2, <5>3, <5>4
        <4>3. Later(r, Visible(t))
          BY <4>1, <4>2 DEF Later, Visible
        <4>4. ASSUME NEW q \in own[t], q.id[3] = "debit", q.prev = r.prev
              PROVE  t \in Astray
          <5>1. r \in Visible(t) \ {q}
            <6>1. tx[r.id[1]].state = "committed" /\ q.id[1] = t
              BY <2>1, <3>3, SeenRows DEF Visible
            <6> QED
              BY <1>1, <2>1, <6>1
          <5>2. t \notin Astray => Alone(q.prev, Visible(t) \ {q})
            BY <1>1, <4>4 DEF ForkInv, FreshInv, Fresh, FreshRows
          <5> QED
            BY <2>3, <3>1, <4>4, <5>1, <5>2 DEF Alone
        <4>5. \A q \in own[t] : q.id[1] = t
          BY SeenRows DEF Visible
        <4> QED
          BY <1>1, <4>1, <4>3, <4>4, <4>5 DEF Alone, Visible
      <3> QED
        BY <1>1, <3>2, <3>3
    <2> QED
      BY <1>1, <2>2, <2>3 DEF Later, Alone, HashOf
  <1> QED
    BY <1>4, <1>5 DEF ForkInv

\* Every step keeps the invariant.
LEMMA ForkStep ==
  ASSUME LedgerInv, TypeOK, ForkInv, [Next]_vars
  PROVE  ForkInv'
  <1>1. ASSUME NEW t \in Txs, NEW a \in Amounts, Begin(t, a) PROVE ForkInv'
    BY <1>1, BeginFork
  <1>2. ASSUME NEW t \in Txs, Statement(t) PROVE ForkInv'
    BY <1>2, ReadBalanceFork, ReadHashFork, InsertDebitFork, InsertCreditFork DEF Statement
  <1>3. ASSUME NEW t \in Txs, Commit(t) PROVE ForkInv'
    BY <1>3, CommitFork
  <1>4. ASSUME NEW t \in Txs, Rollback(t) PROVE ForkInv'
    BY <1>4, RollbackFork
  <1>5. CASE UNCHANGED vars
    BY <1>5 DEF vars, ForkInv, BookInv, OwnInv, FreshInv, Fresh, FreshRows, Later,
                Alone, Astray, HashOf, Visible
  <1> QED
    BY <1>1, <1>2, <1>3, <1>4, <1>5 DEF Next

\* ForkInv holds however the transactions interleave.
THEOREM ForkInvariance == Spec => []ForkInv
  <1>1. Init => ForkInv
    BY DEF Init, ForkInv, BookInv, OwnInv, FreshInv, Fresh, Idle
  <1>2. LedgerInv /\ TypeOK /\ ForkInv /\ [Next]_vars => ForkInv'
    BY ForkStep
  <1> QED
    BY <1>1, <1>2, LedgerInvariance, LedgerTypes, PTL DEF Spec

\* The hash chain forks only where get_prev_hash could not see a transaction that
\* was about to commit, where a row was dated no later than one it followed, or
\* where the debit of a pair was taken for its last row, whatever the clocks of
\* the replicas show.
THEOREM ForksAreExplained == Spec => []ForksExplained
  <1>1. LedgerInv /\ ForkInv => ForksExplained
    <2> SUFFICES ASSUME LedgerInv, ForkInv, NEW r \in book, NEW q \in book, r # q,
                        r.prev = q.prev
                 PROVE  \/ r.id[1] \in Astray \/ q.id[1] \in Astray
                        \/ \E s \in {r, q} : /\ s.id[3] = "credit"
                                             /\ s.prev.id = <<s.id[1], s.id[2], "debit">>
      BY DEF ForksExplained
    <2>1. r.id[3] \in {"debit", "credit"} /\ q.id[3] \in {"debit", "credit"}
      BY DEF LedgerInv, Ids
    <2>2. CASE r.id[3] = "debit" /\ q.id[3] = "debit"
      BY <2>2 DEF ForkInv, BookInv, Alone
    <2> QED
      BY <2>1, <2>2 DEF ForkInv, BookInv
  <1> QED
    BY <1>1, LedgerInvariance, ForkInvariance, PTL

-----------------------------------------------------------------------------
(* Balances.                                                               *)

\* A row of another account does not count.
LEMMA BalanceOther ==
  ASSUME NEW S, NEW T, NEW account, S \subseteq T,
         \A r \in T \ S : r.account # account
  PROVE  Balance(T, account) = Balance(S, account)
  <1>1. ASSUME NEW side PROVE SideRows(T, account, side) = SideRows(S, account, side)
    BY DEF SideRows
  <1> QED
    BY <1>1 DEF Balance, SideSum

\* A credit raises the balance of its account by its amount.
LEMMA BalanceCredit ==
  ASSUME NEW S, IsFiniteSet(S), \A r \in S : r.amount \in Nat,
         NEW row, row \notin S, row.id[3] = "credit", row.amount \in Nat
  PROVE  Balance(S \cup {row}, row.account) = Balance(S, row.account) + row.amount
  <1> DEFINE a == row.account
             R == SideRows(S, a, "credit")
             w == [r \in R \cup {row} |-> r.amount]
  <1>1. SideRows(S \cup {row}, a, "credit") = R \cup {row}
    BY DEF SideRows
  <1>2. SideRows(S \cup {row}, a, "debit") = SideRows(S, a, "debit")
    BY DEF SideRows
  <1>3. IsFiniteSet(R) /\ row \notin R /\ w \in [R \cup {row} -> Nat]
    <2>1. IsFiniteSet(R)
      BY SideSumNat
    <2>2. R \subseteq S
      BY DEF SideRows
    <2> HIDE DEF R
    <2> QED
      BY <2>1, <2>2
  <1>4. SumOf(w) = SumOf([r \in R |-> w[r]]) + w[row]
    <2> HIDE DEF w, R
    <2> QED
      BY <1>3, SumAdd
  <1>5. [r \in R |-> w[r]] = [r \in R |-> r.amount] /\ w[row] = row.amount
    OBVIOUS
  <1>6. SideSum(S \cup {row}, a, "credit") = SideSum(S, a, "credit") + row.amount
    BY <1>1, <1>4, <1>5 DEF SideSum
  <1>7. SideSum(S \cup {row}, a, "debit") = SideSum(S, a, "debit")
    BY <1>2 DEF SideSum
  <1>8. SideSum(S, a, "credit") \in Nat /\ SideSum(S, a, "debit") \in Nat
    BY SideSumNat
  <1> HIDE DEF a, R, w
  <1>9. Balance(S \cup {row}, a) = Balance(S, a) + row.amount
    BY <1>6, <1>7, <1>8 DEF Balance
  <1> QED
    BY <1>9 DEF a

\* A transaction during which none has committed yet.
Serial(t) == tx[t].state = "open" /\ t \notin overlapped

\* A row carries the balance of the account that its pair credits.
Exact(t, r) ==
    /\ r.balanceBefore = Balance(Prior(t, r.id[2]), CreditAccount(r.id[2]))
    /\ r.balanceAfter = Balance(Prior(t, r.id[2]) \cup {r}, CreditAccount(r.id[2]))

\* While nobody else commits, the balance that was read stays that of the rows
\* that were there, and every row carries it.
ExactRows(t) ==
    /\ tx[t].leg # "none" /\ tx[t].step # "balance" =>
          prevBalance[t] = Balance(Prior(t, tx[t].leg), CreditAccount(tx[t].leg))
    /\ \A r \in own[t] : Exact(t, r)

\* The inductive invariant behind SerialBalancesExact.
BalanceInv == \A t \in Txs : Serial(t) => ExactRows(t)

\* What was there before a leg does not change while nobody writes.
LEMMA PriorKeeps ==
  ASSUME NEW u \in Txs, book' = book, own'[u] = own[u]
  PROVE  \A leg : Prior(u, leg)' = Prior(u, leg)
  BY DEF Prior

\* Rows keep their balances exact as long as what was before them is the same.
LEMMA ExactKeeps ==
  ASSUME NEW t \in Txs, NEW r, Prior(t, r.id[2])' = Prior(t, r.id[2]), Exact(t, r)
  PROVE  Exact(t, r)'
  BY DEF Exact

\* The frame of every action but Commit.
LEMMA BalanceFrame ==
  ASSUME BalanceInv, NEW t \in Txs, book' = book,
         \A u \in Txs : u # t => /\ tx'[u] = tx[u] /\ own'[u] = own[u]
                                 /\ prevBalance'[u] = prevBalance[u]
                                 /\ u \in overlapped' <=> u \in overlapped,
         Serial(t)' => ExactRows(t)'
  PROVE  BalanceInv'
  <1>1. ASSUME NEW u \in Txs, u # t, Serial(u)' PROVE ExactRows(u)'
    <2>1. /\ tx'[u] = tx[u] /\ own'[u] = own[u] /\ prevBalance'[u] = prevBalance[u]
          /\ u \in overlapped' <=> u \in overlapped
      BY <1>1
    <2>2. Serial(u) /\ ExactRows(u)
      BY <1>1, <2>1 DEF Serial, BalanceInv
    <2>3. \A leg : Prior(u, leg)' = Prior(u, leg)
      BY <2>1, PriorKeeps
    <2>4. \A r \in own'[u] : Exact(u, r)'
      BY <2>1, <2>2, <2>3, ExactKeeps DEF ExactRows
    <2>5. tx'[u].leg # "none" /\ tx'[u].step # "balance" =>
             prevBalance'[u] = Balance(Prior(u, tx[u].leg)', CreditAccount(tx'[u].leg))
      BY <2>1, <2>2, <2>3 DEF ExactRows
    <2> QED
      BY <2>1, <2>4, <2>5 DEF ExactRows
  <1> QED
    BY <1>1 DEF BalanceInv

\* At the start of a leg all that is visible was there before it.
LEMMA ReadBalanceExact ==
  ASSUME LedgerInv, TypeOK, ForkInv, BalanceInv, NEW t \in Txs, ReadBalance(t)
  PROVE  BalanceInv'
  <1>1. /\ Apart(t) /\ own' = own
        /\ tx[t].state = "open" /\ tx[t].leg # "none" /\ tx[t].step = "balance"
        /\ tx'[t].state = "open" /\ tx'[t].leg = tx[t].leg /\ tx'[t].step = "hash"
        /\ prevBalance'[t] = Balance(Visible(t), CreditAccount(tx[t].leg))
    BY ReadBalanceEffect
  <1>2. book' = book /\ overlapped' = overlapped
    BY <1>1 DEF Apart
  <1>3. Prior(t, tx[t].leg) = Visible(t)
    <2>1. \A r \in own[t] : r.id[2] \in Written(t) /\ r.id[2] # tx[t].leg
      BY <1>1 DEF LedgerInv, RowsInv, ForkInv, OwnInv
    <2>2. Written(t) = IF tx[t].leg = "fee" THEN {"capture"} ELSE {}
      BY <1>1 DEF Written
    <2> QED
      BY <2>1, <2>2 DEF Prior, Visible
  <1>4. \A leg : Prior(t, leg)' = Prior(t, leg)
    BY <1>1, <1>2, PriorKeeps
  <1>5. ASSUME Serial(t)' PROVE ExactRows(t)'
    <2>1. ExactRows(t)
      BY <1>1, <1>2, <1>5 DEF Serial, BalanceInv
    <2>2. \A r \in own'[t] : Exact(t, r)'
      BY <1>1, <1>4, <2>1, ExactKeeps DEF ExactRows
    <2>3. prevBalance'[t] = Balance(Prior(t, tx[t].leg)', CreditAccount(tx'[t].leg))
      BY <1>1, <1>3, <1>4
    <2> QED
      BY <1>1, <2>2, <2>3 DEF ExactRows
  <1> QED
    BY <1>1, <1>2, <1>5, BalanceFrame DEF Apart

\* get_prev_hash changes no row.
LEMMA ReadHashExact ==
  ASSUME LedgerInv, TypeOK, BalanceInv, NEW t \in Txs, ReadHash(t)
  PROVE  BalanceInv'
  <1>1. /\ Apart(t) /\ own' = own /\ prevBalance' = prevBalance
        /\ tx[t].state = "open" /\ tx[t].leg # "none" /\ tx[t].step = "hash"
        /\ tx'[t].state = "open" /\ tx'[t].leg = tx[t].leg /\ tx'[t].step = "debit"
    BY ReadHashEffect
  <1>2. book' = book /\ overlapped' = overlapped
    BY <1>1 DEF Apart
  <1>3. \A leg : Prior(t, leg)' = Prior(t, leg)
    BY <1>1, <1>2, PriorKeeps
  <1>4. ASSUME Serial(t)' PROVE ExactRows(t)'
    <2>1. ExactRows(t)
      BY <1>1, <1>2, <1>4 DEF Serial, BalanceInv
    <2>2. \A r \in own'[t] : Exact(t, r)'
      BY <1>1, <1>3, <2>1, ExactKeeps DEF ExactRows
    <2>3. prevBalance'[t] = Balance(Prior(t, tx[t].leg)', CreditAccount(tx'[t].leg))
      BY <1>1, <1>3, <2>1 DEF ExactRows
    <2> QED
      BY <1>1, <2>2, <2>3 DEF ExactRows
  <1> QED
    BY <1>1, <1>2, <1>4, BalanceFrame DEF Apart

\* A new row of the leg in hand is before no row of the transaction.
LEMMA PriorOfOwn ==
  ASSUME LedgerInv, NEW t \in Txs, tx[t].state = "open", tx[t].leg # "none",
         NEW row, row.id[2] = tx[t].leg, book' = book, own'[t] = own[t] \cup {row}
  PROVE  /\ Prior(t, row.id[2])' = Prior(t, row.id[2])
         /\ \A r \in own[t] : Prior(t, r.id[2])' = Prior(t, r.id[2])
  <1>1. \A r \in own[t] : r.id[2] \in Written(t) \/ r.id[2] = tx[t].leg
    BY DEF LedgerInv, RowsInv
  <1>2. Written(t) = IF tx[t].leg = "fee" THEN {"capture"} ELSE {}
    BY DEF Written
  <1>3. ASSUME NEW leg, ~(tx[t].leg = "capture" /\ leg = "fee")
        PROVE  Prior(t, leg)' = Prior(t, leg)
    BY <1>3 DEF Prior
  <1>4. \A r \in own[t] : ~(tx[t].leg = "capture" /\ r.id[2] = "fee")
    BY <1>1, <1>2
  <1> QED
    BY <1>3, <1>4

\* The rows that were there before a leg are finite in number and have amounts.
LEMMA PriorFinite ==
  ASSUME TypeOK, RowsFinite, NEW t \in Txs, NEW leg
  PROVE  IsFiniteSet(Prior(t, leg)) /\ \A x \in Prior(t, leg) : x.amount \in Nat
  <1>1. IsFiniteSet(book) /\ IsFiniteSet(own[t])
    BY DEF RowsFinite
  <1>2. IsFiniteSet(Visible(t))
    BY <1>1, FS_Union DEF Visible
  <1>3. Prior(t, leg) \subseteq Visible(t)
    BY DEF Prior, Visible
  <1>4. \A x \in Prior(t, leg) : x \in Row
    BY <1>3 DEF Visible, TypeOK
  <1>5. IsFiniteSet(Prior(t, leg))
    BY <1>2, <1>3, FS_Subset
  <1> QED
    BY <1>4, <1>5 DEF Row

\* The debit is of another account than its leg credits.
LEMMA InsertDebitExact ==
  ASSUME LedgerInv, TypeOK, BalanceInv, NEW t \in Txs, InsertDebit(t)
  PROVE  BalanceInv'
  <1>1. PICK row :
         /\ Apart(t) /\ prevBalance' = prevBalance
         /\ own'[t] = own[t] \cup {row}
         /\ row.id = <<t, tx[t].leg, "debit">>
         /\ row.account = DebitAccount(tx[t].leg)
         /\ row.balanceBefore = prevBalance[t] /\ row.balanceAfter = prevBalance[t]
         /\ tx[t].state = "open" /\ tx[t].leg # "none" /\ tx[t].step = "debit"
         /\ tx'[t].state = "open" /\ tx'[t].leg = tx[t].leg /\ tx'[t].step = "credit"
    BY InsertDebitEffect
  <1>2. /\ book' = book /\ overlapped' = overlapped /\ row.id[2] = tx[t].leg
        /\ tx[t].leg \in {"capture", "fee", "refund"}
    BY <1>1 DEF Apart, LedgerInv, TxState
  <1>3. /\ Prior(t, row.id[2])' = Prior(t, row.id[2])
        /\ \A r \in own[t] : Prior(t, r.id[2])' = Prior(t, r.id[2])
    BY <1>1, <1>2, PriorOfOwn
  <1>4. ASSUME Serial(t)' PROVE ExactRows(t)'
    <2>1. ExactRows(t)
      BY <1>1, <1>2, <1>4 DEF Serial, BalanceInv
    <2>2. \A r \in own[t] : Exact(t, r)'
      BY <1>3, <2>1, ExactKeeps DEF ExactRows
    <2>3. prevBalance[t] = Balance(Prior(t, tx[t].leg), CreditAccount(tx[t].leg))
      BY <1>1, <2>1 DEF ExactRows
    <2>4. Balance(Prior(t, tx[t].leg) \cup {row}, CreditAccount(tx[t].leg)) =
             Balance(Prior(t, tx[t].leg), CreditAccount(tx[t].leg))
      <3>1. row.account # CreditAccount(tx[t].leg)
        BY <1>1, <1>2, LegAccounts
      <3> QED
        BY <3>1, BalanceOther
    <2>5. Exact(t, row)
      BY <1>1, <1>2, <2>3, <2>4 DEF Exact
    <2>6. Exact(t, row)'
      BY <1>2, <1>3, <2>5, ExactKeeps
    <2>7. prevBalance'[t] = Balance(Prior(t, tx[t].leg)', CreditAccount(tx'[t].leg))
      BY <1>1, <1>2, <1>3, <2>3
    <2> QED
      BY <1>1, <2>2, <2>6, <2>7 DEF ExactRows
  <1> QED
    BY <1>1, <1>2, <1>4, BalanceFrame DEF Apart

\* The credit raises the balance of its account by its amount.
LEMMA InsertCreditExact ==
  ASSUME LedgerInv, TypeOK, RowsFinite, BalanceInv, NEW t \in Txs, InsertCredit(t)
  PROVE  BalanceInv'
  <1>1. PICK row :
         /\ Apart(t) /\ behind' = behind
         /\ own'[t] = own[t] \cup {row}
         /\ row.id = <<t, tx[t].leg, "credit">> /\ row.prev = tx[t].prev
         /\ row.depth = tx[t].prev.depth + 1
         /\ row.account = CreditAccount(tx[t].leg) /\ row.createdAt = tx[t].now
         /\ row.amount = LegAmount(tx[t].leg, tx[t].amount)
         /\ row.balanceBefore = prevBalance[t]
         /\ row.balanceAfter = prevBalance[t] + LegAmount(tx[t].leg, tx[t].amount)
         /\ tx[t].state = "open" /\ tx[t].leg # "none" /\ tx[t].step = "credit"
         /\ tx'[t].state = "open" /\ tx'[t].step = "balance"
         /\ tx'[t].leg = NextLeg(tx[t].leg, tx[t].amount)
    BY InsertCreditEffect, Zenon
  <1>2. /\ book' = book /\ overlapped' = overlapped /\ tx[t].amount \in Nat
        /\ row.id[1] = t /\ row.id[2] = tx[t].leg /\ row.id[3] = "credit"
    BY <1>1 DEF Apart, LedgerInv, TxState
  <1>3. /\ Prior(t, row.id[2])' = Prior(t, row.id[2])
        /\ \A r \in own[t] : Prior(t, r.id[2])' = Prior(t, r.id[2])
    BY <1>1, <1>2, PriorOfOwn
  <1>4. row \notin Prior(t, tx[t].leg)
    <2>1. row \notin own[t]
      BY <1>1, AtCredit
    <2>2. row \notin book
      BY <1>1, <1>2 DEF LedgerInv
    <2> QED
      BY <2>1, <2>2 DEF Prior
  <1>5. ASSUME Serial(t)' PROVE ExactRows(t)'
    <2>1. ExactRows(t)
      BY <1>1, <1>2, <1>5 DEF Serial, BalanceInv
    <2>2. \A r \in own[t] : Exact(t, r)'
      BY <1>3, <2>1, ExactKeeps DEF ExactRows
    <2>3. prevBalance[t] = Balance(Prior(t, tx[t].leg), CreditAccount(tx[t].leg))
      BY <1>1, <2>1 DEF ExactRows
    <2>4. Balance(Prior(t, tx[t].leg) \cup {row}, row.account) =
             Balance(Prior(t, tx[t].leg), row.account) + row.amount
      <3>1. row.amount \in Nat
        BY <1>1, <1>2, LegAmountNat
      <3>2. IsFiniteSet(Prior(t, tx[t].leg)) /\ \A x \in Prior(t, tx[t].leg) : x.amount \in Nat
        BY PriorFinite
      <3> QED
        BY <1>2, <1>4, <3>1, <3>2, BalanceCredit
    <2>5. Exact(t, row)
      BY <1>1, <1>2, <2>3, <2>4 DEF Exact
    <2>6. Exact(t, row)'
      BY <1>2, <1>3, <2>5, ExactKeeps
    <2> QED
      BY <1>1, <2>2, <2>6 DEF ExactRows
  <1> QED
    BY <1>1, <1>2, <1>5, BalanceFrame DEF Apart

\* Every step keeps the balances exact where nobody overlaps.
LEMMA BalanceStep ==
  ASSUME LedgerInv, TypeOK, RowsFinite, ForkInv, BalanceInv, [Next]_vars
  PROVE  BalanceInv'
  <1>1. ASSUME NEW t \in Txs, NEW a \in Amounts, Begin(t, a) PROVE BalanceInv'
    <2>1. /\ tx'[t] = Opened(t, a) /\ own[t] = {} /\ own' = own /\ Apart(t)
      BY <1>1 DEF Begin, LedgerInv, RowsInv, Apart
    <2>2. own'[t] = {} /\ tx'[t].step = "balance"
      BY <2>1 DEF Opened
    <2>3. ExactRows(t)'
      BY <2>2 DEF ExactRows
    <2> QED
      BY <2>1, <2>3, BalanceFrame DEF Apart
  <1>2. ASSUME NEW t \in Txs, Statement(t) PROVE BalanceInv'
    BY <1>2, ReadBalanceExact, ReadHashExact, InsertDebitExact, InsertCreditExact DEF Statement
  <1>3. ASSUME NEW t \in Txs, Commit(t) PROVE BalanceInv'
    <2>1. /\ tx'[t] = [Idle EXCEPT !.state = "committed"]
          /\ overlapped' = overlapped \cup (OpenTxs \ {t})
          /\ \A u \in Txs : u # t => tx'[u] = tx[u]
      BY <1>3 DEF Commit, LedgerInv
    <2>2. tx'[t].state = "committed"
      BY <2>1 DEF Idle
    <2>3. ASSUME NEW u \in Txs PROVE ~Serial(u)'
      BY <2>1, <2>2 DEF Serial, OpenTxs
    <2> QED
      BY <2>3 DEF BalanceInv
  <1>4. ASSUME NEW t \in Txs, Rollback(t) PROVE BalanceInv'
    <2>1. /\ tx'[t] = Idle /\ book' = book /\ overlapped' = overlapped \ {t}
          /\ \A u \in Txs : u # t => /\ tx'[u] = tx[u] /\ own'[u] = own[u]
                                     /\ prevBalance'[u] = prevBalance[u]
      BY <1>4 DEF Rollback, LedgerInv, TypeOK
    <2>2. ~Serial(t)'
      BY <2>1 DEF Serial, Idle
    <2>3. \A u \in Txs : u # t => (u \in overlapped' <=> u \in overlapped)
      BY <2>1
    <2> QED
      BY <2>1, <2>2, <2>3, BalanceFrame
  <1>5. CASE UNCHANGED vars
    BY <1>5 DEF vars, BalanceInv, Serial, ExactRows, Exact, Prior
  <1> QED
    BY <1>1, <1>2, <1>3, <1>4, <1>5 DEF Next

\* BalanceInv holds however the transactions interleave.
THEOREM BalanceInvariance == Spec => []BalanceInv
  <1>1. Init => BalanceInv
    BY DEF Init, BalanceInv, Serial, Idle
  <1>2. LedgerInv /\ TypeOK /\ RowsFinite /\ ForkInv /\ BalanceInv /\ [Next]_vars
            => BalanceInv'
    BY BalanceStep
  <1> QED
    BY <1>1, <1>2, LedgerInvariance, LedgerTypes, ForkInvariance, PTL DEF Spec

\* balance_before and balance_after of both rows of write_double_entry are those of
\* the account the pair credits, and exact, in every transaction during which no
\* other committed: lost updates of that balance need an overlap.
THEOREM SerialBalances == Spec => SerialBalancesExact
  <1> DEFINE Kept ==
        \A t \in Txs : (tx'[t].state = "committed" /\ tx[t].state # "committed"
                        /\ t \notin overlapped) =>
            \A r \in own[t] :
                /\ r.balanceBefore = Balance(Prior(t, r.id[2]), CreditAccount(r.id[2]))
                /\ r.balanceAfter = Balance(Prior(t, r.id[2]) \cup {r}, CreditAccount(r.id[2]))
  <1>1. ASSUME LedgerInv, BalanceInv, [Next]_vars PROVE [Kept]_vars
    <2> SUFFICES ASSUME NEW t \in Txs, tx'[t].state = "committed", tx[t].state # "committed",
                        t \notin overlapped, NEW r \in own[t]
                 PROVE  Exact(t, r)
      BY DEF Exact
    <2>1. tx[t].state = "open"
      BY <1>1 DEF LedgerInv, RowsInv
    <2> QED
      BY <1>1, <2>1 DEF BalanceInv, Serial, ExactRows
  <1> QED
    BY <1>1, LedgerInvariance, BalanceInvariance, PTL DEF Spec, SerialBalancesExact
=============================================================================
