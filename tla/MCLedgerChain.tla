---------------------------- MODULE MCLedgerChain ----------------------------
(***************************************************************************)
(* Instances of LedgerChain for TLC.                                       *)
(***************************************************************************)
EXTENDS LedgerChain

CONSTANTS
    p1, p2,
    MaxRows    \* bound on the rows there are at a time

\* A payment whose capture has a fee and one whose capture has none.
Priced ==
    \A t \in Txs : tx[t].state = "open" => tx[t].amount = IF t[2] = p1 THEN 2 ELSE 1

FewRows == Cardinality(book \cup UNION {own[t] : t \in Txs}) =< MaxRows

Bounded == Priced /\ FewRows
=============================================================================
