-------------------------------- MODULE Sums --------------------------------
(***************************************************************************)
(* The sum of the values of a function, as SQL's SUM over the rows of a    *)
(* table.  It is defined by counting units of money, not by recursion over *)
(* the rows, so that what it does can be proved for any number of rows.    *)
(***************************************************************************)
EXTENDS Naturals, FiniteSets

Units(w) == UNION {{x} \X (1..w[x]) : x \in DOMAIN w}

\* The sum of all w[x], for a function w from a finite set to Nat.
SumOf(w) == Cardinality(Units(w))
=============================================================================
