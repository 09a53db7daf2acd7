------------------------------- MODULE Totals -------------------------------
(***************************************************************************)
(* Sums of amounts of money over sets of rows.                             *)
(*                                                                         *)
(* Amounts are whole cents, so the amount of a row is the number of its    *)
(* cents and the sum over a set of rows is the number of cents of all the  *)
(* rows.  Stating a sum as a cardinality keeps it within reach of the      *)
(* provers: no recursion has to be unfolded to show that adding, removing  *)
(* or changing one row changes the sum by that row's amount.               *)
(***************************************************************************)
EXTENDS Integers, FiniteSets

\* The cents of the rows S, where amount[x] is the amount of row x.
Cents(amount, S) == UNION {{x} \X (1 .. amount[x]) : x \in S}

\* The SQL aggregate SUM(amount) over the rows S.
Total(amount, S) == Cardinality(Cents(amount, S))
=============================================================================
