------------------------------- MODULE Tally -------------------------------
(***************************************************************************)
(* SQL's coalesce(sum(amount), 0) over a finite set of rows, as the number *)
(* of minor units the rows hold.  Functions!SumFunction computes the same  *)
(* number (MCCreditGrants checks that it does), but by a recursion that    *)
(* the proof system cannot reason about; counting units gives the laws of  *)
(* sums (CreditGrantsProofs) from the laws of finite cardinalities.               *)
(***************************************************************************)
EXTENDS Naturals, FiniteSets

\* The minor units of the rows of f, f[x] of them for the row x.
Units(f) == UNION {{x} \X (1..f[x]) : x \in DOMAIN f}

\* sum(amount) over the rows of f.
Tally(f) == Cardinality(Units(f))
=============================================================================
