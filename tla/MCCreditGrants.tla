--------------------------- MODULE MCCreditGrants ---------------------------
(* Instances of CreditGrants for TLC. *)
EXTENDS CreditGrants, TLC, Functions

CONSTANTS a1, a2, g1, g2, g3

\* Two grants on one account, one of them of two units, and one on another account.
TwoAccounts == (g1 :> a1) @@ (g2 :> a1) @@ (g3 :> a2)
OneIsLarger == (g1 :> 2) @@ (g2 :> 1) @@ (g3 :> 2)

\* Ids are interchangeable, and no step depends on when the last transaction began.
Symmetry    == Permutations(Holds) \cup Permutations(Txns)
AllButBegan == <<expires_at, issued_by, posting, hold, capacity, balance>>

\* The sums of Tally are the sums of the community modules.
ASSUME TallyIsSum == \A f \in [1..3 -> 0..3] : Tally(f) = SumFunction(f)
=============================================================================
