------------------------ MODULE MCTransactionsPanel ------------------------
(* Instances of TransactionsPanel for TLC. *)
EXTENDS TransactionsPanel, TLC

CONSTANTS l1, l2, x1, x2

OneEach == (x1 :> l1) @@ (x2 :> l2)
=============================================================================
