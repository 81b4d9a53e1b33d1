---------------------------- MODULE MCTokenAuth ----------------------------
(* Instances of TokenAuth for TLC. *)
EXTENDS TokenAuth, TLC

CONSTANTS p1, p2

\* The second clock is as far ahead as is permitted.
Ahead == (p1 :> 0) @@ (p2 :> Skew)
=============================================================================
