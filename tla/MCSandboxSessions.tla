------------------------- MODULE MCSandboxSessions -------------------------
(* Instances of SandboxSessions for TLC. *)
EXTENDS SandboxSessions, TLC

CONSTANTS b1, b2, t1, t2

SameBrowser     == [t \in Tabs |-> b1]
SeparateBrowser == (t1 :> b1) @@ (t2 :> b2)

Symmetry == Permutations(Sessions)
=============================================================================
