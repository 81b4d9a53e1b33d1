---------------------------- MODULE MCDemoLedger ----------------------------
(* Instances of DemoLedger for TLC. *)
EXTENDS DemoLedger, TLC

\* An address the seed creates, too.
Bob == {"wallet:bob"}

Symmetry == Permutations(Resets)
=============================================================================
