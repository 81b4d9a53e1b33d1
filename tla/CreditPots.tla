----------------------------- MODULE CreditPots -----------------------------
(***************************************************************************)
(* What the credit-grant ledger promises, without transactions, entries,   *)
(* holds or lineage: the units of a grant are in one of four pots, a step  *)
(* moves units between the pots of each grant, and which moves are allowed *)
(* depends on whether the grant was due when the transaction began.        *)
(* Transactions do not commit in the order they began in, so due may turn  *)
(* back.  Units are created by issuing alone, and those that have left the *)
(* grant never come back.                                                  *)
(***************************************************************************)
EXTENDS Naturals

CONSTANT Grants

VARIABLES
  free,    \* spendable credit
  held,    \* credit promised to holds
  spent,   \* consumed and not given back
  closed,  \* reversed, refunded or expired
  due      \* the grants past their expiry when the last transaction began

vars == <<free, held, spent, closed, due>>

Init ==
  /\ free = [g \in Grants |-> 0]
  /\ held = [g \in Grants |-> 0]
  /\ spent = [g \in Grants |-> 0]
  /\ closed = [g \in Grants |-> 0]
  /\ due = [g \in Grants |-> FALSE]

\* n units of g move from one pot to another; the pots are the arguments' states.
Only(g, changed) ==
  /\ "free" \in changed \/ free'[g] = free[g]
  /\ "held" \in changed \/ held'[g] = held[g]
  /\ "spent" \in changed \/ spent'[g] = spent[g]
  /\ "closed" \in changed \/ closed'[g] = closed[g]

Conserved(g) == free'[g] + held'[g] + spent'[g] + closed'[g] = free[g] + held[g] + spent[g] + closed[g]

Keep(g)     == Only(g, {})
Issue(g)    == /\ free[g] + held[g] + spent[g] + closed[g] = 0
               /\ ~due'[g] /\ free'[g] > 0 /\ Only(g, {"free"})
Spend(g)    == ~due'[g] /\ spent'[g] > spent[g] /\ Only(g, {"free", "spent"}) /\ Conserved(g)
Reserve(g)  == ~due'[g] /\ held'[g] > held[g] /\ Only(g, {"free", "held"}) /\ Conserved(g)
Capture(g)  == spent'[g] > spent[g] /\ Only(g, {"held", "spent"}) /\ Conserved(g)
Release(g)  == held'[g] < held[g] /\ Only(g, {"free", "held"}) /\ Conserved(g)
Restore(g)  == ~due'[g] /\ spent'[g] < spent[g] /\ Only(g, {"free", "spent"}) /\ Conserved(g)
Withdraw(g) == ~due'[g] /\ closed'[g] > closed[g] /\ Only(g, {"free", "closed"}) /\ Conserved(g)
Cancel(g)   == /\ held[g] + spent[g] + closed[g] = 0
               /\ free'[g] = 0 /\ Only(g, {"free", "closed"}) /\ Conserved(g)
Sweep(g)    == /\ due'[g] /\ free'[g] = 0 /\ spent'[g] <= spent[g]
               /\ Only(g, {"free", "spent", "closed"}) /\ Conserved(g)

Move(g) ==
  \/ Keep(g) \/ Issue(g) \/ Spend(g) \/ Reserve(g) \/ Capture(g) \/ Release(g)
  \/ Restore(g) \/ Withdraw(g) \/ Cancel(g) \/ Sweep(g)

Next ==
  /\ due' \in [Grants -> BOOLEAN]
  /\ \A g \in Grants : Move(g)

Spec == Init /\ [][Next]_vars
=============================================================================
