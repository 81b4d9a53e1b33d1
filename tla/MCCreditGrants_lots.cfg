SPECIFICATION Spec
CONSTANTS
  a1 = a1
  a2 = a2
  g1 = g1
  g2 = g2
  g3 = g3
  Accounts = {a1, a2}
  Grants = {g1, g2, g3}
  AccountOf <- TwoAccounts
  AmountOf <- OneIsLarger
  Holds = {h1, h2}
  Txns = {t1, t2, t3, t4}
  None = None
  MaxAmount = 2
  MaxTime = 1
SYMMETRY Symmetry
VIEW AllButBegan
INVARIANTS TypeOK CapacityMatchesLineage ReservedMatchesHolds ReversalRestoresExactly HoldAlwaysSettles AppliedConsumesAllocations
PROPERTIES ExpiredCreditDoesNotCirculate HistoryIsImmutable ImplementsPots
CHECK_DEADLOCK FALSE
