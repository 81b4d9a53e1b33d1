SPECIFICATION Spec
CONSTANTS
  l1 = l1
  l2 = l2
  x1 = x1
  x2 = x2
  Ledgers = {l1, l2}
  Filters = {all, ref}
  NoFilter = all
  Txs = {x1, x2}
  LedgerOf <- OneEach
  None = None
  MaxVersion = 3
INVARIANTS TypeOK ListIsCurrent EntriesAreOfSelected
CHECK_DEADLOCK FALSE
