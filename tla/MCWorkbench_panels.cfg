SPECIFICATION Spec
VIEW View
CONSTANTS
  usd = usd
  eur = eur
  new = new
  alice = alice
  bob = bob
  eva = eva
  carol = carol
  Ledgers = {usd, eur, new}
  TenantOf <- Sandboxes
  Accounts = {alice, bob, eva, carol}
  LedgerOf <- Books
  Typed = {bob}
  Primary <- Primaries
  FirstLedger <- Firsts
  Requests = {r1}
  r1 = r1
  Wheres = {NoFilter, Invalid}
  NoFilter = NoFilter
  Invalid = Invalid
  None = None
  MaxWrites = 2
  MaxRefreshes = 3
  MaxPage = 2
INVARIANTS TypeOK BalanceIsCurrent  NextPageContinues
CHECK_DEADLOCK FALSE
