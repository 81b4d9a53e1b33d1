SPECIFICATION FairSpec
CONSTANTS
  b1 = b1
  b2 = b2
  t1 = t1
  t2 = t2
  Browsers = {b1}
  Tabs = {t1, t2}
  Callers = {}
  BrowserOf <- SameBrowser
  Sessions = {s1, s2}
  None = None
  Lifetime = 2
  Ttl = 1
  Skew = 0
  SeedSteps = 1
  MaxFaults = 1
  MaxTime = 1
PROPERTIES BootstrapEnds StaleBearerRecovers
CHECK_DEADLOCK FALSE
