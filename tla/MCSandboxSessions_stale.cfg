SPECIFICATION FairSpec
CONSTANTS
  b1 = b1
  b2 = b2
  t1 = t1
  t2 = t2
  Browsers = {b1}
  Tabs = {t1, t2}
  Callers = {}
  BrowserOf <- SameBrowser
  Sessions = {s1, s2}
  None = None
  Lifetime = 1
  Ttl = 1
  Skew = 0
  SeedSteps = 1
  MaxFaults = 0
  MaxTime = 0
PROPERTIES StaleTabNeedsPageLoad
CHECK_DEADLOCK FALSE
