CONSTANTS
  Calls = {c1, c2}
  Kids = {k1, k2}
  AtFirst = {k1}
  NoKid = NoKid
  None = None
  max_age = 1
  min_refresh = 1
  FetchTimeout = 1
  MaxTime = 4
SPECIFICATION FairSpec
INVARIANTS CacheInv
PROPERTIES FetchesAreSpaced OutageTolerated CallsAreAnswered
CHECK_DEADLOCK FALSE
