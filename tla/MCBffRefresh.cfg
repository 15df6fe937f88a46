CONSTANTS
  c1 = c1
  c2 = c2
  u1 = u1
  a = a
  Users = {u1}
  Sids = {a}
  NoSid = NoSid
  None = None
  Requests = {r1, r2, r3}
  Logins = {c1}
  UserOf <- OneUserOf
  SidOf <- OneSidOf
  MAX_SESSION_LIFETIME = 2
  MAX_SESSIONS_PER_USER = 1
  REFRESH_TTL = 2
  ACCESS_TTL = 1
  ACCESS_TOKEN_REFRESH_LEEWAY = 0
  Faults = {"cancel", "hydra"}
  MaxTime = 2
  MaxToken = 3
SPECIFICATION FairSpec
INVARIANTS SpentOnlyAfterLoss
PROPERTIES ServedFromTheStore TakesTurns RequestsAreAnswered EndedTokensDie
CHECK_DEADLOCK FALSE
