CONSTANTS
  c1 = c1
  c2 = c2
  u1 = u1
  a = a
  Users = {u1}
  Sids = {a}
  NoSid = NoSid
  None = None
  Requests = {r1}
  Logins = {c1, c2}
  UserOf <- TwoUserOf
  SidOf <- TwoSidOf
  MAX_SESSION_LIFETIME = 3
  MAX_SESSIONS_PER_USER = 1
  REFRESH_TTL = 2
  ACCESS_TTL = 1
  ACCESS_TOKEN_REFRESH_LEEWAY = 0
  Faults = {"cancel", "hydra"}
  MaxTime = 2
  MaxToken = 2
SPECIFICATION Spec
INVARIANTS TokenInv LiveTokensAccountedFor
PROPERTIES EndedStaysEnded
CHECK_DEADLOCK FALSE
