CONSTANTS
  Users = {u1, u2}
  Sids = {a}
  NoSid = NoSid
  SessionIds = {s1, s2, s3}
  MAX_SESSION_LIFETIME = 2
  MAX_SESSIONS_PER_USER = 2
  REFRESH_TTL = 1
  MaxTime = 2
SPECIFICATION StoreSpec
INVARIANTS StoreInv
PROPERTIES ImplementsRegistry
CHECK_DEADLOCK FALSE
