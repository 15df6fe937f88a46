CONSTANTS
  u1 = u1
  a = a
  b = b
  j1 = j1
  j2 = j2
  j3 = j3
  sidToken = sidToken
  userToken = userToken
  bothToken = bothToken
  forged = forged
  junk = junk
  Absent = Absent
  Users = {u1}
  Sids = {a, b}
  NoSid = NoSid
  MAX_SESSION_LIFETIME = 9
  MAX_SESSIONS_PER_USER = 3
  Tokens = {sidToken, userToken, bothToken, forged, junk}
  Genuine = {sidToken, userToken, bothToken, junk}
  ClaimsOf <- MCClaimsOf
  SessionOf <- MCSessionOf
  MAX_AGE = 1
  LEEWAY = 1
  Deliveries = {d1, d2, d3}
  Faults = {"keys", "leave"}
  MaxTime = 3
SPECIFICATION FairSpec
INVARIANTS ReplayInv AcceptedOnceInItsTime
PROPERTIES LogoutTakesEffect
CHECK_DEADLOCK FALSE
