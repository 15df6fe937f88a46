CONSTANTS
  pw = pw
  link = link
  key = key
  s1 = s1
  s2 = s2
  s3 = s3
  Creds = {pw, link, key}
  KindOf <- MCKindOf
  Sessions = {s1, s2, s3}
  CredsAtFirst = {pw, key}
  SessionsAtFirst = {s1, s2}
  None = None
  Requests <- AllRequests
  Faults = {}
  Account = {"deactivate"}
  MAX_SESSION_ROUNDS = 2
  PageSize = 2
  request_timeout = 1
  MaxRetries = 0
SPECIFICATION Spec
PROPERTIES DeactivationStays
CHECK_DEADLOCK FALSE
