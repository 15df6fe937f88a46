CONSTANTS
  pw = pw
  link = link
  key = key
  s1 = s1
  s2 = s2
  s3 = s3
  Creds = {pw, link, key}
  KindOf <- MCKindOf
  Sessions = {s1, s2, s3}
  CredsAtFirst = {pw, key}
  SessionsAtFirst = {s1, s2}
  None = None
  Requests <- AllRequests
  Faults = {"failed", "lost"}
  Account = {"add", "signin", "deactivate"}
  MAX_SESSION_ROUNDS = 2
  PageSize = 2
  request_timeout = 2
  MaxRetries = 1
SPECIFICATION Spec
INVARIANTS PurgeInv RestIsAlwaysTried
CHECK_DEADLOCK FALSE
