SPECIFICATION HooksSpec
CONSTANTS
  Emails = {e1, e2}
  NoEmail = NoEmail
  MaxChanges = 2
  Apis = {need, nice}
  Required = {need}
  Scoped = {need}
  RequestTimeout = 6
  UpstreamTimeout = 2
  WebhookTimeout = 3
  MaxAttempts = 2
  Claims = {role, aud}
  Reserved = {aud}
  HookTries = 2
INVARIANT RegistrationInv
PROPERTY NeverTellsOfTheGone
PROPERTY TokensFollowTheAccount
PROPERTY OutagesKeepTheSession
CHECK_DEADLOCK FALSE
