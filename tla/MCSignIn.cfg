SPECIFICATION Spec
CONSTANTS
  Tabs = {t1, t2}
  Browsers = {b1, b2}
  Logins = {l1, l2}
  App = App
  Elsewhere = Elsewhere
  None = None
INVARIANT SessionOfItsOwnLogin
INVARIANT RedirectsEnd
PROPERTY LogoutEndsBothSessions
SYMMETRY Symmetry
CHECK_DEADLOCK FALSE
