SPECIFICATION Spec
CONSTANTS
  Requests = {r1, r2, r3}
  Emails = {m}
  Passwords = {x}
  Seeds = {s}
  SeedEmail <- MCSeedEmail
  SeedPassword <- MCSeedPassword
  Start = 10
  MaxTime = 11
  AccessTime = 1
  RefreshTime = 2
  LogoutExp = 3
  Happens = {}
  None = None
  m = m
  x = x
CHECK_DEADLOCK FALSE
SYMMETRY Symmetry
INVARIANT LogoutEndsSession
