SPECIFICATION FairSpec
CONSTANTS
  Requests = {1, 2, 3}
  Emails = {m, n}
  Passwords = {x}
  Seeds = {s}
  SeedEmail <- MCSeedEmail
  SeedPassword <- MCSeedPassword
  Start = 10
  MaxTime = 12
  AccessTime = 1
  RefreshTime = 1
  LogoutExp = 3
  Happens = {"authCrash", "usersCrash", "dbError", "lost"}
  None = None
  m = m
  x = x
CHECK_DEADLOCK FALSE
CONSTRAINT ArriveInOrder
INVARIANTS TypeOK TokensNeedCredentials OneUserPerEmail
PROPERTIES SessionsStayOver ServicesKeepStore AccountsGetCompleted RequestsEnd
