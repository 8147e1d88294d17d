SPECIFICATION Spec
CONSTANTS
  Requests = {r1, r2}
  Tenants = {a, b}
  Users = {u1, u2, v1}
  Ids = {d}
  Seeds <- MCSeeds
  Happens = {}
  UserHome <- MCUserHome
  SeedAuthor <- MCSeedAuthor
  SeedImages <- MCSeedImages
  SeedPublished <- MCSeedPublished
  Calls <- ListCallsOfAll
  NoUser = NoUser
  NoTenant = NoTenant
  NoId = NoId
  NoCall = NoCall
  a = a
  b = b
  u1 = u1
  u2 = u2
  v1 = v1
  d = d
CHECK_DEADLOCK FALSE
INVARIANT ListsStayInTenant
