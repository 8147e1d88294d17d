SPECIFICATION FairSpec
CONSTANTS
  Requests = {1, 2, 3}
  Tenants = {a, b}
  Users = {u1, u2, v1}
  Ids = {d}
  Seeds <- MCSeeds
  Happens = {"crash", "dbError", "lost"}
  UserHome <- MCUserHome
  SeedAuthor <- MCSeedAuthor
  SeedImages <- MCSeedImages
  SeedPublished <- MCSeedPublished
  Calls <- OneTenantCalls
  NoUser = NoUser
  NoTenant = NoTenant
  NoId = NoId
  NoCall = NoCall
  a = a
  b = b
  u1 = u1
  u2 = u2
  v1 = v1
  d = d
CHECK_DEADLOCK FALSE
CONSTRAINT ArriveInOrder
INVARIANTS TypeOK NoResurrection PublishedStays OnlyAuthorsWrite AnsweredCreatesAreWhole PlainListsShowPublished
PROPERTY RemovedLeavesLists
