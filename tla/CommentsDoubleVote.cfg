SPECIFICATION Spec
CONSTANTS
  Requests = {r1, r2}
  TenantNames = {a}
  SchemaNames = {sa}
  Schemas = {sa}
  Users = {u1, u2}
  Articles = {p1}
  Seeds = {c1}
  Happens = {}
  Prefixed <- MCPrefixed
  UserHome <- MCUserHome
  ArticleHome <- MCArticleHome
  SeedArticle <- MCSeedArticle
  Calls <- VotingCalls
  NoKey = NoKey
  NoSchema = NoSchema
  NoUser = NoUser
  NoComment = NoComment
  NoCall = NoCall
  a = a
  b = b
  sa = sa
  sb = sb
  u1 = u1
  u2 = u2
  v1 = v1
  p1 = p1
  p2 = p2
  q1 = q1
  c1 = c1
  d1 = d1
CHECK_DEADLOCK FALSE
INVARIANT OneRatingPerUser
