SPECIFICATION Spec
CONSTANTS
  Requests = {r1, r2, r3}
  TenantNames = {a, b}
  SchemaNames = {sa, sb, sx}
  Schemas = {sa, sb}
  Users = {u1, v1}
  Articles = {p1, q1}
  Seeds = {c1, d1}
  Happens = {"removal", "crash", "dbError"}
  Prefixed <- MCPrefixed
  UserHome <- MCUserHome
  ArticleHome <- MCArticleHome
  SeedArticle <- MCSeedArticle
  Calls <- TwoTenantCalls
  NoKey = NoKey
  NoSchema = NoSchema
  NoUser = NoUser
  NoComment = NoComment
  NoCall = NoCall
  a = a
  b = b
  sa = sa
  sb = sb
  u1 = u1
  u2 = u2
  v1 = v1
  p1 = p1
  p2 = p2
  q1 = q1
  c1 = c1
  d1 = d1
CHECK_DEADLOCK FALSE
SYMMETRY Symmetry
INVARIANTS TypeOK RowsStayHome ScoreWithinVotes
PROPERTY VotingKeepsLedger
