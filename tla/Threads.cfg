SPECIFICATION Spec
CONSTANTS
  Stored = {1, 2, 3, 4}
  Articles = {p, q}
  Asked = p
  NoComment = NoComment
  Undefined = Undefined
CHECK_DEADLOCK FALSE
INVARIANTS TypeOK ShownOnceInPlace NewestFirst VoteOfferedAtEveryDepth OmittedRepliesMisfiled
