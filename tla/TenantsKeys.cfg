SPECIFICATION Spec
CONSTANTS
  Requests = {r1, r2}
  Names = {m, n}
  Passwords = {x}
  Tables <- MCTables
  References <- MCReferences
  Happens = {}
  None = None
CHECK_DEADLOCK FALSE
INVARIANT KeyOpensSchema
