SPECIFICATION Spec
CONSTANTS
  Requests = {r1, r2, r3}
  Names = {m, n}
  Passwords = {x, y}
  Tables <- MCTables
  References <- MCReferences
  Happens = {"authCrash", "tenantCrash", "dbError", "lost"}
  None = None
CHECK_DEADLOCK FALSE
SYMMETRY Symmetry
INVARIANTS TypeOK SchemaHasTenant UndisturbedMeansComplete OnlyOverlappingNamesakes KeyMatchesLogin
