SPECIFICATION FairSpec
CONSTANTS
  Runs = {1, 2, 3}
  Kinds = {"migrate", "undo", "seed", "unseed"}
  Happens = {"kill", "article"}
CHECK_DEADLOCK FALSE
INVARIANTS TypeOK InstalledServes FailuresExplained BothColumnsNeedOverlap
PROPERTY RerunRepairs
