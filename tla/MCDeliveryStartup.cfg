SPECIFICATION Spec
CONSTANTS
  app = app
  lib = lib
  d1 = d1
  d2 = d2
  Drains = {d1, d2}
  NumJobs = 2
  RepoList <- MCOneRepo
  LastIid <- MCLastIid
  StartupInitsDb = FALSE
  NoOne = NoOne
  MaxFaults = 1
  MaxEdits = 1
CHECK_DEADLOCK FALSE
PROPERTY PlanStarts
