SPECIFICATION Spec
CONSTANTS
  app = app
  lib = lib
  d1 = d1
  d2 = d2
  Drains = {d1}
  NumJobs = 2
  RepoList <- MCOneRepo
  LastIid <- MCLastIid
  StartupInitsDb = TRUE
  NoOne = NoOne
  MaxFaults = 1
  MaxEdits = 1
CHECK_DEADLOCK FALSE
INVARIANT RecordedIsAnnounced
INVARIANT ReadyOnceIsGated
PROPERTY RecordedPlanIsCurrent
PROPERTY RefinesContract
PROPERTY PlanEnds
