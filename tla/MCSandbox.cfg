SPECIFICATION Spec
CONSTANTS
  NumChecks = 2
  PhaseTimeout = 3
  Limit = 2
CHECK_DEADLOCK FALSE
INVARIANT PassedHasExited
INVARIANT OneLeaderAtATime
PROPERTY JobEnds
