SPECIFICATION FairSpec
CONSTANTS
  Procs = {p1, p2}
  NoProc = NoProc
  c1 = c1
  c2 = c2
  Comments = {c1}
  NoComment = NoComment
  Commenter <- LiveCommenter
  Users <- LiveUsers
  NoUser = "nobody"
  Creator = "author"
  NamedReviewer = "lead"
  Maintainers <- NoUsers
  Approvers <- NoUsers
  HighRiskRequiresMaintainer = TRUE
  Fields <- LiveFields
  IntakeRequired <- LiveIntakeRequired
  Required <- LiveFields
  ListFields <- NoFields
  ReviewerField = "reviewer"
  MaxRounds = 1
  MaxJobs = 4
PROPERTIES
  HandlerEnds
CHECK_DEADLOCK FALSE
