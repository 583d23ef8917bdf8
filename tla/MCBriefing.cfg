SPECIFICATION Spec
CONSTANTS
  Procs = {p1, p2}
  NoProc = NoProc
  c1 = c1
  c2 = c2
  Comments = {c1, c2}
  NoComment = NoComment
  Commenter <- MCCommenter
  Users <- MCUsers
  NoUser = "nobody"
  Creator = "author"
  NamedReviewer = "lead"
  Maintainers <- MCMaintainers
  Approvers <- MCMaintainers
  HighRiskRequiresMaintainer = TRUE
  Fields <- MCFields
  IntakeRequired <- MCIntakeRequired
  Required <- MCFields
  ListFields <- MCListFields
  ReviewerField = "reviewer"
  MaxRounds = 3
  MaxJobs = 4
SYMMETRY MCProcs
INVARIANTS
  TypeOK
  SingleStart
  NeverReasked
  AnswersCloseRound
  AnnouncedBefore
  NoLockCycle
PROPERTIES
  TerminalIsFinal
  ReadyIsComplete
  AnswersKeepCard
  Refines
CHECK_DEADLOCK FALSE
