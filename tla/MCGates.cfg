SPECIFICATION Spec
CONSTANTS
  payment = payment
  prod = prod
  email = email
  HighWords = {payment}
  BlockedWords = {prod}
  RedTeamWords = {payment, email}
  feature = feature
  research = research
  Types = {feature, research}
  CodeTypes = {feature}
  auth = auth
  docs = docs
  Areas = {auth, docs}
  HighAreas = {auth}
  LowAreas = {docs}
  Sizes <- MCSizes
  MaxFilesLow = 1
  MaxFilesMedium = 2
  MaxDiffLines = 2
  HighRiskRequiresMaintainer = TRUE
  author = author
  reviewer = reviewer
  stranger = stranger
  Users = {author, reviewer, stranger}
  NoUser = NoUser
  Author = author
  Reviewer = reviewer
  Approvers = {}
  Maintainers = {}
  MaxFixes = 1
CHECK_DEADLOCK FALSE
INVARIANT TypeOK
INVARIANT OnlyHarmlessIsCoded
INVARIANT SevereIsForPeople
INVARIANT ReadyWasAgreed
INVARIANT SignalsOnlyRaise
