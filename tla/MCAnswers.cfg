SPECIFICATION Spec
CONSTANTS
  c1 = c1
  c2 = c2
  Comments = {c1, c2}
  MaxLines <- MCMaxLines
  MaxRounds = 2
  MaxQuestions = 2
CHECK_DEADLOCK FALSE
INVARIANT PlainAnswersAreKept
INVARIANT OneCommentPerRound
