CONSTANTS
  Asks = 2
  Words = 2
  ResendAt = 1
  GiveUpAt = 3
  Deaths = 1
CHECK_DEADLOCK FALSE
SPECIFICATION LiveSpec
INVARIANT AnswersAreApart
PROPERTY QuestionSurvives
