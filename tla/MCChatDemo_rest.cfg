CONSTANTS
  Answers <- DemoAnswers
  OldText <- DemoOld
  Rounds = 3
  SENT_MAX = 3
  QUEUE_MAX = 2
CHECK_DEADLOCK FALSE
SPECIFICATION DemoSpec
INVARIANT RestIsSent
