CONSTANTS
  Tokens = {0, 1, 2, 3}
  Stops = {2}
  ImEnd = 2
  Prompts <- SomePrompts
  Remaps <- SomeRemaps
  Scores <- SomeScores
  MaxNew = 4
  MaxAll = 9
  Inputs <- SomeInputs
  SpmInputs <- SomeSpmInputs
  Lexicon <- SomeLexicon
  TokenId <- TokenNumbers
  Lines <- SomeLines
  Durations = {0, 1, 3}
  TB = 5
  WB = 3
  CH = 2
CHECK_DEADLOCK FALSE
SPECIFICATION EnginesSpec
INVARIANTS
  SessionAgrees AnswerIsRight BpeIsTextbook TextIsKept SpmIsTextbook LineIsSaid FramesInPlace
PROPERTY EveryAnswerEnds
