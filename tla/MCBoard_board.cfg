CONSTANTS
  Clients = {"c", "d"}
  Stems <- OneStem
  Misnamed = {}
  K <- KOf
  OUT <- OutOf
  Mts = {17, 65537}
  Cap <- Caps
  WarmFiles <- OneFile
  LoadResults = {"ok"}
  RunResults = {TRUE, FALSE}
  MaxMt = 65536
  Sentences = 4
  TtsDeaths = 2
  PlayerDeaths = 1
  KEEP = 2
  Children = {1, 2}
  Clock = {8, 9, 10, 11}
  Deaths = 4
  Boots = 2
  Answers <- DemoAnswers
  OldText <- DemoOld
  Rounds = 3
  SENT_MAX = 3
  QUEUE_MAX = 2
CHECK_DEADLOCK FALSE
SPECIFICATION BoardSpec
INVARIANTS PlayedAsSaid DeathsAreKept SpokenAsWritten HeardInOrder
PROPERTIES EverySentenceIsHeard TurnEnds EveryAskEnds TermIsObeyed
