CONSTANTS
  Order <- FullOrder
  Enabled = {"tts", "player", "llmd"}
  BackoffCap = 3
  TtsCap = 2
  RecycleAt = 2
  ForkOutcomes = {TRUE, FALSE}
  Commands = {"start", "restart"}
SPECIFICATION Spec
INVARIANTS TypeOK AtMostOneInstance ReadyIsFresh BackoffIsRight
PROPERTIES RecycleIsEarned KeepsOrder
