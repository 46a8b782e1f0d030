CONSTANTS
  Order <- PairOrder
  Enabled = {"tts", "llmd"}
  BackoffCap = 3
  TtsCap = 2
  RecycleAt = 3
  ForkOutcomes = {TRUE}
  Commands = {"restart"}
SPECIFICATION Spec
INVARIANT NoChildForgotten
