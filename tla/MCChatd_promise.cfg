CONSTANTS
  Order <- PairOrder
  Enabled = {"tts", "llmd"}
  BackoffCap = 3
  TtsCap = 2
  RecycleAt = 3
  ForkOutcomes = {TRUE}
  Commands = {"start"}
SPECIFICATION PatientSpec
INVARIANT NoChildForgotten
PROPERTIES KeepsPromise UpUnlessCrashing
