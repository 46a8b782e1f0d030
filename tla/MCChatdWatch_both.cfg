CONSTANTS
  Order <- LlmdOnly
  Enabled = {"llmd"}
  BackoffCap = 1
  TtsCap = 1
  RecycleAt = 2
  ForkOutcomes = {TRUE}
  Commands = {"start"}
  StallTicks = 1
  FreezeTicks = 2
  FeedTicks = 1
  BiteTicks = 4
  MaxLag = 1
  WdtOpens = {TRUE, FALSE}
SPECIFICATION WLiveSpec
INVARIANT WTypeOK
PROPERTIES StepsAsChatd RebootIsLastResort FreezeIsCured ChatdIsRescued StallIsCured
