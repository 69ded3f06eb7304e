SPECIFICATION FairSpec
CONSTANTS
  Keys = {"a"}
  Prints = {1, 2}
  MaxConcurrent = 2
  MaxFires = 2
  Concurrency = 1
  RunnerRaises = FALSE
  RenderFails = FALSE
  MaxKills = 0
INVARIANTS
  OneJobUnlessTorn
PROPERTIES
  BacksOffUnlessRaced
  MovedItemIsFired
CHECK_DEADLOCK FALSE
