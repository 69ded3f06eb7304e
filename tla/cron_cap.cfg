SPECIFICATION Spec
CONSTANTS
  Keys = {"a", "b"}
  Prints = {1}
  MaxConcurrent = 1
  MaxFires = 1
  Concurrency = 1
  RunnerRaises = TRUE
  RenderFails = TRUE
  MaxKills = 1
INVARIANTS
  TypeOK
  CapUnlessTorn
  ParkedUnlessRaced
CHECK_DEADLOCK FALSE
