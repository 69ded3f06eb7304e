SPECIFICATION Spec
CONSTANTS
  Jobs = {1}
  Retention = 2
  RetryWindow = 1
  MaxDelay = 3
  MaxClock = 5
  Poison = {}
  FlakyDisk = FALSE
  Concurrency = 2
  MaxLives = 3
  RunnerRaises = TRUE
  PostFails = TRUE
INVARIANTS
  OwedReplyKeepsItsOrigin
CHECK_DEADLOCK FALSE
