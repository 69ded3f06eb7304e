SPECIFICATION FairSpec
CONSTANTS
  Jobs = {1, 2, 3}
  Retention = 2
  RetryWindow = 1
  MaxDelay = 1
  MaxClock = 1
  Poison = {1}
  FlakyDisk = FALSE
  Concurrency = 2
  MaxLives = 2
  RunnerRaises = FALSE
  PostFails = FALSE
PROPERTIES
  EveryJobIsAnswered
CHECK_DEADLOCK FALSE
