SPECIFICATION Spec
CONSTANTS
  Jobs = {1, 2}
  Retention = 2
  RetryWindow = 1
  MaxDelay = 0
  MaxClock = 3
  Poison = {}
  FlakyDisk = TRUE
  Concurrency = 2
  MaxLives = 2
  RunnerRaises = TRUE
  PostFails = TRUE
INVARIANTS
  TypeOK
  OncePerLife
  MarkedWasPosted
  PromptReplyKeepsItsOrigin
PROPERTIES
  AnsweredNeverReruns
  KeepsPromise
CHECK_DEADLOCK FALSE
