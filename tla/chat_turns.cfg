SPECIFICATION ShapedSpec
CONSTANTS
  Turns = {1, 2}
  MaxReplays = 1
  Ttl = 0
  MaxClock = 1
  Faults = TRUE
  MaxLives = 3
  MaxStops = 1
INVARIANTS
  TypeOK
  NothingOwedIsForgottenUnlessMuted
  NothingIsLeftBehind
  RunsBounded
  FirstAttemptIsMeasured
PROPERTIES
  SettledNeverRerun
  OldestFirst
  EveryTurnIsSettled
CHECK_DEADLOCK FALSE
