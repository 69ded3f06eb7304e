SPECIFICATION RolloutSpec
CONSTANTS
  FirstTurns = {t1, t2}
INVARIANTS
  ReadsItsOwnRollout
CHECK_DEADLOCK FALSE
