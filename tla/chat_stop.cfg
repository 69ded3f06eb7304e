SPECIFICATION Spec
CONSTANTS
  Turns = {1}
  MaxReplays = 1
  Ttl = 1
  MaxClock = 0
  Faults = FALSE
  MaxLives = 2
  MaxStops = 1
PROPERTIES
  StoppedStaysStopped
CHECK_DEADLOCK FALSE
