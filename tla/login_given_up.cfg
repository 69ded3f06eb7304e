SPECIFICATION LoginSpec
CONSTANTS
  Brokers = {d1}
  Requests = {q1, q2}
  MaxToken = 2
  MaxDeaths = 0
INVARIANTS
  GivenUpIsSpent
CHECK_DEADLOCK FALSE
