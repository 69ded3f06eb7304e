SPECIFICATION PartsSpec
CONSTANTS
  PromptUnits = 2
  PipeRoom = 1
  MaxOutput = 2
  MaxTurnStops = 2
  MaxInput = 3
  Hold = 1
  InRoom = 1
  OutRoom = 1
  StreamCap = 2
  MaxWrites = 4
  Rooms = {a, b}
  MaxWritten = 4
  CacheTtl = 2
  Lead = 1
  MaxQuiet = 1
  MaxHour = 2
  PoolSize = 3
  Retries = 2
  MaxAsked = 2
  FirstTurns = {t1, t2}
  Brokers = {d1, d2}
  Requests = {q1, q2}
  MaxToken = 3
  MaxDeaths = 1
  Pids = {g1, g2}
  DaemonLives = 3
  Daemons = {p1, p2, p3}
  Supers = {s1, s2}
  MaxAsks = 2
  MaxCrashes = 1
  MaxSpoken = 3
  MaxMoves = 2
  HandoffTurns = 2
  Tunnels = {n1, n2}
  MaxEdits = 2
  MaxSessions = 2
  MaxSpawns = 1
  MaxJailEdits = 1
  MaxMade = 2
  DotenvCap = 1
  Stores = {"own_env"}
  MaxFlaws = 1
  MaxSaves = 1
  MaxRuns = 1
  MaxClaudeTurns = 2
  MaxMessages = 2
  TakesHandoff = TRUE
  MaxPaneRuns = 2
  BusyRetries = 1
  MaxMishaps = 2
INVARIANTS
  PartsTypeOK
  TurnsAreTheirOwn
  ServedWithinBounds
  CompactsAsDue
  AccountsServe
  ThreadsAreKept
  RunsAsConfigured
  EveryDaemonsOwn
CHECK_DEADLOCK FALSE
