SPECIFICATION PartsSpec
CONSTANTS
  MaxTs = 3
  Kinds = {"turn", "own", "gate", "drop"}
  Scans = {s1, s2}
  LedgerCap = 2
  FailedCap = 2
  MarkCap = 2
  ScanCap = 1
  OddAt = 2
  MaxFaults = 1
  Typed <- Ty
  ReplyLimit = 1
  BacklogMax = 2
  NoticeDelay = 2
  MaxHold = 3
  MaxOther = 1
  MaxPresses = 1
  TurnKinds = {"plain", "silent", "command"}
  MaxTurns = 3
  MaxStops = 1
  Calls = {c1, c2, c3}
  GrantKeys = {k1}
  RateLimit = 2
  RateWindow = 2
  Cooldown = 2
  GrantTtl = 1
  AnswerTime = 1
  MaxTime = 3
  Aborts = TRUE
  Failures = {f1, f2, f3}
  Sinks = 2
  AlertWindow = 1
  AlertsUntil = 2
  AlertLives = 2
  MaxDialogs = 3
  MaxPaneTurns = 2
  MaxSaid = 3
  DigestLines = 2
  QueueMax = 2
  Warmup = 1
  MinGap = 1
  FitLines = 2
  MaxMinutes = 2
  OutFiles = {o1, o2}
  MaxActs = 4
  MaxFiles = 2
  LabelCap = 2
  SpentCap = 1
  MaxSent = 2
  Sendable <- Snd
  Threads = {"h1", "h2"}
  Root = "root"
  SessionCap = 1
  MaxOdd = 1
  Confs <- Cfgs
  BundledBlock <- Bun
  Triage <- Tri
  Registry <- Reg
  Listed <- Lst
  Aliases <- Als
  Levels <- Lvl
  OnShape <- Shp
  Said <- Sai
  MaxHappens = 3
INVARIANTS
  PartsTypeOK
  MessagesAreHandled
  GatedIsKept
  TurnIsShown
  AnswersCount
  AlertsAsTold
  TelegramKeeps
CHECK_DEADLOCK FALSE
