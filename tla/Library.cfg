SPECIFICATION LibrarySpec
CONSTANTS
  NaN = NaN
  None = None
  Values <- MCValues
  Limits <- MCLimits
  Maxima <- MCMaxima
  MaxCalls = 2
  BoardKeys = {k1, k2}
  Bots = {b1, b2}
  BoardValues = {v1}
  MaxKeys = 1
  LeaseSeconds = 2
  MaxRevision = 2
  BoardTime = 3
  Callers = {c1, c2}
  Threshold = 2
  Cooldown = 2
  CallsPerWindow = 2
  Window = 2
  MaxAttempts = 3
  BaseSeconds = 1
  Multiplier = 2
  MaxSeconds = 1
  CallTime = 4
  Workers = {w1, w2, w3}
  TaskCount = 4
  MinInFlight = 1
  MaxInFlight = 2
  Owners = {o1, o2}
  Items = {i1, i2}
  Turn = i1
  MaxCount = 2
  SoftLimit = 1
  MaxSkew = 1
  MaxSteps = 3
  MaxTokens = 4
  LedgerOps = 5
  TimerKeys = {s1, s2}
  Period = 2
  TimerTime = 4
  TimerOps = 3
  Tools = {t1, t2}
  BadName = bad
  ServerCount = 2
  StepCount = 3
  Tags = {x, y}
  MaxLength = 6
  MaxPathDepth = 2
  MaxArrayIndex = 1
INVARIANTS
  SeverityNeverFalls
  FailsClosed
  WarnedBeforeExhausted
  NoSilentOverwrite
  BreakerIsItsHistory
  WindowNeverExceeded
  NoSleepWhileSlotFree
  ResultsInTaskOrder
  LedgersAreTheirLog
  RunsOnlyWhileActive
  RunSeesConfiguredTools
  NoServerOutlivesCommand
  PlansMeetContracts
  JsonToolsMeetContracts
  CsvToolsMeetContracts
