CONSTANTS
  SessionStart = 6
  SessionEnd = 13
  LinkTicks = 5
  CycleTicks = 2
  CycleTimeout = 1
  SegmentTicks = 3
  KickFrom = 4
  KickUntil = 12
  MaxTriggers = 3
  MaxKills = 2
  Universe = {m1}
  CycleLength = 3
  Heartbeat = 4
  Closes = {2, 20}
  MaxNow = 13
  MaxChanges = 2
  Cap = 6
  Target = 3
  Trigger = 4
  FailLive = 5
  FileAlarm = 6
  FileHard = 6
  Guard = 5
  Keep = 3
  Floor = 1
  FullDays = 0
  DayWrites = 2
  StallRounds = 1
  MaxAge = 4
  Sections = {recorder}
  DegradedDays = 2
  Milestones = {1, 2}
  Gate = 2
  MaxDate = 3
  MaxDeaths = 2
  MaxLead = 2
  Lookback = 1
  MaxFitAge = 0
  GuardWindow = 1
  LastPhase = 6
  MaxTrades = 2
  MaxRefits = 1
  StepCents = 2
  MaxSteps = 3
  RestSeconds = 30
  TimeoutSeconds = 60
  Beliefs = {5, 405, 444, 500, 996}
  Edges = {0, 31, 50}
  Contracts = {k1}
  Ladder = {k1}
  Snapshots <- SomeSnapshots
  Estimates <- SomeEstimates
  Miscalibration = 0
  Tariffs <- SomeTariffs
  Screening = FALSE
  CacheTicks = 1
  DayTicks = 2
  LastTick = 1
  MaxPlaced = 2
SPECIFICATION ServicesSpec
INVARIANTS
  ServicesTypeOK
  SlotsRunOnce
  StoredAsPublished
  QuietStaysScorable
  GreenBoundsLive
  EscalatedOnceAfterDays
  SilenceMeansTold
  PricedOnMeasuredError
  PlanKeepsEdge
  TradesPayTheirFee
PROPERTIES
  NoSilentHandOff
  CutOnlyWhileHigh
CHECK_DEADLOCK FALSE
