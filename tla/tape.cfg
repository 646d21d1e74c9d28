CONSTANTS
  Markets = {m1, m2}
  Moving = {m1}
  FlushEvery = 2
  PrintPrices = {40}
  MaxBook = 2
  MaxChanges = 2
  MaxPrints = 1
  MaxConns = 2
  MaxDays = 2
  MaxMinutes = 4
  FeedEnv = {"lost", "twice", "dbdown", "disconnect", "kill", "raise"}
  MaxFaults = 1
  StepCents = 1
  MaxSteps = 1
  RestSeconds = 30
  TimeoutSeconds = 300
  Orders = {o1}
  Traded = {m1}
  BatchRows = 2
  NoOrder = NoOrder
  Quantity = 2
  StartPrice = 40
  Caps = {39, 41}
  Rest = 1
  Grace = 1
  UnprovenAfter = 2
  GapHorizon = 1
  FullPayload = 0
  KeepDays = 1
  FloorDays = 0
SPECIFICATION FairSpec
INVARIANTS
  TapeTypeOK
  NothingLostSilently
  ReplaySound
  CompactionTransparent
  VerdictsStand
PROPERTIES
  PromiseKept
  EveryOrderJudged
CHECK_DEADLOCK FALSE
