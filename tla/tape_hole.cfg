CONSTANTS
  Markets = {m1, m2}
  Moving = {m1}
  FlushEvery = 2
  PrintPrices = {39}
  MaxBook = 2
  MaxChanges = 0
  MaxPrints = 1
  MaxConns = 2
  MaxDays = 2
  MaxMinutes = 4
  FeedEnv = {"disconnect"}
  MaxFaults = 1
  StepCents = 1
  MaxSteps = 0
  RestSeconds = 30
  TimeoutSeconds = 300
  Orders = {o1}
  Traded = {m1}
  BatchRows = 2
  NoOrder = NoOrder
  Quantity = 2
  StartPrice = 40
  Caps = {40}
  Rest = 2
  Grace = 1
  UnprovenAfter = 2
  GapHorizon = 1
  FullPayload = 0
  KeepDays = 1
  FloorDays = 0
SPECIFICATION Spec
INVARIANTS
  NeverUnfilledForWantOfTape
CHECK_DEADLOCK FALSE
