CONSTANTS
  Markets = {m1, m2}
  Prices = {40}
  Quantities = {1}
  Rates = {1400}
  Shas = {NoDeploy}
  NoDeploy = NoDeploy
  Marks = {70}
  CashReadings = {300}
  StartBankroll = 300
  MaxTrades = 2
  KeptCycles = 3
  Runners = {r1}
  NoRunner = NoRunner
  GateTarget = 1
  StageCap = 1
  Env = {"raise", "golive"}
  MaxEvents = 4
SYMMETRY Symmetry
CONSTRAINT ShortHistory
SPECIFICATION Spec
PROPERTIES
  LiveOrdersFollowTheGate
  NoEntryAfterThreeFailures
  BankrollMovesByRealizedPnL
