CONSTANTS
  Markets = {m1, m2}
  Prices = {40}
  Quantities = {1}
  Rates = {1400}
  Shas = {d1}
  NoDeploy = NoDeploy
  Marks = {70}
  CashReadings = {300}
  StartBankroll = 300
  MaxTrades = 2
  KeptCycles = 1
  Runners = {r1, r2}
  NoRunner = NoRunner
  GateTarget = 1
  StageCap = 1
  Env = {"kill", "clear", "retire"}
  MaxEvents = 1
SYMMETRY Symmetry
SPECIFICATION Spec
INVARIANTS
  CycleTypeOK
  OneCycleAtATime
  BookMatchesTrades
  RealizedExplained
PROPERTIES
  LedgerKept
  NoEntryWhileHalted
