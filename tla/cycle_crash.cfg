CONSTANTS
  Markets = {m1}
  Prices = {40}
  Quantities = {2}
  Rates = {1400}
  Shas = {d1}
  NoDeploy = NoDeploy
  Marks = {70}
  CashReadings = {300}
  StartBankroll = 300
  MaxTrades = 2
  KeptCycles = 3
  Runners = {r1}
  NoRunner = NoRunner
  GateTarget = 1
  StageCap = 1
  Env = {"raise", "swallow", "kill", "nofetch", "golive"}
  MaxEvents = 3
SPECIFICATION FairSpec
PROPERTIES
  SettlesEventually
  LockComesFree
