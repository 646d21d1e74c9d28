CONSTANTS
  Markets = {m1}
  Prices = {40}
  Quantities = {2}
  Rates = {1400}
  Shas = {d1}
  NoDeploy = NoDeploy
  Marks = {}
  CashReadings = {}
  StartBankroll = 300
  MaxTrades = 2
  Polls = 2
  Faults = {}
  MaxFaults = 0
SPECIFICATION LiveSpec
CHECK_DEADLOCK FALSE
INVARIANT
  FillsAreKept
