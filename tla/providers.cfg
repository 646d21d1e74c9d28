CONSTANTS
  Markets = {m1}
  Prices = {40}
  Quantities = {2}
  Rates = {1400}
  Shas = {d1}
  NoDeploy = NoDeploy
  Marks = {}
  CashReadings = {}
  StartBankroll = 300
  MaxTrades = 2
  Polls = 2
  Faults = {"refused", "ack", "read", "cancel", "fee", "db", "kill"}
  MaxFaults = 2
  Sports = {mlb}
  NoSport = NoSport
  Quota = 2
  MonthTicks = 3
  BillingTurns = {0, 1}
  LiveTtl = 1
  EmptyTtl = 2
  MaxStale = 2
SPECIFICATION ProvidersSpec
CHECK_DEADLOCK FALSE
INVARIANTS
  ProvidersTypeOK
  NeverOverstated
  OneOrderPerRow
  EndedRowEndsOrder
  LedgerNeverUnderCounts
PROPERTIES
  LedgerKept
  ExecutionReturns
  SportsComeBack
