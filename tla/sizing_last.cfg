CONSTANTS
  Contracts = {k1, k2}
  Ladder = {k1, k2}
  Snapshots <- MovedAway
  Estimates <- SomeEstimates
  Miscalibration = 0
  Tariffs <- SomeTariffs
  Screening = FALSE
  CacheTicks = 2
  DayTicks = 2
  LastTick = 1
  MaxPlaced = 1
SPECIFICATION SizingSpec
INVARIANT
  SingleTradeWithinLimit
