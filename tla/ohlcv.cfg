CONSTANTS
  Slots = {1, 2, 3, 4}
  SlotOf <- FiveTxs
  Position <- FivePositions
  Balances <- MCBalances
  Time <- FiveTimes
  Untimed = {3}
  Unindexed = {2}
  WSOL = "SOL"
  Dust = 2
  Unit <- MCUnit
  Short = 2
  Long = 4
  PriceScale = 12
SPECIFICATION Spec
INVARIANTS TypeOK TradesExact CandlesCurrent CandlesMerge
