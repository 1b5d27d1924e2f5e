CONSTANTS
  Slots = {1}
  SlotOf <- SwapTxs
  Position <- SwapPositions
  Balances <- SwapBalances
  Time <- SwapTimes
  Untimed = {}
  Unindexed = {1}
  WSOL = "SOL"
  Dust = 2
  Unit <- MCUnit
  Short = 2
  Long = 4
  PriceScale = 12
SPECIFICATION Spec
INVARIANTS AtMostOneTrade
