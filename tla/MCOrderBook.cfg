SPECIFICATION Spec
CONSTANTS
  Ids = {i1}
  Symbols = {AAPL}
  Prices = {1, 2}
  Quantities = {1, 2}
  MaxOrders = 4
  MaxTime = 1
INVARIANTS KeysUnique  TradesWithinLimits MatchedIsUncrossed FillsMatchTrades DepthMatchesTrades
PROPERTIES CanceledNeverTrades BestPricesTrade
