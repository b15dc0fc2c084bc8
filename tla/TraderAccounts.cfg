SPECIFICATION AccountsFairSpec
CONSTANTS
  Ids = {i1}
  Symbols = {AAPL}
  Prices = {1, 2}
  Quantities <- RawQuantities
  MaxOrders = 3
  MaxTime = 0
  Traders = {t1, t2}
  Balances = {3}
INVARIANTS AccountsAddUp NoMoneyCreated
PROPERTIES  MatchingEnds
