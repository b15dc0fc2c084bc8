SPECIFICATION Spec
CONSTANTS
  Ids = {i1, i2}
  Symbols = {AAPL}
  Prices = {1, 2}
  Quantities = {1, 2}
  MaxOrders = 3
  MaxTime = 1
PROPERTIES Implements
