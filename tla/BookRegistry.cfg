SPECIFICATION Spec
CONSTANTS
  Workers = {w1, w2}
  Callers = {a1}
  Symbols = {AAPL, MSFT}
  Broadcasters = {TRUE, FALSE}
  MAX_SYMBOLS = 2
  MaxOrders = 3
INVARIANTS TableIsSound ConfirmedOrdersReachable 
 
SYMMETRY Symmetry
