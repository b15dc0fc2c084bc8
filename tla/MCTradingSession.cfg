SPECIFICATION FairSpec
CONSTANTS
  Symbols = {AAPL, MSFT}
  Prices = {0, 120, 260, 401}
  Quantities = {0, 1}
  Workers = {w1, w2}
  StartBooks <- MCStartBooks
  Broadcasters = {TRUE, FALSE}
  Capacity = 1
  MIN_PRICE = 1
  MAX_PRICE = 400
  MIN_QUANTITY = 1
  MAX_QUANTITY = 1
  max_orders = 2
  max_trades = 2
  MaxCommands = 2
  MaxInputs = 3
  
PROPERTIES ViewShowsBook ViewIsAnswered
CHECK_DEADLOCK FALSE
