SPECIFICATION Spec
CONSTANTS
  Threads = {service}
  Clients = {c1, c2, c3}
  Symbols = {AAPL, MSFT}
  MaxSessions = 2
  SessionTimeout = 1000
  MAX_SUBSCRIPTIONS = 2
  MaxTime = 2
INVARIANTS CountIsRight SubscribersAreExact
PROPERTIES ImplementsSubscriptions YoungSessionsStay
