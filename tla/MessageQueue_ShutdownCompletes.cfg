SPECIFICATION FairSpec
CONSTANTS
  Clients = {c1}
  Workers = {w1, w2}
  QueueSize = 3
  MaxMessages = 2
PROPERTIES ShutdownCompletes
