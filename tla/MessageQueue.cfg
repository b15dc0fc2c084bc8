SPECIFICATION FairSpec
CONSTANTS
  Clients = {c1, c2}
  Workers = {w1, w2}
  QueueSize = 3
  MaxMessages = 4
INVARIANTS HeldMessagesAreLive OvertakingBounded WorkIsNoticed DestroyedAfterJoin
PROPERTIES ImplementsMailbox AcceptedIsHandled
