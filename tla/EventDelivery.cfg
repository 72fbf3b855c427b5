CONSTANTS
  Events = {e1}
  Publishers = {p1, p2}
  Workers = {w1, w2}
  NoWorker = NoWorker
  BatchSize = 1
  MaxAttempts = 2
  ContinueOnDeferred = TRUE
  MaxFaults = 1
  MaxRebalances = 1
  MaxStalls = 1
SPECIFICATION FairSpec
CHECK_DEADLOCK FALSE
INVARIANTS NoLoss RetryChain ExclusiveHandler
PROPERTY ImplementsReliableDelivery
