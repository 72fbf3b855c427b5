CONSTANTS
  Calls = {c1}
  Workers = {w1, w2}
  NoWorker = NoWorker
  MaxAttempts = 3
  MaxFaults = 2
  MaxStalls = 2
SPECIFICATION FairSpec
CHECK_DEADLOCK FALSE
INVARIANTS OneResult AcknowledgedMeansFinished ExclusiveExecution
PROPERTY CallSettles
