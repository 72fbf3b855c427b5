CONSTANTS
  Calls = {c1, c2, c3, c4}
  Start = Start
  Workers = {w1, w2}
  MaxBatch = 1
  MaxTurns = 3
  MaxToolCalls = 2
  MaxAttempts = 2
  MaxCopies = 1
  MaxFaults = 1
  MaxOverlaps = 1
SPECIFICATION Spec
SYMMETRY Symmetry
CHECK_DEADLOCK FALSE
INVARIANTS EndsOnce ToolCallLimit
PROPERTY CancelledMeansStopped
