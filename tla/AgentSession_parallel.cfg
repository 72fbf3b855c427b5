CONSTANTS
  Calls = {c1, c2}
  Start = Start
  Workers = {w1, w2}
  MaxBatch = 2
  MaxTurns = 2
  MaxToolCalls = 0
  MaxAttempts = 2
  MaxCopies = 1
  MaxFaults = 1
  MaxOverlaps = 0
SPECIFICATION FairSpec
CHECK_DEADLOCK FALSE
INVARIANTS TurnCompletedOnce NeverStuck
PROPERTY AnalysisEnds
