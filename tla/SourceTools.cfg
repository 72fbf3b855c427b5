SPECIFICATION Spec
CONSTANTS
  Workers = {w1, w2}
  Parent <- MCParent
  Trees <- MCTrees
  Lines <- MCLines
  Windows <- MCWindows
  Queries <- MCQueries
  MaxResults = 1
  MaxLines = 2
  DefaultLines = 1
  MaxBytes = 2
  MaxStarts = 3
  MaxCalls = 2
SYMMETRY Symmetry
CHECK_DEADLOCK FALSE
INVARIANTS CacheIntact   ReadComplete ListComplete
