CONSTANTS
  Analyses = {a1, a2}
  SnapshotWorkers = {w1, w2}
  None = None
  MaxAttempts = 2
  MaxTroubles = 2
SPECIFICATION FairSpec
CHECK_DEADLOCK FALSE
INVARIANT SharedByCommit
PROPERTIES ResultStands EndIsFinal SnapshotSettles
