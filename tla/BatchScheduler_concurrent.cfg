CONSTANTS
  NumItems = 3
  MaxParallel = 1
  Schedulers = {s1, s2}
  Nobody = Nobody
  MaxFaults = 0
SPECIFICATION FairSpec
CHECK_DEADLOCK FALSE
INVARIANTS SlotBound FinishedMeansFinished DispatchedOnce
PROPERTY ItemsFinish
