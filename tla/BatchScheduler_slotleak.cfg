CONSTANTS
  NumItems = 2
  MaxParallel = 1
  Schedulers = {s1}
  Nobody = Nobody
  MaxFaults = 0
SPECIFICATION FairSpec

CHECK_DEADLOCK FALSE
PROPERTY SlotReleased
