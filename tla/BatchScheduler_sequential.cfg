CONSTANTS
  NumItems = 3
  MaxParallel = 2
  Schedulers = {s1}
  Nobody = Nobody
  MaxFaults = 1
SPECIFICATION FairSpec
CHECK_DEADLOCK FALSE
PROPERTY BatchFinishes
