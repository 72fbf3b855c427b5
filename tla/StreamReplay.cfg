CONSTANTS
  Calls = {c1, c2}
  NoCall = NoCall
  TodoInputs <- MCTodoInputs
  PageSize = 2
  MaxStatus = 1
  MaxLists = 2
  MaxCancels = 1
  MaxFaults = 1
SPECIFICATION FairSpec
CHECK_DEADLOCK FALSE
INVARIANTS ClientInOrder  ToldTruth TodoInOrder
PROPERTY StreamEnds
