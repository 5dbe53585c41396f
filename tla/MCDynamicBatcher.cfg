SPECIFICATION FairSpec
CONSTANTS
  Requests = {r1, r2, r3, r4}
  MaxBatchSize = 2
  MayShutDown = TRUE
  MaxMiscounts = 1
INVARIANTS NobodyForgotten
PROPERTIES EveryRequestEnds
CHECK_DEADLOCK FALSE
