SPECIFICATION Spec
CONSTANTS
  Requests = {r1, r2, r3, r4}
  MaxBatchSize = 2
  MayShutDown = TRUE
  MaxMiscounts = 1
SYMMETRY NameSymmetry
PROPERTIES EveryWaiterHears
CHECK_DEADLOCK FALSE
