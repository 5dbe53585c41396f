SPECIFICATION StoreSpec
CONSTANTS
  Queues = {q1}
  Keys = {k1, k2}
  MaxTasks = 2
  AttemptLimits = {2}
  LeaseTimes = {1}
  RetryDelays = {1}
  Fields = {f1}
  MaxTime = 1
  MaxRequeues = 1
SYMMETRY NameSymmetry
INVARIANTS StoreTypeOK IndexFaithful NewestLeaseRules CheckpointsFollowLeases
PROPERTIES NoEarlyDelivery EveryTaskLives
CHECK_DEADLOCK FALSE
