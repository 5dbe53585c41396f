SPECIFICATION FairSpec
CONSTANTS
  Queues = {q1}
  Queue = q1
  Keys = {k1}
  MaxTasks = 1
  AttemptLimits = {2}
  LeaseTimes = {1}
  RetryDelays = {1}
  Fields = {f1}
  MaxTime = 1
  MaxRequeues = 1
  Workers = {w1, w2}
  Concurrency <- TwoOrOne
  Mortal = {w1}
  Hanging = {1}
  Saving = {1}
INVARIANTS PermitsConserved SuccessReportedOnce ShutdownSettles
PROPERTIES EveryTaskSettles
CHECK_DEADLOCK FALSE
