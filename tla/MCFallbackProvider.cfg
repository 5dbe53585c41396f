SPECIFICATION FairSpec
CONSTANTS
  NumProviders = 2
  Requests = {r1, r2, r3, s1}
  Streams = {s1}
  FailureThreshold = 2
  RecoveryTimeout = 1
  MaxAborts = 1
  MaxTime = 2
INVARIANTS CircuitSound
PROPERTIES ProbingEnds
CHECK_DEADLOCK FALSE
