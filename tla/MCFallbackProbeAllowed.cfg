SPECIFICATION Spec
CONSTANTS
  NumProviders = 1
  Requests = {r1, r2}
  Streams = {}
  FailureThreshold = 1
  RecoveryTimeout = 1
  MaxAborts = 1
  MaxTime = 2
INVARIANTS ProbeAllowedThrough
CHECK_DEADLOCK FALSE
