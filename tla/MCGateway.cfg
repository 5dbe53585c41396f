SPECIFICATION Spec
CONSTANTS
  Providers = {p1, p2}
  Requests = {g1, g2, s1}
  Streams = {s1}
  MaxConcurrency = 1
  MaxAttempts = 2
  FailureThreshold = 1
  EjectionTime = 1
  MaxTime = 1
SYMMETRY NameSymmetry
INVARIANTS CapacityConserved DrainedIsQuiet
PROPERTIES EjectedSpared
CHECK_DEADLOCK FALSE
