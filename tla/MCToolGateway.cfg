SPECIFICATION Spec
CONSTANTS
  Calls = {c1, c2, c3}
  Tenants = {t1, t2}
  Tools = {low, high}
  HighRisk = {high}
  RateLimit = 2
  Minute = 2
  MaxTime = 3
SYMMETRY NameSymmetry
INVARIANTS ApprovalGate AuditTellsWhatHappened RateLimited
CHECK_DEADLOCK FALSE
