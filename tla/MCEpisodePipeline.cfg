SPECIFICATION FairSpec
CONSTANTS
  CreateRuns = {c1, c2}
  PlanRuns = {p1}
  SkipReview = {c2}
  RunIds = {d1}
  MaxBeats = 2
INVARIANTS ManifestTells WordsBeforeVoice BillHonest
PROPERTIES RunEnds
CHECK_DEADLOCK FALSE
