CONSTANTS
  LocalKeys = {local}
  SharedKeys = {shared}
  Calls = {c1, c2}
  Costs = {1, 2}
  Capacity = 2
  Refill = 1
  Ttl = 1
  Skew = 1
  MaxClock = 3
  MaxGranted = 4
  Versions = {stable, canary}
  Inferences = {q1, q2}
  NoVersion = NoVersion
  Weights = {0, 1}
  MaxGenerations = 3
  Subjects = {ann, bob}
  Agents = {ag1, ag2}
  TokenScopes = {read}
  Front = front
  Servers = {docs, front}
  Tools <- TheTools
  Lifetime = 1
  UserLifetime = 2
  Nobody = Nobody
  MaxTokenClock = 1
  MaxTokens = 3
  Tokens = {k1, k2}
  Callers = {q1}
  NoTenant = NoTenant
  Tenants <- TheTenants
  ServerTools = {"refund", "search", "other"}
  ServerResources = {"acme book", "globex book"}
  Here = here
  Elsewhere = elsewhere
  MaxRegistrations = 3
  Questions = {"hours", "refund", "refunds"}
  CachedAnswers = {"a1", "a2"}
  CacheScopes = {"acme", "globex"}
  Similarity <- TheSimilarity
  Thresholds = {40, 95}
  EntryTtl = 1
  MaxEntries = 3
  Names = {1, 2, 3}
  Prices = {1, 2}
  Certain = 2
  Floors = {0, 2}
  Ceilings = {1, 9}
  NoCeiling = 9
  MaxTasks = 2
  Services = {s1}
  Rules <- TheRules
  Allowed = 25
  Window = 2
  Policy <- ThePolicy
  Utilizations = {30, 90}
  ByHand = {4}
  Runbook <- TheRunbook
  MaxOpsClock = 2
  MaxOutcomes = 2
  MaxIncidents = 1
  Triggers <- TheTriggers
  Steps = 7
  Platform <- ThePlatform
  RTO = 4
  Kinds = {"accumulating", "replacing", "delta"}
  Frequencies = {1, 2, 3, 5}
  MaxSteps = 7
  Overhead = 1
  MaxTotal = 14
  Examples = {e1, e2, e3}
  Repeats = 3
  Decisions <- TheDecisions
  Grain = 10
  Scale = 2
  MinKept = 2
  Targets = {0, 4, 6}
  ErrorScale = 12
  RoundedUp <- TheRoundedUp
  CoarseBins = 2
  FineBins = 4
  MaxRecords = 4
  Sites <- TheSites
  Depths = {1, 2}
  PackTokens = {3, 9}
  BeatWeights = {1, 2}
  MaxBeats = 3
  MaxExcerpts = 3
  Requested = 6
  Expansion = 2
  CharsPerSecond = 3
  Ceiling = 8
  Fixed = 3
  Marginal = 1
  e1 = e1
  e2 = e2
  e3 = e3
  d1 = d1
  d2 = d2
  read = read
  docs = docs
  front = front
SPECIFICATION Spec
INVARIANTS QuotaHeld TrafficTold DelegationNarrows AnsweredForItsTenant DetectionSound CacheAnswers EscalationAddsUp ReadsBackWhatWasMeasured FittedAsPromised AnswersWhatItCan FoundAsWritten PlanGrounded
 
CHECK_DEADLOCK FALSE
