--------------------------------- MODULE Labs ---------------------------------
(***************************************************************************)
(* Labs that keep a state and promise something of it: the token buckets   *)
(* of RateLimits, the canary router, the token broker, the tenants'        *)
(* server, the semantic cache, the model router and the operations of a    *)
(* platform, the triggers of a failover, a saver that measures checkpoints *)
(* and the comparison of graded runs, the records a threshold is fitted    *)
(* on, and with them the planning of episodes, each in variables of its    *)
(* own.  They share nothing; a specification each, and what is promised.   *)
(***************************************************************************)
EXTENDS RateLimits, FiniteSets, Sequences

CONSTANTS
  \* CanaryRouter
  Versions, Inferences, NoVersion, Weights, MaxGenerations,
  \* Identity
  Subjects, Agents, TokenScopes, Front, Servers, Tools, Lifetime, UserLifetime, Nobody,
  MaxTokenClock, MaxTokens,
  \* Tenancy
  Tokens, Callers, NoTenant, Tenants, ServerTools, ServerResources, Here, Elsewhere,
  MaxRegistrations,
  \* SemanticCache
  Questions, CachedAnswers, CacheScopes, Similarity, Thresholds, EntryTtl, MaxEntries,
  \* ModelRouting
  Names, Prices, Certain, Floors, Ceilings, NoCeiling, MaxTasks,
  \* Operations
  Services, Rules, Allowed, Window, Policy, Utilizations, ByHand, Runbook,
  MaxOpsClock, MaxOutcomes, MaxIncidents,
  \* Failover
  Triggers, Steps, Platform, RTO,
  \* CheckpointCost
  Kinds, Frequencies, MaxSteps, Overhead,
  \* Evaluation
  MaxTotal, Examples, Repeats,
  \* DecisionTier
  Decisions, Grain, Scale, MinKept, Targets, ErrorScale, RoundedUp,
  CoarseBins, FineBins, MaxRecords,
  \* EpisodePlanning
  Sites, Depths, PackTokens, BeatWeights, MaxBeats, MaxExcerpts, Requested, Expansion,
  CharsPerSecond, Ceiling, Fixed, Marginal

\* Inferences are counted; the absence of a tenant is not one, and no tenant is called
\* like the error a tool that is not there is answered with; lifetimes and thresholds are
\* numbers, and what is similar is so in percent; models are named in order, and their
\* prices and qualities are counted; an alert rule's threshold and windows are numbers,
\* and so are the bounds of a scaling policy; a trigger watches one probe at least, and a
\* platform takes a number of intervals for each part of a recovery; a snapshot is taken
\* every so many updates; a dataset has so many examples; a decision has options, two at
\* least, each with a probability, and fine bins are parts of coarse ones; a page's links
\* and a section's slug are sequences and its length a number, beats weigh something, and
\* what a plan's budget divides by is positive, as assertPlanBudget() checks.
ASSUME LabsAssumption ==
  /\ IsFiniteSet(Inferences)
  /\ NoTenant \notin Tenants /\ "Unknown tool" \notin {t.id : t \in Tenants}
  /\ Lifetime \in Nat /\ UserLifetime \in Nat
  /\ Similarity \in [Questions \X Questions -> 0..100] /\ Thresholds \subseteq Nat
  /\ EntryTtl \in Nat
  /\ IsFiniteSet(Names) /\ Names = 1..Cardinality(Names)
  /\ Prices \subseteq Nat /\ Certain \in Nat /\ Floors \subseteq Nat
  /\ \A rule \in Rules : /\ rule.severity \in {"ok", "ticket", "page"}
                          /\ rule.threshold \in Nat
                          /\ rule.long \in Nat /\ rule.short \in Nat
  /\ Allowed \in Nat /\ Window \in Nat /\ Utilizations \cup ByHand \subseteq Nat
  /\ Policy.min \in Nat /\ Policy.max \in Nat
  /\ Policy.target \in Nat /\ Policy.cooldown \in Nat
  /\ Triggers \subseteq [kind : {"window", "consecutive"}, size : Nat \ {0},
                        silence_is_failure : BOOLEAN]
  /\ Steps \in Nat /\ RTO \in Int
  /\ Platform \in [promotion : Int, traffic_shift : Int, capacity : Int, weights : Int]
  /\ Kinds \subseteq {"accumulating", "replacing", "delta"}
  /\ Frequencies \subseteq Nat \ {0} /\ MaxSteps \in Nat /\ Overhead \in Nat
  /\ IsFiniteSet(Examples)
  /\ Grain \in Nat \ {0} /\ Scale \in Nat \ {0}
  /\ \A r \in Decisions : /\ r.probs \in Seq(0..Grain) /\ Len(r.probs) > 1
                          /\ Scale % (Len(r.probs) - 1) = 0
  /\ {CoarseBins, FineBins} \subseteq Nat \ {0} /\ FineBins % CoarseBins = 0
  /\ \A s \in Sites : \A page \in DOMAIN s :
       /\ s[page].links \in Seq(Nat) /\ Len(s[page].sections) \in Nat
       /\ \A n \in 1..Len(s[page].sections) :
            LET slug == s[page].sections[n].slug
            IN  /\ s[page].sections[n].length \in Nat
                /\ Len(slug) \in Nat /\ slug = [i \in 1..Len(slug) |-> slug[i]]
  /\ Depths \subseteq Nat /\ PackTokens \subseteq Nat /\ BeatWeights \subseteq Nat \ {0}
  /\ {Requested, Expansion, CharsPerSecond, Ceiling, Fixed} \subseteq Nat \ {0}
  /\ Marginal \in Nat

VARIABLES
  weight, generation, metrics, request, registered, promoted,
  id_now, minted,
  by_token, by_id, resource_by_token, mcp_request, held, registrations,
  cache_now, entries, exact,
  models, policy, signal, direct, escalating,
  ops_now, outcomes, last_scaled_at, replicas, incidents, history, changed,
  outage, seen, state, failed_over, fires,
  kind, frequency, remaining, items, blob, write_log, costs, write_costs, approval,
  baseline, candidate, passes,
  records,
  site, pack, draft

Router == INSTANCE CanaryRouter WITH Requests <- Inferences
Broker == INSTANCE Identity WITH
  now <- id_now, Scopes <- TokenScopes, MaxClock <- MaxTokenClock
Server == INSTANCE Tenancy WITH request <- mcp_request, Requests <- Callers
Cache == INSTANCE SemanticCache WITH
  now <- cache_now, Answers <- CachedAnswers, Scopes <- CacheScopes, Ttl <- EntryTtl
Routing == INSTANCE ModelRouting WITH Costs <- Prices
Ops == INSTANCE Operations WITH now <- ops_now, MaxClock <- MaxOpsClock
Region == INSTANCE Failover
Checkpoints == INSTANCE CheckpointCost WITH log <- write_log
Compared == INSTANCE Evaluation
Tier == INSTANCE DecisionTier WITH Answers <- Decisions
Planning == INSTANCE EpisodePlanning WITH Tokens <- PackTokens, Weights <- BeatWeights

RouterSpec == Router!RouterInit /\ [][Router!RouterNext]_(Router!routerVars)
BrokerSpec == Broker!IdentityInit /\ [][Broker!IdentityNext]_(Broker!identityVars)
ServerSpec == Server!TenancyInit /\ [][Server!TenancyNext]_(Server!tenancyVars)
CacheSpec == Cache!CacheInit /\ [][Cache!CacheNext]_(Cache!cacheVars)
RoutingSpec == Routing!RoutingInit /\ [][Routing!RoutingNext]_(Routing!routingVars)
OpsSpec == Ops!OpsInit /\ [][Ops!OpsNext]_(Ops!opsVars)
RegionSpec == Region!FailoverInit /\ [][Region!FailoverNext]_(Region!failoverVars)
CheckpointSpec ==
  Checkpoints!CheckpointInit /\ [][Checkpoints!CheckpointNext]_(Checkpoints!checkpointVars)
EvaluationSpec ==
  Compared!EvaluationInit /\ [][Compared!EvaluationNext]_(Compared!evaluationVars)
TierSpec == Tier!TierInit /\ [][Tier!TierNext]_(Tier!tierVars)
PlanningSpec ==
  Planning!PlanningInit /\ [][Planning!PlanningNext]_(Planning!planningVars)
-------------------------------------------------------------------------------
\* CanaryRouter.tla: a version's metrics and a promotion (router.py:68-101)
TrafficTold == Router!TrafficTold
\* Identity.tla: what an exchanged token opens (broker.py:68)
DelegationNarrows == Broker!DelegationNarrows
\* Tenancy.tla: whose grants a request is answered from (middleware.py:78)
AnsweredForItsTenant == Server!AnsweredForItsTenant
\* SemanticCache.tla: what a lookup answers (cache.py:74)
CacheAnswers == Cache!CacheAnswers
\* ModelRouting.tla: which model is asked, and what asking twice costs (router.py:64)
EscalationAddsUp == Routing!EscalationAddsUp
\* Operations.tla: what the alerts and the autoscaler answer (autoscaler.py:28)
OperatesOnHistory == Ops!OperatesOnHistory
\* Failover.tla: when a region is given up (simulate.py:25)
DetectionSound == Region!DetectionSound
\* CheckpointCost.tla: what a saver measured and gives back (measuring_saver.py:86)
ReadsBackWhatWasMeasured == Checkpoints!ReadsBackWhatWasMeasured
\* Evaluation.tla: when two runs differ (significance.py:75)
AnswersWhatItCan == Compared!AnswersWhatItCan
\* DecisionTier.tla: the fitted threshold and the bins (threshold.py:53)
FittedAsPromised == Tier!FittedAsPromised
\* EpisodePlanning.tla: what a plan promises, and from which sources (apportion.ts:54)
PlanGrounded == Planning!PlanGrounded
===============================================================================
