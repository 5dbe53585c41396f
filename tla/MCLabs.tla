-------------------------------- MODULE MCLabs --------------------------------
(***************************************************************************)
(* Twelve labs, and the planning of episodes, share nothing.  They are     *)
(* checked side by side: a behaviour is one of the part it starts in, the  *)
(* variables of the others do not move.  The invariants that are stated    *)
(* here are read in the states of their own part.                          *)
(***************************************************************************)
EXTENDS Labs

CONSTANTS read, docs, front, e1, e2, e3, d1, d2

VARIABLES
  lab,
  chunks, latest, signals, results
opsVars == <<ops_now, outcomes, last_scaled_at, replicas, incidents, history, changed>>
routerVars == <<weight, generation, metrics, request, registered, promoted>>
identityVars == <<id_now, minted>>
tenancyVars == <<by_token, by_id, resource_by_token, mcp_request, held, registrations>>
failoverVars == <<outage, seen, state, failed_over, fires>>
cacheVars == <<cache_now, entries, exact>>
routingVars == <<models, policy, signal, direct, escalating>>
checkpointVars == <<kind, frequency, remaining, items, blob, write_log, costs, write_costs, approval>>
tierVars == <<records>>
evaluationVars == <<baseline, candidate, passes>>
indexVars == <<chunks, latest, signals, results>>
planningVars == <<site, pack, draft>>
vars == <<lab, limitVars, opsVars, routerVars, identityVars, tenancyVars, failoverVars, cacheVars,
          routingVars, checkpointVars, tierVars, evaluationVars, indexVars, planningVars>>

TheRules == {[severity |-> "page", threshold |-> 2, long |-> 1, short |-> 0],
             [severity |-> "ticket", threshold |-> 1, long |-> 3, short |-> 1]}
ThePolicy == [min |-> 1, max |-> 3, target |-> 50, cooldown |-> 2]
TheRunbook == <<"oncall", "commander">>
TheTools == [s \in {docs, front} |-> {read}]
TheTenants ==
  {[id |-> "acme", tools |-> {"refund", "search"}, resources |-> {"acme book"}],
   [id |-> "globex", tools |-> {"search"}, resources |-> {"globex book"}]}
TheSimilarity ==
  [p \in Questions \X Questions |->
    IF p[1] = p[2] THEN 100 ELSE IF "hours" \in {p[1], p[2]} THEN 40 ELSE 90]

TheTriggers == [kind : {"window", "consecutive"}, size : {1, 3}, silence_is_failure : BOOLEAN]
ThePlatform == [promotion |-> 1, traffic_shift |-> 1, capacity |-> 2, weights |-> 1]

TheDecisions == [probs : {<<5, 5>>, <<2, 8>>, <<10, 0>>, <<3, 6, 1>>}, label : 1..2]
\* one third is wrong: 1 - 2/3 is above 1/3 in floats
TheRoundedUp == {[right |-> 2, kept |-> 3, target |-> 4]}

\* Buckets do not know of each other: a behaviour uses a local one or a shared one.
OneBucket == \E others \in {LocalKeys, SharedKeys} : \A k \in others : bucket'[k] = NoBucket

Paragraph(heading, sentences) == [heading |-> heading, sentences |-> sentences]
Sentence(of, len) == [of |-> of, len |-> len]
Retrieval == INSTANCE RetrievalIndex WITH
  Documents <- {d1, d2}, MaxChars <- 7, Overlap <- 3, FetchK <- 2, K <- 2, MaxAdds <- 2,
  Texts <- {
    <<Paragraph("a", <<Sentence(1, 3), Sentence(2, 2)>>)>>,
    <<Paragraph("a", <<Sentence(1, 3), Sentence(2, 2)>>), Paragraph("a", <<Sentence(3, 4)>>)>>,
    <<Paragraph("a", <<Sentence(1, 4)>>), Paragraph("b", <<Sentence(2, 2)>>),
      Paragraph("b", <<Sentence(3, 3), Sentence(4, 3)>>)>>,
    <<Paragraph("a", <<Sentence(1, 3), Sentence(2, 9), Sentence(3, 2)>>)>>}

Section(slug, length) == [slug |-> slug, length |-> length]
Page(links, sections) == [links |-> links, sections |-> sections]
TheSites ==
  {<<Page(<<2, 9, 3>>, <<Section(<<"foo">>, 7)>>), Page(<<1, 3>>, <<Section(<<"foo">>, 0)>>),
      Page(<<4>>, <<Section(<<"bar">>, 9)>>), Page(<<4>>, <<Section(<<>>, 2)>>)>>,
    <<Page(<<2>>, <<Section(<<"foo">>, 3), Section(<<"foo">>, 1), Section(<<"foo", 2>>, 2)>>),
      Page(<<>>, <<Section(<<"section", 1>>, 2), Section(<<>>, 5)>>)>>}

Init ==
  /\ lab \in {"limits", "operations", "router", "identity", "tenancy", "failover", "cache",
              "routing", "checkpoints", "tier", "evaluation", "retrieval", "planning"}
  /\ LimitsInit /\ Ops!OpsInit /\ Router!RouterInit /\ Broker!IdentityInit
  /\ Server!TenancyInit /\ Cache!CacheInit /\ Tier!TierInit /\ Compared!EvaluationInit
  /\ Retrieval!IndexInit
  /\ Planning!PlanningInit /\ (lab = "planning" \/ Len(site) = 2)
  /\ Region!FailoverInit /\ (lab = "failover" \/ outage = [at |-> 0, silent |-> FALSE])
  /\ Checkpoints!CheckpointInit
  /\ lab = "checkpoints" \/ (kind = "delta" /\ frequency = 1 /\ remaining = 1)
  /\ Routing!RoutingInit
  /\ \/ lab = "routing" /\ (policy.floor = 0 => policy.ceiling = NoCeiling)
     \/ /\ models = [n \in 1..3 |-> [cost |-> 1, quality |-> 1, supports |-> TRUE]]
        /\ policy = [floor |-> 0, ceiling |-> 9] /\ signal = "informative"

Next ==
  /\ UNCHANGED lab
  /\ \/ lab = "limits" /\ LimitsNext /\ OneBucket
     \/ lab # "limits" /\ UNCHANGED limitVars
  /\ \/ lab = "operations" /\ Ops!OpsNext
     \/ lab # "operations" /\ UNCHANGED opsVars
  /\ \/ lab = "router" /\ Router!RouterNext
     \/ lab # "router" /\ UNCHANGED routerVars
  /\ \/ lab = "identity" /\ Broker!IdentityNext
     \/ lab # "identity" /\ UNCHANGED identityVars
  /\ \/ lab = "tenancy" /\ Server!TenancyNext
     \/ lab # "tenancy" /\ UNCHANGED tenancyVars
  /\ \/ lab = "failover" /\ Region!FailoverNext
     \/ lab # "failover" /\ UNCHANGED failoverVars
  /\ \/ lab = "cache" /\ Cache!CacheNext /\ cache_now' <= 2
     \/ lab # "cache" /\ UNCHANGED cacheVars
  /\ \/ lab = "routing" /\ Routing!RoutingNext
     \/ lab # "routing" /\ UNCHANGED routingVars
  /\ \/ lab = "checkpoints" /\ Checkpoints!CheckpointNext
     \/ lab # "checkpoints" /\ UNCHANGED checkpointVars
  /\ \/ lab = "tier" /\ Tier!TierNext
     \/ lab # "tier" /\ UNCHANGED tierVars
  /\ \/ lab = "evaluation" /\ Compared!EvaluationNext
     \/ lab # "evaluation" /\ UNCHANGED evaluationVars
  /\ \/ lab = "retrieval" /\ Retrieval!IndexNext
     \/ lab # "retrieval" /\ UNCHANGED indexVars
  /\ \/ lab = "planning" /\ Planning!PlanningNext
     \/ lab # "planning" /\ UNCHANGED planningVars

Spec == Init /\ [][Next]_vars
-------------------------------------------------------------------------------
\* RetrievalIndex.tla: what is cut, kept and found (index.py:52)
FoundAsWritten == lab = "retrieval" => Retrieval!FoundAsWritten
===============================================================================
