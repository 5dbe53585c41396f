------------------------------ MODULE Operations ------------------------------
(***************************************************************************)
(* labs/slo-driven-ai-operations: request outcomes feed the burn-rate      *)
(* alerts of a service (slo.py), the alerts and the utilization its        *)
(* autoscaler (autoscaler.py), and an incident runs a runbook step by step *)
(* (runbook.py), as the handlers of app.py call them.  Rates, targets and  *)
(* utilizations are percentages; the clock counts whole units.  Nothing    *)
(* depends on the order of a list of outcomes: it is a set of numbered ones.*)
(***************************************************************************)
EXTENDS Integers, Sequences, FiniteSets

CONSTANTS
  Services,
  Rules,              \* [severity, threshold, long, short]: windows of any length
  Allowed,            \* the error rate the SLO target leaves, in percent
  Window,             \* SLOSpec.window_seconds
  Policy,             \* ScalingPolicy: [min, max, target, cooldown]
  Utilizations,       \* what a caller of the autoscaler may report
  ByHand,             \* numbers of replicas somebody sets
  Runbook,            \* sequence of the steps' escalation contacts
  MaxClock, MaxOutcomes, MaxIncidents      \* bounds

VARIABLES now, outcomes, last_scaled_at, replicas, incidents,
          history,    \* every outcome recorded, none pruned (for the property)
          changed     \* when the autoscaler last changed the replicas (for the property)
opsVars == <<now, outcomes, last_scaled_at, replicas, incidents, history, changed>>

Never == -1
Smaller(a, b) == IF a < b THEN a ELSE b
Larger(a, b) == IF a < b THEN b ELSE a
Severities == {"ok", "ticket", "page"}
severity_rank(severity) == CASE severity = "ok" -> 0 [] severity = "ticket" -> 1
                             [] severity = "page" -> 2
Outcome(s, success) == [nth |-> Cardinality(history[s]), success |-> success, at |-> now]

RecentExclusive(log, lookback) == {o \in log : o.at > now - lookback}   \* mutant
Recent(log, lookback) == {o \in log : o.at >= now - lookback}
Failures(log) == Cardinality({o \in log : ~o.success})

\* _burn_rate(lookback) >= threshold, multiplied out
Burns(log, lookback, threshold) ==
  LET recent == Recent(log, lookback)
  IN  IF recent = {} \/ (Allowed = 0 /\ Failures(recent) = 0) THEN threshold = 0
      ELSE Failures(recent) * 100 >= threshold * Allowed * Cardinality(recent)

Fired(log) == {rule \in Rules : /\ Burns(log, rule.long, rule.threshold)
                                /\ Burns(log, rule.short, rule.threshold)}

\* report(): prune, then the worst severity of a rule that fired
Pruned(log) == Recent(log, Window)
Report(log) ==
  LET fired == {rule.severity : rule \in Fired(Pruned(log))} \cup {"ok"}
  IN  CHOOSE s \in fired : \A t \in fired : severity_rank(t) <= severity_rank(s)

\* What the outcomes of a service call for, had none been pruned (the reference):
\* a rule looks as far back as it says, though no further than the SLO does.
Burned(s, rule, lookback) ==
  LET late == {o \in history[s] : now - o.at <= Smaller(lookback, Window)}
      bad == {o \in late : ~o.success}
  IN  \/ rule.threshold = 0
      \/ bad # {} /\ Cardinality(bad) * 100 >= rule.threshold * Allowed * Cardinality(late)
CalledFor(s, severity) == \E rule \in Rules : /\ rule.severity = severity
                                          /\ Burned(s, rule, rule.long)
                                          /\ Burned(s, rule, rule.short)
Due(s) == IF CalledFor(s, "page") THEN "page" ELSE IF CalledFor(s, "ticket") THEN "ticket" ELSE "ok"

OpsInit ==
  /\ now = 0 /\ incidents = <<>>
  /\ outcomes = [s \in Services |-> {}] /\ history = outcomes
  /\ last_scaled_at = [s \in Services |-> Never]
  /\ replicas \in [Services -> {Policy.min}]
  /\ changed = last_scaled_at

Tick == /\ now < MaxClock /\ now' = now + 1
        /\ UNCHANGED <<outcomes, last_scaled_at, replicas, incidents, history, changed>>

\* register(): a fresh tracker and a fresh controller, also for a known service
Register(s) ==
  /\ outcomes' = [outcomes EXCEPT ![s] = {}]
  /\ last_scaled_at' = [last_scaled_at EXCEPT ![s] = Never]
  /\ history' = [history EXCEPT ![s] = {}] /\ changed' = [changed EXCEPT ![s] = Never]
  /\ UNCHANGED <<now, replicas, incidents>>

Record(s, success) ==
  /\ Cardinality(history[s]) < MaxOutcomes
  /\ outcomes' = [outcomes EXCEPT ![s] = Pruned(@ \cup {Outcome(s, success)})]
  /\ history' = [history EXCEPT ![s] = @ \cup {Outcome(s, success)}]
  /\ UNCHANGED <<now, last_scaled_at, replicas, incidents, changed>>

Clamped(n) == Larger(Policy.min, Smaller(Policy.max, n))

\* round() to the nearest, halves to the even neighbour
Round(n, d) == LET q == n \div d  r == 2 * (n % d)
               IN  IF r > d \/ (r = d /\ q % 2 = 1) THEN q + 1 ELSE q
Target(current, utilization) ==
  IF Policy.target <= 0 THEN current
  ELSE Clamped(Round(current * utilization, Policy.target))

FastBurn(current, severity) == severity = "page" /\ current < Policy.max
InCooldown(s) == last_scaled_at[s] # Never /\ now - last_scaled_at[s] < Policy.cooldown

Decide(s, current, utilization, severity) ==
  IF FastBurn(current, severity) THEN Clamped(current + 1)
  ELSE IF InCooldown(s) THEN current ELSE Target(current, utilization)

\* The handler: report, decide; the caller then sets what it was told.
Autoscale(s, utilization) ==
  LET current == replicas[s]
      severity == Report(outcomes[s])
      target == Decide(s, current, utilization, severity)
  IN  /\ UNCHANGED <<now, incidents, history>>
      /\ outcomes' = [outcomes EXCEPT ![s] = Pruned(@)]
      /\ replicas' = [replicas EXCEPT ![s] = target]
      /\ last_scaled_at' = IF FastBurn(current, severity) \/ target # current
                           THEN [last_scaled_at EXCEPT ![s] = now] ELSE last_scaled_at
      /\ changed' = IF target = current THEN changed ELSE [changed EXCEPT ![s] = now]

\* Somebody sets the replicas by hand: the next caller reports what it finds.
SetByHand(s, n) ==
  /\ n # replicas[s] /\ replicas' = [replicas EXCEPT ![s] = n]
  /\ UNCHANGED <<now, outcomes, last_scaled_at, incidents, history, changed>>

\* trigger_incident(): report, take the next number, start the runbook
TriggerIncident(s) ==
  /\ Len(incidents) < MaxIncidents
  /\ UNCHANGED <<now, last_scaled_at, replicas, history, changed>>
  /\ incidents' = Append(incidents,
       [service |-> s, severity |-> Report(outcomes[s]), status |-> "running",
        step |-> 0, final_escalation |-> "nobody"])
  /\ outcomes' = [outcomes EXCEPT ![s] = Pruned(@)]

\* One step of the runbook ends: resolved; not, or not in time; or with an
\* exception other than TimeoutError, after which nothing is recorded.
StepEnds(i, how) ==
  LET inc == incidents[i]
      ended == [inc EXCEPT !.step = @ + 1]
      next == CASE how = "resolved" -> [ended EXCEPT !.status = how, !.final_escalation = "nobody"]
                [] how = "raised" -> [inc EXCEPT !.status = "lost"]
                [] how = "unresolved" ->
                     [ended EXCEPT !.final_escalation = Runbook[ended.step],
                        !.status = IF ended.step = Len(Runbook) THEN "exhausted" ELSE @]
  IN  /\ inc.status = "running"
      /\ incidents' = [incidents EXCEPT ![i] = next]
      /\ UNCHANGED <<now, outcomes, last_scaled_at, replicas, history, changed>>

OpsNext ==
  \/ Tick
  \/ \E s \in Services : \/ Register(s)
                         \/ \E ok \in BOOLEAN : Record(s, ok)
                         \/ \E u \in Utilizations : Autoscale(s, u)
                         \/ \E n \in ByHand : SetByHand(s, n)
                         \/ TriggerIncident(s)
  \/ \E i \in DOMAIN incidents, how \in {"resolved", "unresolved", "raised"} :
       StepEnds(i, how)

-------------------------------------------------------------------------------
\* Whatever was pruned, set by hand or changed meanwhile, the answers are those
\* the recorded outcomes call for (autoscaler.py:28, slo.py:72, README.md:100):
\* an incident starts with the severity that is due; below the maximum a page
\* adds a replica at once; any other change comes a whole cooldown after the
\* last one, one made for a page included; and every change ends within bounds
\* (at the minimum, should a policy have its bounds the wrong way round).
OperatesOnHistory ==
  [][\A s \in Services :
       /\ TriggerIncident(s) => incidents'[Len(incidents')].severity = Due(s)
       /\ (\E u \in Utilizations : Autoscale(s, u)) =>
            IF Due(s) = "page" /\ replicas[s] < Policy.max
            THEN replicas'[s] = Larger(replicas[s] + 1, Policy.min)
            ELSE \/ replicas'[s] = replicas[s]
                 \/ /\ replicas'[s] \in Policy.min..Larger(Policy.min, Policy.max)
                    /\ changed[s] = Never \/ now - changed[s] >= Policy.cooldown
    ]_opsVars
===============================================================================
