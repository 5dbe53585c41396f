------------------------------- MODULE Failover -------------------------------
(***************************************************************************)
(* labs/region-failover-budget: triggers watch the probes of a region and  *)
(* decide that it is down (triggers.py), a simulation drives them through  *)
(* blips, lost probes and an outage (scenario.py, simulate.py), and the    *)
(* detection delay has to fit a recovery budget (budget.py).  Time counts  *)
(* probe intervals; a check and a fire are told by their times, so a deque *)
(* of checks and a list of fires are sets.                                 *)
(***************************************************************************)
EXTENDS Integers, Sequences, FiniteSets

CONSTANTS
  Triggers,     \* [kind, size, silence_is_failure]: size is the window, or n
  Steps,        \* probes due in a timeline
  Platform,     \* [promotion, traffic_shift, capacity, weights]
  RTO           \* recovery time objective

VARIABLES
  outage,       \* [at, silent]: the step the outage starts at, Steps if never
  seen,         \* the observations so far: "up", "down" or "none"
  state,        \* state[t]: [checks, failures] of each trigger
  failed_over, fires
failoverVars == <<outage, seen, state, failed_over, fires>>

NoHistory == [checks |-> {}, failures |-> 0]     \* also what reset() leaves

FailoverInit ==
  /\ outage \in [at : 0..Steps, silent : BOOLEAN] /\ seen = <<>>
  /\ state = [t \in Triggers |-> NoHistory]
  /\ failed_over = [t \in Triggers |-> FALSE] /\ fires = [t \in Triggers |-> {}]

\* observe(): a probe that never came is skipped, or counts as a failure
Recorded(t, healthy) == IF healthy = "none" /\ t.silence_is_failure THEN "down" ELSE healthy
InWindow(t, checks, now) == {c \in checks : c.at >= now - t.size}
Observed(t, s, now, healthy) ==
  LET ok == Recorded(t, healthy)
      added == s.checks \cup (IF ok = "none" THEN {} ELSE {[at |-> now, ok |-> ok]})
  IN  [checks |-> IF t.kind = "window" THEN InWindow(t, added, now) ELSE {},
       failures |-> IF t.kind = "window" \/ ok = "none" THEN s.failures
                    ELSE IF ok = "up" THEN 0 ELSE s.failures + 1]
Fires(t, s, healthy) ==
  IF t.kind = "window" THEN s.checks # {} /\ \A c \in s.checks : c.ok = "down"
  ELSE Recorded(t, healthy) # "none" /\ s.failures >= t.size

\* timeline(): before the outage a probe is healthy, falls into a blip or is
\* lost; from then on it is unhealthy, or none arrives
Due(now) == IF now < outage.at THEN {"up", "down", "none"}
            ELSE IF outage.silent THEN {"none"} ELSE {"down", "none"}

\* One round of the loop of fire_times(), for every trigger alike
QuietWhenDown(t, healthy) == failed_over[t] /\ healthy = "down"   \* mutant: silence re-arms
Quiet(t, healthy) == failed_over[t] /\ healthy # "up"
Probe(healthy) ==
  LET now == Len(seen)
      before == [t \in Triggers |-> IF failed_over[t] THEN NoHistory ELSE state[t]]
      after == [t \in Triggers |-> IF Quiet(t, healthy) THEN state[t]
                                   ELSE Observed(t, before[t], now, healthy)]
      fired == {t \in Triggers : ~Quiet(t, healthy) /\ Fires(t, after[t], healthy)}
  IN  /\ now < Steps /\ healthy \in Due(now)
      /\ seen' = Append(seen, healthy) /\ state' = after
      /\ failed_over' = [t \in Triggers |-> t \in fired \/ Quiet(t, healthy)]
      /\ fires' = [t \in Triggers |-> fires[t] \cup (IF t \in fired THEN {now} ELSE {})]
      /\ UNCHANGED outage

FailoverNext == \E healthy \in {"up", "down", "none"} : Probe(healthy)

\* detection_delays() for one run; None if the outage is never seen
None == -1
HealthyBetween(a, b) == \E i \in (a + 1)..(b - 1) : seen[i + 1] = "up"
First(times) == CHOOSE f \in times : \A g \in times : f <= g
Latest(times) == CHOOSE f \in times : \A g \in times : g <= f
Delay(t) ==
  LET before == {f \in fires[t] : f < outage.at}
      after == fires[t] \ before
  IN  IF before # {} /\ ~HealthyBetween(Latest(before), outage.at) THEN 0
      ELSE IF after = {} THEN None ELSE First(after) - outage.at

Standbys == [capacity : BOOLEAN, weights : BOOLEAN]
Warmup(b) == (IF b.capacity THEN Platform.capacity ELSE 0) + (IF b.weights THEN Platform.weights ELSE 0)
Recovery(detection, b) == detection + Platform.promotion + Platform.traffic_shift + Warmup(b)
Breaches(detection, b) == Recovery(detection, b) > RTO
Allowance(b) == RTO - (Platform.promotion + Platform.traffic_shift + Warmup(b))
-------------------------------------------------------------------------------
Down(t, i) == Recorded(t, seen[i + 1]) = "down"
Earned(t, f, since) ==
  IF t.kind = "window"
  THEN /\ \E i \in since..f : i >= f - t.size /\ Down(t, i)
       /\ \A i \in since..f : i >= f - t.size => Recorded(t, seen[i + 1]) # "up"
  ELSE \E i \in since..f : /\ Cardinality({j \in i..f : Down(t, j)}) >= t.size
                           /\ \A j \in i..f : Recorded(t, seen[j + 1]) # "up"
Needed(t) == IF t.kind = "window" THEN t.size + 1 ELSE t.size

\* No failover without cause, none missed (simulate.py:25-61, triggers.py):
\* a fire is explained by what was seen since the region was last found healthy
\* after a fire, so one blip is at most one failover; once an outage has shown
\* as many failed probes as a trigger needs, its delay is known and at most
\* that; and it meets the objective exactly if it is within the allowance.
DetectionSound ==
  \A t \in Triggers :
    /\ \A f \in fires[t] :
         LET earlier == {g \in fires[t] : g < f} IN
         IF earlier = {} THEN Earned(t, f, 0)
         ELSE \E up \in (Latest(earlier) + 1)..f : seen[up + 1] = "up" /\ Earned(t, f, up)
    /\ (/\ Len(seen) - outage.at >= Needed(t)
        /\ \A i \in outage.at..(Len(seen) - 1) : Down(t, i)) =>
         /\ Delay(t) \in 0..(Needed(t) - 1)
         /\ \A b \in Standbys : Breaches(Delay(t), b) <=> Delay(t) > Allowance(b)
===============================================================================
