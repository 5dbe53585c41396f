----------------------------- MODULE ModelRouting -----------------------------
(***************************************************************************)
(* labs/model-router: the registry filters models by capability and sorts  *)
(* them by price (registry.py), a policy picks one (policy.py), and an     *)
(* escalating router asks the best model too when the first one was not    *)
(* sure (router.py).  The same workload runs with and without escalation   *)
(* (workload.py).  Tasks are of one class and one size; a model's name is  *)
(* its place in the order of names; quality counts how many of the         *)
(* Certain rolls a model gets right (execution.py).                        *)
(***************************************************************************)
EXTENDS Integers

CONSTANTS
  Names,               \* 1..n
  Costs, Certain,      \* prices; the quality that never fails
  Floors,              \* of the policy QualityFloor; 0 stands for CheapestCapable
  Ceilings,            \* of BudgetCapped; NoCeiling if it is not used
  NoCeiling,
  MaxTasks             \* bound

VARIABLES
  models,              \* models[n]: [cost, quality, supports]
  policy,              \* [floor, ceiling]
  signal,              \* what a model's confidence tells
  direct, escalating   \* the two WorkloadResults
routingVars == <<models, policy, signal, direct, escalating>>

NoResult == [total_cost |-> 0, correct |-> 0, total |-> 0, escalations |-> 0]

RoutingInit ==
  /\ models \in [Names -> [cost : Costs, quality : 0..Certain, supports : BOOLEAN]]
  /\ policy \in [floor : Floors, ceiling : Ceilings]
  /\ signal \in {"informative", "uninformative"}
  /\ direct = NoResult /\ escalating = NoResult

\* capable_of(): cheapest first, names break ties
Cheaper(a, b) == \/ models[a].cost < models[b].cost
                 \/ models[a].cost = models[b].cost /\ a <= b
Able == {n \in Names : models[n].supports}
First(candidates) == CHOOSE n \in candidates : \A m \in candidates : Cheaper(n, m)

\* best_for(): the highest quality, then the lowest price, then the last name
Better(a, b) == \/ models[a].quality > models[b].quality
                \/ /\ models[a].quality = models[b].quality
                   /\ \/ models[a].cost < models[b].cost
                      \/ models[a].cost = models[b].cost /\ a >= b
best_for == CHOOSE a \in Able : \A b \in Able : Better(a, b)

\* choose(): the first that clears the floor, else the first of the best
Clears(n) == models[n].quality >= policy.floor
Cleared == {n \in Able : Clears(n)}
Finest == {n \in Able : \A m \in Able : models[n].quality >= models[m].quality}
Chosen == First(IF Cleared # {} THEN Cleared ELSE Finest)
Affordable(n) == policy.ceiling = NoCeiling \/ models[n].cost <= policy.ceiling

\* The rolls and the confidence of the models one task may be sent to
Rolls(asked) == {right \in SUBSET asked : \A n \in asked :
                   /\ models[n].quality = Certain => n \in right
                   /\ models[n].quality = 0 => n \notin right}
Confident(asked, right) == IF signal = "informative" THEN {right} ELSE SUBSET asked

Pays(result, spent, right, escalated) ==
  [total_cost |-> result.total_cost + spent, total |-> result.total + 1,
   correct |-> result.correct + (IF right THEN 1 ELSE 0),
   escalations |-> result.escalations + (IF escalated THEN 1 ELSE 0)]

\* handle(): the best model is asked as well, unless it was asked already
EscalatesAgain(sure) == Chosen \notin sure      \* mutant
Escalates(sure) == Chosen \notin sure /\ best_for # Chosen

\* One task of run_direct() and of run_escalating(); with no capable model, or
\* above the ceiling, route() raises and the run ends.
Handle ==
  /\ direct.total < MaxTasks /\ Able # {} /\ Affordable(Chosen)
  /\ \E right \in Rolls({Chosen, best_for}) : \E sure \in Confident({Chosen, best_for}, right) :
       LET answered == IF Escalates(sure) THEN best_for ELSE Chosen
           spent == models[Chosen].cost + (IF Escalates(sure) THEN models[best_for].cost ELSE 0)
       IN  /\ direct' = Pays(direct, models[Chosen].cost, Chosen \in right, FALSE)
           /\ escalating' = Pays(escalating, spent, answered \in right, Escalates(sure))
  /\ UNCHANGED <<models, policy, signal>>

RoutingNext == Handle
-------------------------------------------------------------------------------
\* What routing buys and costs (policy.py, router.py:44-91, workload.py:34-56):
\* the model chosen is the cheapest that clears the floor, or the best there is
\* if none does; escalation adds the price of the best model for every task it
\* fires on and takes nothing back, so an answer it rescues costs at least that
\* much; it never fires on the best model; and when confidence tracks
\* correctness it fires exactly on the wrong answers and makes none worse.
EscalationAddsUp ==
  LET extra == escalating.total_cost - direct.total_cost
      gained == escalating.correct - direct.correct
  IN  Able # {} =>
        /\ models[Chosen].supports
        /\ \A n \in Able : Clears(n) => Clears(Chosen) /\ models[Chosen].cost <= models[n].cost
        /\ ~Clears(Chosen) => \A n \in Able : Better(best_for, n)
                                /\ models[n].quality <= models[Chosen].quality
        /\ extra = escalating.escalations * models[best_for].cost
        /\ gained <= escalating.escalations
        /\ escalating.escalations > 0 => models[best_for].quality >= models[Chosen].quality
        /\ signal = "informative" =>
             /\ gained >= 0
             /\ best_for # Chosen => escalating.escalations = direct.total - direct.correct
        /\ best_for = Chosen => escalating = direct
===============================================================================
