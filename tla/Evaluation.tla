------------------------------ MODULE Evaluation ------------------------------
(***************************************************************************)
(* labs/evaluation-platform: runs are graded example by example            *)
(* (runner.py), repeated to find the flaky ones, and two of them are       *)
(* compared (significance.py).  Rates are fractions; inequalities between  *)
(* them are multiplied out, Z_ALPHA squared is 96/25 and the square of     *)
(* Z_ALPHA + Z_POWER is 7849/1000.                                         *)
(***************************************************************************)
EXTENDS Integers, Sequences, FiniteSets

CONSTANTS
  MaxTotal,      \* bound of an arm's run
  Examples,      \* of the repeated dataset
  Repeats

VARIABLES
  baseline, candidate,   \* Run: [total, correct]
  passes                 \* the examples that passed, per repeat
evaluationVars == <<baseline, candidate, passes>>

EmptyRun == [total |-> 0, correct |-> 0]
EvaluationInit == baseline = EmptyRun /\ candidate = EmptyRun /\ passes = <<>>

\* One example of run_once(), called and graded once
Graded(run, passed) ==
  [total |-> run.total + 1, correct |-> run.correct + (IF passed THEN 1 ELSE 0)]
GradesBaseline == /\ passes = <<>> /\ baseline.total < MaxTotal
                  /\ \E passed \in BOOLEAN : baseline' = Graded(baseline, passed)
                  /\ UNCHANGED <<candidate, passes>>
GradesCandidate == /\ passes = <<>> /\ candidate.total < MaxTotal
                   /\ \E passed \in BOOLEAN : candidate' = Graded(candidate, passed)
                   /\ UNCHANGED <<baseline, passes>>

\* One repeat of detect_flakiness(); the arms of a comparison are not running
Repeat == /\ baseline = EmptyRun /\ candidate = EmptyRun /\ Len(passes) < Repeats
          /\ \E passed \in SUBSET Examples : passes' = Append(passes, passed)
          /\ UNCHANGED <<baseline, candidate>>

EvaluationNext == GradesBaseline \/ GradesCandidate \/ Repeat

Verdicts(example) == {(example \in passes[i]) : i \in DOMAIN passes}
unstable == {example \in Examples : Cardinality(Verdicts(example)) > 1}

\* Comparison(a, b): the pooled rate is Hits / Graded examples of both
Hits(a, b) == a.correct + b.correct
Both(a, b) == a.total + b.total
delta(a, b) == b.correct * a.total - a.correct * b.total
Least(m, n) == IF m < n THEN m ELSE n

\* approximation_is_usable(): the smallest expected cell against five.  In
\* floats n * (1 - p) may fall below 5 where it is 5, so either answer is
\* possible there.
UsableByHits(a, b) ==                        \* mutant: misses are not looked at
  LET smallest == Least(a.total, b.total) * Hits(a, b)
  IN  {smallest >= 5 * Both(a, b)}
Usable(a, b) ==
  LET smallest == Least(a.total, b.total) * Least(Hits(a, b), Both(a, b) - Hits(a, b))
  IN  {smallest >= 5 * Both(a, b), smallest > 5 * Both(a, b)}

\* is_significant(): the answers it can give
Significant(a, b) ==
  25 * delta(a, b) * delta(a, b) * Both(a, b)
    > 96 * a.total * b.total * Hits(a, b) * (Both(a, b) - Hits(a, b))
is_significant(a, b) ==
  {IF ~usable THEN "None" ELSE IF Significant(a, b) THEN "True" ELSE "False" : usable \in Usable(a, b)}

\* confidence_interval(): whether it leaves out zero
Variance(run) == run.correct * (run.total - run.correct)
Cube(n) == n * n * n
ExcludesZero(a, b) ==
  25 * delta(a, b) * delta(a, b) * a.total * b.total
    > 96 * (Variance(a) * Cube(b.total) + Variance(b) * Cube(a.total))

\* required_sample_size() at the rate of a and the delta of b, arms of one size
required_sample_size(a, b) ==
  LET distance == 1000 * (b.correct - a.correct) * (b.correct - a.correct)
  IN  (7849 * (Variance(a) + Variance(b)) + distance - 1) \div distance
-------------------------------------------------------------------------------
Missed(run) == [run EXCEPT !.correct = run.total - run.correct]
\* A comparison's answer is about the data, not about how it is put
\* (significance.py:64-112, runner.py:83-93): swapping the arms or counting
\* misses for hits gives the same answers, two equal rates are never told
\* apart, and a candidate that is better already stays significant, or becomes
\* unanswerable, with one more hit.  On one dataset a significant delta has an
\* interval without zero, and a set as large as required_sample_size() asks
\* for the delta seen on it does not call that delta noise.  Between repeats
\* of one dataset the score moves by the flaky examples at most.
AnswersWhatItCan ==
  LET answers == is_significant(baseline, candidate)
      oneSize == baseline.total = candidate.total
  IN  /\ baseline.total > 0 /\ candidate.total > 0 =>
           /\ answers = is_significant(candidate, baseline)
           /\ answers = is_significant(Missed(baseline), Missed(candidate))
           /\ delta(baseline, candidate) = 0 => "True" \notin answers
           /\ "True" \in answers /\ delta(baseline, candidate) > 0 /\ candidate.correct < candidate.total
                => "False" \notin is_significant(baseline, [candidate EXCEPT !.correct = @ + 1])
           /\ oneSize /\ "True" \in answers => ExcludesZero(baseline, candidate)
           /\ oneSize /\ candidate.correct > baseline.correct /\ baseline.correct > 0
                /\ baseline.total >= required_sample_size(baseline, candidate)
                => "False" \notin answers
      /\ \A i, j \in DOMAIN passes :
           Cardinality(passes[i]) - Cardinality(passes[j]) <= Cardinality(unstable)
===============================================================================
