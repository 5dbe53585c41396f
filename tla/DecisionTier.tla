----------------------------- MODULE DecisionTier -----------------------------
(***************************************************************************)
(* labs/decision-tier-calibration: records of decisions (records.py), the  *)
(* threshold fitted on them (threshold.py) and how far stated confidence   *)
(* is from being right, bin by bin (metrics.py).  Probabilities are in     *)
(* units of 1/Grain, errors aimed at in units of 1/ErrorScale.  A choice   *)
(* of records is the set of their places.  Arithmetic is exact but for the *)
(* comparison of floats that decides, `1 - right / kept <= target_error':  *)
(* where the two are equal, rounding may refuse.                           *)
(***************************************************************************)
EXTENDS Integers, Sequences, FiniteSets, Lists

CONSTANTS
  Answers,       \* what a record may say: [probs, label]
  Grain, Scale,
  MinKept, Targets, ErrorScale,     \* of fit_threshold: min_kept and target_error
  RoundedUp,     \* [right, kept, target] whose error rounds to above the target it equals
  CoarseBins, FineBins,  \* of ece() and reliability(): the finer a multiple
  MaxRecords             \* bound

VARIABLE records
tierVars == <<records>>

TierInit == records = <<>>
TierNext == /\ Len(records) < MaxRecords
            /\ \E r \in Answers : records' = Append(records, r)

top(r) == Max({r.probs[i] : i \in DOMAIN r.probs})
predicted(r) == Min({i \in DOMAIN r.probs : r.probs[i] = top(r)})
correct(r) == predicted(r) = r.label
options(r) == Len(r.probs)

\* typesafe_confidence(): over uniform, in units that suit every number of options
typesafe(r) == (Scale \div (options(r) - 1)) * (options(r) * top(r) - Grain)
Signal(kind, r) == IF kind = "top" THEN top(r) ELSE typesafe(r)
Right(places) == Cardinality({i \in places : correct(records[i])})

\* sweep() at one threshold
Kept(kind, threshold) == {i \in DOMAIN records : Signal(kind, records[i]) >= threshold}

\* One distinct value further down in fit_threshold(): all records of it at once
None == {}
Equals(kept, right, target) == (kept - right) * ErrorScale = target * kept
Enough(kept, right, target) ==
  /\ kept >= MinKept
  /\ \/ (kept - right) * ErrorScale < target * kept
     \/ /\ Equals(kept, right, target)
        /\ [right |-> right, kept |-> kept, target |-> target] \notin RoundedUp
LoweredOnce(kind, target, so_far, value) ==      \* mutant: keeps the highest
  LET at == {i \in DOMAIN records : Signal(kind, records[i]) = value}
      kept == so_far.kept + Cardinality(at)
      right == so_far.right + Right(at)
  IN  [kept |-> kept, right |-> right,
       best |-> IF so_far.best = None /\ Enough(kept, right, target) THEN {value} ELSE so_far.best]
Lowered(kind, target, so_far, value) ==
  LET at == {i \in DOMAIN records : Signal(kind, records[i]) = value}
      kept == so_far.kept + Cardinality(at)
      right == so_far.right + Right(at)
  IN  [kept |-> kept, right |-> right,
       best |-> IF Enough(kept, right, target) THEN {value} ELSE so_far.best]
Values(kind) == {Signal(kind, records[i]) : i \in DOMAIN records}
fit_threshold(kind, target) ==
  LET so_far[values \in SUBSET Values(kind)] ==
        IF values = {} THEN [kept |-> 0, right |-> 0, best |-> None]
        ELSE Lowered(kind, target, so_far[values \ {Min(values)}], Min(values))
  IN  so_far[Values(kind)].best

\* Equal-width bins; the last takes in what is certain
Bin(r, bins) == Min({(top(r) * bins) \div Grain, bins - 1})
Bucket(i, bins) == {n \in DOMAIN records : Bin(records[n], bins) = i}

\* |accuracy - confidence| * len of a bucket, in units; ece() is their mean
SumTop(bucket) == Total([n \in DOMAIN records |-> IF n \in bucket THEN top(records[n]) ELSE 0])
Gap(bucket) == LET d == Right(bucket) * Grain - SumTop(bucket) IN IF d < 0 THEN -d ELSE d
ece(bins) == Total([i \in 1..bins |-> Gap(Bucket(i - 1, bins))])
reliability(bins) == [i \in 0..(bins - 1) |->
  LET bucket == Bucket(i, bins)
  IN  [low |-> i, high |-> i + 1, count |-> Cardinality(bucket),
       confidence |-> SumTop(bucket), right |-> Right(bucket)]]
-------------------------------------------------------------------------------
\* The threshold of fit_threshold() is the lowest that sweep() finds to keep
\* enough answers with few enough wrong, none where a sweep finds none
\* (threshold.py:33-80, metrics.py:33-84) - although accuracy may rise again
\* below a threshold that fails, and whichever ties the floats refuse.  For
\* records of one number of options the signal does not matter.  Every record
\* is in the one bin whose range holds its confidence, certainty in the last;
\* and bins within bins can only show more error.
FittedAsPromised ==
  /\ \A kind \in {"top", "typesafe"}, target \in Targets :
       LET kept(v) == Kept(kind, v)
           good == {v \in Values(kind) : Enough(Cardinality(kept(v)), Right(kept(v)), target)}
       IN  fit_threshold(kind, target) = IF good = {} THEN None ELSE {Min(good)}
  /\ \A target \in Targets :
       Cardinality({options(records[i]) : i \in DOMAIN records}) = 1 =>
         \A a \in fit_threshold("top", target) : \E b \in fit_threshold("typesafe", target) :
           Kept("top", a) = Kept("typesafe", b)
  /\ \A bins \in {CoarseBins, FineBins} :
       /\ Total([i \in 1..bins |-> reliability(bins)[i - 1].count]) = Len(records)
       /\ \A i \in 0..(bins - 1) : LET row == reliability(bins)[i] IN
            /\ row.count * row.low * Grain <= row.confidence * bins
            /\ row.confidence * bins <= row.count * row.high * Grain
  /\ ece(CoarseBins) <= ece(FineBins)
  /\ ece(FineBins) <= Len(records) * Grain
===============================================================================
