--------------------------------- MODULE Lists ---------------------------------
(***************************************************************************)
(* What the labs need of lists and of sets of numbers.  All but Total are  *)
(* as in the community modules, which would come whole with every instance *)
(* in Labs, and with them into every obligation of its proofs.             *)
(***************************************************************************)
EXTENDS Integers, Sequences

ToSet(s) == {s[i] : i \in DOMAIN s}
IsInjective(f) == \A a, b \in DOMAIN f : f[a] = f[b] => a = b
Last(s) == s[Len(s)]
FlattenSeq(seqs) ==
  IF Len(seqs) = 0 THEN seqs ELSE
    LET flatten[i \in 1..Len(seqs)] == IF i = 1 THEN seqs[i] ELSE flatten[i - 1] \o seqs[i]
    IN  flatten[Len(seqs)]

Min(S) == CHOOSE x \in S : \A y \in S : x <= y
Max(S) == CHOOSE x \in S : \A y \in S : x >= y

\* sum() and reduce() of the sources
Total(list) ==
  LET upto[n \in 0..Len(list)] == IF n = 0 THEN 0 ELSE upto[n - 1] + list[n]
  IN  upto[Len(list)]
===============================================================================
