----------------------------- MODULE MCTaskStore -----------------------------
(* Instances of TaskStore for TLC. *)
EXTENDS TaskStore, TLC
\* Nothing orders queue names or keys: both sets are interchangeable.
NameSymmetry == Permutations(Queues) \cup Permutations(Keys)
=============================================================================
