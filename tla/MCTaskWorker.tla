---------------------------- MODULE MCTaskWorker ----------------------------
(* Instances of TaskWorker for TLC. *)
EXTENDS TaskWorker
\* A worker that may be shut down has two permits, one that stays has one.
TwoOrOne == [w \in Workers |-> IF w \in Mortal THEN 2 ELSE 1]
=============================================================================
