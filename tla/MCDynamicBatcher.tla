--------------------------- MODULE MCDynamicBatcher ---------------------------
(* Instances of DynamicBatcher for TLC. *)
EXTENDS DynamicBatcher
\* Nothing orders requests.
NameSymmetry == Permutations(Requests)
=============================================================================
