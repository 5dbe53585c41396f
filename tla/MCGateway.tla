------------------------------ MODULE MCGateway ------------------------------
(* Instances of Gateway for TLC. *)
EXTENDS Gateway
\* Nothing orders providers, nor requests of one kind.
NameSymmetry ==
  Permutations(Providers) \cup Permutations(Requests \ Streams) \cup Permutations(Streams)
=============================================================================
