------------------------- MODULE MCFallbackProvider -------------------------
(* Instances of FallbackProvider for TLC.  Liveness is checked beside safety, *)
(* so requests are not taken as symmetric.                                   *)
EXTENDS FallbackProvider
=============================================================================
