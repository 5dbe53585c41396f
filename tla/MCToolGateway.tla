---------------------------- MODULE MCToolGateway ----------------------------
(* Instances of ToolGateway for TLC. *)
EXTENDS ToolGateway
\* Nothing orders calls or tenants.
NameSymmetry == Permutations(Calls) \cup Permutations(Tenants)
=============================================================================
