----------------------------- MODULE MCGateway -----------------------------
(* Instances of Gateway for TLC: the constants of the cfg files beside it. *)
EXTENDS Gateway, TLC

Symm == Permutations(Req)
=============================================================================
