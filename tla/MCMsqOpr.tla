------------------------------ MODULE MCMsqOpr ------------------------------
(* Instances of MsqOpr for TLC: the constants of the cfg files beside it. *)
EXTENDS MsqOpr, TLC
=============================================================================
