------------------------------ MODULE MCSession ------------------------------
(* An instance of Session for TLC: two users log in, one after the other. *)
EXTENDS Session

CONSTANTS u1, u2

TwoUsers == <<u1, u2>>
=============================================================================
