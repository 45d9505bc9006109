------------------------------ MODULE MCDaemon ------------------------------
(* Instances of Daemon for TLC: the constants of the cfg files beside it. *)
EXTENDS Daemon, TLC
=============================================================================
