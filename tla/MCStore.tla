------------------------------- MODULE MCStore -------------------------------
(* The instance of Switch in which a request may be any branch of any       *)
(* handler; that they are all settled and atomic is what SwitchProofs and   *)
(* StoreProofs need of them.                                                *)
EXTENDS MCSwitch

ASSUME HandlersSettled == Settling /\ Atomically
ASSUME HandlersTidy ==
  Tidily("sys_role_menu", "sys_role") /\ Tidily("sys_user_post", "sys_user")
=============================================================================
