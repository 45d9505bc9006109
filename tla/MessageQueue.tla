---------------------------- MODULE MessageQueue ----------------------------
(***************************************************************************)
(* What MsqSnd and MsqRcv promise the processes that use them: a queue of  *)
(* whole messages.  A message that was put in the queue is received once,  *)
(* complete, and after the messages that were put in before it.            *)
(***************************************************************************)
EXTENDS Sequences

CONSTANT Msg     \* the messages that may be sent, each at most once

VARIABLES
  transit,       \* messages sent and not received, oldest first
  received       \* messages received, oldest first

vars == <<transit, received>>

Init == transit = <<>> /\ received = <<>>

Put(m) ==
  /\ \A i \in DOMAIN transit : transit[i] # m
  /\ \A i \in DOMAIN received : received[i] # m
  /\ transit' = Append(transit, m)
  /\ UNCHANGED received

Get ==
  /\ transit # <<>>
  /\ received' = Append(received, Head(transit))
  /\ transit' = Tail(transit)

Next == (\E m \in Msg : Put(m)) \/ Get

Safe == Init /\ [][Next]_vars

Spec == Safe /\ WF_vars(Get)
=============================================================================
