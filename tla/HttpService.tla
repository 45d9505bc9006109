---------------------------- MODULE HttpService ----------------------------
(***************************************************************************)
(* What the communication layer promises to an HTTP client, without the    *)
(* slot table, the timers, the queues and the pipe that implement it: a    *)
(* request that was accepted gets exactly one answer, which is the result  *)
(* the business layer computed for that very request or the error of its   *)
(* own 15 second deadline; only a crash of the gateway loses a request.    *)
(***************************************************************************)
EXTENDS Sequences

CONSTANT Req      \* HTTP requests; each arrives at most once

VARIABLES
  conn,           \* life of a request as its client sees it
  answers         \* what was written to the client, in order

vars == <<conn, answers>>

Init ==
  /\ conn = [r \in Req |-> "new"]
  /\ answers = [r \in Req |-> <<>>]

Accept(r) ==
  /\ conn[r] = "new"
  /\ conn' = [conn EXCEPT ![r] = "open"]
  /\ UNCHANGED answers

\* An open request is answered with its own result or its own timeout.
Answer(r) ==
  /\ conn[r] = "open"
  /\ conn' = [conn EXCEPT ![r] = "done"]
  /\ \E code \in {"result", "timeout"} :
       answers' = [answers EXCEPT ![r] = <<[code |-> code, from |-> r]>>]

\* The process dies: the clients that still wait see their connection reset.
Crash ==
  /\ conn' = [r \in Req |-> IF conn[r] = "open" THEN "lost" ELSE conn[r]]
  /\ UNCHANGED answers

Next ==
  \/ \E r \in Req : Accept(r) \/ Answer(r)
  \/ Crash

Safe == Init /\ [][Next]_vars

Spec == Safe /\ \A r \in Req : WF_vars(Answer(r))
=============================================================================
