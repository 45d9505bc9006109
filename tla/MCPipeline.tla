----------------------------- MODULE MCPipeline -----------------------------
(* Instances of Pipeline for TLC: the constants of the cfg file beside it. *)
EXTENDS Pipeline

\* Every message is short, or every other request and every other answer is long.
Short == [r \in Req |-> [ask |-> 1, answer |-> 1]]
Mixed == [r \in Req |-> IF r % 2 = 1 THEN [ask |-> 3, answer |-> 1] ELSE [ask |-> 1, answer |-> 2]]
MCLengths == {Short, Mixed}
=============================================================================
