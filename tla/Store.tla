------------------------------- MODULE Store --------------------------------
(***************************************************************************)
(* What the workers promise: a database on which every request that was    *)
(* accepted acts once, as a whole and by itself, and is then answered with *)
(* what its handler saw there.                                             *)
(***************************************************************************)
CONSTANTS
  Req,             \* requests
  Asks,            \* Asks[r]: the programs that request r may be
  InitRows,        \* the rows of the database at the start
  NoAnswer,
  Outcome(_, _)    \* Outcome(p, rows): what program p does to rows

VARIABLES
  rows,    \* the database
  asked,   \* the program of each request, <<>> until it is accepted
  owed,    \* the answers to requests that have acted, NoAnswer for the others
  given    \* the answers the clients have

vars == <<rows, asked, owed, given>>

Init ==
  /\ rows = InitRows
  /\ asked = [r \in Req |-> <<>>]
  /\ owed = [r \in Req |-> NoAnswer]
  /\ given = [r \in Req |-> NoAnswer]

Waits(r) == asked[r] # <<>> /\ owed[r] = NoAnswer /\ given[r] = NoAnswer

Accept(r) ==
  /\ asked[r] = <<>>
  /\ \E p \in Asks[r] : asked' = [asked EXCEPT ![r] = p]
  /\ UNCHANGED <<rows, owed, given>>

Result(o) == [code |-> o.code, saw |-> o.saw]

\* A request that changes the database acts, and is answered later.
Act(r, o) ==
  /\ o.wrote
  /\ rows' = o.rows
  /\ owed' = [owed EXCEPT ![r] = Result(o)]
  /\ UNCHANGED <<asked, given>>

\* The others are answered with what they saw, or not at all.
Tell(r, o) ==
  /\ ~o.wrote
  /\ given' = [given EXCEPT ![r] = Result(o)]
  /\ UNCHANGED <<rows, asked, owed>>

Serve(r) ==
  /\ Waits(r)
  /\ \E o \in {Outcome(asked[r], rows)} : Act(r, o) \/ Tell(r, o)

Pay(r) ==
  /\ owed[r] # NoAnswer
  /\ given' = [given EXCEPT ![r] = owed[r]]
  /\ owed' = [owed EXCEPT ![r] = NoAnswer]
  /\ UNCHANGED <<rows, asked>>

Next == \E r \in Req : Accept(r) \/ Serve(r) \/ Pay(r)

Spec == Init /\ [][Next]_vars
=============================================================================
