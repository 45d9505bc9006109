------------------------------- MODULE Switch -------------------------------
(***************************************************************************)
(* The workers (src/RY/src/SwtRY/Switch.c): processes that take requests   *)
(* from one message queue, run the handler of each over a connection to    *)
(* MySQL of their own and send the reply.                                  *)
(*                                                                         *)
(* A request is the program of its handler (module Handlers).  MySQL is    *)
(* InnoDB at its default level, REPEATABLE READ, with autocommit off: a    *)
(* SELECT reads the snapshot that the first SELECT after a commit took,    *)
(* plus the connection's own changes; the other statements act on the      *)
(* committed rows and wait for rows another connection has changed.        *)
(***************************************************************************)
EXTENDS Dbs

CONSTANTS
  Req,        \* requests
  Worker,     \* worker processes: srv_num of the service
  Asks,       \* Asks[r]: the programs that request r may be
  InitRows,   \* the rows of the database at the start
  MaxFaults,  \* bound on lost connections, failed statements and crashes
  None

ASSUME SwitchAssumption ==
  None \notin Req /\ MaxFaults \in Nat /\ InitRows \subseteq Row

\* Before a change it insists on, a handler makes no change whose error it
\* ignores and commits nothing.
Orderly(p) ==
  \A j \in DOMAIN p : Insisted(p[j]) =>
    \A i \in DOMAIN p : i < j =>
      /\ p[i].op \notin {"commit", "truncate"}
      /\ Writes(p[i]) => Insisted(p[i])

ASSUME AsksAssumption ==
  \A r \in Req : \A p \in Asks[r] : p \in Seq(Statements) /\ p # <<>> /\ Orderly(p)

\* A handler ends with a reply or without one; before it reports success it has
\* made every change it insists on, and has committed after its last change.
Succeeds(s) == (s.op = "reply" /\ s.a = 200) \/ s.onerr = "echo"
Settled(p) ==
  /\ p[Len(p)].op \in {"reply", "silent", "undefined"}
  /\ \A j \in DOMAIN p :
       /\ p[j].op = "reply" => p[j].a \in {200, 401, 500}
       /\ Succeeds(p[j]) =>
            \A i \in DOMAIN p :
              /\ Insisted(p[i]) => i < j
              /\ i < j /\ Writes(p[i]) =>
                   \E k \in DOMAIN p : i < k /\ k < j /\ p[k].op = "commit"

\* Not assumed of the runs; MCStore shows it for every handler.
Settling == \A r \in Req : \A p \in Asks[r] : Settled(p)

VARIABLES
  inbox,    \* the requests in the worker's message queue
  prog,     \* the program of each request, <<>> until it arrives
  work,     \* what each worker is at
  log,      \* the committed states of the database, and who made each
  answer,   \* the reply sent for each request
  since,    \* the committed state when each request arrived
  hurt,     \* requests during which the transaction was lost
  faults
vars == <<inbox, prog, work, log, answer, since, hurt, faults>>

\* Whoever waits in MsqRcv.  snap is the state its snapshot is of, 0 before
\* the first SELECT; mine the statements since the last commit.
Waiting(link, snap, mine) ==
  [req |-> None, at |-> 0, id |-> 0, saw |-> {}, link |-> link, snap |-> snap, mine |-> mine]

\* SwitchInit reads tbl_srv_inf, which opens a snapshot.
Born(version) == Waiting(TRUE, version, <<>>)

NoAnswer == [code |-> 0, saw |-> {}]
Garbage == -1

Init ==
  /\ inbox = <<>>
  /\ prog = [r \in Req |-> <<>>]
  /\ work = [w \in Worker |-> Born(1)]
  /\ log = <<[by |-> {}, rows |-> InitRows]>>
  /\ answer = [r \in Req |-> NoAnswer]
  /\ since = [r \in Req |-> 0]
  /\ hurt = {}
  /\ faults = 0

----------------------------------------------------------------------------
(* What a worker sees and holds *)

Current == log[Len(log)].rows
Pending(w) == [i \in DOMAIN work[w].mine |-> work[w].mine[i].stmt]
Snapshot(w) == IF work[w].snap = 0 THEN Len(log) ELSE work[w].snap
View(w) == AppliedAll(Pending(w), log[Snapshot(w)].rows)
Latest(w) == AppliedAll(Pending(w), Current)

Busy(w) == work[w].req # None
Stmt(w) == Bound(prog[work[w].req][work[w].at], work[w].id)
Seen(w, s) == IF Reads(s) THEN View(w) ELSE Latest(w)

\* A deletion by a column that is no prefix of the key locks the table.
Overlap(s, x) == s.t = x.t /\ (s.a = x.a \/ "deleteBy" \in {s.op, x.op})
Blocked(w, s) ==
  /\ Writes(s)
  /\ \E v \in Worker \ {w} : \E i \in DOMAIN work[v].mine : Overlap(s, work[v].mine[i].stmt)

----------------------------------------------------------------------------
(* Requests *)

Arrive(r) ==
  /\ prog[r] = <<>>
  /\ \E p \in Asks[r] : prog' = [prog EXCEPT ![r] = p]
  /\ since' = [since EXCEPT ![r] = Len(log)]
  /\ inbox' = Append(inbox, r)
  /\ UNCHANGED <<work, log, answer, hurt, faults>>

\* MsqRcv, then DbsConnectTest, which connects again when "select 1" fails.
Take(w) ==
  /\ ~Busy(w) /\ inbox # <<>>
  /\ work' = [work EXCEPT ![w].req = Head(inbox), ![w].at = 1, ![w].link = TRUE]
  /\ inbox' = Tail(inbox)
  /\ UNCHANGED <<prog, log, answer, since, hurt, faults>>

\* The handler returns to the loop of main.
Return(x) == Waiting(x.link, x.snap, x.mine)
Answered(w, code) == [answer EXCEPT ![work[w].req] = [code |-> code, saw |-> work[w].saw]]

Reply1(w, s) ==
  /\ s.op = "reply"
  /\ answer' = Answered(w, s.a)
  /\ work' = [work EXCEPT ![w] = Return(work[w])]
  /\ UNCHANGED log

StaySilent(w, s) ==
  /\ s.op = "silent"
  /\ work' = [work EXCEPT ![w] = Return(work[w])]
  /\ UNCHANGED <<log, answer>>

\* The handler uses or frees a pointer that is null, freed or not its own:
\* the process dies, or goes on and sends what it finds.
Stray(w, x) ==
  \/ /\ work' = [work EXCEPT ![w] = Born(Len(log))]
     /\ UNCHANGED answer
  \/ /\ work' = [work EXCEPT ![w] = Return(x)]
     /\ answer' = Answered(w, Garbage)

GoStray(w, s) ==
  /\ s.op = "undefined"
  /\ Stray(w, work[w])
  /\ UNCHANGED log

----------------------------------------------------------------------------
(* Statements.  s is the statement, x the worker's record after MySQL has  *)
(* answered.                                                               *)

Sql(s) == Reads(s) \/ Writes(s) \/ s.op = "truncate"
Further(x) == [x EXCEPT !.at = @ + 1]

\* The call returned an error.
OnError(w, s, x) ==
  /\ UNCHANGED log
  /\ \/ /\ s.onerr = "abort"
        /\ work' = [work EXCEPT ![w] = Return(x)]
        /\ UNCHANGED answer
     \/ /\ s.onerr = "refuse"
        /\ work' = [work EXCEPT ![w] = Return(x)]
        /\ answer' = Answered(w, 500)
     \/ /\ s.onerr = "echo"
        /\ work' = [work EXCEPT ![w] = Return(x)]
        /\ answer' = Answered(w, 200)
     \/ s.onerr \in {"stray", "reuse"} /\ Stray(w, x)
     \/ /\ GoesOn(s)
        /\ work' = [work EXCEPT ![w] = Further(x)]
        /\ UNCHANGED answer

\* A SELECT opens the snapshot whether it finds anything or not.
Opened(w, s) == IF Reads(s) THEN [work[w] EXCEPT !.snap = Snapshot(w)] ELSE work[w]

Unsent(w, s) == Sql(s) /\ ~work[w].link /\ OnError(w, s, work[w])

\* Mutant: MySQL lets the statement wait for ever.
LockTimeoutNever(w, s) == FALSE

\* innodb_lock_wait_timeout: the statement fails, the transaction goes on.
LockTimeout(w, s) == work[w].link /\ Blocked(w, s) /\ OnError(w, s, work[w])

Read(w, s) ==
  /\ Reads(s)
  /\ work' = [work EXCEPT ![w] =
       IF s.op = "find" THEN [Further(Opened(w, s)) EXCEPT !.id = KeyFound(s, View(w))]
       ELSE [Further(Opened(w, s)) EXCEPT !.saw = @ \cup Touched(s, View(w))]]
  /\ UNCHANGED <<log, answer>>

Change(w, s) == [req |-> work[w].req, at |-> work[w].at, stmt |-> s]

Write(w, s) ==
  /\ Writes(s)
  /\ work' = [work EXCEPT ![w] =
       [Further(work[w]) EXCEPT !.mine = Append(work[w].mine, Change(w, s))]]
  /\ UNCHANGED <<log, answer>>

Places(changes) == {<<changes[i].req, changes[i].at>> : i \in DOMAIN changes}
Entry(changes) ==
  [by |-> Places(changes),
   rows |-> AppliedAll([i \in DOMAIN changes |-> changes[i].stmt], Current)]
Logged(changes) == IF changes = <<>> THEN log ELSE Append(log, Entry(changes))

\* TRUNCATE commits what is pending and itself.
TruncateTable(w, s) ==
  /\ s.op = "truncate"
  /\ log' = Logged(Append(work[w].mine, Change(w, s)))
  /\ work' = [work EXCEPT ![w] = [Further(work[w]) EXCEPT !.mine = <<>>, !.snap = 0]]
  /\ UNCHANGED answer

Execute(w, s) ==
  /\ Sql(s) /\ work[w].link /\ ~Blocked(w, s)
  /\ IF Rejected(s, Seen(w, s)) THEN OnError(w, s, Opened(w, s))
     ELSE Read(w, s) \/ Write(w, s) \/ TruncateTable(w, s)

\* Mutant: the snapshot outlives the commit.
CommitKeepsSnapshot(w, s) ==
  /\ s.op = "commit"
  /\ log' = Logged(work[w].mine)
  /\ work' = [work EXCEPT ![w] = [Further(work[w]) EXCEPT !.mine = <<>>]]
  /\ UNCHANGED answer

\* DbsCommit, whose result no handler looks at.
Commit1(w, s) ==
  /\ s.op = "commit"
  /\ log' = Logged(work[w].mine)
  /\ work' = [work EXCEPT ![w] = [Further(work[w]) EXCEPT !.mine = <<>>, !.snap = 0]]
  /\ UNCHANGED answer

Step(w) ==
  /\ Busy(w)
  /\ LET s == Stmt(w) IN
       \/ Reply1(w, s) \/ StaySilent(w, s) \/ GoStray(w, s)
       \/ Unsent(w, s) \/ LockTimeout(w, s) \/ Execute(w, s) \/ Commit1(w, s)
  /\ UNCHANGED <<inbox, prog, since, hurt, faults>>

----------------------------------------------------------------------------
(* Failures *)

Fault == faults < MaxFaults /\ faults' = faults + 1
Hurt(w) == hurt' = IF Busy(w) THEN hurt \cup {work[w].req} ELSE hurt
Dropped(w) == [work[w] EXCEPT !.mine = <<>>, !.snap = 0]

\* Mutant: with MYSQL_OPT_RECONNECT the calls go on in a new transaction.
LinkReconnects(w) ==
  /\ Fault /\ Hurt(w)
  /\ work[w].link
  /\ work' = [work EXCEPT ![w] = Dropped(w)]
  /\ UNCHANGED <<inbox, prog, log, answer, since>>

\* The connection breaks: the server rolls back, every later call fails
\* until the next Take.
LinkLost(w) ==
  /\ Fault /\ Hurt(w)
  /\ work[w].link
  /\ work' = [work EXCEPT ![w] = [Dropped(w) EXCEPT !.link = FALSE]]
  /\ UNCHANGED <<inbox, prog, log, answer, since>>

\* MySQL chooses the transaction to break a deadlock and rolls it back.
Victim(w) ==
  /\ Fault /\ Busy(w) /\ Hurt(w)
  /\ Writes(Stmt(w)) /\ work[w].link
  /\ \E v \in Worker \ {w} : work[v].mine # <<>>
  /\ OnError(w, Stmt(w), Dropped(w))
  /\ UNCHANGED <<inbox, prog, since>>

\* Any other error of one statement.
StatementFails(w) ==
  /\ Fault /\ Busy(w)
  /\ Sql(Stmt(w)) /\ work[w].link
  /\ OnError(w, Stmt(w), Opened(w, Stmt(w)))
  /\ UNCHANGED <<inbox, prog, since, hurt>>

\* The process is killed and the daemon starts another.
Dies(w) ==
  /\ Fault /\ Hurt(w)
  /\ work' = [work EXCEPT ![w] = Born(Len(log))]
  /\ UNCHANGED <<inbox, prog, log, answer, since>>

Serve(w) == Take(w) \/ Step(w)

Next ==
  \/ \E r \in Req : Arrive(r)
  \/ \E w \in Worker : Serve(w) \/ LinkLost(w) \/ Victim(w) \/ StatementFails(w) \/ Dies(w)

\* The loop of main runs on while there is work; MySQL ends a wait for a lock.
Fairness == \A w \in Worker : WF_vars(Serve(w))
Spec == Init /\ [][Next]_vars /\ Fairness

----------------------------------------------------------------------------
(* Properties *)

Needed(r) == {i \in DOMAIN prog[r] : Insisted(prog[r][i])}
CommittedIn(r, i) == {k \in DOMAIN log : <<r, i>> \in log[k].by}
Left(r, w) == \E i \in DOMAIN work[w].mine : work[w].mine[i].req = r

Changes == [req : Req, at : Nat, stmt : Statements]

\* Types; a worker is always at a statement of its request's program, a
\* request belongs to one worker, and a connection that broke holds nothing.
TypeOK ==
  /\ \A w \in Worker :
       /\ work[w].req \in Req \cup {None}
       /\ Busy(w) => work[w].at \in DOMAIN prog[work[w].req]
       /\ work[w].snap \in 0..Len(log)
       /\ \A i \in DOMAIN work[w].mine : work[w].mine[i] \in Changes
       /\ ~work[w].link => work[w].mine = <<>> /\ work[w].snap = 0
  /\ \A v, w \in Worker : Busy(v) /\ work[v].req = work[w].req => v = w
  /\ \A r \in Req : answer[r].code \in {Garbage, 0, 200, 401, 500} /\ since[r] \in 0..Len(log)
  /\ faults \in 0..MaxFaults

\* A client that is told of success finds its change in the database: unless
\* MySQL dropped the transaction meanwhile, a reply 200 is sent only when
\* every change the handler insists on is committed and none is pending.  POST
\* of tbl_srv_param does not insist: it answers a failed INSERT with the same
\* document as a success.
AckedIsCommitted ==
  \A r \in Req \ hurt : answer[r].code = 200 =>
    /\ \A i \in Needed(r) : CommittedIn(r, i) # {}
    /\ \A w \in Worker : ~Left(r, w)

\* No handler's change reaches the database without the ones it insisted on
\* before it, in the same commit, although handlers never roll back, errors
\* end them half way, a later request commits what they leave and connections
\* break.
PrefixCommitted ==
  \A k \in DOMAIN log : \A c \in log[k].by : c[2] \in Needed(c[1]) =>
    \A i \in Needed(c[1]) : i < c[2] => <<c[1], i>> \in log[k].by

\* A menu is granted only to a role that exists, or to the number 0 that
\* stands for a role whose key is not unique.
RoleMenuHasRole ==
  \A x \in Current : x[1] = "sys_role_menu" /\ x[2] # 0 =>
    \E y \in Current : y[1] = "sys_role" /\ y[2] = x[2]

\* A post belongs only to a user that exists, or to the number 0 that stands
\* for a user whose name is not unique; UserPut looks whether the user exists
\* only when the body has a column of it, as those of the web pages do.
UserPostHasUser ==
  \A x \in Current : x[1] = "sys_user_post" /\ x[2] # 0 =>
    \E y \in Current : y[1] = "sys_user" /\ y[2] = x[2]

\* What an answered query returned was in the database at one moment since
\* the query arrived.
FreshReads ==
  \A r \in Req : answer[r].code = 200 /\ ReadOnly(prog[r]) =>
    \E k \in since[r]..Len(log) : Outcome(prog[r], log[k].rows).saw = answer[r].saw

\* Every role_id of sys_user_role is the id of a role.
GrantsNameRoles ==
  \A x \in Current : x[1] = "sys_user_role" =>
    \E y \in Current : y[1] = "sys_role" /\ y[2] = x[3]

\* Every handler comes to an end, also when another worker left rows locked
\* and waits for its next request.
TurnEnds == \A w \in Worker : Busy(w) ~> ~Busy(w)
=============================================================================
