# OpenNGX in TLA+

OpenNGX is a server framework in C: an HTTP gateway, business workers behind
System V message queues, and a daemon that keeps the processes running; the
business layer implements the RuoYi management back end on MySQL and Redis.
This directory models the parts of it where the order of steps of several
processes, failures and limits matter, checks them with TLC and proves the most
important results with TLAPS.

Paths below are relative to `src/RY/src`, those that begin with `src/` to the root.

## 1. The system

```
 browser --HTTP--> CommHTTP event loop --queue 1106--> SwtRY worker --> MySQL, Redis
                        ^                                   |
                        +--pipe-- CommHTTP reader <--queue 2810
 Daemon: starts CommHTTP and SwtRY, restarts what dies, reads tbl_srv_inf
```

| component | state | operations | interaction |
|---|---|---|---|
| CommHTTP event loop (`Comm/CommHTTP/CommHTTP.c`) | slot table `Reqs`, cursor `shCurrent`, libevent timers | `request_cb`, `timeout_cb`, `pipe_cb`/`send_response`, `sigchld_cb`, `sigterm_cb` | sends to queue 1106, reads the pipe |
| CommHTTP reader child | none | `iMsgDaemon` | receives from queue 2810, writes to the pipe |
| queue library (`Common/MsqOpr.c`) | a System V queue | `MsqInit`, `MsqSnd`, `MsqRcv` | every process |
| Daemon (`Daemon/Daemon.c`) | process table `gpcbaList`, flags, signal masks | start, scan, change, stop, exit; three signal handlers | fork/kill, MySQL |
| worker (`SwtRY/Switch.c`, `SwtTxn.h`) | one MySQL and one Redis connection | receive, reconnect, dispatch, reply | both queues |
| data access (`MyDbs/DBS_COMMON.c`) | the connection and its open transaction, three static cursors | select, insert, update, delete, cursor, commit | MySQL |
| handlers (`SwtRY/system_*.c`, `monitor_*.c`, `tbl_*.c`, ...) | tables of MySQL | one branch for each method and path | through the worker |
| sessions (`SwtRY/login.c`, `logout.c`, `SwtCommon.c`) | sessions in Redis, each under the uuid in its token | login, validate, list, remove | Redis |
| message format and SQL (`Common/Common.c`, `SwtCommon.c`) | none | set and get a value of an IPC buffer; build SELECT, INSERT, UPDATE and DELETE from values and JSON | gateway and handlers |

The shipped configuration (`src/RY/sql/OpenNGX_20250903.sql`) has one CommHTTP, one
SwtRY and `MSQ_NUM_MAX` 1000; `src/README.md` says both layers may run as several
processes.

### What is hard, and what must hold

* Gateway: replies come in any order, after the timeout, after a restart, or
  never, while slots and freed memory are reused. A result must reach its own client
  only, a request must be answered once, a timeout must be the request's own.
* Queue library: long messages are cut in chunks which several processes
  interleave; a call may be broken off between two. A message must arrive complete,
  and neither side may wait for ever.
* Daemon: signals coalesce and arrive between any two steps; system calls fail. A death
  must be noticed and answered by a restart; no process may escape the table. A changed
  configuration is read from a result that was freed.
* Worker and handlers: a connection carries one transaction after the other
  (`autocommit=0`), a handler that fails returns without a rollback, several
  workers see different snapshots.
* Sessions: workers validate, list and remove sessions in several Redis commands each,
  while sessions end by themselves. No client may have a token before its session is
  stored, none may outlive its hour, a list must miss nobody.
* All together: every process waits in `msgsnd` or `write` when the next one is
  slow, in the middle of a message too, and the way is a circle. `src/README.md:5` says of it "不存在阻塞" (there is no
  blocking); what holds depends on `MSQ_NUM_MAX`.
* Values: a message may name a value twice, NULL is shown as an empty text and
  comes back as one, a document may lack a part of the key.

`PROJECT.json` lists these hazards one by one, each at its line.

## 2. Modules

| module | models | state and actions |
|---|---|---|
| `HttpService` | what a client is promised | `conn`, `answers`; `Accept`, `Answer`, `Crash` |
| `Gateway` | `CommHTTP.c` | the variables have the names of the code; one action for each callback and branch |
| `GatewayProofs` | theorems about `Gateway` | |
| `MessageQueue` | a FIFO queue of whole messages | `transit`, `received`; `Put`, `Get` |
| `MsqOpr` | `MsqOpr.c` on one queue | one action for each `msgsnd` and `msgrcv` |
| `MsqOprProofs` | theorems about `MsqOpr` | |
| `Daemon` | `Daemon.c` | one action for each iteration of its loops and each signal handler |
| `DaemonProofs` | theorems about `Daemon` | |
| `Dbs` | `DBS_COMMON.c` | operators: the statements, what each changes and when it returns an error |
| `Handlers` | `system_*.c`, `monitor_*.c`, `tbl_*.c`, `login.c`, ... | one operator for each branch of method and path: its statements in order and its reply |
| `Switch` | `Switch.c` and MySQL's side of the connections | `Arrive`; `Take` and one action for each kind of statement; failures |
| `Store` | a database that requests act on one at a time | `Accept`, `Serve`, `Pay` |
| `SwitchRefines` | that `Switch` with one worker implements `Store` | the refinement mapping |
| `SwitchProofs` | theorems about `Switch` with all its failures | |
| `StoreProofs` | theorems about `Switch` with one worker | |
| `MCStore` | the instance with all handlers | the assumptions `HandlersSettled` and `HandlersTidy` |
| `Session` | `login.c`, `validate_jwt_token`, `monitor_online.c`, `monitor_cache.c` | one action for each command to Redis; failures; `Tick` |
| `SessionProofs` | theorems about `Session` | |
| `Pipeline` | all processes between a client and its answer | one action for each `msgsnd` and `msgrcv`; `TimerFires`, `ReadPipe`, `Dies` |
| `PipelineProofs` | theorems about `Pipeline` | |
| `Records` | `SwtCommon.c`, `Common.c`, `tbl_srv_param.c`, `tbl_fld_tsf.c` | `Send...` by a client, `Handle` by a worker, `OpenList`, `NextPage` |
| `RecordsProofs` | theorems about `Records` | |

An `MC...` module instantiates each for TLC; the `.cfg` files give the constants.

### Gateway

A callback of libevent runs to its end before the next one, so each callback is
one action. The slot of a request and its random number are packed in `iSender`
as in `WriteToMsgQue`. `armed` are the pending timers, named by the request that
armed them, since the callback gets only the slot. The two other actors are
the reader child and the business layer, which answers in any order or not at
all. `Crash` stands for any death of the process, `TimerKills` and
`DeliverKills` are the deaths the code brings about itself: the null or freed
request given to `evhttp_send_error`, and the null request of a zeroed slot. A
sudden death orphans the reader (`PDEATHSIG` is commented out), and `OrphanDrops`
is the EPIPE branch of `iMsgDaemon`. Constants select what the environment
does: `Kinds` the branches of `request_cb`, `SendFails` errors of `MsqSnd`,
`Overrun` a cursor that catches up with a waiting slot (more than 30000 requests in
15 s), `ReaderDies`, and `ChldHeld`, whether SIGCHLD was blocked when the daemon
started the process (it was: `Daemon.c:479`, `865`).

A slot keeps its pointer after the request was answered, and libevent frees the
request. `memory` says whose data is where a pointer leads: an arriving request may be
`Allocate`d in the memory of a freed one, and then every pointer to the old one leads to
it. So `TimerFires` ends whichever request is there: after a refusal (`CommHTTP.c:350`) the slot keeps
the freed request and its timer (`153`), and 15 seconds later the timer can write a 500 to a
live request of *another* slot. That request is freed with its number still in its own
slot, and its result can go to a third client: eight steps from `Init`. `Strayed` says
that a timer has done that. It is what `ReplyToOwner` and `ResultComesFirst` except, so they
say that this is the *only* way; it needs a send error, an OPTIONS request or another
branch that leaves an answered request with its timer, and `NothingStrays` proves that without
these it does not occur.

`Fresh` is an assumption: `rand() % 30000`, seeded with the microseconds of the
request, does not give a slot the number that a message of the same slot, still on
its way, carries. Without it a result can reach a wrong client once in 30000
such coincidences; with it everything proved below follows.

### MsqOpr

`msgrcv` with a positive type takes the oldest message of that type, so the
queue is one sequence for each type. The first chunk of a message has the type of the
queue, the others the sender's pid. `Begin` is the single look at `msg_qnum`;
`SendChunk` needs room, because `msgsnd` is called without `IPC_NOWAIT`;
`ReceiveNext` waits for the sender's type only.

A call can be broken off in the middle of a message in three ways: the sender is killed
(`SenderKilled`), a signal ends its `msgsnd` with EINTR and it goes on to its next message, with
the same pid (`Interrupted`), or the receiver is interrupted or replaced by a process that
knows nothing (`ReceiverRestarts`). After the last two, what is left of one message completes
the next one of the same process, and the pid of a worker carries the answers of
all clients. `cut` has the senders this has happened to. `OneSource` says what holds in spite of it:
a message is put together from chunks of one process, in the order in which it sent
them. `WholeUnlessCut` says that the damage does not spread: whole is every message of a sender
of whom nothing was broken off. It is about a single receiver; two of them may divide the
chunks of two long messages of one sender between them.

### Daemon

The loop is cut where signals can come in. `proc` is the kernel's view of the
children: a dead child stays a zombie, for which `kill(pid, 0)` succeeds, until the
SIGCLD handler has waited for it. A fork and the entry of its pid in the
table are two steps. `Fails` selects failing system calls, `Window` lets
children end while `vStopAllProcess` ignores SIGCLD.

`vChange` does not see the changed configuration. `DBS_OPEN` runs no query, so its cursor is the
one that `DaemonInit` declared, and `DBS_CLOSE` has freed the result at the end of
`vStartAllProcess` (`DBS_COMMON.c:527`, `588`). `freed` says so, and what `DBS_FETCH` finds there is open:
no row, any rows with any number of processes, or an end of the daemon (`Breaks`). The daemon
may also hang, since its handler of SIGSEGV returns to the faulting instruction.
`want` is therefore what was read at the start, for good.

A child inherits the blocked signals, and SIGCLD is blocked in `vStartAllProcess` and in the
scan. A gateway started there is `deaf`: at a SIGTERM it kills its reader and waits for a
SIGCHLD that cannot come (`CommHTTP.c:523`), so it stays.

When `fork` fails `lStartProcess` returns 0, and `vChange` and the scan enter this
0 as a pid. `kill(0, 0)` always succeeds, so such an entry is never restarted;
and `kill(0, SIGTERM)`, when it is given up, hits the daemon's own process group
(`StopItself`, `LineDown`). `lInsertPid` refuses a pid silently when the table is full
(`refused`); those processes run without supervision. `Fresh` is an assumption about the kernel: it does not
give a pid that is still in the table to another process. `Pids` bounds the
processes started in one run; nothing is forked when none is left.

### Workers, handlers and MySQL

A handler is a straight sequence of calls; what ends it early is an error of
one of them. So a request is a *program*: a sequence of statements, each with
what the handler does when it fails. `Must`: return -1, without an answer and without a
rollback. `OrRefuse`: answer 500. `OrEcho`: send the reply of a success, because the
document is printed before `msg` and `code` are added to it (`tbl_srv_param.c:237`). `OrStray`:
go on with a pointer that is not valid. `OrReuse`: go on with the result of the previous
query, which was freed, because a cursor whose query fails keeps its old one
(`DBS_COMMON.c:512`). Otherwise the result is ignored. `Switch` knows no handler: it executes any
program, so its properties can be stated, and proved, for all of them.
`Asks[r]` are the programs a request may be; `MCSwitch` fills it from `Handlers`.

A row is a table, a key and one value. In a table of `Relation` both columns are
the key. Conditions of queries are not modelled beyond the table they read, except where
the handler depends on the number of rows (`Need`, `NeedBy`, `NeedAll`, `Find`).

MySQL is external: InnoDB, REPEATABLE READ. `log` is the sequence of committed
databases, each with the statements that made it. `snap` is the version a
worker's SELECTs read, 0 until the first after a commit; `mine` are its
uncommitted statements, which nobody else sees and whose rows block others
until the lock wait times out. Commit appends to `log` and closes the snapshot.
A deletion by the second column of a relation locks the table. `TRUNCATE`
commits implicitly; metadata locks are not modelled.

Failures (`MaxFaults`): the connection breaks (the server rolls back, all later
calls fail until `Take` connects again), the transaction is chosen to break a
deadlock, one statement fails, the process dies and the daemon starts another. The exit
after five failed attempts to connect is a death too. A request that was in a
dead worker's hands is lost; its client gets the gateway's timeout.

What C leaves undefined is a choice: `stray` for buffers that are read before
they are written (`updatePwd`, `resetPwd`, and the struct of `UserPost`, of which both numbers
are whatever was there when the body names no post), `harm` for
the `memset` that clears more than the array it is given, and `Stray` for a
handler that uses a pointer which is freed or not its own: the process dies or sends what it finds.
### Session

The workers share one Redis, and a handler sends it several commands. Each command
is one action, so the commands of other workers and the end of a session come in
between. `redis[k]` are the ticks a key has left. A token is its uuid; its
signature is taken as valid, and its own expiry is left out: it is 2^31 - 1
seconds, since `valueint` of cJSON cuts the milliseconds stored in it. `fate`
and `age` are history variables.

What the code does here and one might not expect is kept: the `EXPIRE` of
`validate_jwt_token` names the key `login_tokens` without the uuid, so that using a session
does not prolong it; the answer to the `SET` at login is ignored, so that a token may be without
a session from the beginning (`unsaved`, which `TokenBacked` therefore accepts); `monitor_online` goes on
when the token is not valid; an answer of type ERROR counts as a valid session; a
null answer is used and ends the process. A login that carries an Authorization header
gets its old token back (`login.c:256` reads the first value of that name), which is
a token of an earlier login, so it is not a case of its own. `monitor_online` lists and deletes
sessions; `monitor_cache` only lists keys.

`SCAN` is Redis's promise: every key that is there from the first call to the last is
returned at least once. `Without` removes a session that ends from the promise.

### Pipeline

`Pipeline` keeps of a message its chunks and where they wait: the event loop in
`msgsnd`, queue 1106, the workers, the workers in `msgsnd`, queue 2810, the reader with its
pipe. While the event loop is in `msgsnd` it is inside `request_cb`, so neither its timers
nor `pipe_cb` run. `MsqSnd` looks at `msg_qnum` once, refuses above `MSQ_NUM_MAX`, and then sends
all chunks, each of which may wait; that is the only limit in the code. A worker that dies leaves in
queue 1106 what it has not received and in 2810 what it has sent. Slots and numbers are in `Gateway`, signals
that break off a call in `MsqOpr`, statements in `Switch`.

As shipped (`MSQ_NUM_MAX` 1000 at `src/RY/sql/OpenNGX_20250903.sql:73`, kernel queues of 16384 bytes,
which is 16 chunks) the limit is above what a queue holds, and there are four ways to get stuck for
ever:

* `Circle`: event loop, workers, reader and pipe each wait for the next, and no timer fires.
* `Jammed`: the reader waits for the next chunk of an answer, whose worker waits for room in a queue full of
  chunks of other answers. No process need have died.
* `Stranded`: the worker whose chunk the reader waits for has died (`MsqOpr.c:223`). With several
  workers the others fill the queue behind it.
* `Clogged`: queue 1106 is full of chunks that no receiver will ask for, as the workers that
  had their first chunks died.

`Drains` says that these are all: otherwise a burst is worked off, whatever its length.
`LoopNeverWaits` and `WorkersNeverWait` say which limits let nobody wait in `msgsnd`: `limit` plus the longest request within
what queue 1106 holds, and `limit` plus the longest answer *of each worker* within 2810, which several
processes fill between their tests and their last chunks. Then `Circle`, `Jammed` and `Clogged`
are impossible; `Stranded` no limit excludes.

### Records

A message is a sequence of names and values; `GetIpcValueExt` takes the first of a
name. A handler builds its SQL from these values, or from the JSON document of the
request, by a map of the table's columns. There are two generations of these functions
(`gen`): the old ones write an `and` before every column and give up at a missing
one, the new ones (`NGet...`, `NJ2S`, `NS2J`) leave columns out. What differs
in effect is modelled: which statements are malformed, what is answered, and whether NULL,
an empty text or the text "(null)" is written.

An administrator lists a table page by page and sends back rows as they were shown with one
column edited; another sends any document. A statement is executed at once,
since transactions are in `Switch`. Facts a reader may stumble over: a number
for a column of type 'T' is left out, because the handler calls `strlen(NULL)`;
the old lists have no order of their own and rely on the client's `sort`; the
new `POST` and `PUT` print their answer before they look at the result, so that a failed INSERT and an
UPDATE without a SET clause are answered like a success (`Echo`); the old `DELETE` clears 2048 bytes
of a buffer of 256 (`tbl_fld_tsf.c:178`), after which it may have no answer (`Harmed`); the
`PUT` handlers compute a new `update_time` but build the UPDATE from the document, so it is
never renewed (`system_config.c:231`); the list of `system_config` ignores the page.
## 3. Runs

Bounds are the constants of each `.cfg`.

| run | shows | bounds |
|---|---|---|
| `gw_normal` | the gateway implements `HttpService` when every request is forwarded: `AnsweredOnce`, `TimeoutIsOwn`, `EveryRequestEnds`, the refinement with its liveness | 3 requests, 2 slots, 2 numbers, 1 crash |
| `gw_full` | `ReplyToOwner`, `ResultComesFirst` with every branch, send errors, overrun, deaths of both processes, memory given away again | the same with one kind of request for each branch; SIGCHLD deliverable, so that `LoopExits` occurs; symmetric requests |
| `gw_preflight` (violation) | the timer of an OPTIONS request ends a later request | 2 requests |
| `msq` | two senders that interleave, are killed or interrupted, or send messages longer than the queue: a FIFO queue of whole messages until a call is broken off (`QueueSpec`), chunks of one process in their order always (`OneSource`), whole messages of everyone who was not cut (`WholeUnlessCut`), nobody waits for ever unless a process dies, a call is broken off or the queue is full of what the receiver does not want (`CallsReturn`) | 2 senders, 2 messages each of 1, 2 or 4 chunks, queue of 3, 1 broken call |
| `dm_full` | no death is forgotten (`DeathIsNoted`), no process escapes the table but those a full one refuses (`Tracked`), a SIGTERM leaves one process untold at most (`OneUntold`), every death is answered (`Restarted`), the processes converge to the `srv_num` read at the start (`Supervised`) | 2 servers, one of them a gateway, of 1 or 2 processes, 3 in all; table of 2 slots, 6 pids, 2 faults of any kind, 1 change, SIGTERM anywhere |
| `dm_outage` (violation) | after one outage connections leak until all stays down | 1 outage, 2 connections |
| `sw_store` | every pair of branches of all handlers on one worker acts like two whole transactions (`StoreSpec`), queries are fresh (`FreshReads`), grants and posts name roles and users that exist | 2 requests, 1 worker, 3 keys, no faults |
| `sw_faults` | a reply 200 is sent for committed changes only (`AckedIsCommitted`), no change is committed without those the handler insisted on before it (`PrefixCommitted`), every handler ends (`TurnEnds`) | 2 requests of 9 programs, 2 workers, 1 fault anywhere |
| `rbac_newuser` (violation) | creating a user with a post and a role writes the post's number as a role | 2 requests, 1 worker |
| `session` | no client has a token before its session was sent to Redis (`TokenBacked`), no session outlives its hour (`WithinLife`), lists miss nobody (`ListComplete`) | 2 workers, 2 logins, life of 2 ticks, 3 keys and 2 rows at most, 2 faults |
| `pipeline` | `LoopNeverWaits`, `WorkersNeverWait`; a burst is worked off or ends in one of four states (`Drains`) | 5 requests of 1 to 3 chunks, 1 or 2 workers, queues of 2 and 3 chunks, limits 1 and 3, 1 death |
| `records` | pages show each row once (`PagesCover`), a GET changes nothing (`ReadsDontWrite`), an edit changes one column of one row (`EditLands`), a DELETE the rows named (`DeleteExact`), a PUT no key (`KeysKept`) | 3 rows of 4 columns, both generations, 2 changes |

A property and its limits:

* `AckedIsCommitted` leaves out the requests during which MySQL dropped the
  transaction (`hurt`): no handler looks at the result of `DbsCommit`, so
  those can be answered 200 although nothing is kept. It says nothing of a new row of `tbl_srv_param`
  either: that handler does not insist on its INSERT, so a key that exists, or any error,
  is answered like a row that was stored (`Records` has the same in `Insert`).
* `PrefixCommitted` and `AckedIsCommitted` speak of the statements that the handler insists on
  (`Needed`); insertions whose result is ignored may be missing.
* `StoreSpec` and `FreshReads` need one worker. With a second one, a worker that
  serves only queries never commits and reads its first snapshot for ever.
  `StoreSpec` also leaves out `selectAll` of pairs of which some exist: it
  ends half way, and what it did is committed by a later request.
* `RoleMenuHasRole` and `UserPostHasUser` exempt the number 0, which is what a
  handler uses for a name or key that is not unique.

### Bounds

Gateway: two slots and three requests make every slot used again while an older reply, timer
or waiting request of it exists, which is what the table must survive; a third number or
slot adds no new relation between two requests. Three requests are also what a straying timer
needs: the refused one, the one in its memory, and the one that gets the latter's.

Queue: a queue shorter than a message makes a sender wait inside one; two messages
of each sender let the rest of one that was given up meet the next.

Workers: two requests show every relation in which one uses what another left
pending, committed or read; three keys tell apart the row meant, another that exists
and a new one. New rows get keys of their own, as from auto-increment.

Daemon: two faults and one change of the configuration let a death or an error fall
into each step of the main loop, and one into the handling of another. Up to three processes
are asked for and the table has two slots, so it overflows; `Supervised` excepts that case
(`Fits`).

Sessions: a session lives two ticks, so that one can end between any two commands of a
list; three keys and two rows let the lists be cut at both limits; `Refresh` is as
long as the life, which makes a prolonged session visible.

Pipeline: queues of two and three chunks, a pipe for one answer, messages of up to three chunks
and one or two workers make every process wait in the middle of a message, and five requests
let each of the four ends of `Drains` occur (each was seen in a run that forbids it). The limits 1 and 3 are
below and above what the theorems ask for.

Records: the key has two columns, of a number and a text, and each of the three rows
differs from another in one part of it; every column's value may be missing, null, of the
wrong type or empty. Pages of one and two rows are read up to the second.

Requests, messages, deaths and changes are finite in number, so a run may stop: the
runs do not check for deadlock; the liveness properties take its place.

### Fairness

Weak fairness of the steps that the kernel or libevent guarantee: a pending timer
fires, a readable pipe is read, a process that can send or receive does so, a
pending signal that is not blocked is delivered, the daemon's loop goes on, a
dead gateway is started again (by the daemon, within a pass of its loop), a
process told to end ends (but a deaf gateway), a worker with work goes on (`main` loops for ever, and a
wait for a lock ends by `innodb_lock_wait_timeout`), a process in `msgsnd` sends when
there is room. Strong fairness of
`ReaderForwards`: a crash disables it, and an orphan may take a message, but not every
one before the reader. Nothing is assumed of the clients or of the business layer, nor that
anybody sends.

## 4. Proofs

`GatewayProofs` proves for every table size, set of numbers and set of requests,
from `GatewayAssumption` only:

* `TypeCorrect`: `Spec => []TypeOK`.
* `Inductive`: `Spec => []IInv`.
* `ReplyIsNeverMisdelivered`: `Spec => []ReplyToOwner`, with every branch, overrun,
  crash, reader death and reuse of freed memory.
* `ResultIsNeverSecond`: `Spec => []ResultComesFirst`.

`ReplyToOwner` is not inductive. What carries it is `Expected`: when a message meets
its number in a slot that holds a request, that request is the one the message
was sent for and it is unanswered. It needs `Parked` (the pointer in a slot was made for
the request whose message carries the slot and its number), `Sent` (messages and
timers exist only for parked requests), `Housed` and `Elsewhere` (only freed memory is given away,
and to a request of another slot, so that a timer that writes through such a pointer
has strayed) and `OnePlace` (a message is in one place, so it is not delivered twice). `IInv` is their
conjunction; the proof has one step for each action. Both properties except `Strayed`; the
next theorem says when that is empty.

Under `Quiet` (every request is forwarded, sends succeed, the cursor overruns
nobody) it proves also:

* `NothingStrays`: `Spec => []~Strayed`; so under `Quiet` the two properties hold without exception.
* `OneAnswer`: `AnsweredOnce`; `OwnTimeout`: `TimeoutIsOwn`.
* `ImplementsService`: `Spec => Service!Safe`, each step of the gateway being
  a step of `HttpService` or a stutter.

`QInv` strengthens `IInv` by `Timed` (a pending timer is that of the waiting
request its slot holds) and `Waiting` (a waiting request has its timer and no
answer). `Quiet` is needed: `gw_preflight` shows `TimeoutIsOwn` false without it.

`SwitchProofs` proves for any number of workers and requests and for any programs, with
every failure the model has:

* `PrefixIsCommitted`: `Spec => []PrefixCommitted`.

It rests on `SwitchAssumption` and `AsksAssumption`. The latter says that the
programs are `Orderly`: before a change that the handler insists on (`Insisted`)
it neither commits nor makes a change whose failure it ignores. That is what the
argument needs of the handlers, and TLC evaluates it for every branch
of all of them in `sw_store`. A handler written tomorrow keeps the property if it keeps
this discipline.

`PrefixCommitted` speaks of committed entries and says nothing of what is still pending.
`IInv` adds to it `Complete` for the pending changes of each worker (a
change an arrived handler insists on is pending only with those before it) and `Ready`
(with a change of that kind still ahead and the connection alive, all those behind
are pending). `Ready` is why a lost link matters: after it the pending changes are gone,
and only the fact that all later calls fail on the dead link keeps the rest from being
committed. Changes of *other* requests, left behind by a handler that returned -1
without a rollback, are pending too and go out with the next commit; `Complete` is
stated for all of them.

For the same workers, requests and failures it proves also:

* `SuccessIsCommitted`: if `Settling`, then `Spec => []AckedIsCommitted`.

`Settling` is a second discipline: a handler ends with a reply or without one, and before
it reports success, be it with `Reply(200)` or as the echo of an `OrEcho`, it has made every change it
insists on and has committed after its last change. It is a hypothesis of the theorem and not an assumption of `Switch`, so that
a handler that breaks it can still be run; `MCStore` has TLC evaluate it for every
branch of all handlers. What is missing from `AckedIsCommitted` is the time before the
reply. `AInv` follows the request from its arrival: nobody has changes of it
before a worker takes it (`Untouched`), then this worker only (`Owned`), and of what the worker
is past each insisted change is pending or committed, on a connection that has
not dropped anything (`Going`). A commit turns pending into committed, and
`Settled` puts one behind the last change.

`StoreProofs` proves, with the same failures:

* `SwitchTyped`: if `Settling`, then `Spec => []TypeOK`, which says among others that a request
  belongs to one worker and that a broken connection holds nothing.

and, for *one* worker whose connection holds (`Worker = {w}`, `MaxFaults = 0`), any number of
requests and any programs that are `Settling` and `Atomically`:

* `ImplementsStore`: `Spec => StoreSpec`.
* `ReadsAreFresh`: `Spec => []FreshReads`.
* `RoleMenusHaveRoles`: if also `Tidily("sys_role_menu", "sys_role")`, and every role
  menu of `InitRows` has its role (`Linked`), then `Spec => []RoleMenuHasRole`.
* `UserPostsHaveUsers`: the same of `sys_user_post` and `sys_user`, `[]UserPostHasUser`.

`Store` serves a request in one step, by `Outcome`, which runs a program on a set of
rows; so `ImplementsStore` compares a program executed statement by statement
through `mine`, `snap` and `log` with the same program run at once. The invariant `LInv` says where
the worker is in that run: with `Outcome` of the statements behind it on the committed rows
it has the worker's rows, its keys and what its answer has so far (`Follows`). The commit is the step in which
`Store` acts, the reply the one in which it pays; a request that changes nothing is served at its
reply, and all else is a stutter. At the commit `Store` owes the answer of the whole program, which is
known then because an `Atomic` program that has changed something cannot stop any more.
`AppliedAll` and `Outcome` are recursive functions, and most of the module are lemmas
about them: what one more statement adds, what a commit in between leaves alone.

`Atomic` is broken by two handlers, `RoleSelectAll` of several users and
`ParamDeleteAll` of several keys, which can fail between changes; `Tidy` by
`UserPut` of a body with no column of `sys_user`, which inserts posts without having
found the user. Those arguments are not among the programs of `sw_store`; `sw_faults` runs
`RoleSelectAll` of two users. The last two theorems do
not look at `Switch` at all: they follow from `ImplementsStore` and from what a tidy program
does to the rows when it runs at once (`Dangling`: only a key whose row it has
deleted itself can be without one, until it has deleted the rest).
`PipelineProofs`, for any number of requests and workers, messages and queues of any length:

* `LoopIsFree`: `Spec => []LoopNeverWaits`; `WorkersAreFree`: `Spec => []WorkersNeverWait`;
  `Typed`: `Spec => []TypeOK`.

What is known after `MsqSnd`'s test is an inequality that other processes can wear
away. For the event loop they cannot: it is the only sender of its queue, so the queue and what it has
still to send are at most `limit` plus its message until the last chunk (`LoopCounted`). Each worker
may have seen a shorter queue, so the invariant counts the set `Owed` of all chunks that workers
have still to send: for every bound m of the answers, queue and `Owed` together are at most
`limit + workers * m` (`WorkersCounted`), and a worker that sends moves a chunk from one to the other. A death
takes its chunks out of `Owed`. `TypeOK` says that a request's first chunk is
in one place, once; `Placed` carries it, with `Early` and `Late` for the places before and after the handler.

`SessionProofs`, for any workers, logins and sizes of the lists:

* `TokensAreBacked`, `SessionsEndInTime`, `ListsAreComplete`, `Typed`: `Spec` implies that
  `TokenBacked`, `WithinLife`, `ListComplete` and `TypeOK` always hold. `TokenBacked` is about the order of
  the `SET` and the reply; a `SET` that Redis refuses is not noticed.

`IInv` has a part for each: `Ages` (age and time left of a session add up to `Life`, the
reason why no refresh may touch a session's own key), `Tokens` (a login that
has still to store its session has not told anybody its token, and no other worker
works on the same one), `Working` (a list has found, or read, all it owes: `Covers`).

`MsqOprProofs`, for any number of senders *and* receivers, any lengths, deaths and interruptions:

* `NoOthersChunks`: `Spec => []OneSource`; `Typed`: `Spec => []TypeOK`.
* `ImplementsQueue`: if `Receiver = {r}`, then `Spec => QueueSpec`: until a call is broken off,
  messages arrive whole and in order. What holds afterwards (`WholeUnlessCut`) is model-checked.

`OneSource` speaks of what was received. Its invariant orders all continuations of one
sender: those a receiver holds (`Held`), then those queued (`Queued`), then those
still to be sent (`Sends`), by message and by index (`Later`). It holds with
several receivers as well, because a continuation has one place; that
messages arrive *whole* does not: two receivers can each take a part of the same
sender's chunks. So `ImplementsQueue` is about one receiver, which the shipped configuration has
on each queue. There the chunks of a sender, from what the receiver
has taken over the queue to what is still to be sent, are one `Stream`: first chunks in
the order in which the messages were begun (`InOrder`), and for each all that was sent of the rest
(`Complete`) and nothing else (`Useful`). `QueueSpec` asks for that until a call
was broken off, after which a receiver may find the rest of a message nobody wants.

`DaemonProofs`, for any number of servers and processes, any table and any failures:

* `NoDeathIsForgotten`: `Spec => []DeathIsNoted`; `Typed`: `Spec => []TypeOK`.
* `NoneEscapes`: `Spec => []Tracked`; `OneIsUntold`: `Spec => []OneUntold`.

What needs the argument is a child between `fork` and its entry: it may die before it
is in the table, and its signal may be handled before, too. `Forked` says that then the
flag is already set, so that the next scan finds the entry. `Distinct` (no pid twice)
gives the "once" in `Tracked`. `Accounted` says where a running process is: it was just forked, is in the
table, or was refused by a full one, as `lInsertPid` does silently; those are what `Tracked` and
`OneUntold` except, and the table of `dm_full` does overflow. `OneUntold` says which processes get a
SIGTERM, not that they end: a deaf gateway does not.

`RecordsProofs`, for any map of columns with any key, both generations of functions, any tables,
documents, queries and page sizes, and any number of changes:

* `Typed`: `Spec => []TypeOK`; `PagesAreWhole`: `Spec => []PagesCover`.
* `GetsDontWrite`: `Spec => ReadsDontWrite`; `PutsKeepKeys`: `Spec => KeysKept`;
  `EditsLand`: `Spec => EditLands`.
* `DeletesAreExact`: if `KeysAreNames`, then `Spec => DeleteExact`.

`RecordsAssumption` has four parts: no column has the name of a page's parameter and a key is not a
time (`MapAssumption`), the order of texts is strict (`TextAssumption`), the rows of a
table have the types of their columns and different keys (`TableAssumption`), and clients send texts and
numbers and page sizes of one or more (`ClientAssumption`). `KeysAreNames` says that no key
is the text "(null)": `sprintf` writes it for the null pointer of a missing value, so a document without a part
of the key would remove a row whose key has that text.

The invariant has `Basics` (types, different keys, and `WellSent`: a request has what its sender could have seen),
and `Paged`: as long as nobody changes the table, the pages seen so far (the model reads two), one after
the other, are a beginning of the sorted list, up to the row from which the next page starts
(`Begun`). The lemmas give what the operators are for every argument: which value of a name
`GetIpcValueExt` finds in a message filled one value at a time, that `Sorted` has each row at its
rank and is the only such list, that pages are pieces without gap or overlap, that a WHERE made of
a document's key holds for that row only, and that what is shown of a row and
sent back writes the same row again.

Beside the hypotheses named above (`Quiet` for the gateway; `Settling`, `Atomically`, `Tidily` and
`Linked`, one worker and no faults for the workers; one receiver for `ImplementsQueue`; `KeysAreNames` for `DeletesAreExact`), these proofs rest on the `ASSUME` of their
module only, which TLC evaluates in every run. TLC evaluates `Settling`, `Atomically` and `Tidily` for the programs
of `sw_store`, and `KeysAreNames` for the tables and documents of `records`.
### What is model-checked only

* Liveness, since fairness and ENABLED are out of the prover's reach: `EveryRequestEnds`,
  `CallsReturn`, `Restarted`, `Supervised`, `TurnEnds`, `Drains`, and the fairness half
  of the refinement of `HttpService`. What is proved of the three refinements is that initial
  states are initial states and that every step is a step or a stutter.
* The three properties that the code violates (`gw_preflight`, `dm_outage`, `rbac_newuser`).
* `WholeUnlessCut`: `ImplementsQueue` proves it for the time before the first broken call; that
  a cut sender does not harm the others afterwards is shown by `msq`.

The installed provers cannot use the library's induction theorems, which take an
operator as a parameter. Where a proof needs induction on a number (how far a
program has been applied, the values of a message, the rows of a list) it uses the lemma
`Induct` of `StoreProofs` and `RecordsProofs`: a *set* of numbers that has 0 and with each number the next
has all of them. It follows from the pigeonhole principle for finite sets, which
the library states without such a parameter. The modules define what is recursive as
functions on an interval, which a lemma each shows to exist before the induction.

## 5. Not modelled

* Captchas are made and checked nowhere; `logout`, `logout_jwt_token` and
  `DeleteIpcValue` have no caller that changes state.
* Of `Common/Common.c`, the conversions of codes and bytes and the widths of fields; of
  the maps, columns of the types F, L and D.
* `multipart.c` and the spreadsheets: parsing and library calls without state that
  outlives the request. The handlers that use them are modelled by their replies.
* `MyDbs/TBL_*.c`: generated maps of columns; the configuration they load is in the constants.
* `tbl_buf_dsp_dsp.c`: the dispatch never reaches it.
* Logging, time formats, command line tools and scripts.
* Text of queries: a parameter that changes the SQL around it, and the
  comparison `role_id in (GROUP_CONCAT(...))`, which sees the first role only.
* A reader that starts in the middle of a message that its predecessor was reading is
  in `MsqOpr` (`ReceiverRestarts`), but not composed with the slots of `Gateway`.
## 6. Plan

What is left, in this order:

1. `Daemon`: the numbers given to the processes of a server. They start from the count of
   the living ones, so a sequence of changes can give two processes the same one.
2. `Pipeline` composed with `HttpService`: its four dead ends as the only reasons for which a
   request is not answered.
3. `WholeUnlessCut` proved after a call was broken off: the `Stream` of `MsqOprProofs` for the
   senders that were not cut only.
4. `Records`: the other types of columns, with their roundings.
