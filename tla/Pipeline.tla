------------------------------ MODULE Pipeline ------------------------------
(***************************************************************************)
(* The way of a request through all processes: the event loop of CommHTTP, *)
(* queue 1106, the workers of SwtRY, queue 2810, the reader child of       *)
(* CommHTTP and its pipe back to the event loop.                           *)
(*                                                                         *)
(* MsqSnd looks at msg_qnum once and then sends a message in chunks, each  *)
(* with an msgsnd that waits while the queue is full (MsqOpr.c:299, 361);  *)
(* MsqRcv takes a first chunk and then waits for the others of its sender. *)
(* A write to the full pipe waits too (CommHTTP.c:629).  The event loop    *)
(* sends in the middle of a callback: while it waits no timer fires and no *)
(* reply is read.                                                          *)
(*                                                                         *)
(* The queues are modelled by the chunks in them: which chunks go together *)
(* is in MsqOpr, with signals that break a call off; slots and restarts of *)
(* the gateway are in Gateway, statements of the workers in Switch.        *)
(***************************************************************************)
EXTENDS Integers, SequencesExt

CONSTANTS
  MaxReq,      \* bound on the HTTP requests, numbered as they arrive
  Numbers,     \* values srv_num of SwtRY may have (tbl_srv_inf)
  Cap1106,     \* chunks the queue 1106 holds (msg_qbytes / MSG_ONE_MAX: 16 as shipped)
  Cap2810,     \* chunks the queue 2810 holds
  PipeCap,     \* messages in the pipe and in the hand of the reader together
  Limits,      \* values the parameter MSQ_NUM_MAX may have
  MaxLen,      \* chunks of the longest message
  Lengths,     \* functions: request -> chunks of its message and of its answer
  MaxDeaths    \* bound on the deaths of workers

Req == 1..MaxReq
None == 0

ASSUME PipelineAssumption ==
  /\ MaxReq \in Nat
  /\ Numbers \subseteq Nat \ {0} /\ Numbers # {}
  /\ {Cap1106, Cap2810, PipeCap} \subseteq Nat \ {0}
  /\ Limits \subseteq Nat /\ Limits # {}
  /\ MaxLen \in Nat \ {0}
  /\ Lengths \subseteq [Req -> [ask : 1..MaxLen, answer : 1..MaxLen]] /\ Lengths # {}
  /\ MaxDeaths \in Nat

VARIABLES
  limit,       \* MSQ_NUM_MAX
  workers,     \* the number of processes SwtRY
  length,      \* the lengths of the messages
  conn,        \* life of a request as its client sees it
  sending,     \* the request in whose MsqSnd the event loop is
  unsent,      \* chunks of it that are still to be sent
  queue1106,   \* first chunks of requests on their way to the workers
  rest1106,    \* the number of other chunks, all of the event loop's pid
  wants,       \* request -> chunks its worker still waits for in MsqRcv
  executing,   \* requests whose handler a worker is in
  owes,        \* request -> chunks of its answer that its worker has still to send
  queue2810,   \* first chunks of answers
  rest2810,    \* other chunks <<r, k>>: r for the pid of its worker, k is sent when k are owed
  reading,     \* the answer in whose MsqRcv the reader is, its first chunk taken
  missing,     \* chunks of it that are still to come
  pipe,        \* answers that the reader has written and pipe_cb has not read
  deaths       \* workers that died

config == <<limit, workers, length>>
loop == <<sending, unsent>>
first == <<queue1106, rest1106>>
hands == <<wants, executing, owes>>
second == <<queue2810, rest2810>>
reader == <<reading, missing, pipe>>
vars == <<config, conn, loop, first, hands, second, reader, deaths>>

receiving == {r \in Req : wants[r] > 0}
replying == {r \in Req : owes[r] > 0}
Busy == receiving \cup executing \cup replying

\* msg_qnum of the two queues.
Qnum1106 == Len(queue1106) + rest1106
Qnum2810 == Len(queue2810) + Cardinality(rest2810)

TypeOK ==
  /\ limit \in Limits /\ workers \in Numbers /\ length \in Lengths
  /\ conn \in [Req -> {"new", "open", "done"}]
  /\ sending \in Req \cup {None} /\ unsent \in 0..MaxLen
  /\ wants \in [Req -> 0..MaxLen] /\ owes \in [Req -> 0..MaxLen]
  /\ executing \subseteq Req \ (receiving \cup replying) /\ receiving \cap replying = {}
  /\ Cardinality(Busy) <= workers
  /\ \A q \in {queue1106, queue2810, pipe} : IsInjective(q) /\ ToSet(q) \subseteq Req
  /\ rest1106 \in Nat /\ rest2810 \subseteq Req \X (1..MaxLen)
  /\ Qnum1106 <= Cap1106 /\ Qnum2810 <= Cap2810 /\ Len(pipe) <= PipeCap
  /\ reading \in Req \cup {None} /\ missing \in 0..MaxLen
  /\ deaths \in 0..MaxDeaths

Init ==
  /\ limit \in Limits /\ workers \in Numbers /\ length \in Lengths
  /\ conn = [r \in Req |-> "new"]
  /\ sending = None /\ unsent = 0
  /\ queue1106 = <<>> /\ rest1106 = 0
  /\ wants = [r \in Req |-> 0] /\ executing = {} /\ owes = [r \in Req |-> 0]
  /\ queue2810 = <<>> /\ rest2810 = {}
  /\ reading = None /\ missing = 0 /\ pipe = <<>>
  /\ deaths = 0

\* Mutant: the message about to be sent is not counted.
HasRoomLate(qnum) == qnum <= limit + 1

\* MsqSnd's number test; > as in the code.
HasRoom(qnum) == qnum <= limit

Close(r) == conn' = [conn EXCEPT ![r] = "done"]

----------------------------------------------------------------------------
(* The event loop *)

\* request_cb up to the first msgsnd in MsqSnd; a full queue is an error to the client.
Arrive(r) ==
  /\ sending = None
  /\ conn[r] = "new" /\ \A q \in 1..(r - 1) : conn[q] # "new"
  /\ \/ /\ HasRoom(Qnum1106)
        /\ conn' = [conn EXCEPT ![r] = "open"]
        /\ sending' = r /\ unsent' = length[r].ask
     \/ /\ ~HasRoom(Qnum1106)
        /\ Close(r)
        /\ UNCHANGED loop
  /\ UNCHANGED <<config, first, hands, second, reader, deaths>>

\* msgsnd returns; after the last chunk so does request_cb.
Forward ==
  /\ sending # None
  /\ Qnum1106 < Cap1106
  /\ \/ /\ unsent = length[sending].ask
        /\ queue1106' = Append(queue1106, sending)
        /\ UNCHANGED rest1106
     \/ /\ unsent # length[sending].ask
        /\ rest1106' = rest1106 + 1
        /\ UNCHANGED queue1106
  /\ unsent' = unsent - 1
  /\ sending' = IF unsent = 1 THEN None ELSE sending
  /\ UNCHANGED <<config, conn, hands, second, reader, deaths>>

\* timeout_cb: only when the loop is not inside another callback.
TimerFires(r) ==
  /\ sending = None
  /\ conn[r] = "open"
  /\ Close(r)
  /\ UNCHANGED <<config, loop, first, hands, second, reader, deaths>>

\* Mutant: a reply that comes too late is left where it is.
ReadPipeKeepsLate ==
  /\ sending = None
  /\ pipe # <<>> /\ conn[Head(pipe)] = "open"
  /\ Close(Head(pipe))
  /\ pipe' = Tail(pipe)
  /\ UNCHANGED <<config, loop, first, hands, second, reading, missing, deaths>>

\* pipe_cb; the reply to a request that was answered already is dropped.
ReadPipe ==
  /\ sending = None
  /\ pipe # <<>>
  /\ LET r == Head(pipe)
     IN IF conn[r] = "open" THEN Close(r) ELSE UNCHANGED conn
  /\ pipe' = Tail(pipe)
  /\ UNCHANGED <<config, loop, first, hands, second, reading, missing, deaths>>

----------------------------------------------------------------------------
(* A worker *)

\* What MsqRcv does when n chunks are still to come.
Awaits(r, n) ==
  /\ wants' = [wants EXCEPT ![r] = n]
  /\ executing' = IF n = 0 THEN executing \cup {r} ELSE executing

\* msgrcv of a first chunk.
Take ==
  /\ Cardinality(Busy) < workers
  /\ queue1106 # <<>>
  /\ Awaits(Head(queue1106), length[Head(queue1106)].ask - 1)
  /\ queue1106' = Tail(queue1106)
  /\ UNCHANGED <<config, conn, loop, rest1106, owes, second, reader, deaths>>

\* msgrcv of one more chunk: the oldest of the event loop's, be it of this message
\* or left behind by a worker that died.
TakeRest(r) ==
  /\ wants[r] > 0
  /\ rest1106 > 0
  /\ Awaits(r, wants[r] - 1)
  /\ rest1106' = rest1106 - 1
  /\ UNCHANGED <<config, conn, loop, queue1106, owes, second, reader, deaths>>

\* The handler ends and calls MsqSnd; some return without an answer, and a
\* reply that MsqSnd refuses is lost.
Execute(r) ==
  /\ r \in executing
  /\ executing' = executing \ {r}
  /\ \/ HasRoom(Qnum2810) /\ owes' = [owes EXCEPT ![r] = length[r].answer]
     \/ UNCHANGED owes
  /\ UNCHANGED <<config, conn, loop, first, wants, second, reader, deaths>>

\* Mutant: the first chunk is sent again and again.
ReplyAgain(r) ==
  /\ owes[r] > 0
  /\ Qnum2810 < Cap2810
  /\ queue2810' = Append(queue2810, r)
  /\ owes' = [owes EXCEPT ![r] = @ - 1]
  /\ UNCHANGED <<config, conn, loop, first, wants, executing, rest2810, reader, deaths>>

\* msgsnd of a worker returns.
Reply(r) ==
  /\ owes[r] > 0
  /\ Qnum2810 < Cap2810
  /\ \/ /\ owes[r] = length[r].answer
        /\ queue2810' = Append(queue2810, r)
        /\ UNCHANGED rest2810
     \/ /\ owes[r] # length[r].answer
        /\ rest2810' = rest2810 \cup {<<r, owes[r]>>}
        /\ UNCHANGED queue2810
  /\ owes' = [owes EXCEPT ![r] = @ - 1]
  /\ UNCHANGED <<config, conn, loop, first, wants, executing, reader, deaths>>

\* A worker dies, its request is lost with it, and the daemon starts another
\* process. What it has not received of a message, or has sent of one, stays in
\* the queues.
Dies(r) ==
  /\ deaths < MaxDeaths
  /\ r \in Busy
  /\ deaths' = deaths + 1
  /\ wants' = [wants EXCEPT ![r] = 0]
  /\ executing' = executing \ {r}
  /\ owes' = [owes EXCEPT ![r] = 0]
  /\ UNCHANGED <<config, conn, loop, first, second, reader>>

----------------------------------------------------------------------------
(* The reader child *)

\* MsqRcv waits for n more chunks of r, or returns it and iMsgDaemon writes it.
Reads(r, n) ==
  /\ missing' = n
  /\ \/ n = 0 /\ reading' = None /\ pipe' = Append(pipe, r)
     \/ n > 0 /\ reading' = r /\ UNCHANGED pipe

\* msgrcv of a first chunk, when the last write has returned: one that does not
\* fit into the pipe keeps the reader until pipe_cb has made room.
ReaderTakes ==
  /\ reading = None
  /\ queue2810 # <<>>
  /\ Len(pipe) < PipeCap
  /\ Reads(Head(queue2810), length[Head(queue2810)].answer - 1)
  /\ queue2810' = Tail(queue2810)
  /\ UNCHANGED <<config, conn, loop, first, hands, rest2810, deaths>>

\* msgrcv of the next chunk of the same worker, whatever else is in the queue.
ReaderContinues ==
  /\ reading # None
  /\ <<reading, missing>> \in rest2810
  /\ Reads(reading, missing - 1)
  /\ rest2810' = rest2810 \ {<<reading, missing>>}
  /\ UNCHANGED <<config, conn, loop, first, hands, queue2810, deaths>>

----------------------------------------------------------------------------
Next ==
  \/ \E r \in Req :
       \/ Arrive(r) \/ TimerFires(r)
       \/ TakeRest(r) \/ Execute(r) \/ Reply(r) \/ Dies(r)
  \/ Forward \/ ReadPipe \/ Take \/ ReaderTakes \/ ReaderContinues

\* A pending timer fires, a readable pipe is read, and a process that can
\* receive or send does so; nobody has to send a request.
Fairness ==
  /\ \A r \in Req :
       /\ WF_vars(TimerFires(r)) /\ WF_vars(TakeRest(r))
       /\ WF_vars(Execute(r)) /\ WF_vars(Reply(r))
  /\ WF_vars(Forward) /\ WF_vars(ReadPipe) /\ WF_vars(Take)
  /\ WF_vars(ReaderTakes) /\ WF_vars(ReaderContinues)

Spec == Init /\ [][Next]_vars /\ Fairness

----------------------------------------------------------------------------
(* Properties *)

\* The circle in which everyone waits for everyone: the event loop for room in
\* queue 1106, every worker for room in queue 2810, the reader for room in the
\* pipe, and the pipe for the event loop.
Circle ==
  /\ sending # None /\ Qnum1106 = Cap1106
  /\ Cardinality(replying) = workers /\ Qnum2810 = Cap2810
  /\ Len(pipe) = PipeCap

\* The reader wants a chunk that is not there.
Starved == reading # None /\ <<reading, missing>> \notin rest2810

\* Its worker waits for room, and the queue is full of chunks of others.
Jammed == Starved /\ owes[reading] > 0 /\ Qnum2810 = Cap2810

\* Its worker died in the middle of the message (MsqOpr.c:223).
Stranded == Starved /\ owes[reading] = 0 /\ deaths > 0

\* Queue 1106 is full of chunks that workers who died have left: nobody asks for
\* them before there is another first chunk, for which there is no room.
Clogged == sending # None /\ rest1106 = Cap1106 /\ receiving = {} /\ deaths > 0

\* When no more requests come, every request is answered, by its timer if need
\* be, every process gets back from its msgsnd, msgrcv or write, and nothing is
\* left in a queue but what the dead left in 1106: a burst of messages longer than
\* the queues is worked off, unless it ends in one of the four states above.
Idle ==
  /\ \A r \in Req : conn[r] # "open"
  /\ sending = None /\ Busy = {} /\ reading = None
  /\ queue1106 = <<>> /\ (rest1106 = 0 \/ deaths > 0)
  /\ queue2810 = <<>> /\ rest2810 = {} /\ pipe = <<>>
Drains == <>[](Idle \/ Circle \/ Jammed \/ Stranded \/ Clogged)

\* With a limit that leaves room for the longest request the event loop never has
\* to wait, not even for its last chunk, and neither the circle nor a clogged queue
\* can stop it: the loop is the queue's only sender, so what it saw of msg_qnum
\* still holds when it sends.
LoopNeverWaits ==
  \A m \in 1..MaxLen :
    /\ limit + m <= Cap1106 /\ \A r \in Req : length[r].ask <= m
    /\ sending # None
    => Qnum1106 < Cap1106

\* The workers share their queue: between the test of one and its last chunk each
\* of the others may send a whole answer, so the limit must leave room for the
\* longest answer of each.
WorkersNeverWait ==
  \A m \in 1..MaxLen :
    /\ limit + workers * m <= Cap2810 /\ \A r \in Req : length[r].answer <= m
    /\ replying # {}
    => Qnum2810 < Cap2810
=============================================================================
