------------------------------ MODULE Gateway ------------------------------
(***************************************************************************)
(* CommHTTP (src/RY/src/Comm/CommHTTP/CommHTTP.c): the process that        *)
(* accepts HTTP requests in a libevent loop, forwards each one to the      *)
(* business layer through a System V message queue and matches the replies *)
(* that come back, in any order and at any time, to the requests that wait.*)
(*                                                                         *)
(* A request is parked in the slot of Reqs that the cursor shCurrent       *)
(* names.  The message carries iSender = slot * 2^16 + a random number,    *)
(* and a reply is delivered only if the slot still holds that number.      *)
(* Every request arms a 15 second timer whose callback knows only the slot.*)
(* A slot keeps its pointer to a request after the answer; libevent frees  *)
(* the request then, and the allocator may give the memory to another one. *)
(*                                                                         *)
(* Each action is one callback of the event loop (the loop is single       *)
(* threaded, a callback is atomic for everything it touches), one step of  *)
(* the reader child that moves replies from the queue to the pipe, or one  *)
(* step of the environment (the business layer, a kill, the supervisor).   *)
(***************************************************************************)
EXTENDS Integers, Sequences, FiniteSets

CONSTANTS
  Req,        \* HTTP requests; each arrives at most once
  None,       \* the NULL of a request or event pointer
  MAXCONN,    \* last slot of the request table
  Nonce,      \* values rand() % 30000 may take
  Kinds,      \* which branches of request_cb the clients reach
  SendFails,  \* may MsqSnd to the business layer return an error?
  Overrun,    \* may the cursor come back to a slot whose request waits?
  ReaderDies, \* may the reader child die, on its own or of a SIGTERM?
  ChldHeld,   \* was the process started with SIGCHLD blocked?
  MaxCrash    \* bound on unprovoked deaths of the process

ASSUME GatewayAssumption ==
  /\ None \notin Req
  /\ MAXCONN \in Nat /\ MAXCONN <= 30000
  /\ Nonce \subseteq Nat /\ \A n \in Nonce : n < 30000
  /\ Kinds \subseteq {"forward", "local", "unparsed"}
  /\ SendFails \in BOOLEAN
  /\ Overrun \in BOOLEAN
  /\ ReaderDies \in BOOLEAN
  /\ ChldHeld \in BOOLEAN
  /\ MaxCrash \in Nat

VARIABLES
  up,         \* is the event loop running?
  shCurrent,  \* cursor into Reqs
  Reqs,       \* slot -> [index, req, timer_ev]; a pointer is named by the
              \* request it was made for
  memory,     \* pointer -> the request whose data is there now
  armed,      \* timers pending in libevent, named by the request that armed them
  iSender,    \* request -> the iSender its message carries, -1 before
  switchQ,    \* requests the business layer has and has not answered
  replyQ,     \* replies in the gateway's own message queue
  pipe,       \* replies the reader child has written to the pipe
  reader,     \* is the reader child of the running process alive?
  orphans,    \* reader children that outlived their gateway
  conn,       \* life of a request as its client sees it
  answers     \* request -> what was written to its client, in order

vars == <<up, shCurrent, Reqs, memory, armed, iSender, switchQ, replyQ, pipe, reader,
          orphans, conn, answers>>

Slot == 0..MAXCONN
SlotState == [index : Nonce \cup {-1, 0}, req : Req \cup {None},
              timer_ev : Req \cup {None}]
Entry == [code : {"result", "timeout", "refused", "local"}, from : Req]
FreeSlot == [index |-> 0, req |-> None, timer_ev |-> None]

----------------------------------------------------------------------------
(* iSender and the cursor *)

Pack(i, n) == i * 65536 + n
IndexOf(s) == s \div 65536
NumberOf(s) == s % 65536

Sender == {Pack(i, n) : i \in Slot, n \in Nonce}

\* Mutant: the end of the table is noticed one slot too late.
AdvanceLate(c) == IF c > MAXCONN THEN 0 ELSE c + 1

Advance(c) == IF c = MAXCONN THEN 0 ELSE c + 1

\* The slot a reply or a timer of r leads to, and whether its number is there.
SlotOf(r) == IndexOf(iSender[r])

\* Mutant: any slot that has not timed out takes the reply.
MatchesAny(r) == Reqs[SlotOf(r)].index # -1

Matches(r) == Reqs[SlotOf(r)].index = NumberOf(iSender[r])

\* What is at this pointer does not wait: it is NULL or answered, and freed.
Answered(p) == p # None => conn[memory[p]] = "done"

Outstanding == switchQ \cup replyQ \cup pipe

\* rand() seeded with the microseconds is taken not to repeat a number that a
\* message of the same slot still carries.
Fresh(n) == \A r \in Outstanding : iSender[r] # Pack(shCurrent, n)

----------------------------------------------------------------------------
TypeOK ==
  /\ up \in BOOLEAN
  /\ shCurrent \in Slot
  /\ Reqs \in [Slot -> SlotState]
  /\ memory \in [Req -> Req]
  /\ armed \subseteq Req
  /\ iSender \in [Req -> {-1} \cup Sender]
  /\ switchQ \subseteq Req
  /\ replyQ \subseteq Req
  /\ pipe \subseteq Req
  /\ reader \in BOOLEAN
  /\ orphans \in Nat
  /\ conn \in [Req -> {"new", "open", "done", "lost"}]
  /\ answers \in [Req -> Seq(Entry)]

Init ==
  /\ up = TRUE
  /\ shCurrent = 0
  /\ Reqs = [i \in Slot |-> FreeSlot]
  /\ memory = [r \in Req |-> r]
  /\ armed = {}
  /\ iSender = [r \in Req |-> -1]
  /\ switchQ = {}
  /\ replyQ = {}
  /\ pipe = {}
  /\ reader = TRUE
  /\ orphans = 0
  /\ conn = [r \in Req |-> "new"]
  /\ answers = [r \in Req |-> <<>>]

----------------------------------------------------------------------------
(* request_cb *)

\* libevent puts a new request into memory no slot points to, or into that of a
\* request it has freed: every pointer to the old one now leads to the new one.
Allocate(r) ==
  \/ UNCHANGED memory
  \/ \E i \in Slot :
       /\ Reqs[i].req # None
       /\ Answered(Reqs[i].req)
       /\ memory' = [p \in Req |-> IF memory[p] = memory[Reqs[i].req] THEN r ELSE memory[p]]

\* Mutant: the timer is created and never added.
ParkUntimed(r, n) ==
  /\ up
  /\ conn[r] = "new"
  /\ Fresh(n)
  /\ ~Overrun => \A t \in armed : conn[t] = "open" => SlotOf(t) # shCurrent
  /\ Allocate(r)
  /\ Reqs' = [Reqs EXCEPT ![shCurrent] = [index |-> n, req |-> r, timer_ev |-> r]]
  /\ iSender' = [iSender EXCEPT ![r] = Pack(shCurrent, n)]
  /\ UNCHANGED armed

\* What every branch does first: arm a timer for the current slot and park
\* the request there, whoever is in it.
Park(r, n) ==
  /\ up
  /\ conn[r] = "new"
  /\ Fresh(n)
  /\ ~Overrun => \A t \in armed : conn[t] = "open" => SlotOf(t) # shCurrent
  /\ Allocate(r)
  /\ Reqs' = [Reqs EXCEPT ![shCurrent] = [index |-> n, req |-> r, timer_ev |-> r]]
  /\ armed' = armed \cup {r}
  /\ iSender' = [iSender EXCEPT ![r] = Pack(shCurrent, n)]

\* Something is written to the client of q on behalf of request or timer r.
Write(q, code, r) ==
  /\ conn' = [conn EXCEPT ![q] = "done"]
  /\ answers' = [answers EXCEPT ![q] = Append(@, [code |-> code, from |-> r])]

\* GET, POST, PUT, DELETE: the message is queued, the cursor advances.
Forward(r, n) ==
  /\ "forward" \in Kinds
  /\ Park(r, n)
  /\ shCurrent' = Advance(shCurrent)
  /\ switchQ' = switchQ \cup {r}
  /\ conn' = [conn EXCEPT ![r] = "open"]
  /\ UNCHANGED <<up, replyQ, pipe, reader, orphans, answers>>

\* MsqSnd failed: the cursor has advanced, the client is told, and the slot
\* keeps the request and its timer.
ForwardFails(r, n) ==
  /\ "forward" \in Kinds
  /\ SendFails
  /\ Park(r, n)
  /\ shCurrent' = Advance(shCurrent)
  /\ Write(r, "refused", r)
  /\ UNCHANGED <<up, switchQ, replyQ, pipe, reader, orphans>>

\* OPTIONS and GET /favicon.ico are answered here; the cursor stays.  (libevent
\* itself refuses the other methods that return early, iHttpDaemon allows five.)
AnswerLocally(r, n) ==
  /\ "local" \in Kinds
  /\ Park(r, n)
  /\ Write(r, "local", r)
  /\ UNCHANGED <<up, shCurrent, switchQ, replyQ, pipe, reader, orphans>>

\* evhttp_uri_parse failed: nothing is written, the cursor stays.
DropUnparsed(r, n) ==
  /\ "unparsed" \in Kinds
  /\ Park(r, n)
  /\ conn' = [conn EXCEPT ![r] = "open"]
  /\ UNCHANGED <<up, shCurrent, switchQ, replyQ, pipe, reader, orphans, answers>>

----------------------------------------------------------------------------
(* The process dies and is started again *)

\* The table is in the process' memory and the pipe ends with it.
Die ==
  /\ up' = FALSE
  /\ shCurrent' = 0
  /\ Reqs' = [i \in Slot |-> FreeSlot]
  /\ memory' = [r \in Req |-> r]
  /\ armed' = {}
  /\ pipe' = {}
  /\ reader' = FALSE
  /\ conn' = [r \in Req |-> IF conn[r] = "open" THEN "lost" ELSE conn[r]]
  /\ UNCHANGED <<iSender, switchQ, replyQ, answers>>

\* A sudden death does not reach the reader child: it stays blocked on the
\* queue of replies.
Crash ==
  /\ Die
  /\ orphans' = IF reader THEN orphans + 1 ELSE orphans

Killed ==
  /\ up
  /\ orphans < MaxCrash
  /\ Crash

\* MsqRcv failed in the child, it was killed, or sigterm_cb killed it; a reply
\* it has received and not yet written to the pipe is lost with it.
ReaderExits ==
  /\ ReaderDies
  /\ up
  /\ reader
  /\ reader' = FALSE
  /\ \E held \in {{}} \cup {{r} : r \in replyQ} : replyQ' = replyQ \ held
  /\ UNCHANGED <<up, shCurrent, Reqs, memory, armed, iSender, switchQ, pipe, orphans,
                 conn, answers>>

\* sigchld_cb ends the event loop, if the signal can be delivered at all.
LoopExits ==
  /\ ~ChldHeld
  /\ up
  /\ ~reader
  /\ Die
  /\ UNCHANGED orphans

Restart ==
  /\ ~up
  /\ up' = TRUE
  /\ reader' = TRUE
  /\ UNCHANGED <<shCurrent, Reqs, memory, armed, iSender, switchQ, replyQ, pipe,
                 orphans, conn, answers>>

----------------------------------------------------------------------------
(* timeout_cb *)

\* Mutant: the callback looks at the slot the cursor names when it runs.
TimerFiresAtCursor(t) ==
  /\ up
  /\ t \in armed
  /\ LET p == Reqs[shCurrent].req
     IN /\ p # None
        /\ Write(memory[p], "timeout", t)
        /\ Reqs' = [Reqs EXCEPT ![shCurrent].index = -1, ![shCurrent].req = None]
  /\ armed' = armed \ {t}
  /\ UNCHANGED <<up, shCurrent, memory, iSender, switchQ, replyQ, pipe, reader, orphans>>

\* Mutant: the slot keeps its request and its number after the timeout.
TimerLeavesSlot(t) ==
  /\ up
  /\ t \in armed
  /\ LET p == Reqs[SlotOf(t)].req
     IN p # None /\ Write(memory[p], "timeout", t)
  /\ armed' = armed \ {t}
  /\ UNCHANGED <<up, shCurrent, Reqs, memory, iSender, switchQ, replyQ, pipe, reader,
                 orphans>>

\* The callback answers whatever request is now where the slot's pointer leads:
\* the slot's own or, if that one was answered and freed, another slot's.
TimerFires(t) ==
  /\ up
  /\ t \in armed
  /\ LET i == SlotOf(t)
         p == Reqs[i].req
     IN /\ p # None
        /\ Write(memory[p], "timeout", t)
        /\ Reqs' = [Reqs EXCEPT ![i].index = -1, ![i].req = None]
  /\ armed' = armed \ {t}
  /\ UNCHANGED <<up, shCurrent, memory, iSender, switchQ, replyQ, pipe, reader, orphans>>

\* evhttp_send_error on NULL, or on memory that was freed and not given away
\* again: the first kills the process, the second may.
TimerKills(t) ==
  /\ up
  /\ t \in armed
  /\ Answered(Reqs[SlotOf(t)].req)
  /\ Crash

----------------------------------------------------------------------------
(* The business layer and the reader child *)

SwitchReplies(r) ==
  /\ r \in switchQ
  /\ switchQ' = switchQ \ {r}
  /\ replyQ' = replyQ \cup {r}
  /\ UNCHANGED <<up, shCurrent, Reqs, memory, armed, iSender, pipe, reader, orphans, conn,
                 answers>>

\* An unknown path, a handler that returns early, a worker that dies.
SwitchStaysSilent(r) ==
  /\ r \in switchQ
  /\ switchQ' = switchQ \ {r}
  /\ UNCHANGED <<up, shCurrent, Reqs, memory, armed, iSender, replyQ, pipe, reader, orphans,
                 conn, answers>>

ReaderForwards(r) ==
  /\ reader
  /\ r \in replyQ
  /\ replyQ' = replyQ \ {r}
  /\ pipe' = pipe \cup {r}
  /\ UNCHANGED <<up, shCurrent, Reqs, memory, armed, iSender, switchQ, reader, orphans,
                 conn, answers>>

\* A reader whose gateway died takes the reply, fails to write it and goes on.
OrphanDrops(r) ==
  /\ orphans > 0
  /\ r \in replyQ
  /\ replyQ' = replyQ \ {r}
  /\ UNCHANGED <<up, shCurrent, Reqs, memory, armed, iSender, switchQ, pipe, reader, orphans,
                 conn, answers>>

----------------------------------------------------------------------------
(* pipe_cb and send_response *)

\* Mutant: the answer leaves the timer pending.
DeliverTimed(r) ==
  /\ up
  /\ r \in pipe
  /\ Matches(r)
  /\ Reqs[SlotOf(r)].req # None
  /\ Write(memory[Reqs[SlotOf(r)].req], "result", r)
  /\ pipe' = pipe \ {r}
  /\ UNCHANGED <<up, shCurrent, Reqs, memory, armed, iSender, switchQ, replyQ, reader, orphans>>

Deliver(r) ==
  /\ up
  /\ r \in pipe
  /\ Matches(r)
  /\ LET s == Reqs[SlotOf(r)]
     IN /\ s.req # None
        /\ armed' = armed \ {s.timer_ev}
        /\ Write(memory[s.req], "result", r)
  /\ pipe' = pipe \ {r}
  /\ UNCHANGED <<up, shCurrent, Reqs, memory, iSender, switchQ, replyQ, reader, orphans>>

\* The number is not there any more: the reply is logged and forgotten.
Abandon(r) ==
  /\ up
  /\ r \in pipe
  /\ ~Matches(r)
  /\ pipe' = pipe \ {r}
  /\ UNCHANGED <<up, shCurrent, Reqs, memory, armed, iSender, switchQ, replyQ, reader, orphans,
                 conn, answers>>

\* A number 0 matches the zeroed slot that was not used since the start, and a
\* request that a timer of another slot has ended is freed while its own slot
\* still has its number.
DeliverKills(r) ==
  /\ up
  /\ r \in pipe
  /\ Matches(r)
  /\ Answered(Reqs[SlotOf(r)].req)
  /\ Crash

----------------------------------------------------------------------------
RequestArrives ==
  \E r \in Req, n \in Nonce :
    Forward(r, n) \/ ForwardFails(r, n) \/ AnswerLocally(r, n) \/ DropUnparsed(r, n)

Next ==
  \/ RequestArrives
  \/ \E r \in Req :
       \/ TimerFires(r) \/ TimerKills(r)
       \/ SwitchReplies(r) \/ SwitchStaysSilent(r)
       \/ ReaderForwards(r) \/ OrphanDrops(r)
       \/ Deliver(r) \/ Abandon(r) \/ DeliverKills(r)
  \/ Killed \/ ReaderExits \/ LoopExits \/ Restart

\* A pending timer event runs when its 15 seconds are over and the loop reads
\* the pipe; a dead process is started again, and the reader child is not killed
\* every time before it receives.  Nothing is assumed of the clients and of the
\* business layer.
Fairness ==
  /\ \A r \in Req : WF_vars(TimerFires(r)) /\ SF_vars(ReaderForwards(r))
                  /\ WF_vars(Deliver(r)) /\ WF_vars(Abandon(r))
  /\ WF_vars(LoopExits)
  /\ WF_vars(Restart)

Spec == Init /\ [][Next]_vars /\ Fairness

----------------------------------------------------------------------------
(* Properties *)

\* A timer has ended a request of another slot than its own: the pointer it
\* found belonged to a request that was answered and freed before.
Strayed ==
  \E r \in Req : \E k \in DOMAIN answers[r] :
    answers[r][k].code = "timeout" /\ SlotOf(answers[r][k].from) # SlotOf(r)

\* A result is written only to the client whose request produced it, though
\* slots are reused, timers end requests they do not belong to, replies outlive
\* their request and the process restarts with an empty table (the comparison
\* in send_response).  This holds until a timer strays to another slot's
\* request: that one is freed while its slot still has its number, and its
\* result goes to whoever is in its memory by then.
ReplyToOwner ==
  \/ Strayed
  \/ \A r \in Req : \A k \in DOMAIN answers[r] :
       answers[r][k].code = "result" => answers[r][k].from = r

\* Until then a result is never written to a client that was already answered
\* either, be it by its own timeout, by the timer of an earlier request of the
\* slot or by a refusal (timeout_cb clears the number, so that send_response
\* takes the reply for an abandoned one).
ResultComesFirst ==
  \/ Strayed
  \/ \A r \in Req : \A k \in DOMAIN answers[r] :
       answers[r][k].code = "result" => k = 1

\* Why the two hold.  A message and a timer exist only for a request that was
\* parked; the pointer of a slot was made for the request whose message carries
\* the slot and the slot's number; only freed memory is given away, and to a
\* request of another slot; a message is in one place; and when a message meets
\* its number again in a slot that holds a request, it is its own, unanswered.
Sent == \A r \in armed \cup Outstanding : iSender[r] \in Sender /\ conn[r] # "new"

Parked ==
  \A i \in Slot : Reqs[i].req # None =>
    /\ Reqs[i].index \in Nonce
    /\ iSender[Reqs[i].req] = Pack(i, Reqs[i].index)
    /\ conn[Reqs[i].req] \in {"open", "done"}

Housed ==
  \A p \in Req : memory[p] # p =>
    conn[p] = "done" /\ conn[memory[p]] \in {"open", "done"}

Elsewhere ==
  \A i \in Slot :
    Reqs[i].req # None /\ memory[Reqs[i].req] # Reqs[i].req =>
      SlotOf(memory[Reqs[i].req]) # i

Unseen == \A r \in Req : conn[r] \in {"new", "open"} => answers[r] = <<>>

Signed ==
  \A r \in Req : \A k \in DOMAIN answers[r] : conn[answers[r][k].from] # "new"

OnePlace ==
  switchQ \cap replyQ = {} /\ switchQ \cap pipe = {} /\ replyQ \cap pipe = {}

Expected ==
  \/ Strayed
  \/ \A r \in Outstanding :
       Matches(r) /\ Reqs[SlotOf(r)].req # None =>
         Reqs[SlotOf(r)].req = r /\ conn[r] = "open"

IInv ==
  /\ TypeOK
  /\ Sent
  /\ Parked
  /\ Housed
  /\ Elsewhere
  /\ Unseen
  /\ Signed
  /\ OnePlace
  /\ Expected
  /\ ReplyToOwner
  /\ ResultComesFirst

\* libevent frees a request when its answer is sent: no request may be
\* answered twice (send_response deletes the timer before it answers).
AnsweredOnce == \A r \in Req : Len(answers[r]) <= 1

\* The timeout a client gets is the one its own request armed 15 seconds ago.
TimeoutIsOwn ==
  \A r \in Req : \A k \in DOMAIN answers[r] :
    answers[r][k].code = "timeout" => answers[r][k].from = r

\* Why these two hold when every request is forwarded, no send fails and the
\* cursor never comes to a slot whose request waits: a pending timer is the one of
\* the request its slot holds, which waits; a request that waits has its timer, an
\* answered one has exactly one answer.
Quiet == Kinds \subseteq {"forward"} /\ ~SendFails /\ ~Overrun

Timed ==
  \A t \in armed :
    /\ conn[t] = "open"
    /\ Reqs[SlotOf(t)].req = t
    /\ Reqs[SlotOf(t)].timer_ev = t

Waiting ==
  \A r \in Req :
    /\ conn[r] = "open" => r \in armed
    /\ conn[r] = "done" => Len(answers[r]) = 1
    /\ conn[r] = "lost" => answers[r] = <<>>

QInv == IInv /\ Timed /\ Waiting /\ TimeoutIsOwn

\* A request that waits is answered in the end, or its gateway died.
EveryRequestEnds ==
  \A r \in Req : conn[r] = "open" ~> conn[r] \in {"done", "lost"}

\* The gateway implements the service its clients were promised.
Service == INSTANCE HttpService
ServiceSpec == Service!Spec
=============================================================================
