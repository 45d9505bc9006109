------------------------------- MODULE MsqOpr -------------------------------
(***************************************************************************)
(* MsqSnd and MsqRcv (src/RY/src/Common/MsqOpr.c) on one System V queue.   *)
(*                                                                         *)
(* A message longer than MSG_ONE_MAX bytes is sent in chunks: the first    *)
(* one with the message type of the queue, the others with the pid of the  *)
(* sender as their type.  The first chunk carries that pid and the number  *)
(* of chunks in its SYSHEAD (shMsgType, shSourceID), and a receiver then   *)
(* asks for that many chunks of that type.  msgrcv takes the oldest chunk  *)
(* of the type it is given, so the queue is modelled as one sequence for   *)
(* each type; what is sent and received is one chunk at a time, and every  *)
(* other process may run in between.                                       *)
(***************************************************************************)
EXTENDS Integers, Sequences, FiniteSetsExt

CONSTANTS
  Sender,       \* the pids of the processes that send to the queue
  Receiver,     \* the processes that receive from it
  First,        \* the message type of the queue (msq_type of tbl_msq_inf)
  Chunks,       \* lengths a message may have, in chunks
  Capacity,     \* chunks the queue holds (msg_qbytes / MSG_ONE_MAX)
  MsqNumMax,    \* the parameter MSQ_NUM_MAX
  Supply,       \* bound on the messages a process sends
  SenderDies,   \* may a process be killed while it sends?
  MaxBreaks     \* bound on the calls that are broken off in the middle of a message

ASSUME MsqOprAssumption ==
  /\ First \notin Sender
  /\ Chunks \subseteq Nat \ {0}
  /\ Capacity \in Nat \ {0}
  /\ MsqNumMax \in Nat
  /\ Supply \in Nat
  /\ SenderDies \in BOOLEAN
  /\ MaxBreaks \in Nat

VARIABLES
  queue,        \* type -> chunks of that type, oldest first
  sending,      \* sender -> the message MsqSnd is at and the chunks already sent
  used,         \* sender -> messages it has begun to send
  dead,         \* senders that were killed
  buf,          \* receiver -> chunks of the message MsqRcv is at
  got,          \* what the calls of MsqRcv have returned, oldest first
  breaks,       \* calls that were broken off in the middle of a message
  cut           \* senders of the messages they were at

vars == <<queue, sending, used, dead, buf, got, breaks, cut>>

Type == Sender \cup {First}
Msg == [src : Sender, no : 1..Supply, n : Chunks]
Chunk == {c \in [msg : Msg, idx : Nat] : c.idx \in 1..c.msg.n}
NoSend == <<>>

\* msg_qnum of the queue's msqid_ds.
Qnum == MapThenSumSet(LAMBDA t : Len(queue[t]), Type)

----------------------------------------------------------------------------
TypeOK ==
  /\ queue \in [Type -> Seq(Chunk)]
  /\ sending \in [Sender -> [msg : Msg, sent : Nat] \cup {NoSend}]
  /\ used \in [Sender -> 0..Supply]
  /\ dead \subseteq Sender
  /\ buf \in [Receiver -> Seq(Chunk)]
  /\ got \in Seq(Seq(Chunk))
  /\ breaks \in 0..MaxBreaks
  /\ cut \subseteq Sender

Init ==
  /\ queue = [t \in Type |-> <<>>]
  /\ sending = [s \in Sender |-> NoSend]
  /\ used = [s \in Sender |-> 0]
  /\ dead = {}
  /\ buf = [r \in Receiver |-> <<>>]
  /\ got = <<>>
  /\ breaks = 0
  /\ cut = {}

----------------------------------------------------------------------------
(* MsqSnd *)

\* The length of the queue is looked at once, before the first chunk.
Begin(s) ==
  /\ s \notin dead
  /\ sending[s] = NoSend
  /\ used[s] < Supply
  /\ used' = [used EXCEPT ![s] = @ + 1]
  /\ \/ /\ Qnum <= MsqNumMax
        /\ \E n \in Chunks :
             sending' = [sending EXCEPT ![s] =
               [msg |-> [src |-> s, no |-> used[s] + 1, n |-> n], sent |-> 0]]
     \/ /\ Qnum > MsqNumMax       \* ERR_CODE_MSQ_TOO_MANY_MSG
        /\ UNCHANGED sending
  /\ UNCHANGED <<queue, dead, buf, got, breaks, cut>>

\* Mutant: every chunk has the message type of the queue.
TypeOfChunkAlways(s, i) == First

TypeOfChunk(s, i) == IF i = 1 THEN First ELSE s

\* Mutant: the loop over the chunks runs once too often.
SendChunkTooMany(s) ==
  /\ s \notin dead
  /\ sending[s] # NoSend
  /\ Qnum < Capacity
  /\ LET m == sending[s].msg
         i == sending[s].sent + 1
         t == TypeOfChunk(s, i)
     IN /\ queue' = [queue EXCEPT ![t] = Append(@, [msg |-> m, idx |-> i])]
        /\ sending' = [sending EXCEPT ![s] =
             IF i > m.n THEN NoSend ELSE [msg |-> m, sent |-> i]]
  /\ UNCHANGED <<used, dead, buf, got, breaks, cut>>

\* msgsnd without IPC_NOWAIT waits for room, whatever the caller is.
SendChunk(s) ==
  /\ s \notin dead
  /\ sending[s] # NoSend
  /\ Qnum < Capacity
  /\ LET m == sending[s].msg
         i == sending[s].sent + 1
         t == TypeOfChunk(s, i)
     IN /\ queue' = [queue EXCEPT ![t] = Append(@, [msg |-> m, idx |-> i])]
        /\ sending' = [sending EXCEPT ![s] =
             IF i = m.n THEN NoSend ELSE [msg |-> m, sent |-> i]]
  /\ UNCHANGED <<used, dead, buf, got, breaks, cut>>

\* A signal ends msgsnd with EINTR while it waits for room: MsqSnd returns an
\* error, what it has sent stays in the queue, and the process goes on to its next
\* message, whose chunks have the same type.
Interrupted(s) ==
  /\ breaks < MaxBreaks
  /\ s \notin dead
  /\ sending[s] # NoSend
  /\ Qnum >= Capacity
  /\ sending' = [sending EXCEPT ![s] = NoSend]
  /\ breaks' = breaks + 1
  /\ cut' = IF sending[s].sent = 0 THEN cut ELSE cut \cup {s}
  /\ UNCHANGED <<queue, used, dead, buf, got>>

\* The process is killed; in the middle of a message its chunks stay in the queue.
SenderKilled(s) ==
  /\ SenderDies
  /\ s \notin dead
  /\ dead' = dead \cup {s}
  /\ UNCHANGED <<queue, sending, used, buf, got, breaks, cut>>

----------------------------------------------------------------------------
(* MsqRcv *)

\* Mutant: the loop over the chunks to receive starts at 0.
TookOneMore(r, parts) ==
  IF Len(parts) > parts[1].msg.n
  THEN /\ got' = Append(got, parts)
       /\ buf' = [buf EXCEPT ![r] = <<>>]
  ELSE /\ buf' = [buf EXCEPT ![r] = parts]
       /\ UNCHANGED got

\* What MsqRcv has after one more chunk: a message, or a part of one.
Took(r, parts) ==
  IF Len(parts) = parts[1].msg.n
  THEN /\ got' = Append(got, parts)
       /\ buf' = [buf EXCEPT ![r] = <<>>]
  ELSE /\ buf' = [buf EXCEPT ![r] = parts]
       /\ UNCHANGED got

\* msgrcv with the type of the queue.
ReceiveFirst(r) ==
  /\ buf[r] = <<>>
  /\ queue[First] # <<>>
  /\ Took(r, <<Head(queue[First])>>)
  /\ queue' = [queue EXCEPT ![First] = Tail(@)]
  /\ UNCHANGED <<sending, used, dead, breaks, cut>>

\* Mutant: the continuation is taken from whichever sender has one.
SourceAny(r) == CHOOSE s \in Sender : queue[s] # <<>> \/ \A t \in Sender : queue[t] = <<>>

Source(r) == buf[r][1].msg.src

\* msgrcv with the pid of the sender of the first chunk.
ReceiveNext(r) ==
  /\ buf[r] # <<>>
  /\ queue[Source(r)] # <<>>
  /\ Took(r, Append(buf[r], Head(queue[Source(r)])))
  /\ queue' = [queue EXCEPT ![Source(r)] = Tail(@)]
  /\ UNCHANGED <<sending, used, dead, breaks, cut>>

\* A signal ends msgrcv with EINTR, or the receiver dies and the daemon starts a
\* new one: MsqRcv is called again and knows nothing of the chunks it had.
ReceiverRestarts(r) ==
  /\ breaks < MaxBreaks
  /\ buf[r] # <<>>
  /\ breaks' = breaks + 1
  /\ cut' = cut \cup {Source(r)}
  /\ buf' = [buf EXCEPT ![r] = <<>>]
  /\ UNCHANGED <<queue, sending, used, dead, got>>

----------------------------------------------------------------------------
Next ==
  \/ \E s \in Sender : Begin(s) \/ SendChunk(s) \/ Interrupted(s) \/ SenderKilled(s)
  \/ \E r \in Receiver : ReceiveFirst(r) \/ ReceiveNext(r) \/ ReceiverRestarts(r)

\* A process that can send or receive does so in the end; nobody has to begin.
Fairness ==
  /\ \A s \in Sender : WF_vars(SendChunk(s))
  /\ \A r \in Receiver : WF_vars(ReceiveFirst(r)) /\ WF_vars(ReceiveNext(r))

Spec == Init /\ [][Next]_vars /\ Fairness

----------------------------------------------------------------------------
(* Properties *)

IsWhole(parts) ==
  /\ Len(parts) = parts[1].msg.n
  /\ \A i \in DOMAIN parts : parts[i] = [msg |-> parts[1].msg, idx |-> i]

\* Whatever dies or is interrupted, and however the senders interleave, the chunks
\* that MsqRcv puts together come from one process: a first chunk, then
\* continuations in the order in which the process sent them.  They need not be
\* of one message, see WholeUnlessCut.
Later(c, d) == c.msg.no < d.msg.no \/ (c.msg.no = d.msg.no /\ c.idx < d.idx)
OneSource ==
  \A k \in DOMAIN got : \A i \in DOMAIN got[k] :
    /\ got[k][i].msg.src = got[k][1].msg.src
    /\ got[k][i].idx = 1 <=> i = 1
    /\ i > 2 => Later(got[k][i - 1], got[k][i])

\* The next message of a process is completed with what is left of one that was
\* broken off, be it by its receiver's restart or by an interrupted msgsnd: the
\* data of two clients of a worker are mixed.  This befalls no other process:
\* what a single receiver has from a sender of whom nothing was broken off is
\* whole, whoever else was cut, killed or restarted.
WholeUnlessCut ==
  \A k \in DOMAIN got : got[k][1].msg.src \notin cut => IsWhole(got[k])

\* The queue is full and a receiver wants a chunk that its sender cannot send.
Jammed == Qnum = Capacity /\ \E r \in Receiver : buf[r] # <<>> /\ queue[Source(r)] = <<>>

Disturbed == dead # {} \/ breaks > 0 \/ Jammed

\* Neither MsqSnd nor MsqRcv waits for ever, also when a message is longer than
\* the queue: who sends one gets to its end, and who has its first chunk gets the
\* rest, unless a process dies, a call is broken off or other senders fill the
\* queue while the receiver wants the chunks of this one.
CallsReturn ==
  /\ \A s \in Sender : sending[s] # NoSend ~> sending[s] = NoSend \/ Disturbed
  /\ \A r \in Receiver : buf[r] # <<>> ~> buf[r] = <<>> \/ Disturbed

\* The queue of chunks implements the queue of messages, as long as no call was
\* broken off: a message is in transit from its first chunk's msgsnd until MsqRcv
\* has its last chunk, and is then received whole.
Mangled == "mangled"
Returned(parts) == IF IsWhole(parts) THEN parts[1].msg ELSE Mangled
MsgsOf(chunks) == [i \in DOMAIN chunks |-> chunks[i].msg]
Assembling == {r \in Receiver : buf[r] # <<>>}

Begun ==
  IF Assembling = {} THEN <<>> ELSE <<buf[CHOOSE r \in Assembling : TRUE][1].msg>>
Transit == Begun \o MsgsOf(queue[First])
Received == [k \in DOMAIN got |-> Returned(got[k])]

Queue == INSTANCE MessageQueue WITH transit <- Transit, received <- Received
QueueSpec == Queue!Init /\ [][breaks' = 0 => Queue!Next]_(Queue!vars)
=============================================================================
