---------------------------- MODULE MsqOprProofs ----------------------------
(***************************************************************************)
(* Proofs about MsqSnd and MsqRcv for any number of senders, any lengths of *)
(* messages and of the queue, whoever is killed and when.                  *)
(*                                                                         *)
(* The inductive invariant orders the continuations of one sender: those a *)
(* receiver holds come before those in the queue, and both before what the *)
(* sender is at (Behind).  For a single receiver, and as long as no call   *)
(* was broken off, Stream says more: nothing that MsqRcv will ask for is   *)
(* missing from the queue, and nothing else is in it; the queue of chunks  *)
(* then implements the queue of messages.                                  *)
(***************************************************************************)
EXTENDS MsqOpr, SequenceTheorems, TLAPS

\* A continuation that process s has sent already.
Behind(c, s) ==
  /\ c.msg.src = s /\ c.idx # 1
  /\ c.msg.no <= used[s]
  /\ sending[s] # NoSend /\ c.msg.no = sending[s].msg.no => c.idx <= sending[s].sent

\* What MsqSnd is at is the last message begun, and some of it is not sent yet.
Sends ==
  \A s \in Sender : sending[s] # NoSend =>
    /\ sending[s].msg.src = s /\ sending[s].msg.no = used[s]
    /\ sending[s].sent < sending[s].msg.n

\* In each queue, the first chunks, or the continuations of a sender in order.
Queued ==
  /\ \A i \in DOMAIN queue[First] : queue[First][i].idx = 1
  /\ \A s \in Sender : \A i \in DOMAIN queue[s] :
       /\ Behind(queue[s][i], s)
       /\ \A j \in DOMAIN queue[s] : i < j => Later(queue[s][i], queue[s][j])

\* A message or a part of one: a first chunk, then continuations of its sender
\* in order.
Joined(parts) ==
  \A i \in DOMAIN parts :
    /\ parts[i].msg.src = parts[1].msg.src
    /\ parts[i].idx = 1 <=> i = 1
    /\ i > 2 => Later(parts[i - 1], parts[i])

\* What a receiver holds was sent, and comes before what is still queued.
Held(r) ==
  /\ Joined(buf[r])
  /\ \A i \in DOMAIN buf[r] : i > 1 =>
       /\ Behind(buf[r][i], Source(r))
       /\ \A j \in DOMAIN queue[Source(r)] : Later(buf[r][i], queue[Source(r)][j])

Types ==
  /\ queue \in [Type -> Seq(Chunk)]
  /\ sending \in [Sender -> [msg : Msg, sent : Nat] \cup {NoSend}]
  /\ used \in [Sender -> 0..Supply]
  /\ dead \subseteq Sender
  /\ buf \in [Receiver -> Seq(Chunk)]
  /\ got \in Seq(Seq(Chunk))
  /\ breaks \in 0..MaxBreaks
  /\ cut \subseteq Sender

IInv ==
  /\ Types /\ Sends /\ Queued
  /\ \A r \in Receiver : Held(r)
  /\ \A k \in DOMAIN got : Joined(got[k])

----------------------------------------------------------------------------
(* Sequences *)

LEMMA AppendIs ==
  ASSUME NEW S, NEW q \in Seq(S), NEW e \in S
  PROVE  /\ Append(q, e) \in Seq(S) /\ Len(q) \in Nat /\ Len(Append(q, e)) = Len(q) + 1
         /\ DOMAIN q = 1..Len(q) /\ DOMAIN Append(q, e) = 1..(Len(q) + 1)
         /\ \A i \in DOMAIN Append(q, e) :
              \/ i \in DOMAIN q /\ Append(q, e)[i] = q[i]
              \/ i = Len(q) + 1 /\ Append(q, e)[i] = e
OBVIOUS

\* The elements of a sequence and the one behind them.
LEMMA Appended ==
  ASSUME NEW S, NEW q \in Seq(S), NEW e \in S, NEW a, a = Append(q, e), NEW n, n = Len(q)
  PROVE  /\ a \in Seq(S) /\ Len(a) = n + 1 /\ DOMAIN a = 1..(n + 1)
         /\ \A i \in DOMAIN a : (i \in DOMAIN q /\ a[i] = q[i]) \/ (i = n + 1 /\ a[i] = e)
<1>1. a \in Seq(S) /\ DOMAIN a = 1..(n + 1)
      /\ \A i \in DOMAIN a : (i \in DOMAIN q /\ a[i] = q[i]) \/ (i = n + 1 /\ a[i] = e)
  BY AppendIs
<1>2. Len(a) = n + 1
  BY AppendIs
<1>3. QED
  BY <1>1, <1>2

\* The head of a sequence and what is left.
LEMMA TailIs ==
  ASSUME NEW S, NEW q \in Seq(S), q # <<>>
  PROVE  /\ Head(q) \in S /\ Head(q) = q[1] /\ 1 \in DOMAIN q
         /\ Tail(q) \in Seq(S) /\ DOMAIN q \subseteq Nat
         /\ \A i \in DOMAIN Tail(q) : i \in Nat /\ i + 1 \in DOMAIN q /\ 1 < i + 1 /\ Tail(q)[i] = q[i + 1]
<1>1. Len(q) \in Nat /\ Len(q) > 0 /\ DOMAIN q = 1..Len(q)
  OBVIOUS
<1>2. Tail(q) \in Seq(S) /\ Len(Tail(q)) = Len(q) - 1 /\ DOMAIN Tail(q) = 1..(Len(q) - 1)
  BY <1>1
<1>3. QED
  BY <1>1, <1>2

\* The last element of a sequence.
LEMMA NotEmpty ==
  ASSUME NEW S, NEW q \in Seq(S), q # <<>>
  PROVE  /\ Len(q) \in Nat /\ Len(q) \in DOMAIN q /\ DOMAIN q = 1..Len(q)
         /\ (Len(q) = 1 \/ Len(q) > 1)
<1>1. Len(q) \in Nat /\ Len(q) > 0 /\ DOMAIN q = 1..Len(q)
  OBVIOUS
<1>2. QED
  BY <1>1

\* The fields of a chunk.
LEMMA ChunkIs ==
  ASSUME NEW c \in Chunk
  PROVE  /\ c.msg \in Msg /\ c.msg.src \in Sender /\ c.msg.no \in Nat /\ c.msg.n \in Nat
         /\ c.idx \in Nat
<1>1. c.msg \in Msg /\ c.idx \in Nat
  BY DEF Chunk
<1>2. c.msg.src \in Sender /\ c.msg.no \in 1..Supply /\ c.msg.n \in Chunks
  BY <1>1 DEF Msg
<1>3. Chunks \subseteq Nat /\ Supply \in Nat
  BY MsqOprAssumption
<1>4. ASSUME NEW k \in 1..Supply PROVE k \in Nat
  BY <1>3
<1>5. c.msg.no \in Nat
  BY <1>2, <1>4
<1>6. c.msg.n \in Nat
  BY <1>2, <1>3
<1>7. QED
  BY <1>1, <1>2, <1>5, <1>6

\* A step that moves no chunk keeps the invariant if it keeps what it says of the
\* senders.
LEMMA UnlessMoved ==
  ASSUME IInv, UNCHANGED <<queue, buf, got>>, Types', Sends',
         \A c \in Chunk, t \in Sender : Behind(c, t) => Behind(c, t)'
  PROVE  IInv'
<1>1. Queued'
  <2>1. \A t \in Sender : \A i \in DOMAIN queue[t] : queue[t][i] \in Chunk
    BY DEF IInv, Types, Type
  <2>2. QED
    BY <2>1 DEF IInv, Queued
<1>2. ASSUME NEW r \in Receiver PROVE Held(r)'
  <2>1. \A i \in DOMAIN buf[r] : buf[r][i] \in Chunk
    BY DEF IInv, Types
  <2>2. \A i \in DOMAIN buf[r] : i > 1 => Source(r) \in Sender
    BY <2>1, ChunkIs DEF IInv, Held, Behind, Source
  <2>3. Source(r)' = Source(r)
    BY DEF Source
  <2>4. QED
    BY <2>1, <2>2, <2>3 DEF IInv, Held
<1>3. QED
  BY <1>1, <1>2 DEF IInv

----------------------------------------------------------------------------
(* MsqSnd *)

LEMMA BeginKeeps ==
  ASSUME IInv, NEW s \in Sender, Begin(s)
  PROVE  IInv'
<1>1. /\ UNCHANGED <<queue, dead, buf, got, breaks, cut>> /\ sending[s] = NoSend
      /\ used' = [used EXCEPT ![s] = @ + 1] /\ used[s] < Supply
  BY DEF Begin
<1>2. used' \in [Sender -> 0..Supply] /\ used[s] + 1 \in 1..Supply /\ used'[s] = used[s] + 1
      /\ used[s] \in Nat /\ \A t \in Sender : t # s => used'[t] = used[t]
  BY <1>1, MsqOprAssumption DEF IInv, Types
<1>3. \/ UNCHANGED sending
      \/ \E n \in Chunks : sending' = [sending EXCEPT ![s] =
               [msg |-> [src |-> s, no |-> used[s] + 1, n |-> n], sent |-> 0]]
  BY DEF Begin
<1>4. /\ sending' \in [Sender -> [msg : Msg, sent : Nat] \cup {NoSend}]
      /\ \A t \in Sender : t # s => sending'[t] = sending[t]
      /\ sending'[s] # NoSend => /\ sending'[s].msg.src = s /\ sending'[s].msg.no = used[s] + 1
                                /\ sending'[s].sent < sending'[s].msg.n
  <2>1. CASE UNCHANGED sending
    BY <1>1, <2>1 DEF IInv, Types
  <2>2. ASSUME NEW n \in Chunks,
               sending' = [sending EXCEPT ![s] =
                 [msg |-> [src |-> s, no |-> used[s] + 1, n |-> n], sent |-> 0]]
        PROVE  /\ sending' \in [Sender -> [msg : Msg, sent : Nat] \cup {NoSend}]
               /\ \A t \in Sender : t # s => sending'[t] = sending[t]
               /\ sending'[s].msg.src = s /\ sending'[s].msg.no = used[s] + 1
               /\ sending'[s].sent < sending'[s].msg.n
    <3> DEFINE x == [msg |-> [src |-> s, no |-> used[s] + 1, n |-> n], sent |-> 0]
    <3>1. [src |-> s, no |-> used[s] + 1, n |-> n] \in Msg
      BY <1>2 DEF Msg
    <3>2. n \in Nat /\ 0 < n
      BY MsqOprAssumption
    <3>3. x \in [msg : Msg, sent : Nat] \cup {NoSend} /\ x.msg.src = s /\ x.msg.no = used[s] + 1
          /\ x.sent < x.msg.n
      BY <3>1, <3>2
    <3>4. sending' = [sending EXCEPT ![s] = x]
      BY <2>2
    <3> HIDE DEF x
    <3>5. QED
      BY <3>3, <3>4 DEF IInv, Types
  <2>3. QED
    BY <1>3, <2>1, <2>2
<1>5. \A c \in Chunk, t \in Sender : Behind(c, t) => Behind(c, t)'
  <2> SUFFICES ASSUME NEW c \in Chunk, NEW t \in Sender, Behind(c, t) PROVE Behind(c, t)'
    OBVIOUS
  <2>1. c.msg.no \in Nat /\ c.msg.no <= used[t]
    BY ChunkIs DEF Behind
  <2>2. CASE t = s
    BY <1>2, <1>4, <2>1, <2>2 DEF Behind
  <2>3. CASE t # s
    BY <1>2, <1>4, <2>3 DEF Behind
  <2>4. QED
    BY <2>2, <2>3
<1>6. QED
  BY <1>1, <1>2, <1>4, <1>5, UnlessMoved DEF IInv, Types, Sends

\* A chunk that is sent goes behind those of its sender that are there.
LEMMA SendChunkKeeps ==
  ASSUME IInv, NEW s \in Sender, SendChunk(s)
  PROVE  IInv'
<1>0. PICK m, i : m = sending[s].msg /\ i = sending[s].sent + 1
  OBVIOUS
<1> DEFINE c == [msg |-> m, idx |-> i]
           t == TypeOfChunk(s, i)
<1>1. /\ UNCHANGED <<used, dead, buf, got, breaks, cut>> /\ sending[s] # NoSend
      /\ queue' = [queue EXCEPT ![t] = Append(@, c)]
      /\ sending' = [sending EXCEPT ![s] = IF i = m.n THEN NoSend ELSE [msg |-> m, sent |-> i]]
  BY <1>0 DEF SendChunk
<1>2. sending[s] \in [msg : Msg, sent : Nat] /\ m.src = s /\ m.no = used[s] /\ sending[s].sent < m.n
  BY <1>0, <1>1 DEF IInv, Types, Sends
<1>3. m \in Msg /\ m.n \in Nat /\ used[s] \in Nat /\ sending[s].sent \in Nat
  <2>1. m \in Msg /\ sending[s].sent \in Nat
    BY <1>0, <1>2
  <2>2. m.n \in Chunks
    BY <2>1 DEF Msg
  <2>3. m.n \in Nat
    BY <2>2, MsqOprAssumption
  <2>4. Supply \in Nat /\ used[s] \in 0..Supply
    BY MsqOprAssumption DEF IInv, Types
  <2>5. used[s] \in Nat
    BY <2>4
  <2>6. QED
    BY <2>1, <2>3, <2>5
<1>4. i \in Nat /\ i \in 1..m.n /\ i = sending[s].sent + 1
  BY <1>0, <1>2, <1>3
<1>5. c \in Chunk /\ c.msg = m /\ c.idx = i
  BY <1>3, <1>4 DEF Chunk
<1>6. t \in Type /\ (t = First <=> i = 1) /\ (t # First => t = s)
  BY MsqOprAssumption DEF TypeOfChunk, Type
<1> HIDE DEF c, t

\* The sender.
<1>7. /\ sending' \in [Sender -> [msg : Msg, sent : Nat] \cup {NoSend}]
      /\ \A u \in Sender : u # s => sending'[u] = sending[u]
      /\ sending'[s] # NoSend => /\ sending'[s].msg = m /\ sending'[s].sent = i
                                /\ i # m.n
  <2>1. [msg |-> m, sent |-> i] \in [msg : Msg, sent : Nat]
    BY <1>3, <1>4
  <2>2. QED
    BY <1>1, <2>1 DEF IInv, Types
<1>8. Sends'
  <2> SUFFICES ASSUME NEW u \in Sender, sending'[u] # NoSend
               PROVE  /\ sending'[u].msg.src = u /\ sending'[u].msg.no = used[u]
                      /\ sending'[u].sent < sending'[u].msg.n
    BY <1>1 DEF Sends
  <2>1. CASE u = s
    BY <1>2, <1>3, <1>4, <1>7, <2>1
  <2>2. CASE u # s
    BY <1>7, <2>2 DEF IInv, Sends
  <2>3. QED
    BY <2>1, <2>2
<1>9. ASSUME NEW d \in Chunk, NEW u \in Sender, Behind(d, u)
      PROVE  Behind(d, u)' /\ (u = s => Later(d, c))
  <2>1. d.msg.no \in Nat /\ d.idx \in Nat
    BY ChunkIs
  <2>2. CASE u = s
    <3>1. d.msg.no <= used[s] /\ (d.msg.no = m.no => d.idx <= sending[s].sent)
      BY <1>0, <1>1, <1>9, <2>2 DEF Behind
    <3>2. m.no = used[s]
      BY <1>2
    <3>3. Later(d, c)
      BY <1>3, <1>4, <1>5, <2>1, <3>1, <3>2 DEF Later
    <3>4. sending'[s] # NoSend /\ d.msg.no = sending'[s].msg.no => d.idx <= sending'[s].sent
      BY <1>3, <1>4, <1>7, <2>1, <3>1
    <3>5. QED
      BY <1>1, <1>9, <2>2, <3>3, <3>4 DEF Behind
  <2>3. CASE u # s
    BY <1>1, <1>7, <1>9, <2>3 DEF Behind
  <2>4. QED
    BY <2>2, <2>3
<1>10. i # 1 => Behind(c, s)'
  <2>1. c.msg.src = s /\ c.msg.no = used[s] /\ used[s] <= used[s]
    BY <1>2, <1>3, <1>5
  <2>2. sending'[s] # NoSend => c.idx <= sending'[s].sent
    BY <1>4, <1>5, <1>7
  <2>3. QED
    BY <1>1, <1>5, <2>1, <2>2 DEF Behind

\* The queue.
<1>11. /\ queue' \in [Type -> Seq(Chunk)]
       /\ \A u \in Type : u # t => queue'[u] = queue[u]
       /\ \A k \in DOMAIN queue'[t] :
            \/ k \in DOMAIN queue[t] /\ queue'[t][k] = queue[t][k]
            \/ /\ k = Len(queue[t]) + 1 /\ queue'[t][k] = c
       /\ DOMAIN queue[t] = 1..Len(queue[t]) /\ Len(queue[t]) \in Nat
  <2>1. queue[t] \in Seq(Chunk) /\ queue'[t] = Append(queue[t], c)
    BY <1>1, <1>6 DEF IInv, Types
  <2>2. Append(queue[t], c) \in Seq(Chunk)
    BY <1>5, <2>1, AppendIs
  <2>3. \A k \in DOMAIN queue'[t] :
            \/ k \in DOMAIN queue[t] /\ queue'[t][k] = queue[t][k]
            \/ /\ k = Len(queue[t]) + 1 /\ queue'[t][k] = c
    BY <1>5, <2>1, AppendIs
  <2>4. QED
    BY <1>1, <1>6, <2>1, <2>2, <2>3 DEF IInv, Types
<1>12. Types'
  BY <1>1, <1>7, <1>11 DEF IInv, Types
<1>13. \A u \in Sender : \A k \in DOMAIN queue[u] : queue[u][k] \in Chunk /\ Behind(queue[u][k], u)
  BY DEF IInv, Types, Type, Queued
<1>14. Queued'
  <2>1. \A k \in DOMAIN queue'[First] : queue'[First][k].idx = 1
    <3>1. First \in Type
      BY DEF Type
    <3>2. QED
      BY <1>5, <1>6, <1>11, <3>1 DEF IInv, Queued
  <2>2. ASSUME NEW u \in Sender, NEW k \in DOMAIN queue'[u], NEW d, d = queue'[u][k]
        PROVE  Behind(d, u)'
    <3>1. u \in Type /\ u # First
      BY MsqOprAssumption DEF Type
    <3>2. CASE d = c /\ u = s /\ i # 1
      BY <1>10, <3>2
    <3>3. CASE k \in DOMAIN queue[u] /\ d = queue[u][k]
      BY <1>9, <1>13, <3>3
    <3>4. QED
      BY <1>6, <1>11, <2>2, <3>1, <3>2, <3>3
  <2>3. ASSUME NEW u \in Sender, NEW k \in DOMAIN queue'[u], NEW l \in DOMAIN queue'[u], k < l
        PROVE  Later(queue'[u][k], queue'[u][l])
    <3>1. u \in Type /\ u # First
      BY MsqOprAssumption DEF Type
    <3>2. CASE u # t
      BY <1>11, <2>3, <3>1, <3>2 DEF IInv, Queued
    <3>3. CASE u = t
      <4>1. k \in DOMAIN queue[t] /\ queue'[t][k] = queue[t][k]
        BY <1>11, <2>3, <3>3
      <4>2. CASE l \in DOMAIN queue[t] /\ queue'[t][l] = queue[t][l]
        BY <2>3, <3>3, <4>1, <4>2 DEF IInv, Queued
      <4>3. CASE queue'[t][l] = c
        BY <1>6, <1>9, <1>13, <3>1, <3>3, <4>1, <4>3
      <4>4. QED
        BY <1>11, <3>3, <4>2, <4>3
    <3>4. QED
      BY <3>2, <3>3
  <2>4. QED
    BY <2>1, <2>2, <2>3 DEF Queued

\* The receivers.
<1>15. ASSUME NEW r \in Receiver PROVE Held(r)'
  <2>1. Source(r)' = Source(r) /\ buf'[r] = buf[r]
    BY <1>1 DEF Source
  <2>2. ASSUME NEW k \in DOMAIN buf[r], k > 1
        PROVE  /\ Behind(buf[r][k], Source(r))'
               /\ \A l \in DOMAIN queue'[Source(r)] : Later(buf[r][k], queue'[Source(r)][l])
    <3>1. buf[r][k] \in Chunk /\ Behind(buf[r][k], Source(r))
          /\ \A l \in DOMAIN queue[Source(r)] : Later(buf[r][k], queue[Source(r)][l])
      BY <2>2 DEF IInv, Types, Held
    <3>2. Source(r) \in Sender /\ Source(r) \in Type /\ Source(r) # First
      BY <3>1, ChunkIs, MsqOprAssumption DEF Behind, Type
    <3>3. Behind(buf[r][k], Source(r))' /\ (Source(r) = s => Later(buf[r][k], c))
      <4>1. Behind(buf[r][k], Source(r)) => Behind(buf[r][k], Source(r))'
        BY <1>1, <1>9, <2>1, <3>1, <3>2 DEF Behind
      <4>2. QED
        BY <1>9, <3>1, <3>2, <4>1
    <3>4. ASSUME NEW l \in DOMAIN queue'[Source(r)] PROVE Later(buf[r][k], queue'[Source(r)][l])
      BY <1>6, <1>11, <3>1, <3>2, <3>3, <3>4
    <3>5. QED
      BY <3>3, <3>4
  <2>3. Joined(buf[r])
    BY DEF IInv, Held
  <2>4. QED
    BY <2>1, <2>2, <2>3 DEF Held
<1>16. QED
  BY <1>1, <1>8, <1>12, <1>14, <1>15 DEF IInv

\* What a sender has sent of a message it gives up is behind the next one.
LEMMA InterruptedKeeps ==
  ASSUME IInv, NEW s \in Sender, Interrupted(s)
  PROVE  IInv'
<1>1. /\ UNCHANGED <<queue, used, dead, buf, got>> /\ breaks < MaxBreaks
      /\ breaks' = breaks + 1 /\ sending' = [sending EXCEPT ![s] = NoSend]
      /\ cut' \subseteq Sender
  BY DEF Interrupted, IInv, Types
<1>2. breaks' \in 0..MaxBreaks
  BY <1>1, MsqOprAssumption DEF IInv, Types
<1>3. \A t \in Sender : sending'[t] = NoSend \/ sending'[t] = sending[t]
  BY <1>1 DEF IInv, Types
<1>4. Types' /\ Sends'
  BY <1>1, <1>2, <1>3 DEF IInv, Types, Sends
<1>5. \A c \in Chunk, t \in Sender : Behind(c, t) => Behind(c, t)'
  BY <1>1, <1>3 DEF Behind
<1>6. QED
  BY <1>1, <1>4, <1>5, UnlessMoved

\* A sender that is killed leaves its chunks in the queue.
LEMMA SenderKilledKeeps ==
  ASSUME IInv, NEW s \in Sender, SenderKilled(s)
  PROVE  IInv'
<1>1. UNCHANGED <<queue, sending, used, buf, got, breaks, cut>> /\ dead' \subseteq Sender
  BY DEF SenderKilled, IInv, Types
<1>2. Types' /\ Sends'
  BY <1>1 DEF IInv, Types, Sends
<1>3. \A c \in Chunk, t \in Sender : Behind(c, t) => Behind(c, t)'
  BY <1>1 DEF Behind
<1>4. QED
  BY <1>1, <1>2, <1>3, UnlessMoved

----------------------------------------------------------------------------
(* MsqRcv *)

\* Taking the oldest chunk of a queue keeps what is said of the queues.
LEMMA TakenFrom ==
  ASSUME IInv, NEW t \in Type, queue[t] # <<>>,
         queue' = [queue EXCEPT ![t] = Tail(@)], UNCHANGED <<sending, used>>
  PROVE  /\ queue' \in [Type -> Seq(Chunk)] /\ Queued' /\ Sends'
         /\ \A u \in Type : u # t => queue'[u] = queue[u]
         /\ \A i \in DOMAIN queue'[t] : /\ i \in Nat /\ i + 1 \in DOMAIN queue[t] /\ 1 < i + 1
                                       /\ queue'[t][i] = queue[t][i + 1]
<1>1. queue[t] \in Seq(Chunk) /\ queue'[t] = Tail(queue[t]) /\ queue' \in [Type -> Seq(Chunk)]
      /\ \A u \in Type : u # t => queue'[u] = queue[u]
  <2>1. queue[t] \in Seq(Chunk)
    BY DEF IInv, Types
  <2>2. Tail(queue[t]) \in Seq(Chunk)
    BY <2>1, TailIs
  <2>3. QED
    BY <2>1, <2>2 DEF IInv, Types
<1>2. \A i \in DOMAIN queue'[t] : /\ i \in Nat /\ i + 1 \in DOMAIN queue[t] /\ 1 < i + 1
                                  /\ queue'[t][i] = queue[t][i + 1]
  BY <1>1, TailIs
<1>3. \A c, s : Behind(c, s)' <=> Behind(c, s)
  BY DEF Behind
<1>4. Sends'
  BY DEF IInv, Sends
<1>5. \A i \in DOMAIN queue'[First] : queue'[First][i].idx = 1
  <2>1. First \in Type
    BY DEF Type
  <2>2. QED
    BY <1>1, <1>2, <2>1 DEF IInv, Queued
<1>6. ASSUME NEW s \in Sender
      PROVE  \A i \in DOMAIN queue'[s] :
             /\ Behind(queue'[s][i], s)
             /\ \A j \in DOMAIN queue'[s] : i < j => Later(queue'[s][i], queue'[s][j])
  <2>1. \A i \in DOMAIN queue[s] :
             /\ Behind(queue[s][i], s)
             /\ \A j \in DOMAIN queue[s] : i < j => Later(queue[s][i], queue[s][j])
    BY DEF IInv, Queued
  <2>2. CASE s # t
    BY <1>1, <2>1, <2>2 DEF Type
  <2>3. CASE s = t
    <3>1. ASSUME NEW i \in DOMAIN queue'[s], NEW j \in DOMAIN queue'[s], i < j
          PROVE  Later(queue'[s][i], queue'[s][j])
      <4>1. i + 1 < j + 1
        BY <1>2, <2>3, <3>1
      <4>2. QED
        BY <1>2, <2>1, <2>3, <3>1, <4>1
    <3>2. QED
      BY <1>2, <2>1, <2>3, <3>1
  <2>4. QED
    BY <2>2, <2>3
<1>7. Queued'
  <2>1. ASSUME NEW s \in Sender, NEW i \in DOMAIN queue'[s] PROVE Behind(queue[s][i], s)'
    BY <1>3, <1>6, <2>1
  <2>2. QED
    BY <1>5, <1>6, <2>1 DEF Queued
<1>8. QED
  BY <1>1, <1>2, <1>4, <1>7

\* A message, or a part of one, that was put together out of the chunk taken.
LEMMA TookKeeps ==
  ASSUME IInv, NEW r \in Receiver, NEW t \in Type, queue[t] # <<>>,
         NEW parts \in Seq(Chunk), Joined(parts), Took(r, parts),
         queue' = [queue EXCEPT ![t] = Tail(@)], UNCHANGED <<sending, used, dead, breaks, cut>>,
         \A i \in DOMAIN parts : i > 1 =>
           /\ Behind(parts[i], parts[1].msg.src)
           /\ \A j \in DOMAIN queue'[parts[1].msg.src] :
                Later(parts[i], queue'[parts[1].msg.src][j])
  PROVE  IInv'
<1>1. /\ queue' \in [Type -> Seq(Chunk)] /\ Queued' /\ Sends'
  BY TakenFrom
<1>2. /\ \A q \in Receiver : q # r => buf'[q] = buf[q]
      /\ buf'[r] = parts \/ buf'[r] = <<>>
      /\ buf' \in [Receiver -> Seq(Chunk)]
  <2>1. <<>> \in Seq(Chunk)
    OBVIOUS
  <2>2. QED
    BY <2>1 DEF Took, IInv, Types
<1>3. got' \in Seq(Seq(Chunk)) /\ \A k \in DOMAIN got' : Joined(got'[k])
  <2>1. got \in Seq(Seq(Chunk)) /\ \A k \in DOMAIN got : Joined(got[k])
    BY DEF IInv, Types
  <2>2. CASE got' = got
    BY <2>1, <2>2
  <2>3. CASE got' = Append(got, parts)
    <3>1. /\ got' \in Seq(Seq(Chunk))
          /\ \A k \in DOMAIN got' : (k \in DOMAIN got /\ got'[k] = got[k]) \/ got'[k] = parts
      BY <2>1, <2>3, AppendIs
    <3>2. QED
      BY <2>1, <3>1
  <2>4. QED
    BY <2>2, <2>3 DEF Took
<1>4. Types'
  BY <1>1, <1>2, <1>3 DEF IInv, Types
<1>5. ASSUME NEW q \in Receiver PROVE Held(q)'
  <2>1. CASE buf'[q] = <<>>
    BY <2>1 DEF Held, Joined
  <2>2. CASE q = r /\ buf'[r] = parts
    <3>1. Source(q)' = parts[1].msg.src
      BY <2>2 DEF Source
    <3>2. ASSUME NEW i \in DOMAIN parts, i > 1 PROVE Behind(buf[q][i], Source(q))'
      BY <2>2, <3>1, <3>2 DEF Behind
    <3>3. QED
      BY <2>2, <3>1, <3>2 DEF Held
  <2>3. CASE buf'[q] = buf[q]
    <3>1. Source(q)' = Source(q)
      BY <2>3 DEF Source
    <3>2. ASSUME NEW i \in DOMAIN buf[q], i > 1
          PROVE  /\ Behind(buf[q][i], Source(q))'
                 /\ \A j \in DOMAIN queue'[Source(q)] : Later(buf[q][i], queue'[Source(q)][j])
      <4>1. /\ Behind(buf[q][i], Source(q)) /\ buf[q][i] \in Chunk
            /\ \A j \in DOMAIN queue[Source(q)] : Later(buf[q][i], queue[Source(q)][j])
        BY <3>2 DEF IInv, Held, Types
      <4>2. Source(q) \in Type
        BY <4>1, ChunkIs DEF Behind, Type
      <4>3. \A j \in DOMAIN queue'[Source(q)] : \E l \in DOMAIN queue[Source(q)] :
              queue'[Source(q)][j] = queue[Source(q)][l]
        <5>1. CASE Source(q) # t
          BY <4>2, <5>1, TakenFrom
        <5>2. CASE Source(q) = t
          <6>1. \A j \in DOMAIN queue'[t] : j + 1 \in DOMAIN queue[t] /\ queue'[t][j] = queue[t][j + 1]
            BY TakenFrom
          <6>2. QED
            BY <5>2, <6>1
        <5>3. QED
          BY <5>1, <5>2
      <4>4. Behind(buf[q][i], Source(q))'
        BY <2>3, <3>1, <4>1 DEF Behind
      <4>5. QED
        BY <4>1, <4>3, <4>4
    <3>3. Joined(buf[q])
      BY DEF IInv, Held
    <3>4. QED
      BY <2>3, <3>1, <3>2, <3>3 DEF Held
  <2>4. QED
    BY <1>2, <2>1, <2>2, <2>3
<1>6. QED
  BY <1>1, <1>3, <1>4, <1>5 DEF IInv

\* MsqRcv takes a first chunk and begins a message.
LEMMA ReceiveFirstKeeps ==
  ASSUME IInv, NEW r \in Receiver, ReceiveFirst(r)
  PROVE  IInv'
<1>1. First \in Type /\ queue[First] \in Seq(Chunk) /\ queue[First] # <<>>
  BY DEF ReceiveFirst, IInv, Types, Type
<1>2. Head(queue[First]) \in Chunk /\ Head(queue[First]).idx = 1
  BY <1>1, TailIs DEF IInv, Queued
<1>3. PICK parts \in Seq(Chunk) : parts = <<Head(queue[First])>> /\ Took(r, parts)
  <2>1. <<Head(queue[First])>> \in Seq(Chunk)
    BY <1>2
  <2>2. Took(r, <<Head(queue[First])>>)
    BY DEF ReceiveFirst
  <2>3. QED
    BY <2>1, <2>2
<1>4. DOMAIN parts = {1} /\ parts[1].idx = 1
  BY <1>2, <1>3
<1>5. Joined(parts) /\ \A i \in DOMAIN parts : ~ (i > 1)
  BY <1>4 DEF Joined
<1>6. queue' = [queue EXCEPT ![First] = Tail(@)] /\ UNCHANGED <<sending, used, dead, breaks, cut>>
  BY DEF ReceiveFirst
<1>7. QED
  BY <1>1, <1>3, <1>5, <1>6, TookKeeps

\* MsqRcv takes a continuation of the sender that it reads from.
LEMMA ReceiveNextKeeps ==
  ASSUME IInv, NEW r \in Receiver, ReceiveNext(r)
  PROVE  IInv'
<1>1. PICK s, q, c : s = Source(r) /\ q = buf[r] /\ c = Head(queue[s])
  OBVIOUS
<1>2. q \in Seq(Chunk) /\ q # <<>> /\ Held(r)
  BY <1>1 DEF ReceiveNext, IInv, Types
<1>3. q[1] \in Chunk /\ s = q[1].msg.src /\ 1 \in DOMAIN q
  BY <1>1, <1>2 DEF Source
<1>4. s \in Sender /\ s \in Type /\ queue[s] \in Seq(Chunk) /\ queue[s] # <<>>
  BY <1>1, <1>3, ChunkIs DEF ReceiveNext, IInv, Types, Type
<1>5. c \in Chunk /\ 1 \in DOMAIN queue[s] /\ c = queue[s][1]
  BY <1>1, <1>4, TailIs
<1>6. Behind(c, s)
  BY <1>4, <1>5 DEF IInv, Queued
<1>7. PICK parts \in Seq(Chunk) : parts = Append(q, c) /\ Took(r, parts)
  BY <1>1, <1>2, <1>5, AppendIs DEF ReceiveNext
<1>8. /\ Len(q) \in Nat /\ DOMAIN q = 1..Len(q) /\ DOMAIN parts = 1..(Len(q) + 1)
      /\ \A i \in DOMAIN parts : \/ i \in DOMAIN q /\ parts[i] = q[i]
                                 \/ i = Len(q) + 1 /\ parts[i] = c
  BY <1>2, <1>5, <1>7, AppendIs
<1>9. parts[1] = q[1] /\ Len(q) >= 1
  BY <1>3, <1>8
<1>10. queue' = [queue EXCEPT ![s] = Tail(@)] /\ UNCHANGED <<sending, used, dead, breaks, cut>>
  BY <1>1 DEF ReceiveNext
<1>11. \A i \in DOMAIN q : i > 1 => /\ Behind(q[i], s) /\ Later(q[i], c)
                                    /\ \A j \in DOMAIN queue[s] : Later(q[i], queue[s][j])
  BY <1>1, <1>2, <1>5 DEF Held
<1>12. Joined(parts)
  <2> SUFFICES ASSUME NEW i \in DOMAIN parts
               PROVE  /\ parts[i].msg.src = parts[1].msg.src
                      /\ parts[i].idx = 1 <=> i = 1
                      /\ i > 2 => Later(parts[i - 1], parts[i])
    BY DEF Joined
  <2>1. CASE i \in DOMAIN q /\ parts[i] = q[i]
    <3>1. i > 2 => i - 1 \in DOMAIN q /\ parts[i - 1] = q[i - 1]
      BY <1>8, <2>1
    <3>2. QED
      BY <1>1, <1>2, <1>9, <2>1, <3>1 DEF Held, Joined
  <2>2. CASE i = Len(q) + 1 /\ parts[i] = c
    <3>1. c.msg.src = parts[1].msg.src /\ c.idx # 1 /\ i # 1
      BY <1>3, <1>6, <1>8, <1>9, <2>2 DEF Behind
    <3>2. i > 2 => i - 1 \in DOMAIN q /\ i - 1 > 1 /\ parts[i - 1] = q[i - 1]
      BY <1>8, <2>2
    <3>3. QED
      BY <1>11, <2>2, <3>1, <3>2
  <2>3. QED
    BY <1>8, <2>1, <2>2
<1>13. ASSUME NEW i \in DOMAIN parts, i > 1, NEW u, u = parts[1].msg.src
       PROVE  Behind(parts[i], u) /\ \A j \in DOMAIN queue'[u] : Later(parts[i], queue'[u][j])
  <2>1. u = s
    BY <1>3, <1>9, <1>13
  <2>2. \A j \in DOMAIN queue'[s] : /\ j + 1 \in DOMAIN queue[s] /\ 1 < j + 1
                                    /\ queue'[s][j] = queue[s][j + 1]
    BY <1>4, <1>10, TakenFrom
  <2>3. CASE i \in DOMAIN q /\ parts[i] = q[i]
    BY <1>11, <1>13, <2>1, <2>2, <2>3
  <2>4. CASE i = Len(q) + 1 /\ parts[i] = c
    BY <1>4, <1>5, <1>6, <2>1, <2>2, <2>4 DEF IInv, Queued
  <2>5. QED
    BY <1>8, <2>3, <2>4
<1>14. QED
  BY <1>4, <1>7, <1>10, <1>12, <1>13, TookKeeps

\* A new receiver knows nothing of what its predecessor held.
LEMMA ReceiverRestartsKeeps ==
  ASSUME IInv, NEW r \in Receiver, ReceiverRestarts(r)
  PROVE  IInv'
<1>1. /\ UNCHANGED <<queue, sending, used, dead, got>> /\ breaks < MaxBreaks
      /\ breaks' = breaks + 1 /\ buf' = [buf EXCEPT ![r] = <<>>]
  BY DEF ReceiverRestarts
<1>2. breaks' \in 0..MaxBreaks /\ cut' \subseteq Sender
  <2>1. buf[r] \in Seq(Chunk) /\ buf[r] # <<>>
    BY DEF ReceiverRestarts, IInv, Types
  <2>2. buf[r][1] \in Chunk
    BY <2>1
  <2>3. Source(r) \in Sender
    BY <2>2, ChunkIs DEF Source, Msg
  <2>4. cut' \subseteq Sender
    BY <2>3 DEF ReceiverRestarts, IInv, Types
  <2>5. QED
    BY <2>4, <1>1, MsqOprAssumption DEF IInv, Types
<1>3. buf' \in [Receiver -> Seq(Chunk)] /\ buf'[r] = <<>> /\ \A q \in Receiver : q # r => buf'[q] = buf[q]
  BY <1>1 DEF IInv, Types
<1>4. Types' /\ Sends' /\ Queued'
  BY <1>1, <1>2, <1>3 DEF IInv, Types, Sends, Queued, Behind
<1>5. ASSUME NEW q \in Receiver PROVE Held(q)'
  <2>1. CASE q = r
    BY <1>3, <2>1 DEF Held, Joined
  <2>2. CASE q # r
    BY <1>1, <1>3, <2>2 DEF IInv, Held, Source, Behind
  <2>3. QED
    BY <2>1, <2>2
<1>6. QED
  BY <1>1, <1>4, <1>5 DEF IInv

----------------------------------------------------------------------------
(* The theorems *)

LEMMA InitHolds == Init => IInv
<1> SUFFICES ASSUME Init PROVE IInv
  OBVIOUS
<1>1. 0 \in 0..Supply /\ 0 \in 0..MaxBreaks /\ <<>> \in Seq(Chunk) /\ <<>> \in Seq(Seq(Chunk))
  BY MsqOprAssumption
<1>2. Types
  BY <1>1 DEF Init, Types
<1>3. Sends /\ Queued
  BY DEF Init, Sends, Queued, Type
<1>4. \A r \in Receiver : Held(r)
  BY DEF Init, Held, Joined
<1>5. QED
  BY <1>2, <1>3, <1>4 DEF Init, IInv

\* Every step keeps the invariant.
LEMMA NextKeeps == IInv /\ [Next]_vars => IInv'
<1> SUFFICES ASSUME IInv, [Next]_vars PROVE IInv'
  OBVIOUS
<1>1. ASSUME NEW s \in Sender, Begin(s) \/ SendChunk(s) \/ Interrupted(s) \/ SenderKilled(s)
      PROVE  IInv'
  BY <1>1, BeginKeeps, SendChunkKeeps, InterruptedKeeps, SenderKilledKeeps
<1>2. ASSUME NEW r \in Receiver, ReceiveFirst(r) \/ ReceiveNext(r) \/ ReceiverRestarts(r) PROVE IInv'
  BY <1>2, ReceiveFirstKeeps, ReceiveNextKeeps, ReceiverRestartsKeeps
<1>3. CASE UNCHANGED vars
  <2>1. Types' /\ Sends' /\ \A c \in Chunk, t \in Sender : Behind(c, t) => Behind(c, t)'
    BY <1>3 DEF vars, IInv, Types, Sends, Behind
  <2>2. QED
    BY <1>3, <2>1, UnlessMoved DEF vars
<1>4. QED
  BY <1>1, <1>2, <1>3 DEF Next

\* What is true of every reachable state of every instance.
THEOREM Inductive == Spec => []IInv
<1>1. QED
  BY InitHolds, NextKeeps, PTL DEF Spec

\* However many processes send and receive, whoever is killed or interrupted, and
\* wherever in a message: the chunks MsqRcv puts together come from one process,
\* a first chunk and continuations in the order in which they were sent.
THEOREM NoOthersChunks == Spec => []OneSource
<1>1. IInv => OneSource
  BY DEF IInv, Joined, OneSource
<1>2. QED
  BY <1>1, Inductive, PTL

\* Every variable keeps its type: in particular no chunk has an index outside of
\* its message.
THEOREM Typed == Spec => []TypeOK
<1>1. IInv => TypeOK
  BY DEF IInv, Types, TypeOK
<1>2. QED
  BY <1>1, Inductive, PTL

----------------------------------------------------------------------------
(* The queue of messages *)

\* The messages a single receiver will be handed, the first of them in part.
InWork(r) ==
  {queue[First][k].msg : k \in DOMAIN queue[First]} \cup
  {x \in Msg : buf[r] # <<>> /\ x = buf[r][1].msg}

\* How many chunks of a message MsqRcv has, or will take from the queue at once.
Taken(r, m) == IF buf[r] # <<>> /\ buf[r][1].msg = m THEN Len(buf[r]) ELSE 1

\* How many chunks of a message MsqSnd has sent.
Sent(m) ==
  IF sending[m.src] # NoSend /\ sending[m.src].msg = m THEN sending[m.src].sent ELSE m.n

\* A message of which MsqSnd has sent something.
Known(m) ==
  /\ m.no <= used[m.src]
  /\ sending[m.src] # NoSend /\ m.no = sending[m.src].msg.no =>
       m = sending[m.src].msg /\ sending[m.src].sent \in Nat \ {0}

AllKnown(r) ==
  /\ \A m \in InWork(r) : Known(m)
  /\ \A k \in DOMAIN got : Known(got[k][1].msg)
  /\ \A s \in Sender : sending[s] # NoSend /\ sending[s].sent # 0 => sending[s].msg \in InWork(r)

Before(m, n) == m.src = n.src => m.no < n.no

\* A sender's messages are received in the order in which it began them.
InOrder(r) ==
  /\ \A k, l \in DOMAIN queue[First] : k < l => Before(queue[First][k].msg, queue[First][l].msg)
  /\ buf[r] # <<>> => \A l \in DOMAIN queue[First] : Before(buf[r][1].msg, queue[First][l].msg)

\* Every chunk in the queue is still to be received, and no chunk is missing.
Useful(r) ==
  \A s \in Sender : \A j \in DOMAIN queue[s] :
    queue[s][j].msg \in InWork(r) /\ queue[s][j].idx > Taken(r, queue[s][j].msg)
Complete(r) ==
  \A m \in InWork(r) : \A i \in Nat : Taken(r, m) < i /\ i <= Sent(m) =>
    \E j \in DOMAIN queue[m.src] : queue[m.src][j] = [msg |-> m, idx |-> i]

\* What MsqRcv has is the beginning of one message, and what it returned is whole.
Begins(parts) == \A i \in DOMAIN parts : parts[i] = [msg |-> parts[1].msg, idx |-> i]
Partly(r) ==
  /\ Begins(buf[r])
  /\ buf[r] # <<>> => Len(buf[r]) < buf[r][1].msg.n
  /\ \A k \in DOMAIN got : got[k] # <<>> /\ IsWhole(got[k])

Stream(r) == AllKnown(r) /\ InOrder(r) /\ Useful(r) /\ Complete(r) /\ Partly(r)

\* What is in work is a message of a sender.
LEMMA InWorkIs ==
  ASSUME IInv, NEW r \in Receiver, NEW m \in InWork(r)
  PROVE  m \in Msg /\ m.src \in Sender /\ m.no \in Nat /\ m.n \in Nat
<1>1. m \in Msg
  <2>1. CASE m \in {queue[First][k].msg : k \in DOMAIN queue[First]}
    <3>1. PICK k \in DOMAIN queue[First] : m = queue[First][k].msg
      BY <2>1
    <3>2. queue[First][k] \in Chunk
      BY DEF IInv, Types, Type
    <3>3. QED
      BY <3>1, <3>2, ChunkIs
  <2>2. QED
    BY <2>1 DEF InWork
<1>2. m.src \in Sender /\ m.no \in 1..Supply /\ m.n \in Chunks
  BY <1>1 DEF Msg
<1>3. Supply \in Nat /\ Chunks \subseteq Nat
  BY MsqOprAssumption
<1>4. m.no \in Nat
  BY <1>2, <1>3
<1>5. QED
  BY <1>1, <1>2, <1>3, <1>4

\* The senders as numbers.
LEMMA SendingIs ==
  ASSUME IInv, NEW s \in Sender, sending[s] # NoSend
  PROVE  /\ sending[s].msg \in Msg /\ sending[s].msg.src = s /\ sending[s].msg.no = used[s]
         /\ sending[s].sent \in Nat /\ sending[s].msg.n \in Nat /\ used[s] \in Nat
         /\ sending[s].sent < sending[s].msg.n
<1>1. sending[s].msg \in Msg /\ sending[s].sent \in Nat
  BY DEF IInv, Types
<1>2. sending[s].msg.n \in Chunks
  BY <1>1 DEF Msg
<1>3. sending[s].msg.n \in Nat
  BY <1>2, MsqOprAssumption
<1>4. used[s] \in 0..Supply /\ Supply \in Nat
  BY MsqOprAssumption DEF IInv, Types
<1>5. used[s] \in Nat
  BY <1>4
<1>6. QED
  BY <1>1, <1>3, <1>5 DEF IInv, Sends

\* Of a message MsqSnd has sent no more than it has.
LEMMA SentBounds ==
  ASSUME IInv, NEW r \in Receiver, NEW m \in InWork(r), Known(m)
  PROVE  Sent(m) \in Nat /\ Sent(m) <= m.n
BY InWorkIs, SendingIs DEF Sent

\* A step that moves no chunk keeps the invariant if it keeps what it says of the
\* senders.
LEMMA StreamUnlessMoved ==
  ASSUME IInv, NEW r \in Receiver, Stream(r), UNCHANGED <<queue, buf, got>>,
         \A m \in Msg : Known(m) => Known(m)' /\ Sent(m)' = Sent(m),
         \A s \in Sender : sending'[s] # NoSend /\ sending'[s].sent # 0 => sending'[s] = sending[s]
  PROVE  Stream(r)'
<1>1. InWork(r)' = InWork(r) /\ \A m : Taken(r, m)' = Taken(r, m)
  BY DEF InWork, Taken
<1>2. \A m \in InWork(r) : m \in Msg /\ Known(m)' /\ Sent(m)' = Sent(m)
  BY InWorkIs DEF Stream, AllKnown
<1>3. \A k \in DOMAIN got : Known(got[k][1].msg)'
  <2> SUFFICES ASSUME NEW k \in DOMAIN got PROVE Known(got[k][1].msg)'
    OBVIOUS
  <2>1. got[k] \in Seq(Chunk) /\ got[k] # <<>> /\ Known(got[k][1].msg)
    BY DEF IInv, Types, Stream, Partly, AllKnown
  <2>2. got[k][1] \in Chunk
    BY <2>1
  <2>3. PICK m \in Msg : m = got[k][1].msg
    BY <2>2, ChunkIs
  <2>4. Known(m)'
    BY <2>1, <2>3
  <2>5. got'[k][1].msg = m
    BY <2>3
  <2>6. QED
    BY <2>4, <2>5
<1>4. AllKnown(r)'
  BY <1>1, <1>2, <1>3 DEF Stream, AllKnown
<1>5. InOrder(r)' /\ Partly(r)'
  BY DEF Stream, InOrder, Partly
<1>6. Useful(r)'
  BY <1>1 DEF Stream, Useful
<1>7. Complete(r)'
  BY <1>1, <1>2 DEF Stream, Complete
<1>8. QED
  BY <1>4, <1>5, <1>6, <1>7 DEF Stream

\* A message that nothing was sent of adds nothing.
LEMMA BeginStreams ==
  ASSUME IInv, NEW r \in Receiver, Stream(r), NEW s \in Sender, Begin(s)
  PROVE  Stream(r)'
<1>1. /\ UNCHANGED <<queue, buf, got>> /\ sending[s] = NoSend
      /\ used' = [used EXCEPT ![s] = @ + 1]
  BY DEF Begin
<1>2. used[s] \in Nat /\ used'[s] = used[s] + 1 /\ \A t \in Sender : t # s => used'[t] = used[t]
  BY <1>1, MsqOprAssumption DEF IInv, Types
<1>3. /\ \A t \in Sender : t # s => sending'[t] = sending[t]
      /\ sending'[s] # NoSend => /\ sending'[s].msg.no = used[s] + 1
                                 /\ sending'[s].sent = 0
  <2>1. CASE UNCHANGED sending
    BY <1>1, <2>1
  <2>2. ASSUME NEW n \in Chunks,
               sending' = [sending EXCEPT ![s] =
                 [msg |-> [src |-> s, no |-> used[s] + 1, n |-> n], sent |-> 0]]
        PROVE  /\ \A t \in Sender : t # s => sending'[t] = sending[t]
               /\ sending'[s].msg.no = used[s] + 1 /\ sending'[s].sent = 0
    <3> DEFINE x == [msg |-> [src |-> s, no |-> used[s] + 1, n |-> n], sent |-> 0]
    <3>1. x.msg.no = used[s] + 1 /\ x.sent = 0 /\ sending' = [sending EXCEPT ![s] = x]
      BY <2>2
    <3> HIDE DEF x
    <3>2. QED
      BY <3>1 DEF IInv, Types
  <2>3. QED
    BY <2>1, <2>2 DEF Begin
<1>4. ASSUME NEW m \in Msg, Known(m) PROVE Known(m)' /\ Sent(m)' = Sent(m)
  <2>1. m.src \in Sender /\ m.no \in 1..Supply
    BY DEF Msg
  <2>2. m.no \in Int
    BY <2>1
  <2>3. m.src = s => m.no < used[s] + 1
    BY <1>2, <1>4, <2>2 DEF Known
  <2>4. CASE m.src = s
    BY <1>1, <1>2, <1>3, <2>2, <2>3, <2>4 DEF Known, Sent
  <2>5. CASE m.src # s
    BY <1>2, <1>3, <1>4, <2>1, <2>5 DEF Known, Sent
  <2>6. QED
    BY <2>4, <2>5
<1>5. \A t \in Sender : sending'[t] # NoSend /\ sending'[t].sent # 0 => sending'[t] = sending[t]
  BY <1>3
<1>6. QED
  BY <1>1, <1>4, <1>5, StreamUnlessMoved

\* A sender in a message is not one without.
LEMMA IsSending ==
  ASSUME NEW m, NEW i
  PROVE  [msg |-> m, sent |-> i] # NoSend
<1>1. "msg" \in DOMAIN [msg |-> m, sent |-> i]
  OBVIOUS
<1>2. DOMAIN NoSend = {}
  BY DEF NoSend
<1>3. QED
  BY <1>1, <1>2

\* What MsqSnd begins to send is nothing that was sent before.
LEMMA NotSent ==
  ASSUME IInv, NEW s \in Sender, sending[s] # NoSend, sending[s].sent = 0,
         NEW x \in Msg, Known(x)
  PROVE  x # sending[s].msg /\ Before(x, sending[s].msg)
<1>1. sending[s].msg.src = s /\ sending[s].msg.no = used[s] /\ used[s] \in Nat
  BY SendingIs
<1>2. x.no \in 1..Supply /\ Supply \in Nat
  BY MsqOprAssumption DEF Msg
<1>3. x.no \in Nat
  BY <1>2
<1>4. x.src = s => x.no <= used[s] /\ x.no # used[s]
  BY <1>1 DEF Known
<1>5. QED
  BY <1>1, <1>3, <1>4 DEF Before

\* The first chunk of a message goes behind those of the messages before it.
LEMMA FirstChunkStreams ==
  ASSUME IInv, NEW r \in Receiver, Stream(r), NEW s \in Sender, SendChunk(s),
         sending[s].sent = 0, NEW m, m = sending[s].msg
  PROVE  /\ Stream(r)'
         /\ queue'[First] = Append(queue[First], [msg |-> m, idx |-> 1])
         /\ [msg |-> m, idx |-> 1] \in Chunk
<1> DEFINE c == [msg |-> m, idx |-> 1]
           rest == IF 1 = m.n THEN NoSend ELSE [msg |-> m, sent |-> 1]
<1>1. /\ UNCHANGED <<used, dead, buf, got, breaks, cut>> /\ sending[s] # NoSend
      /\ queue' = [queue EXCEPT ![First] = Append(@, c)]
      /\ sending' = [sending EXCEPT ![s] = rest]
  BY DEF SendChunk, TypeOfChunk
<1>2. /\ m \in Msg /\ m.src = s /\ m.no = used[s] /\ used[s] \in Nat /\ m.n \in Nat /\ 0 < m.n
  BY <1>1, SendingIs
<1>3. c \in Chunk /\ c.msg = m /\ c.idx = 1
  <2>1. 1 \in 1..m.n
    BY <1>2
  <2>2. QED
    BY <1>2, <2>1 DEF Chunk
<1>4. \A x \in Msg : Known(x) => x # m /\ Before(x, m)
  BY <1>1, NotSent
<1>5. /\ \A u \in Sender : u # s => sending'[u] = sending[u]
      /\ sending'[s] = rest
      /\ rest # NoSend => rest.msg = m /\ rest.sent = 1
  BY <1>1 DEF IInv, Types
<1>6. queue'[First] = Append(queue[First], c) /\ queue[First] \in Seq(Chunk)
      /\ \A u \in Sender : queue'[u] = queue[u]
  BY <1>1, MsqOprAssumption DEF IInv, Types, Type
<1> HIDE DEF c, rest
<1>7. /\ \A k \in DOMAIN queue'[First] : \/ k \in DOMAIN queue[First] /\ queue'[First][k] = queue[First][k]
                                         \/ k = Len(queue[First]) + 1 /\ queue'[First][k] = c
      /\ \A k \in DOMAIN queue[First] : /\ k \in Nat /\ k <= Len(queue[First]) /\ k \in DOMAIN queue'[First]
                                        /\ queue'[First][k] = queue[First][k]
      /\ Len(queue[First]) \in Nat /\ Len(queue[First]) + 1 \in DOMAIN queue'[First]
      /\ queue'[First][Len(queue[First]) + 1] = c
  BY <1>3, <1>6, AppendIs
<1>8. \A x : x \in InWork(r)' <=> x \in InWork(r) \/ x = m
  <2>1. InWork(r) \subseteq InWork(r)'
    BY <1>1, <1>7 DEF InWork
  <2>2. m \in InWork(r)'
    BY <1>3, <1>7 DEF InWork
  <2>3. ASSUME NEW x \in InWork(r)' PROVE x \in InWork(r) \/ x = m
    BY <1>1, <1>3, <1>7, <2>3 DEF InWork
  <2>4. QED
    BY <2>1, <2>2, <2>3
<1>9. \A x \in InWork(r) : x \in Msg /\ Known(x) /\ x # m /\ Before(x, m)
  BY <1>4, InWorkIs DEF Stream, AllKnown
<1>10. ASSUME NEW x \in Msg, Known(x)
       PROVE  Known(x)' /\ Sent(x)' = Sent(x)
  <2>1. x.src \in Sender /\ x # m /\ (x.src = s => x.no # m.no)
    <3>1. x.no \in 1..Supply /\ x.src \in Sender
      BY DEF Msg
    <3>2. x.no \in Int
      BY <3>1
    <3>3. QED
      BY <1>2, <1>4, <1>10, <3>1, <3>2 DEF Before
  <2>2. CASE x.src = s
    BY <1>1, <1>5, <1>10, <2>1, <2>2 DEF Known, Sent
  <2>3. CASE x.src # s
    BY <1>1, <1>5, <1>10, <2>1, <2>3 DEF Known, Sent
  <2>4. QED
    BY <2>2, <2>3
<1>11. Known(m)' /\ Sent(m)' = 1
  <2>1. 1 # m.n => rest # NoSend
    BY IsSending DEF rest
  <2>2. QED
    BY <1>1, <1>2, <1>5, <2>1 DEF Known, Sent
<1>12. buf[r] # <<>> => /\ buf[r] \in Seq(Chunk) /\ buf[r][1] \in Chunk
                        /\ buf[r][1].msg \in InWork(r) /\ buf[r][1].msg # m
  <2>1. buf[r] \in Seq(Chunk)
    BY DEF IInv, Types
  <2>2. buf[r] # <<>> => buf[r][1] \in Chunk
    BY <2>1
  <2>3. buf[r] # <<>> => buf[r][1].msg \in InWork(r)
    BY <2>2, ChunkIs DEF InWork
  <2>4. QED
    BY <1>9, <2>1, <2>2, <2>3
<1>13. \A x : Taken(r, x)' = Taken(r, x)
  BY <1>1 DEF Taken
<1>14. AllKnown(r)'
  <2>1. \A x \in InWork(r)' : Known(x)'
    BY <1>8, <1>9, <1>10, <1>11
  <2>2. ASSUME NEW k \in DOMAIN got PROVE Known(got[k][1].msg)'
    <3>1. got[k] \in Seq(Chunk) /\ got[k] # <<>> /\ Known(got[k][1].msg)
      BY DEF IInv, Types, Stream, Partly, AllKnown
    <3>2. got[k][1] \in Chunk
      BY <3>1
    <3>3. PICK x \in Msg : x = got[k][1].msg
      BY <3>2, ChunkIs
    <3>4. Known(x)'
      BY <1>10, <3>1, <3>3
    <3>5. got'[k][1].msg = x
      BY <1>1, <3>3
    <3>6. QED
      BY <3>4, <3>5
  <2>3. ASSUME NEW u \in Sender, sending'[u] # NoSend, sending'[u].sent # 0
        PROVE  sending'[u].msg \in InWork(r)'
    <3>1. CASE u = s
      BY <1>5, <1>8, <2>3, <3>1
    <3>2. CASE u # s
      BY <1>5, <1>8, <2>3, <3>2 DEF Stream, AllKnown
    <3>3. QED
      BY <3>1, <3>2
  <2>4. QED
    BY <1>1, <2>1, <2>2, <2>3 DEF AllKnown
<1>15. InOrder(r)'
  <2>1. ASSUME NEW k \in DOMAIN queue'[First], NEW l \in DOMAIN queue'[First], k < l
        PROVE  Before(queue'[First][k].msg, queue'[First][l].msg)
    <3>1. k \in DOMAIN queue[First] /\ queue'[First][k] = queue[First][k]
      BY <1>7, <2>1
    <3>2. CASE l \in DOMAIN queue[First] /\ queue'[First][l] = queue[First][l]
      BY <2>1, <3>1, <3>2 DEF Stream, InOrder
    <3>3. CASE queue'[First][l] = c
      <4>1. queue[First][k].msg \in InWork(r)
        BY <3>1 DEF InWork
      <4>2. QED
        BY <1>3, <1>9, <3>1, <3>3, <4>1
    <3>4. QED
      BY <1>7, <3>2, <3>3
  <2>2. ASSUME buf[r] # <<>>, NEW l \in DOMAIN queue'[First]
        PROVE  Before(buf[r][1].msg, queue'[First][l].msg)
    <3>1. CASE l \in DOMAIN queue[First] /\ queue'[First][l] = queue[First][l]
      BY <2>2, <3>1 DEF Stream, InOrder
    <3>2. CASE queue'[First][l] = c
      BY <1>3, <1>9, <1>12, <2>2, <3>2
    <3>3. QED
      BY <1>7, <3>1, <3>2
  <2>3. QED
    BY <1>1, <2>1, <2>2 DEF InOrder
<1>16. Useful(r)'
  BY <1>6, <1>8, <1>13 DEF Stream, Useful
<1>17. Complete(r)'
  <2>1. ASSUME NEW x \in InWork(r)', NEW i \in Nat, Taken(r, x) < i, i <= Sent(x)'
        PROVE  \E j \in DOMAIN queue[x.src] : queue[x.src][j] = [msg |-> x, idx |-> i]
    <3>1. CASE x \in InWork(r)
      BY <1>9, <1>10, <2>1, <3>1 DEF Stream, Complete
    <3>2. CASE x = m
      <4>1. Taken(r, x) = 1
        BY <1>12, <3>2 DEF Taken
      <4>2. Sent(x)' = 1
        BY <1>11, <3>2
      <4>3. QED
        BY <2>1, <4>1, <4>2
    <3>3. QED
      BY <1>8, <3>1, <3>2
  <2>2. \A x \in InWork(r)' : x.src \in Sender
    BY <1>2, <1>8, InWorkIs
  <2>3. QED
    BY <1>6, <1>13, <2>1, <2>2 DEF Complete
<1>18. Partly(r)'
  BY <1>1 DEF Stream, Partly
<1>19. QED
  BY <1>3, <1>6, <1>14, <1>15, <1>16, <1>17, <1>18 DEF Stream, c

\* A further chunk goes behind the chunks of the message that are there.
LEMMA NextChunkStreams ==
  ASSUME IInv, NEW r \in Receiver, Stream(r), NEW s \in Sender, SendChunk(s),
         sending[s].sent # 0
  PROVE  Stream(r)' /\ UNCHANGED <<queue[First], buf, got>>
<1>1. PICK m, n : m = sending[s].msg /\ n = sending[s].sent
  OBVIOUS
<1> DEFINE c == [msg |-> m, idx |-> n + 1]
           rest == IF n + 1 = m.n THEN NoSend ELSE [msg |-> m, sent |-> n + 1]
<1>2. /\ m \in Msg /\ m.src = s /\ m.no = used[s] /\ used[s] \in Nat /\ m.n \in Nat /\ n \in Nat
      /\ 0 < n /\ n < m.n /\ sending[s] # NoSend
  BY <1>1, SendingIs DEF SendChunk
<1>3. /\ UNCHANGED <<used, dead, buf, got, breaks, cut>>
      /\ queue' = [queue EXCEPT ![s] = Append(@, c)]
      /\ sending' = [sending EXCEPT ![s] = rest]
  <2>1. n + 1 # 1
    BY <1>2
  <2>2. QED
    BY <1>1, <2>1 DEF SendChunk, TypeOfChunk
<1>4. c \in Chunk /\ c.msg = m /\ c.idx = n + 1
  <2>1. n + 1 \in 1..m.n /\ n + 1 \in Nat
    BY <1>2
  <2>2. QED
    BY <1>2, <2>1 DEF Chunk
<1>5. /\ \A u \in Sender : u # s => sending'[u] = sending[u]
      /\ sending'[s] = rest
      /\ rest # NoSend => rest.msg = m /\ rest.sent = n + 1
  BY <1>3 DEF IInv, Types
<1>6. 1 # m.n - n => rest # NoSend
  <2>1. 1 # m.n - n => n + 1 # m.n
    BY <1>2
  <2>2. QED
    BY <2>1, IsSending DEF rest
<1>7. /\ queue[s] \in Seq(Chunk) /\ queue'[s] = Append(queue[s], c)
      /\ \A u \in Type : u # s => queue'[u] = queue[u]
      /\ First \in Type /\ First # s /\ s \in Type
  BY <1>3, MsqOprAssumption DEF IInv, Types, Type
<1> HIDE DEF c, rest
<1>8. /\ \A k \in DOMAIN queue'[s] : \/ k \in DOMAIN queue[s] /\ queue'[s][k] = queue[s][k]
                                     \/ k = Len(queue[s]) + 1 /\ queue'[s][k] = c
      /\ \A k \in DOMAIN queue[s] : k \in DOMAIN queue'[s] /\ queue'[s][k] = queue[s][k]
      /\ Len(queue[s]) \in Nat /\ Len(queue[s]) + 1 \in DOMAIN queue'[s]
      /\ queue'[s][Len(queue[s]) + 1] = c
  BY <1>4, <1>7, AppendIs
<1>9. InWork(r)' = InWork(r) /\ \A x : Taken(r, x)' = Taken(r, x)
  BY <1>3, <1>7 DEF InWork, Taken
<1>10. m \in InWork(r)
  BY <1>1, <1>2 DEF Stream, AllKnown
<1>11. Taken(r, m) < n + 1
  <2>1. CASE buf[r] # <<>> /\ buf[r][1].msg = m
    <3>1. buf[r] \in Seq(Chunk) /\ Len(buf[r]) \in Nat /\ Len(buf[r]) \in DOMAIN buf[r]
      BY <2>1, NotEmpty DEF IInv, Types
    <3>2. CASE Len(buf[r]) = 1
      BY <1>2, <2>1, <3>2 DEF Taken
    <3>3. CASE Len(buf[r]) > 1
      <4>1. Behind(buf[r][Len(buf[r])], Source(r)) /\ Source(r) = s
        BY <1>2, <2>1, <3>1, <3>3 DEF IInv, Held, Source
      <4>2. buf[r][Len(buf[r])] = [msg |-> m, idx |-> Len(buf[r])]
        BY <2>1, <3>1 DEF Stream, Partly, Begins
      <4>3. Len(buf[r]) <= n
        BY <1>1, <1>2, <4>1, <4>2 DEF Behind
      <4>4. Taken(r, m) = Len(buf[r])
        BY <2>1 DEF Taken
      <4>5. QED
        BY <1>2, <3>1, <4>3, <4>4
    <3>4. Len(buf[r]) = 1 \/ Len(buf[r]) > 1
      BY <2>1, <3>1, NotEmpty
    <3>5. QED
      BY <3>2, <3>3, <3>4
  <2>2. CASE ~ (buf[r] # <<>> /\ buf[r][1].msg = m)
    BY <1>2, <2>2 DEF Taken
  <2>3. QED
    BY <2>1, <2>2
<1>12. ASSUME NEW x \in Msg, Known(x)
       PROVE  Known(x)' /\ (x # m => Sent(x)' = Sent(x))
  <2>1. CASE x.src = s
    <3>1. x.no = m.no => x = m
      BY <1>1, <1>2, <1>12, <2>1 DEF Known
    <3>2. n + 1 \in Nat \ {0}
      BY <1>2
    <3>3. Known(x)'
      BY <1>2, <1>3, <1>5, <1>12, <2>1, <3>1, <3>2 DEF Known
    <3>4. x # m => Sent(x)' = Sent(x)
      BY <1>1, <1>5, <2>1 DEF Sent
    <3>5. QED
      BY <3>3, <3>4
  <2>2. CASE x.src # s
    <3>1. x.src \in Sender
      BY DEF Msg
    <3>2. QED
      BY <1>3, <1>5, <1>12, <2>2, <3>1 DEF Known, Sent
  <2>3. QED
    BY <2>1, <2>2
<1>13. Sent(m) = n /\ Sent(m)' = n + 1
  <2>1. Sent(m) = n
    BY <1>1, <1>2 DEF Sent
  <2>2. CASE rest = NoSend
    <3>1. n + 1 = m.n
      BY <1>2, <1>6, <2>2
    <3>2. QED
      BY <1>2, <1>5, <2>1, <2>2, <3>1 DEF Sent
  <2>3. CASE rest # NoSend
    BY <1>2, <1>5, <2>1, <2>3 DEF Sent
  <2>4. QED
    BY <2>2, <2>3
<1>14. AllKnown(r)'
  <2>1. \A x \in InWork(r)' : Known(x)'
    BY <1>9, <1>12, InWorkIs DEF Stream, AllKnown
  <2>2. ASSUME NEW k \in DOMAIN got PROVE Known(got[k][1].msg)'
    <3>1. got[k] \in Seq(Chunk) /\ got[k] # <<>> /\ Known(got[k][1].msg)
      BY DEF IInv, Types, Stream, Partly, AllKnown
    <3>2. got[k][1] \in Chunk
      BY <3>1
    <3>3. PICK x \in Msg : x = got[k][1].msg
      BY <3>2, ChunkIs
    <3>4. Known(x)'
      BY <1>12, <3>1, <3>3
    <3>5. got'[k][1].msg = x
      BY <1>3, <3>3
    <3>6. QED
      BY <3>4, <3>5
  <2>3. ASSUME NEW u \in Sender, sending'[u] # NoSend, sending'[u].sent # 0
        PROVE  sending'[u].msg \in InWork(r)'
    <3>1. CASE u = s
      BY <1>5, <1>9, <1>10, <2>3, <3>1
    <3>2. CASE u # s
      BY <1>5, <1>9, <2>3, <3>2 DEF Stream, AllKnown
    <3>3. QED
      BY <3>1, <3>2
  <2>4. QED
    BY <1>3, <2>1, <2>2, <2>3 DEF AllKnown
<1>15. InOrder(r)' /\ Partly(r)'
  BY <1>3, <1>7 DEF Stream, InOrder, Partly
<1>16. Useful(r)'
  <2> SUFFICES ASSUME NEW u \in Sender, NEW j \in DOMAIN queue'[u]
               PROVE  queue'[u][j].msg \in InWork(r) /\ queue'[u][j].idx > Taken(r, queue'[u][j].msg)
    BY <1>9 DEF Useful
  <2>1. CASE u # s
    BY <1>7, <2>1 DEF Stream, Useful, Type
  <2>2. CASE u = s /\ j \in DOMAIN queue[s] /\ queue'[s][j] = queue[s][j]
    BY <2>2 DEF Stream, Useful
  <2>3. CASE u = s /\ queue'[s][j] = c
    BY <1>2, <1>4, <1>10, <1>11, <2>3
  <2>4. QED
    BY <1>8, <2>1, <2>2, <2>3
<1>17. Complete(r)'
  <2> SUFFICES ASSUME NEW x \in InWork(r), NEW i \in Nat, Taken(r, x) < i, i <= Sent(x)'
               PROVE  \E j \in DOMAIN queue'[x.src] : queue'[x.src][j] = [msg |-> x, idx |-> i]
    BY <1>9 DEF Complete
  <2>1. x \in Msg /\ x.src \in Sender /\ x.src \in Type /\ Known(x)
    BY InWorkIs DEF Type, Stream, AllKnown
  <2>2. CASE x = m /\ i = n + 1
    <3>1. x.src = s
      BY <1>2, <2>2
    <3>2. QED
      BY <1>8, <2>2, <3>1 DEF c
  <2>3. CASE ~ (x = m /\ i = n + 1)
    <3>1. i <= Sent(x)
      BY <1>2, <1>12, <1>13, <2>1, <2>3
    <3>2. PICK j \in DOMAIN queue[x.src] : queue[x.src][j] = [msg |-> x, idx |-> i]
      BY <3>1 DEF Stream, Complete
    <3>3. j \in DOMAIN queue'[x.src] /\ queue'[x.src][j] = queue[x.src][j]
      BY <1>7, <1>8, <2>1, <3>2
    <3>4. QED
      BY <3>2, <3>3
  <2>4. QED
    BY <2>2, <2>3
<1>18. QED
  BY <1>3, <1>7, <1>14, <1>15, <1>16, <1>17 DEF Stream

\* The chunk at the head of queue t is the next one of message m, and what stays
\* behind it comes later.
Lacked(r, t, parts, m) ==
  /\ queue[t][1] = [msg |-> m, idx |-> Len(parts)]
  /\ Taken(r, m) <= Len(parts) /\ Len(parts) <= Sent(m)
  /\ \A x \in InWork(r) : x # m =>
       Taken(r, x) = 1 /\ \E l \in DOMAIN queue'[First] : x = queue'[First][l].msg
  /\ \A l \in DOMAIN queue'[First] :
       queue'[First][l].msg \in InWork(r) /\ Before(m, queue'[First][l].msg)
  /\ \A s \in Sender : \A j \in DOMAIN queue'[s] :
       queue'[s][j].msg = m => queue'[s][j].idx > Len(parts)

\* Taking the chunk that a message lacks keeps the invariant.
LEMMA TookStreams ==
  ASSUME IInv, NEW r \in Receiver, Stream(r), NEW t \in Type, queue[t] # <<>>,
         NEW parts \in Seq(Chunk), parts # <<>>, Begins(parts), Took(r, parts),
         queue' = [queue EXCEPT ![t] = Tail(@)], UNCHANGED <<sending, used>>,
         NEW m \in InWork(r), parts[1].msg = m, Lacked(r, t, parts, m)
  PROVE  Stream(r)'
<1>0. /\ queue[t][1] = [msg |-> m, idx |-> Len(parts)]
      /\ Taken(r, m) <= Len(parts) /\ Len(parts) <= Sent(m)
      /\ \A x \in InWork(r) : x # m => Taken(r, x) = 1
      /\ \A x \in InWork(r) : x # m => \E l \in DOMAIN queue'[First] : x = queue'[First][l].msg
      /\ \A l \in DOMAIN queue'[First] :
           queue'[First][l].msg \in InWork(r) /\ Before(m, queue'[First][l].msg)
      /\ \A s \in Sender : \A j \in DOMAIN queue'[s] :
           queue'[s][j].msg = m => queue'[s][j].idx > Len(parts)
  BY DEF Lacked
<1>1. /\ queue' \in [Type -> Seq(Chunk)]
      /\ \A u \in Type : u # t => queue'[u] = queue[u]
      /\ \A i \in DOMAIN queue'[t] : /\ i \in Nat /\ i + 1 \in DOMAIN queue[t] /\ 1 < i + 1
                                     /\ queue'[t][i] = queue[t][i + 1]
  BY TakenFrom
<1>2. m \in Msg /\ m.src \in Sender /\ m.no \in Nat /\ m.n \in Nat /\ Known(m)
      /\ Sent(m) \in Nat /\ Sent(m) <= m.n
  BY InWorkIs, SentBounds DEF Stream, AllKnown
<1>3. Len(parts) \in Nat /\ Len(parts) >= 1 /\ Len(parts) <= m.n
  BY <1>0, <1>2, NotEmpty
<1> DEFINE over == Len(parts) = m.n
<1>5. /\ over => buf'[r] = <<>> /\ got' = Append(got, parts)
      /\ ~ over => buf'[r] = parts /\ got' = got
  BY DEF Took, IInv, Types
<1>6. \A x \in InWork(r)' : x \in InWork(r) /\ (x = m => ~ over)
  <2>1. ASSUME NEW l \in DOMAIN queue'[First] PROVE queue'[First][l].msg # m
    <3>1. Before(m, queue'[First][l].msg)
      BY <1>0, <2>1
    <3>2. ~ Before(m, m)
      BY <1>2 DEF Before
    <3>3. QED
      BY <3>1, <3>2
  <2>2. ASSUME NEW x \in InWork(r)'
        PROVE  \/ \E l \in DOMAIN queue'[First] : x = queue'[First][l].msg
               \/ buf'[r] # <<>> /\ x = buf'[r][1].msg
    BY <2>2 DEF InWork
  <2>3. ASSUME NEW x \in InWork(r)' PROVE x \in InWork(r) /\ (x = m => ~ over)
    <3>1. CASE \E l \in DOMAIN queue'[First] : x = queue'[First][l].msg
      BY <1>0, <2>1, <3>1
    <3>2. CASE buf'[r] # <<>> /\ x = buf'[r][1].msg
      <4>1. ~ over
        BY <1>5, <3>2
      <4>2. x = m
        BY <1>5, <3>2, <4>1
      <4>3. QED
        BY <4>1, <4>2
    <3>3. QED
      BY <2>2, <2>3, <3>1, <3>2
  <2>4. QED
    BY <2>3
<1>7. \A x \in InWork(r) : x # m \/ ~ over => x \in InWork(r)'
  BY <1>0, <1>2, <1>5 DEF InWork
<1>8. /\ \A x \in InWork(r) : x # m => Taken(r, x)' = 1
      /\ ~ over => Taken(r, m)' = Len(parts)
  BY <1>5 DEF Taken
<1>9. (\A x : Known(x)' <=> Known(x)) /\ \A x : Sent(x)' = Sent(x)
  BY DEF Known, Sent
<1>10. /\ \A k \in DOMAIN got' : \/ k \in DOMAIN got /\ got'[k] = got[k]
                                 \/ over /\ got'[k] = parts
  <2>1. got \in Seq(Seq(Chunk))
    BY DEF IInv, Types
  <2>2. CASE over
    <3>1. got' = Append(got, parts)
      BY <1>5, <2>2
    <3>2. \A k \in DOMAIN Append(got, parts) :
            \/ k \in DOMAIN got /\ Append(got, parts)[k] = got[k]
            \/ k = Len(got) + 1 /\ Append(got, parts)[k] = parts
      BY <2>1, AppendIs
    <3>3. QED
      BY <2>2, <3>1, <3>2
  <2>3. QED
    BY <1>5, <2>2
<1>11. AllKnown(r)'
  <2>1. \A x \in InWork(r)' : Known(x)'
    BY <1>6, <1>9 DEF Stream, AllKnown
  <2>2. ASSUME NEW k \in DOMAIN got' PROVE Known(got'[k][1].msg)
    BY <1>2, <1>10, <2>2 DEF Stream, AllKnown
  <2>3. ASSUME NEW u \in Sender, sending[u] # NoSend, sending[u].sent # 0
        PROVE  sending[u].msg \in InWork(r)'
    <3>1. sending[u].msg \in InWork(r) /\ sending[u].msg.src = u
      BY <2>3, SendingIs DEF Stream, AllKnown
    <3>2. CASE sending[u].msg = m
      <4>1. Sent(m) = sending[u].sent /\ sending[u].sent < m.n
        BY <2>3, <3>1, <3>2, SendingIs DEF Sent
      <4>2. ~ over
        BY <1>0, <1>2, <1>3, <4>1
      <4>3. QED
        BY <1>7, <3>1, <4>2
    <3>3. QED
      BY <1>7, <3>1, <3>2
  <2>4. \A x : Known(x) => Known(x)'
    BY <1>9
  <2>5. ASSUME NEW k \in DOMAIN got' PROVE Known(got[k][1].msg)'
    <3>1. PICK x : x = got'[k][1].msg
      OBVIOUS
    <3>2. Known(x)'
      BY <2>2, <2>4, <3>1
    <3>3. QED
      BY <3>1, <3>2 DEF Known
  <2>6. QED
    BY <2>1, <2>3, <2>5 DEF AllKnown
<1>12. InOrder(r)'
  <2>1. ASSUME NEW k \in DOMAIN queue'[First], NEW l \in DOMAIN queue'[First], k < l
        PROVE  Before(queue'[First][k].msg, queue'[First][l].msg)
    <3>1. CASE t = First
      <4>1. k + 1 < l + 1
        BY <1>1, <2>1, <3>1
      <4>2. QED
        BY <1>1, <2>1, <3>1, <4>1 DEF Stream, InOrder
    <3>2. CASE t # First
      BY <1>1, <2>1, <3>2 DEF Stream, InOrder, Type
    <3>3. QED
      BY <3>1, <3>2
  <2>2. buf'[r] # <<>> => \A l \in DOMAIN queue'[First] : Before(buf'[r][1].msg, queue'[First][l].msg)
    BY <1>0, <1>5
  <2>3. QED
    BY <2>1, <2>2 DEF InOrder

\* A chunk that is still queued was queued before.
<1>13. ASSUME NEW u \in Sender, NEW j \in DOMAIN queue'[u]
       PROVE  \E i \in DOMAIN queue[u] : queue'[u][j] = queue[u][i]
  BY <1>1, <1>13 DEF Type
<1>14. Useful(r)'
  <2> SUFFICES ASSUME NEW u \in Sender, NEW j \in DOMAIN queue'[u], NEW x, x = queue'[u][j].msg
               PROVE  x \in InWork(r)' /\ queue'[u][j].idx > Taken(r, x)'
    BY DEF Useful
  <2>1. x \in InWork(r) /\ queue'[u][j].idx > Taken(r, x) /\ queue'[u][j] \in Chunk
    BY <1>13 DEF Stream, Useful, IInv, Types, Type
  <2>2. CASE x # m
    BY <1>0, <1>7, <1>8, <2>1, <2>2
  <2>3. CASE x = m
    <3>1. queue'[u][j].idx > Len(parts) /\ queue'[u][j].idx <= m.n /\ queue'[u][j].idx \in Nat
      <4>1. queue'[u][j].idx \in 1..m.n
        BY <2>1, <2>3 DEF Chunk
      <4>2. QED
        BY <1>0, <1>2, <2>3, <4>1
    <3>2. ~ over
      BY <1>2, <1>3, <3>1
    <3>3. QED
      BY <1>7, <1>8, <2>1, <2>3, <3>1, <3>2
  <2>4. QED
    BY <2>2, <2>3
<1>15. Complete(r)'
  <2> SUFFICES ASSUME NEW x \in InWork(r)', NEW i \in Nat, Taken(r, x)' < i, i <= Sent(x)
               PROVE  \E j \in DOMAIN queue'[x.src] : queue'[x.src][j] = [msg |-> x, idx |-> i]
    BY <1>9 DEF Complete
  <2>1. x \in InWork(r) /\ x.src \in Sender /\ (x = m => ~ over)
    BY <1>6, InWorkIs
  <2>2. Taken(r, x) < i /\ (x = m => i # Len(parts))
    <3>1. CASE x = m
      <4>1. Len(parts) < i
        BY <1>8, <2>1, <3>1
      <4>2. CASE buf[r] # <<>> /\ buf[r][1].msg = m
        <5>1. Taken(r, m) = Len(buf[r]) /\ Len(buf[r]) \in Nat
          BY <4>2 DEF Taken, IInv, Types
        <5>2. QED
          BY <1>0, <1>3, <3>1, <4>1, <5>1
      <4>3. CASE ~ (buf[r] # <<>> /\ buf[r][1].msg = m)
        <5>1. Taken(r, m) = 1
          BY <4>3 DEF Taken
        <5>2. QED
          BY <1>3, <3>1, <4>1, <5>1
      <4>4. QED
        BY <4>2, <4>3
    <3>2. CASE x # m
      BY <1>0, <1>8, <2>1, <3>2
    <3>3. QED
      BY <3>1, <3>2
  <2>3. PICK j \in DOMAIN queue[x.src] : queue[x.src][j] = [msg |-> x, idx |-> i]
    BY <2>1, <2>2 DEF Stream, Complete
  <2>4. CASE x.src # t
    BY <1>1, <2>1, <2>3, <2>4 DEF Type
  <2>5. CASE x.src = t
    <3>1. j # 1
      <4>1. queue[t][j] # queue[t][1]
        BY <1>0, <2>2, <2>3, <2>5
      <4>2. QED
        BY <4>1
    <3>2. queue[t] \in Seq(Chunk)
      BY DEF IInv, Types
    <3>3. j \in Nat /\ j > 1 /\ j <= Len(queue[t]) /\ Len(queue[t]) \in Nat
      BY <2>3, <2>5, <3>1, <3>2
    <3>4. queue'[t] = Tail(queue[t])
      BY DEF IInv, Types
    <3>5. j - 1 \in DOMAIN queue'[t] /\ queue'[t][j - 1] = queue[t][j]
      <4>1. Len(Tail(queue[t])) = Len(queue[t]) - 1 /\ DOMAIN Tail(queue[t]) = 1..(Len(queue[t]) - 1)
        BY <3>2
      <4>2. j - 1 \in 1..(Len(queue[t]) - 1) /\ (j - 1) + 1 = j
        BY <3>3
      <4>3. QED
        BY <1>1, <3>4, <4>1, <4>2
    <3>6. QED
      BY <2>3, <2>5, <3>5
  <2>6. QED
    BY <2>4, <2>5
<1>16. Partly(r)'
  <2>1. Begins(buf'[r]) /\ (buf'[r] # <<>> => Len(buf'[r]) < buf'[r][1].msg.n)
    <3>1. CASE over
      BY <1>5, <3>1 DEF Begins
    <3>2. CASE ~ over
      BY <1>2, <1>3, <1>5, <3>2
    <3>3. QED
      BY <3>1, <3>2
  <2>2. over => IsWhole(parts)
    BY DEF IsWhole, Begins
  <2>3. \A k \in DOMAIN got' : got'[k] # <<>> /\ IsWhole(got'[k])
    BY <1>10, <2>2 DEF Stream, Partly
  <2>4. QED
    BY <2>1, <2>3 DEF Partly, Begins
<1>17. QED
  BY <1>11, <1>12, <1>14, <1>15, <1>16 DEF Stream

\* The first chunk received moves its message from the queue to the receiver.
LEMMA ReceiveFirstStreams ==
  ASSUME IInv, NEW r \in Receiver, Stream(r), ReceiveFirst(r)
  PROVE  Stream(r)'
<1>1. First \in Type /\ queue[First] \in Seq(Chunk) /\ queue[First] # <<>> /\ buf[r] = <<>>
  BY DEF ReceiveFirst, IInv, Types, Type
<1>2. PICK c : c = queue[First][1]
  OBVIOUS
<1>3. c \in Chunk /\ c = Head(queue[First]) /\ 1 \in DOMAIN queue[First] /\ c.idx = 1
  BY <1>1, <1>2, TailIs DEF IInv, Queued
<1>4. PICK m, parts : m = c.msg /\ parts = <<c>>
  OBVIOUS
<1>5. c = [msg |-> m, idx |-> 1] /\ parts \in Seq(Chunk) /\ parts # <<>> /\ Len(parts) = 1
      /\ DOMAIN parts = {1} /\ parts[1] = c
  BY <1>3, <1>4 DEF Chunk
<1>6. Begins(parts) /\ parts[1].msg = m
  BY <1>4, <1>5 DEF Begins
<1>7. Took(r, parts) /\ queue' = [queue EXCEPT ![First] = Tail(@)] /\ UNCHANGED <<sending, used>>
  BY <1>3, <1>4 DEF ReceiveFirst
<1>8. m \in InWork(r) /\ Taken(r, m) <= 1 /\ \A x : Taken(r, x) = 1
  BY <1>1, <1>2, <1>3, <1>4 DEF InWork, Taken
<1>9. 1 <= Sent(m)
  <2>1. m \in Msg /\ Known(m)
    BY <1>8, InWorkIs DEF Stream, AllKnown
  <2>2. m.n \in Nat \ {0}
    BY <2>1, MsqOprAssumption DEF Msg
  <2>3. sending[m.src] # NoSend /\ sending[m.src].msg = m => sending[m.src].sent \in Nat \ {0}
    BY <2>1 DEF Known
  <2>4. QED
    BY <2>2, <2>3 DEF Sent
<1>10. \A i \in DOMAIN queue'[First] : /\ i \in Nat /\ i + 1 \in DOMAIN queue[First] /\ 1 < i + 1
                                      /\ queue'[First][i] = queue[First][i + 1]
  BY <1>1, <1>7, TakenFrom
<1>11. ASSUME NEW x \in InWork(r), x # m
       PROVE  \E l \in DOMAIN queue'[First] : x = queue'[First][l].msg
  <2>1. PICK k \in DOMAIN queue[First] : x = queue[First][k].msg
    BY <1>1 DEF InWork
  <2>2. k # 1
    BY <1>2, <1>4, <1>11, <2>1
  <2>3. k \in Nat /\ k > 1 /\ k <= Len(queue[First]) /\ Len(queue[First]) \in Nat
    BY <1>1, <2>1, <2>2
  <2>4. queue'[First] = Tail(queue[First])
    BY <1>1, <1>7 DEF IInv, Types
  <2>5. DOMAIN Tail(queue[First]) = 1..(Len(queue[First]) - 1)
    BY <1>1
  <2>6. k - 1 \in 1..(Len(queue[First]) - 1) /\ (k - 1) + 1 = k
    BY <2>3
  <2>7. k - 1 \in DOMAIN queue'[First]
    BY <2>4, <2>5, <2>6
  <2>8. queue'[First][k - 1] = queue[First][k]
    BY <1>10, <2>6, <2>7
  <2>9. QED
    BY <2>1, <2>7, <2>8
<1>12. ASSUME NEW l \in DOMAIN queue'[First]
       PROVE  queue'[First][l].msg \in InWork(r) /\ Before(m, queue'[First][l].msg)
  <2>1. l + 1 \in DOMAIN queue[First] /\ 1 < l + 1 /\ queue'[First][l] = queue[First][l + 1]
    BY <1>10
  <2>2. queue[First][l + 1].msg \in InWork(r)
    BY <2>1 DEF InWork
  <2>3. Before(queue[First][1].msg, queue[First][l + 1].msg)
    BY <1>3, <2>1 DEF Stream, InOrder
  <2>4. QED
    BY <1>2, <1>4, <2>1, <2>2, <2>3
<1>13. ASSUME NEW s \in Sender, NEW j \in DOMAIN queue'[s] PROVE queue'[s][j].idx > 1
  <2>1. queue'[s] = queue[s]
    BY <1>7, MsqOprAssumption DEF IInv, Types, Type
  <2>2. QED
    BY <1>8, <2>1 DEF Stream, Useful
<1>14. /\ queue[First][1] = [msg |-> m, idx |-> Len(parts)]
       /\ Taken(r, m) <= Len(parts) /\ Len(parts) <= Sent(m)
       /\ \A x \in InWork(r) : x # m => Taken(r, x) = 1
       /\ \A s \in Sender : \A j \in DOMAIN queue'[s] :
            queue'[s][j].msg = m => queue'[s][j].idx > Len(parts)
  BY <1>2, <1>5, <1>8, <1>9, <1>13
<1>15. Lacked(r, First, parts, m)
  BY <1>11, <1>12, <1>14 DEF Lacked
<1>16. m \in InWork(r) /\ parts \in Seq(Chunk) /\ parts # <<>>
  BY <1>5, <1>8
<1>17. QED
  BY <1>1, <1>6, <1>7, <1>15, <1>16, TookStreams

\* The chunk at the head of its sender's queue is the one that MsqRcv lacks.
LEMMA NextIsThere ==
  ASSUME IInv, NEW r \in Receiver, Stream(r), ReceiveNext(r),
         NEW m, m = buf[r][1].msg
  PROVE  /\ m \in InWork(r) /\ m.src \in Sender /\ Len(buf[r]) + 1 <= Sent(m)
         /\ queue[m.src][1] = [msg |-> m, idx |-> Len(buf[r]) + 1]
<1>1. buf[r] \in Seq(Chunk) /\ buf[r] # <<>> /\ Source(r) = m.src /\ queue[m.src] # <<>>
  BY DEF ReceiveNext, IInv, Types, Source
<1>2. PICK n : n = Len(buf[r])
  OBVIOUS
<1>3. n \in Nat /\ n >= 1 /\ buf[r][1] \in Chunk /\ n < m.n
  BY <1>1, <1>2, NotEmpty DEF Stream, Partly
<1>4. m \in InWork(r) /\ Known(m) /\ m \in Msg /\ m.src \in Sender /\ m.no \in Nat /\ m.n \in Nat
      /\ Sent(m) \in Nat
  <2>1. m \in InWork(r)
    BY <1>1, <1>3, ChunkIs DEF InWork
  <2>2. QED
    BY <2>1, InWorkIs, SentBounds DEF Stream, AllKnown
<1>5. Taken(r, m) = n
  BY <1>1, <1>2 DEF Taken
<1>6. queue[m.src] \in Seq(Chunk)
  BY <1>4 DEF IInv, Types, Type
<1>7. PICK d : d = queue[m.src][1]
  OBVIOUS
<1>8. d \in Chunk /\ 1 \in DOMAIN queue[m.src] /\ DOMAIN queue[m.src] \subseteq Nat \ {0}
  BY <1>1, <1>6, <1>7, TailIs
<1>9. d.msg \in Msg /\ d.msg.no \in Nat /\ d.idx \in Nat /\ d.idx <= d.msg.n
  <2>1. d.idx \in 1..d.msg.n
    BY <1>8 DEF Chunk
  <2>2. QED
    BY <1>8, <2>1, ChunkIs
<1>10. /\ d.msg \in InWork(r) /\ d.idx > Taken(r, d.msg)
       /\ Behind(d, m.src)
       /\ \A j \in DOMAIN queue[m.src] : 1 < j => Later(d, queue[m.src][j])
  BY <1>4, <1>7, <1>8 DEF Stream, Useful, IInv, Queued

\* If it were of a message further back, all of this one would be there.
<1>11. d.msg = m
  <2> SUFFICES ASSUME d.msg # m PROVE FALSE
    OBVIOUS
  <2>1. PICK k \in DOMAIN queue[First] : d.msg = queue[First][k].msg
    BY <1>1, <1>10 DEF InWork
  <2>2. Before(m, d.msg)
    BY <1>1, <2>1 DEF Stream, InOrder
  <2>3. m.no < d.msg.no /\ d.msg.no <= used[m.src]
    BY <1>10, <2>2 DEF Before, Behind
  <2>4. used[m.src] \in Nat
    <3>1. used[m.src] \in 0..Supply /\ Supply \in Nat
      BY <1>4, MsqOprAssumption DEF IInv, Types
    <3>2. QED
      BY <3>1
  <2>5. Sent(m) = m.n
    <3>1. CASE sending[m.src] # NoSend /\ sending[m.src].msg = m
      <4>1. m.no = used[m.src]
        BY <1>4, <3>1, SendingIs
      <4>2. QED
        BY <1>4, <1>9, <2>3, <2>4, <4>1
    <3>2. QED
      BY <3>1 DEF Sent
  <2>6. n + 1 \in Nat /\ n < n + 1 /\ n + 1 <= Sent(m)
    BY <1>3, <1>4, <2>5
  <2>7. PICK j \in DOMAIN queue[m.src] : queue[m.src][j] = [msg |-> m, idx |-> n + 1]
    BY <1>4, <1>5, <2>6 DEF Stream, Complete
  <2>8. j # 1
    BY <1>7, <2>7
  <2>9. 1 < j
    BY <1>8, <2>7, <2>8
  <2>10. Later(d, queue[m.src][j])
    BY <1>10, <2>7, <2>9
  <2>11. d.msg.no <= m.no
    BY <1>4, <1>9, <2>7, <2>10 DEF Later
  <2>12. QED
    BY <1>4, <1>9, <2>3, <2>11
<1>12. d.idx > n /\ d.idx <= Sent(m)
  <2>1. d.idx > n
    BY <1>5, <1>10, <1>11
  <2>2. d.idx <= Sent(m)
    BY <1>4, <1>9, <1>10, <1>11 DEF Sent, Behind
  <2>3. QED
    BY <2>1, <2>2
<1>13. n + 1 \in Nat /\ n < n + 1 /\ n + 1 <= Sent(m)
  BY <1>3, <1>4, <1>9, <1>12
<1>14. PICK j \in DOMAIN queue[m.src] : queue[m.src][j] = [msg |-> m, idx |-> n + 1]
  BY <1>4, <1>5, <1>13 DEF Stream, Complete
<1>15. j = 1
  <2> SUFFICES ASSUME j # 1 PROVE FALSE
    OBVIOUS
  <2>1. Later(d, queue[m.src][j])
    BY <1>8, <1>10, <1>14
  <2>2. d.idx < n + 1
    BY <1>4, <1>11, <1>14, <2>1 DEF Later
  <2>3. QED
    BY <1>3, <1>9, <1>12, <2>2
<1>16. QED
  BY <1>2, <1>4, <1>13, <1>14, <1>15

\* The chunk received is the one that comes next in its message.
LEMMA ReceiveNextStreams ==
  ASSUME IInv, NEW r \in Receiver, Stream(r), ReceiveNext(r)
  PROVE  Stream(r)'
<1>1. PICK m, s, q, c, n : m = buf[r][1].msg /\ s = m.src /\ q = buf[r] /\ c = queue[s][1] /\ n = Len(q)
  OBVIOUS
<1>2. /\ m \in InWork(r) /\ s \in Sender /\ n + 1 <= Sent(m) /\ c = [msg |-> m, idx |-> n + 1]
  BY <1>1, NextIsThere
<1>3. q \in Seq(Chunk) /\ q # <<>> /\ Source(r) = s /\ queue[s] # <<>>
  BY <1>1 DEF ReceiveNext, IInv, Types, Source
<1>4. s \in Type /\ s # First /\ queue[s] \in Seq(Chunk)
  BY <1>2, MsqOprAssumption DEF IInv, Types, Type
<1>5. c \in Chunk /\ c = Head(queue[s]) /\ 1 \in DOMAIN queue[s]
  BY <1>1, <1>3, <1>4, TailIs
<1>6. n \in Nat /\ n >= 1 /\ DOMAIN q = 1..n
  BY <1>1, <1>3, NotEmpty
<1>7. PICK parts : parts = Append(q, c)
  OBVIOUS
<1>8. /\ parts \in Seq(Chunk) /\ Len(parts) = n + 1
      /\ \A i \in DOMAIN parts : \/ i \in DOMAIN q /\ parts[i] = q[i]
                                 \/ i = n + 1 /\ parts[i] = c
      /\ DOMAIN parts = 1..(n + 1)
  <2>1. q \in Seq(Chunk) /\ c \in Chunk /\ parts = Append(q, c) /\ n = Len(q)
    BY <1>1, <1>3, <1>5, <1>7
  <2>2. QED
    BY <2>1, Appended
<1>9. parts # <<>> /\ parts[1] = q[1] /\ parts[1].msg = m
  <2>1. 1 \in DOMAIN parts /\ 1 # n + 1
    BY <1>6, <1>8
  <2>2. parts[1] = q[1]
    BY <1>8, <2>1
  <2>3. parts # <<>>
    BY <2>1
  <2>4. QED
    BY <1>1, <2>2, <2>3
<1>10. Begins(parts)
  <2>1. \A i \in DOMAIN q : q[i] = [msg |-> m, idx |-> i]
    BY <1>1 DEF Stream, Partly, Begins
  <2>2. \A i \in DOMAIN parts : parts[i] = [msg |-> m, idx |-> i]
    BY <1>2, <1>8, <2>1
  <2>3. QED
    BY <1>9, <2>2 DEF Begins
<1>11. Took(r, parts) /\ queue' = [queue EXCEPT ![s] = Tail(@)] /\ UNCHANGED <<sending, used>>
  BY <1>1, <1>3, <1>5, <1>7 DEF ReceiveNext
<1>12. /\ queue[s][1] = [msg |-> m, idx |-> Len(parts)]
       /\ Taken(r, m) <= Len(parts) /\ Len(parts) <= Sent(m)
       /\ \A x \in InWork(r) : x # m => Taken(r, x) = 1
  <2>1. Taken(r, m) = n /\ \A x : x # m => Taken(r, x) = 1
    BY <1>1, <1>3 DEF Taken
  <2>2. QED
    BY <1>1, <1>2, <1>6, <1>8, <2>1
<1>13. queue'[First] = queue[First]
  BY <1>4, <1>11 DEF IInv, Types, Type
<1>14. \A x \in InWork(r) : x # m => \E l \in DOMAIN queue'[First] : x = queue'[First][l].msg
  BY <1>1, <1>13 DEF InWork
<1>15. ASSUME NEW l \in DOMAIN queue'[First]
       PROVE  queue'[First][l].msg \in InWork(r) /\ Before(m, queue'[First][l].msg)
  BY <1>1, <1>3, <1>13 DEF Stream, InOrder, InWork
<1>16. ASSUME NEW u \in Sender, NEW j \in DOMAIN queue'[u], queue'[u][j].msg = m
       PROVE  queue'[u][j].idx > Len(parts)
  <2>1. queue'[u][j].msg.src = u
    <3>1. PICK i \in DOMAIN queue[u] : queue'[u][j] = queue[u][i]
      BY <1>3, <1>4, <1>11, TakenFrom DEF Type
    <3>2. Behind(queue[u][i], u)
      BY <3>1 DEF IInv, Queued
    <3>3. QED
      BY <3>1, <3>2 DEF Behind
  <2>2. u = s
    BY <1>1, <1>16, <2>1
  <2>3. j + 1 \in DOMAIN queue[s] /\ 1 < j + 1 /\ queue'[s][j] = queue[s][j + 1]
    BY <1>3, <1>4, <1>11, <2>2, TakenFrom
  <2>4. Later(c, queue[s][j + 1])
    BY <1>1, <1>2, <1>5, <2>3 DEF IInv, Queued
  <2>5. ~ (m.no < m.no)
    BY <1>2, InWorkIs
  <2>6. n + 1 < queue'[s][j].idx
    BY <1>2, <1>16, <2>2, <2>3, <2>4, <2>5 DEF Later
  <2>7. queue[s][j + 1] \in Chunk
    BY <1>4, <2>3
  <2>8. QED
    BY <1>6, <1>8, <2>2, <2>3, <2>6, <2>7, ChunkIs
<1>17. \A u \in Sender : \A j \in DOMAIN queue'[u] :
         queue'[u][j].msg = m => queue'[u][j].idx > Len(parts)
  BY <1>16
<1>18. Lacked(r, s, parts, m)
  BY <1>12, <1>14, <1>15, <1>17 DEF Lacked
<1>19. m \in InWork(r) /\ parts \in Seq(Chunk) /\ parts # <<>> /\ s \in Type /\ queue[s] # <<>>
  BY <1>2, <1>3, <1>4, <1>8, <1>9
<1>20. QED
  BY <1>9, <1>10, <1>11, <1>18, <1>19, TookStreams

\* Every step keeps the stream until a call is broken off.
LEMMA NextStreams ==
  ASSUME IInv, NEW r, Receiver = {r}, breaks = 0 => Stream(r), [Next]_vars
  PROVE  breaks' = 0 => Stream(r)'
<1> SUFFICES ASSUME breaks' = 0 PROVE Stream(r)'
  OBVIOUS
<1>1. CASE UNCHANGED vars
  <2>1. UNCHANGED <<queue, sending, used, buf, got>> /\ breaks = 0
    BY <1>1 DEF vars
  <2>2. r \in Receiver /\ Stream(r)
    BY <2>1
  <2>3. QED
    BY <2>1, <2>2, StreamUnlessMoved DEF Known, Sent
<1>2. CASE \E s \in Sender : Begin(s) \/ SendChunk(s) \/ SenderKilled(s)
  <2>1. PICK s \in Sender : Begin(s) \/ SendChunk(s) \/ SenderKilled(s)
    BY <1>2
  <2>2. breaks = 0
    BY <2>1 DEF Begin, SendChunk, SenderKilled
  <2>3. CASE Begin(s)
    BY <2>2, <2>3, BeginStreams
  <2>4. CASE SendChunk(s)
    BY <2>2, <2>4, FirstChunkStreams, NextChunkStreams
  <2>5. CASE SenderKilled(s)
    <3>1. UNCHANGED <<queue, sending, used, buf, got>>
      BY <2>5 DEF SenderKilled
    <3>2. QED
      BY <2>2, <3>1, StreamUnlessMoved DEF Known, Sent
  <2>6. QED
    BY <2>1, <2>3, <2>4, <2>5
<1>3. CASE ReceiveFirst(r) \/ ReceiveNext(r)
  <2>1. breaks = 0
    BY <1>3 DEF ReceiveFirst, ReceiveNext
  <2>2. QED
    BY <1>3, <2>1, ReceiveFirstStreams, ReceiveNextStreams
<1>4. ~ ReceiverRestarts(r) /\ \A s \in Sender : ~ Interrupted(s)
  BY MsqOprAssumption DEF ReceiverRestarts, Interrupted, IInv, Types
<1>5. QED
  BY <1>1, <1>2, <1>3, <1>4 DEF Next

\* A function on 1..n is a sequence of n elements.
LEMMA IsSeq ==
  ASSUME NEW S, NEW n \in Nat, NEW f \in [1..n -> S]
  PROVE  f \in Seq(S) /\ Len(f) = n
<1>1. f \in Seq(S)
  BY SeqDef
<1>2. Len(f) \in Nat /\ 1..Len(f) = 1..n
  BY <1>1, LenProperties
<1>3. QED
  BY <1>1, <1>2

\* A sequence that agrees with one shorter by one appends its last element.
LEMMA IsAppend ==
  ASSUME NEW S, NEW n \in Nat, NEW f \in [1..n -> S], NEW g \in [1..(n + 1) -> S],
         \A k \in 1..n : g[k] = f[k]
  PROVE  g = Append(f, g[n + 1])
<1>1. n + 1 \in Nat /\ g[n + 1] \in S
  <2>1. n + 1 \in 1..(n + 1)
    OBVIOUS
  <2>2. QED
    BY <2>1
<1>2. f \in Seq(S) /\ Len(f) = n
  BY IsSeq
<1>3. g \in Seq(S) /\ Len(g) = n + 1
  BY <1>1, IsSeq
<1>4. /\ Append(f, g[n + 1]) \in Seq(S) /\ Len(Append(f, g[n + 1])) = n + 1
      /\ \A k \in 1..n : Append(f, g[n + 1])[k] = f[k]
      /\ Append(f, g[n + 1])[n + 1] = g[n + 1]
  BY <1>1, <1>2, AppendProperties
<1>5. \A k \in 1..(n + 1) : g[k] = Append(f, g[n + 1])[k]
  <2>1. \A k \in 1..(n + 1) : k \in 1..n \/ k = n + 1
    OBVIOUS
  <2>2. QED
    BY <1>4, <2>1
<1>6. QED
  BY <1>3, <1>4, <1>5, SeqEqual

\* The messages of chunks, one by one.
LEMMA MsgsOfIs ==
  ASSUME NEW q \in Seq(Chunk)
  PROVE  /\ MsgsOf(q) \in Seq(Msg) /\ Len(MsgsOf(q)) = Len(q) /\ Len(q) \in Nat
         /\ \A i \in 1..Len(q) : MsgsOf(q)[i] = q[i].msg /\ q[i].msg \in Msg
<1>1. Len(q) \in Nat /\ DOMAIN q = 1..Len(q)
  BY LenProperties
<1>2. \A i \in 1..Len(q) : q[i].msg \in Msg
  BY ElementOfSeq, ChunkIs
<1>3. MsgsOf(q) \in [1..Len(q) -> Msg] /\ \A i \in 1..Len(q) : MsgsOf(q)[i] = q[i].msg
  BY <1>1, <1>2 DEF MsgsOf
<1>4. QED
  BY <1>1, <1>2, <1>3, IsSeq

\* The messages of chunks without the first.
LEMMA MsgsOfTail ==
  ASSUME NEW q \in Seq(Chunk), q # <<>>
  PROVE  /\ MsgsOf(q) = <<q[1].msg>> \o MsgsOf(Tail(q))
         /\ MsgsOf(Tail(q)) \in Seq(Msg) /\ q[1].msg \in Msg
<1>1. PICK n, t, a, b, m : n = Len(q) /\ t = Tail(q) /\ a = MsgsOf(q) /\ b = MsgsOf(t) /\ m = q[1].msg
  OBVIOUS
<1>2. n \in Nat /\ n >= 1
  BY <1>1, EmptySeq
<1>3. t \in Seq(Chunk) /\ Len(t) = n - 1 /\ \A i \in 1..(n - 1) : t[i] = q[i + 1]
  BY <1>1, HeadTailProperties
<1>4. a \in Seq(Msg) /\ Len(a) = n /\ \A i \in 1..n : a[i] = q[i].msg /\ q[i].msg \in Msg
  BY <1>1, MsgsOfIs
<1>5. b \in Seq(Msg) /\ Len(b) = n - 1 /\ \A i \in 1..(n - 1) : b[i] = t[i].msg
  BY <1>1, <1>3, MsgsOfIs
<1>6. m \in Msg
  BY <1>1, <1>2, <1>4
<1>7. <<m>> \in Seq(Msg) /\ Len(<<m>>) = 1 /\ <<m>>[1] = m
  BY <1>6
<1>8. /\ <<m>> \o b \in Seq(Msg) /\ Len(<<m>> \o b) = n
      /\ \A i \in 1..n : (<<m>> \o b)[i] = IF i <= 1 THEN <<m>>[i] ELSE b[i - 1]
  <2>1. /\ <<m>> \o b \in Seq(Msg) /\ Len(<<m>> \o b) = Len(<<m>>) + Len(b)
        /\ \A i \in 1..(Len(<<m>>) + Len(b)) :
             (<<m>> \o b)[i] = IF i <= Len(<<m>>) THEN <<m>>[i] ELSE b[i - Len(<<m>>)]
    BY <1>5, <1>7, ConcatProperties
  <2>2. Len(<<m>>) + Len(b) = n
    BY <1>2, <1>5, <1>7
  <2>3. QED
    BY <1>7, <2>1, <2>2
<1>9. ASSUME NEW i \in 1..n PROVE a[i] = (<<m>> \o b)[i]
  <2>1. CASE i = 1
    BY <1>1, <1>2, <1>4, <1>7, <1>8, <2>1
  <2>2. CASE i # 1
    <3>1. i - 1 \in 1..(n - 1) /\ (i - 1) + 1 = i /\ ~ (i <= 1)
      BY <1>2, <2>2
    <3>2. b[i - 1] = q[i].msg
      BY <1>3, <1>5, <3>1
    <3>3. QED
      BY <1>4, <1>8, <3>1, <3>2
  <2>3. QED
    BY <2>1, <2>2
<1>10. a = <<m>> \o b
  BY <1>4, <1>8, <1>9, SeqEqual
<1>11. QED
  BY <1>1, <1>5, <1>6, <1>10

\* The messages of chunks with one more.
LEMMA MsgsOfAppend ==
  ASSUME NEW q \in Seq(Chunk), NEW c \in Chunk
  PROVE  MsgsOf(Append(q, c)) = Append(MsgsOf(q), c.msg)
<1>1. PICK n, a, b, m : n = Len(q) /\ a = MsgsOf(q) /\ b = MsgsOf(Append(q, c)) /\ m = c.msg
  OBVIOUS
<1>2. /\ Append(q, c) \in Seq(Chunk) /\ Len(Append(q, c)) = n + 1 /\ n \in Nat
      /\ \A i \in 1..n : Append(q, c)[i] = q[i]
      /\ Append(q, c)[n + 1] = c
  BY <1>1, AppendProperties, LenProperties
<1>3. m \in Msg /\ a \in Seq(Msg) /\ Len(a) = n /\ \A i \in 1..n : a[i] = q[i].msg
  BY <1>1, ChunkIs, MsgsOfIs
<1>4. b \in Seq(Msg) /\ Len(b) = n + 1 /\ \A i \in 1..(n + 1) : b[i] = Append(q, c)[i].msg
  BY <1>1, <1>2, MsgsOfIs
<1>5. /\ Append(a, m) \in Seq(Msg) /\ Len(Append(a, m)) = n + 1
      /\ \A i \in 1..n : Append(a, m)[i] = a[i]
      /\ Append(a, m)[n + 1] = m
  BY <1>3, AppendProperties
<1>6. ASSUME NEW i \in 1..(n + 1) PROVE b[i] = Append(a, m)[i]
  <2>1. CASE i = n + 1
    BY <1>1, <1>2, <1>4, <1>5, <2>1
  <2>2. CASE i # n + 1
    <3>1. i \in 1..n
      BY <1>2, <2>2
    <3>2. QED
      BY <1>2, <1>3, <1>4, <1>5, <3>1
  <2>3. QED
    BY <2>1, <2>2
<1>7. b = Append(a, m)
  BY <1>4, <1>5, <1>6, SeqEqual
<1>8. QED
  BY <1>1, <1>7

\* What is in transit: the message a receiver has a part of, then those whose
\* first chunk is queued.
Carried(r) ==
  /\ MsgsOf(queue[First]) \in Seq(Msg)
  /\ buf[r] = <<>> => Transit = MsgsOf(queue[First])
  /\ buf[r] # <<>> => /\ Transit = <<buf[r][1].msg>> \o MsgsOf(queue[First])
                      /\ buf[r][1].msg \in Msg

\* What is on its way is what the receiver holds and the first chunks queued.
LEMMA TransitIs ==
  ASSUME NEW r, Receiver = {r}
  PROVE  IInv => Carried(r)
<1> SUFFICES ASSUME IInv PROVE Carried(r)
  OBVIOUS
<1>1. queue[First] \in Seq(Chunk) /\ buf[r] \in Seq(Chunk)
  BY DEF IInv, Types, Type
<1>2. MsgsOf(queue[First]) \in Seq(Msg)
  BY <1>1, MsgsOfIs
<1>3. CASE buf[r] = <<>>
  <2>1. Begun = <<>>
    BY <1>3 DEF Begun, Assembling
  <2>2. QED
    BY <1>2, <1>3, <2>1 DEF Transit, Carried
<1>4. CASE buf[r] # <<>>
  <2>1. Assembling = {r}
    BY <1>4 DEF Assembling
  <2>2. (CHOOSE q \in Assembling : TRUE) = r /\ Assembling # {}
    BY <2>1
  <2>3. Begun = <<buf[r][1].msg>>
    BY <2>2 DEF Begun
  <2>4. buf[r][1] \in Chunk
    BY <1>1, <1>4
  <2>5. buf[r][1].msg \in Msg
    BY <2>4, ChunkIs
  <2>6. QED
    BY <1>2, <1>4, <2>3, <2>5 DEF Transit, Carried
<1>5. QED
  BY <1>3, <1>4

\* The same after a step.
LEMMA TransitThen ==
  ASSUME NEW r, Receiver = {r}
  PROVE  IInv' => Carried(r)'
<1>1. IInv => Carried(r)
  BY TransitIs
<1>2. QED
  BY <1>1, PTL

\* A message that is in transit or was received is one MsqSnd has begun.
LEMMA NotInQueue ==
  ASSUME IInv, NEW r, Receiver = {r}, Stream(r), NEW m \in Msg, ~ Known(m)
  PROVE  /\ \A i \in DOMAIN Transit : Transit[i] # m
         /\ \A i \in DOMAIN Received : Received[i] # m
<1>1. Carried(r) /\ queue[First] \in Seq(Chunk) /\ r \in Receiver
  BY TransitIs DEF IInv, Types, Type
<1>2. PICK q : q = MsgsOf(queue[First])
  OBVIOUS
<1>3. q \in Seq(Msg) /\ Len(q) \in Nat /\ DOMAIN q = 1..Len(q) /\ \A i \in 1..Len(q) : q[i] # m
  <2>1. q \in Seq(Msg) /\ Len(q) = Len(queue[First]) /\ Len(q) \in Nat
        /\ \A i \in 1..Len(q) : q[i] = queue[First][i].msg
    BY <1>1, <1>2, MsgsOfIs
  <2>2. DOMAIN queue[First] = 1..Len(q) /\ DOMAIN q = 1..Len(q)
    BY <1>1, <2>1, LenProperties
  <2>3. \A i \in 1..Len(q) : Known(queue[First][i].msg)
    BY <2>2 DEF Stream, AllKnown, InWork
  <2>4. QED
    BY <2>1, <2>2, <2>3
<1>4. ASSUME NEW i \in DOMAIN Transit PROVE Transit[i] # m
  <2>1. CASE buf[r] = <<>>
    BY <1>1, <1>2, <1>3, <1>4, <2>1 DEF Carried
  <2>2. CASE buf[r] # <<>>
    <3>1. PICK x \in Msg : x = buf[r][1].msg
      BY <1>1, <2>2 DEF Carried
    <3>2. x \in InWork(r)
      BY <2>2, <3>1 DEF InWork
    <3>3. x # m
      BY <3>2 DEF Stream, AllKnown
    <3>4. <<x>> \in Seq(Msg) /\ Len(<<x>>) = 1 /\ <<x>>[1] = x
      OBVIOUS
    <3>5. Transit = <<x>> \o q
      BY <1>1, <1>2, <2>2, <3>1 DEF Carried
    <3>6. /\ Transit \in Seq(Msg) /\ Len(Transit) = 1 + Len(q)
          /\ \A k \in 1..(1 + Len(q)) :
               Transit[k] = IF k <= 1 THEN <<x>>[k] ELSE q[k - 1]
      BY <1>3, <3>4, <3>5, ConcatProperties
    <3>7. i \in 1..(1 + Len(q))
      BY <1>4, <3>6, LenProperties
    <3>8. CASE i = 1
      BY <3>3, <3>4, <3>6, <3>7, <3>8
    <3>9. CASE i # 1
      <4>1. i - 1 \in 1..Len(q) /\ ~ (i <= 1)
        BY <1>3, <3>7, <3>9
      <4>2. QED
        BY <1>3, <3>6, <3>7, <4>1
    <3>10. QED
      BY <3>8, <3>9
  <2>3. QED
    BY <2>1, <2>2
<1>5. ASSUME NEW k \in DOMAIN Received PROVE Received[k] # m
  <2>1. k \in DOMAIN got /\ Received[k] = Returned(got[k])
    BY DEF Received
  <2>2. IsWhole(got[k]) /\ Known(got[k][1].msg)
    BY <2>1 DEF Stream, Partly, AllKnown
  <2>3. QED
    BY <2>1, <2>2 DEF Returned
<1>6. QED
  BY <1>4, <1>5

\* The first chunk of a message puts it in the queue.
LEMMA FirstChunkPuts ==
  ASSUME IInv, IInv', NEW r, Receiver = {r}, Stream(r), NEW s \in Sender, SendChunk(s),
         sending[s].sent = 0
  PROVE  \E m \in Msg : Queue!Put(m)
<1>1. PICK m, c, q : m = sending[s].msg /\ c = [msg |-> m, idx |-> 1] /\ q = MsgsOf(queue[First])
  OBVIOUS
<1>2. sending[s] # NoSend /\ UNCHANGED <<buf, got>>
  BY DEF SendChunk
<1>3. m \in Msg /\ m.src = s
  BY <1>1, <1>2, SendingIs
<1>4. ~ Known(m)
  BY <1>1, <1>2, <1>3 DEF Known
<1>5. queue'[First] = Append(queue[First], c) /\ c \in Chunk /\ queue[First] \in Seq(Chunk)
  BY <1>1, FirstChunkStreams DEF IInv, Types, Type
<1>6. MsgsOf(queue'[First]) = Append(q, m)
  BY <1>1, <1>5, MsgsOfAppend
<1>7. Carried(r) /\ Carried(r)'
  BY TransitIs, TransitThen
<1>8. q \in Seq(Msg) /\ Append(q, m) \in Seq(Msg)
  BY <1>1, <1>3, <1>7, AppendProperties DEF Carried
<1>9. Transit' = Append(Transit, m)
  <2>1. CASE buf[r] = <<>>
    <3>1. Transit = q
      BY <1>1, <1>7, <2>1 DEF Carried
    <3>2. Transit' = Append(q, m)
      BY <1>2, <1>6, <1>7, <2>1 DEF Carried, MsgsOf
    <3>3. QED
      BY <3>1, <3>2
  <2>2. CASE buf[r] # <<>>
    <3>1. PICK x \in Msg : x = buf[r][1].msg
      BY <1>7, <2>2 DEF Carried
    <3>2. Transit = <<x>> \o q
      BY <1>1, <1>7, <2>2, <3>1 DEF Carried
    <3>3. Transit' = <<x>> \o Append(q, m)
      BY <1>2, <1>6, <1>7, <2>2, <3>1 DEF Carried, MsgsOf
    <3>4. <<x>> \o Append(q, m) = Append(<<x>> \o q, m)
      <4>1. <<x>> \in Seq(Msg) /\ <<m>> \in Seq(Msg)
        BY <1>3
      <4>2. Append(q, m) = q \o <<m>>
        BY <1>3, <1>8, AppendIsConcat
      <4>3. <<x>> \o (q \o <<m>>) = (<<x>> \o q) \o <<m>>
        BY <1>8, <4>1, ConcatAssociative
      <4>4. <<x>> \o q \in Seq(Msg)
        BY <1>8, <4>1, ConcatProperties
      <4>5. Append(<<x>> \o q, m) = (<<x>> \o q) \o <<m>>
        BY <1>3, <4>4, AppendIsConcat
      <4>6. QED
        BY <4>2, <4>3, <4>5
    <3>5. QED
      BY <3>2, <3>3, <3>4
  <2>3. QED
    BY <2>1, <2>2
<1>10. Received' = Received
  BY <1>2 DEF Received
<1>11. /\ \A i \in DOMAIN Transit : Transit[i] # m
       /\ \A i \in DOMAIN Received : Received[i] # m
  BY <1>3, <1>4, NotInQueue
<1>12. QED
  BY <1>3, <1>9, <1>10, <1>11 DEF Queue!Put

\* A receive step is the Get of the message it completes, or changes nothing.
LEMMA TookGets ==
  ASSUME IInv, IInv', NEW r, Receiver = {r}, NEW parts \in Seq(Chunk), parts # <<>>,
         Begins(parts), Took(r, parts), NEW m \in Msg, parts[1].msg = m,
         Transit = <<m>> \o MsgsOf(queue'[First])
  PROVE  Queue!Get \/ UNCHANGED Queue!vars
<1>1. Carried(r)' /\ buf \in [Receiver -> Seq(Chunk)]
  BY TransitThen DEF IInv, Types
<1>2. PICK q : q = MsgsOf(queue'[First])
  OBVIOUS
<1>3. q \in Seq(Msg) /\ Transit = <<m>> \o q
  BY <1>1, <1>2 DEF Carried, MsgsOf
<1>4. CASE Len(parts) = m.n
  <2>1. got' = Append(got, parts) /\ buf'[r] = <<>>
    BY <1>1, <1>4 DEF Took
  <2>2. Transit' = q
    BY <1>1, <1>2, <2>1 DEF Carried, MsgsOf
  <2>3. Transit # <<>> /\ Head(Transit) = m /\ Tail(Transit) = q
    BY <1>3
  <2>4. Returned(parts) = m
    BY <1>4 DEF Returned, IsWhole, Begins
  <2>5. Received' = Append(Received, m)
    <3>1. got \in Seq(Seq(Chunk))
      BY DEF IInv, Types
    <3>2. PICK n : n = Len(got)
      OBVIOUS
    <3>3. n \in Nat /\ DOMAIN got = 1..n /\ DOMAIN got' = 1..(n + 1) /\ got'[n + 1] = parts
          /\ \A k \in 1..n : got'[k] = got[k]
      BY <2>1, <3>1, <3>2, AppendIs, AppendProperties, LenProperties
    <3>4. Received = [k \in 1..n |-> Returned(got[k])]
      BY <3>3 DEF Received
    <3>5. Received' = [k \in 1..(n + 1) |-> Returned(got'[k])]
      BY <3>3 DEF Received
    <3>6. PICK f, g : f = Received /\ g = Received'
      OBVIOUS
    <3>7. \A k \in 1..n : k \in 1..(n + 1) /\ g[k] = f[k]
      BY <3>3, <3>4, <3>5, <3>6
    <3>8. g[n + 1] = m
      <4>1. n + 1 \in 1..(n + 1)
        BY <3>3
      <4>2. QED
        BY <2>4, <3>3, <3>5, <3>6, <4>1
    <3>9. PICK S : S = {g[k] : k \in 1..(n + 1)}
      OBVIOUS
    <3>10. g \in [1..(n + 1) -> S]
      BY <3>5, <3>6, <3>9
    <3>11. f \in [1..n -> S]
      BY <3>4, <3>6, <3>7, <3>9
    <3>12. g = Append(f, g[n + 1])
      BY <3>3, <3>7, <3>10, <3>11, IsAppend
    <3>13. QED
      BY <3>6, <3>8, <3>12
  <2>6. QED
    BY <2>2, <2>3, <2>5 DEF Queue!Get
<1>5. CASE Len(parts) # m.n
  <2>1. got' = got /\ buf'[r] = parts
    BY <1>1, <1>5 DEF Took
  <2>2. Transit' = Transit
    BY <1>1, <1>2, <1>3, <2>1 DEF Carried, MsgsOf
  <2>3. Received' = Received
    BY <2>1 DEF Received
  <2>4. QED
    BY <2>2, <2>3 DEF Queue!vars
<1>6. QED
  BY <1>4, <1>5

\* A message of one chunk is received; a longer one stays on its way.
LEMMA ReceiveFirstGets ==
  ASSUME IInv, IInv', NEW r, Receiver = {r}, ReceiveFirst(r)
  PROVE  Queue!Get \/ UNCHANGED Queue!vars
<1>1. queue[First] \in Seq(Chunk) /\ queue[First] # <<>> /\ buf[r] = <<>>
  BY DEF ReceiveFirst, IInv, Types, Type
<1>2. PICK c : c = queue[First][1]
  OBVIOUS
<1>3. c \in Chunk /\ c = Head(queue[First]) /\ 1 \in DOMAIN queue[First] /\ c.idx = 1
  BY <1>1, <1>2, TailIs DEF IInv, Queued
<1>4. PICK m, parts : m = c.msg /\ parts = <<c>>
  OBVIOUS
<1>5. c = [msg |-> m, idx |-> 1] /\ parts \in Seq(Chunk) /\ parts # <<>>
      /\ DOMAIN parts = {1} /\ parts[1] = c /\ m \in Msg
  BY <1>3, <1>4 DEF Chunk
<1>6. Begins(parts) /\ parts[1].msg = m
  BY <1>4, <1>5 DEF Begins
<1>7. Took(r, parts) /\ queue'[First] = Tail(queue[First])
  BY <1>3, <1>4 DEF ReceiveFirst, IInv, Types, Type
<1>8. Transit = <<m>> \o MsgsOf(queue'[First])
  <2>1. Transit = MsgsOf(queue[First])
    BY <1>1, TransitIs DEF Carried
  <2>2. MsgsOf(queue[First]) = <<m>> \o MsgsOf(Tail(queue[First]))
    BY <1>1, <1>2, <1>4, MsgsOfTail
  <2>3. QED
    BY <1>7, <2>1, <2>2
<1>9. QED
  BY <1>5, <1>6, <1>7, <1>8, TookGets

\* The last chunk makes a message received; any other changes nothing.
LEMMA ReceiveNextGets ==
  ASSUME IInv, IInv', NEW r, Receiver = {r}, Stream(r), ReceiveNext(r)
  PROVE  Queue!Get \/ UNCHANGED Queue!vars
<1>1. PICK m, s, q, c, n : m = buf[r][1].msg /\ s = m.src /\ q = buf[r] /\ c = queue[s][1] /\ n = Len(q)
  OBVIOUS
<1>2. m \in Msg /\ s \in Sender /\ c = [msg |-> m, idx |-> n + 1]
  BY <1>1, NextIsThere, InWorkIs
<1>3. q \in Seq(Chunk) /\ q # <<>> /\ Source(r) = s /\ queue[s] # <<>>
  BY <1>1 DEF ReceiveNext, IInv, Types, Source
<1>4. s # First /\ queue[s] \in Seq(Chunk)
  BY <1>2, MsqOprAssumption DEF IInv, Types, Type
<1>5. c \in Chunk /\ c = Head(queue[s])
  BY <1>1, <1>3, <1>4, TailIs
<1>6. n \in Nat /\ n >= 1 /\ DOMAIN q = 1..n
  BY <1>1, <1>3, NotEmpty
<1>7. PICK parts : parts = Append(q, c)
  OBVIOUS
<1>8. /\ parts \in Seq(Chunk)
      /\ \A i \in DOMAIN parts : \/ i \in DOMAIN q /\ parts[i] = q[i]
                                 \/ i = n + 1 /\ parts[i] = c
      /\ DOMAIN parts = 1..(n + 1)
  <2>1. q \in Seq(Chunk) /\ c \in Chunk /\ parts = Append(q, c) /\ n = Len(q)
    BY <1>1, <1>3, <1>5, <1>7
  <2>2. QED
    BY <2>1, Appended
<1>9. parts # <<>> /\ parts[1] = q[1] /\ parts[1].msg = m
  <2>1. 1 \in DOMAIN parts /\ 1 # n + 1
    BY <1>6, <1>8
  <2>2. parts[1] = q[1]
    BY <1>8, <2>1
  <2>3. parts # <<>>
    BY <2>1
  <2>4. QED
    BY <1>1, <2>2, <2>3
<1>10. Begins(parts)
  <2>1. \A i \in DOMAIN q : q[i] = [msg |-> m, idx |-> i]
    BY <1>1 DEF Stream, Partly, Begins
  <2>2. \A i \in DOMAIN parts : parts[i] = [msg |-> m, idx |-> i]
    BY <1>2, <1>8, <2>1
  <2>3. QED
    BY <1>9, <2>2 DEF Begins
<1>11. Took(r, parts) /\ queue'[First] = queue[First]
  BY <1>1, <1>3, <1>4, <1>5, <1>7 DEF ReceiveNext, IInv, Types, Type
<1>12. Transit = <<m>> \o MsgsOf(queue'[First])
  BY <1>1, <1>3, <1>11, TransitIs DEF Carried
<1>13. QED
  BY <1>2, <1>8, <1>9, <1>10, <1>11, <1>12, TookGets

\* Every step puts a message, gets one, or changes nothing of the queue.
LEMMA NextImplements ==
  ASSUME IInv, IInv', NEW r, Receiver = {r}, breaks = 0 => Stream(r), [Next]_vars
  PROVE  [breaks' = 0 => Queue!Next]_(Queue!vars)
<1> SUFFICES ASSUME breaks' = 0 PROVE Queue!Next \/ UNCHANGED Queue!vars
  OBVIOUS
<1>1. ASSUME UNCHANGED <<queue[First], buf, got>> PROVE UNCHANGED Queue!vars
  BY <1>1 DEF Queue!vars, Transit, Received, Begun, Assembling, MsgsOf
<1>2. CASE UNCHANGED vars
  BY <1>1, <1>2 DEF vars
<1>3. CASE \E s \in Sender : Begin(s) \/ SendChunk(s) \/ SenderKilled(s)
  <2>1. PICK s \in Sender : Begin(s) \/ SendChunk(s) \/ SenderKilled(s)
    BY <1>3
  <2>2. CASE Begin(s) \/ SenderKilled(s)
    BY <1>1, <2>2 DEF Begin, SenderKilled
  <2>3. CASE SendChunk(s)
    <3>1. breaks = 0
      BY <2>3 DEF SendChunk
    <3>2. CASE sending[s].sent = 0
      BY <2>3, <3>1, <3>2, FirstChunkPuts DEF Queue!Next
    <3>3. CASE sending[s].sent # 0
      BY <1>1, <2>3, <3>1, <3>3, NextChunkStreams
    <3>4. QED
      BY <3>2, <3>3
  <2>4. QED
    BY <2>1, <2>2, <2>3
<1>4. CASE ReceiveFirst(r)
  BY <1>4, ReceiveFirstGets DEF Queue!Next
<1>5. CASE ReceiveNext(r)
  <2>1. breaks = 0
    BY <1>5 DEF ReceiveNext
  <2>2. QED
    BY <1>5, <2>1, ReceiveNextGets DEF Queue!Next
<1>6. ~ ReceiverRestarts(r) /\ \A s \in Sender : ~ Interrupted(s)
  BY MsqOprAssumption DEF ReceiverRestarts, Interrupted, IInv, Types
<1>7. QED
  BY <1>2, <1>3, <1>4, <1>5, <1>6 DEF Next

\* The queue is empty at the start.
LEMMA InitImplements ==
  ASSUME NEW r, Receiver = {r}, Init
  PROVE  Queue!Init /\ Stream(r)
<1>1. Transit = <<>> /\ Received = <<>>
  <2>1. Assembling = {} /\ queue[First] = <<>> /\ got = <<>>
    BY DEF Init, Assembling, Type
  <2>2. MsgsOf(<<>>) = <<>>
    BY DEF MsgsOf
  <2>3. QED
    BY <2>1, <2>2 DEF Transit, Begun, Received
<1>2. Stream(r)
  BY DEF Init, Type, Stream, AllKnown, InOrder, Useful, Complete, Partly, Begins, InWork
<1>3. QED
  BY <1>1, <1>2 DEF Queue!Init

\* MsqSnd and MsqRcv, chunk by chunk, are a queue of messages to the process that
\* receives from it: as long as no call was broken off, it is handed every
\* message whole, once, and in the order in which their first chunks were sent,
\* however many processes send, whoever of them is killed, and however their
\* chunks interleave.
THEOREM ImplementsQueue ==
  ASSUME NEW r, Receiver = {r}
  PROVE  Spec => QueueSpec
<1>1. Init => Queue!Init /\ (breaks = 0 => Stream(r))
  BY InitImplements
<1>2. IInv /\ IInv' /\ (breaks = 0 => Stream(r)) /\ [Next]_vars => (breaks = 0 => Stream(r))'
  BY NextStreams
<1>3. IInv /\ IInv' /\ (breaks = 0 => Stream(r)) /\ [Next]_vars
        => [breaks' = 0 => Queue!Next]_(Queue!vars)
  BY NextImplements
<1>4. QED
  BY <1>1, <1>2, <1>3, Inductive, PTL DEF Spec, QueueSpec
=============================================================================
