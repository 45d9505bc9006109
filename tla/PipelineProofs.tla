--------------------------- MODULE PipelineProofs ---------------------------
(***************************************************************************)
(* Proofs about Pipeline for any number of requests and workers, any       *)
(* lengths and any capacities: which limits keep the processes from        *)
(* waiting in msgsnd, and that each request is in one place.               *)
(***************************************************************************)
EXTENDS Pipeline, FiniteSetTheorems, TLAPS

Len1 == 1..MaxLen
Chunk == Req \X Len1

Types ==
  /\ limit \in Nat /\ workers \in Nat
  /\ length \in [Req -> [ask : Len1, answer : Len1]]
  /\ sending \in Req \cup {None} /\ unsent \in Nat
  /\ wants \in [Req -> 0..MaxLen] /\ owes \in [Req -> 0..MaxLen]
  /\ executing \subseteq Req
  /\ queue1106 \in Seq(Req) /\ rest1106 \in Nat
  /\ queue2810 \in Seq(Req) /\ rest2810 \subseteq Chunk
  /\ reading \in Req \cup {None} /\ missing \in 0..MaxLen
  /\ reading # None => missing > 0

\* The chunks the event loop is about to send were counted against a queue that
\* nobody else has added to since.
LoopCounted ==
  sending # None =>
    /\ unsent \in 1..length[sending].ask
    /\ Qnum1106 + unsent <= limit + length[sending].ask

\* The chunks that workers have still to send; the last of an answer is its first.
Owed == {c \in Chunk : c[2] <= owes[c[1]]}

\* Every worker that is about to reply has counted a queue to which the others
\* may have added a whole answer each.
WorkersCounted ==
  /\ Cardinality(Busy) <= workers
  /\ \A r \in Req : owes[r] <= length[r].answer
  /\ \A m \in Len1 :
       (\A r \in Req : length[r].answer <= m)
       => Qnum2810 + Cardinality(Owed) <= limit + workers * m

IInv == Types /\ LoopCounted /\ WorkersCounted

----------------------------------------------------------------------------
(* Cardinalities of sets of requests and of chunks *)

LEMMA Constants ==
  /\ MaxReq \in Nat /\ MaxLen \in Nat /\ MaxLen > 0
  /\ Cap1106 \in Nat /\ Cap2810 \in Nat /\ PipeCap \in Nat /\ MaxDeaths \in Nat
  /\ None \notin Req
  /\ \A n \in Len1 : n \in Nat /\ n > 0 /\ n - 1 \in 0..MaxLen
BY PipelineAssumption DEF None, Req, Len1

\* There are finitely many requests and chunks.
LEMMA Finite == IsFiniteSet(Req) /\ IsFiniteSet(Chunk)
<1>1. IsFiniteSet(Req)
  BY Constants, FS_Interval DEF Req
<1>2. IsFiniteSet(Len1)
  BY Constants, FS_Interval DEF Len1
<1>3. QED
  BY <1>1, <1>2, FS_Product DEF Chunk

\* The sizes of finite sets follow their inclusion.
LEMMA Sizes ==
  ASSUME NEW S, IsFiniteSet(S), NEW A \in SUBSET S, NEW B \in SUBSET S, A \subseteq B
  PROVE  /\ IsFiniteSet(A) /\ Cardinality(A) \in Nat
         /\ IsFiniteSet(B) /\ Cardinality(B) \in Nat /\ Cardinality(A) <= Cardinality(B)
         /\ (A # {} => Cardinality(A) >= 1)
<1>1. IsFiniteSet(A) /\ IsFiniteSet(B)
  BY FS_Subset
<1>2. Cardinality(A) \in Nat /\ Cardinality(B) \in Nat
  BY <1>1, FS_CardinalityType
<1>3. Cardinality(A) <= Cardinality(B)
  BY <1>1, FS_Subset
<1>4. A # {} => Cardinality(A) >= 1
  BY <1>1, <1>2, FS_EmptySet
<1>5. QED
  BY <1>1, <1>2, <1>3, <1>4

\* Adding an element adds at most one; taking one that is there away takes one.
LEMMA OneMoreOneLess ==
  ASSUME NEW S, IsFiniteSet(S), NEW A \in SUBSET S, NEW x
  PROVE  /\ Cardinality(A \cup {x}) <= Cardinality(A) + 1
         /\ (x \in A => Cardinality(A \ {x}) = Cardinality(A) - 1)
<1>1. IsFiniteSet(A) /\ Cardinality(A) \in Nat
  BY FS_Subset, FS_CardinalityType
<1>2. Cardinality(A \cup {x}) = IF x \in A THEN Cardinality(A) ELSE Cardinality(A) + 1
  BY <1>1, FS_AddElement
<1>3. x \in A => Cardinality(A \ {x}) = Cardinality(A) - 1
  BY <1>1, FS_RemoveElement
<1>4. QED
  BY <1>1, <1>2, <1>3

\* k factors of m are at most n of them.
LEMMA Times ==
  ASSUME NEW k \in Nat, NEW n \in Nat, NEW m \in Nat, k <= n
  PROVE  k * m \in Nat /\ k * m <= n * m
<1>1. PICK d \in Nat : n = k + d
  <2>1. n - k \in Nat /\ n = k + (n - k)
    OBVIOUS
  <2>2. QED
    BY <2>1
<1>2. n * m = k * m + d * m
  BY <1>1
<1>3. k * m \in Nat /\ d * m \in Nat
  BY <1>1
<1>4. QED
  BY <1>2, <1>3

\* Numbers of chunks, and of all that the workers owe.
LEMMA Numbered ==
  ASSUME Types
  PROVE  /\ Len(queue1106) \in Nat /\ Qnum1106 \in Nat
         /\ Len(queue2810) \in Nat /\ Cardinality(rest2810) \in Nat /\ Qnum2810 \in Nat
         /\ Owed \in SUBSET Chunk /\ Cardinality(Owed) \in Nat
         /\ Busy \in SUBSET Req /\ Cardinality(Busy) \in Nat
<1>1. Owed \in SUBSET Chunk /\ Busy \in SUBSET Req /\ rest2810 \in SUBSET Chunk
  BY DEF Owed, Busy, receiving, replying, Types
<1>2. Cardinality(Owed) \in Nat /\ Cardinality(rest2810) \in Nat /\ Cardinality(Busy) \in Nat
  BY <1>1, Finite, Sizes
<1>3. Len(queue1106) \in Nat /\ Len(queue2810) \in Nat /\ rest1106 \in Nat
  BY DEF Types
<1>4. QED
  BY <1>1, <1>2, <1>3 DEF Qnum1106, Qnum2810

\* No worker owes more than one answer.
OneAnswerEach == Cardinality(Busy) <= workers /\ \A r \in Req : owes[r] <= length[r].answer
OwesLittle ==
  \A m \in Len1 : (\A r \in Req : length[r].answer <= m) => Cardinality(Owed) <= workers * m

LEMMA OwedIsBounded == Types /\ OneAnswerEach => OwesLittle
<1> SUFFICES ASSUME Types, Cardinality(Busy) <= workers,
                    \A r \in Req : owes[r] <= length[r].answer,
                    NEW m \in Len1, \A r \in Req : length[r].answer <= m
             PROVE  Cardinality(Owed) <= workers * m
  BY DEF OneAnswerEach, OwesLittle
<1> DEFINE S == Busy \X (1..m)
<1>1. Busy \in SUBSET Req /\ Cardinality(Busy) \in Nat /\ workers \in Nat /\ m \in Nat
  BY Numbered, Constants DEF Types
<1>2. IsFiniteSet(Busy) /\ IsFiniteSet(1..m) /\ Cardinality(1..m) = m
  <2>1. IsFiniteSet(Busy)
    BY <1>1, Finite, FS_Subset
  <2>2. m > 0 /\ 1 \in Int /\ m \in Int /\ m - 1 + 1 = m
    BY <1>1, Constants
  <2>3. IsFiniteSet(1..m) /\ Cardinality(1..m) = IF 1 > m THEN 0 ELSE m - 1 + 1
    BY <2>2, FS_Interval
  <2>4. QED
    BY <2>1, <2>2, <2>3
<1>3. IsFiniteSet(S) /\ Cardinality(S) = Cardinality(Busy) * m
  BY <1>2, FS_Product
<1>4. Owed \subseteq S
  <2> SUFFICES ASSUME NEW r \in Req, NEW k \in Len1, k <= owes[r]
               PROVE  r \in Busy /\ k \in 1..m
    BY DEF Owed, Chunk
  <2>1. owes[r] \in Nat /\ length[r].answer \in Nat /\ k \in Nat /\ k > 0
    BY Constants DEF Types, Len1
  <2>2. owes[r] > 0 /\ k <= m
    BY <2>1, <1>1
  <2>3. QED
    BY <2>1, <2>2, <1>1 DEF Busy, replying
<1>5. Cardinality(Owed) <= Cardinality(S) /\ Cardinality(Owed) \in Nat
  BY <1>3, <1>4, FS_Subset, Numbered
<1>6. Cardinality(Busy) * m \in Nat /\ Cardinality(Busy) * m <= workers * m
  BY <1>1, Times
<1>7. workers * m \in Nat
  BY <1>1, Times
<1> HIDE DEF S
<1>8. QED
  BY <1>3, <1>5, <1>6, <1>7

----------------------------------------------------------------------------
(* The invariant *)

LEMMA InitInv == Init => IInv
<1> SUFFICES ASSUME Init PROVE IInv
  OBVIOUS
<1>1. Types
  BY PipelineAssumption, Constants DEF Init, Types, None, Len1
<1>2. LoopCounted
  BY DEF Init, LoopCounted
<1>3. Busy = {} /\ Owed = {} /\ \A r \in Req : owes[r] = 0
  BY Constants DEF Init, Busy, receiving, replying, Owed, Chunk, Len1
<1>4. Cardinality(Busy) = 0 /\ Cardinality(Owed) = 0 /\ Qnum2810 = 0
  BY <1>3, FS_EmptySet DEF Init, Qnum2810
<1>5. \A r \in Req : owes[r] <= length[r].answer
  BY <1>1, <1>3, Constants DEF Types
<1>6. \A m \in Len1 : workers * m \in Nat
  <2> SUFFICES ASSUME NEW m \in Len1 PROVE workers * m \in Nat
    OBVIOUS
  <2>1. workers \in Nat /\ m \in Nat
    BY <1>1, Constants DEF Types
  <2>2. QED
    BY <2>1, Times
<1>7. WorkersCounted
  BY <1>1, <1>4, <1>5, <1>6 DEF WorkersCounted, Types
<1>8. QED
  BY <1>1, <1>2, <1>7 DEF IInv

\* A step that leaves the event loop and its queue alone.
LEMMA FrontStutter ==
  ASSUME IInv, UNCHANGED <<limit, length, sending, unsent, queue1106, rest1106>>
  PROVE  LoopCounted'
BY DEF IInv, LoopCounted, Qnum1106

\* A step that takes from what workers hold and owe and from the second queue.
LEMMA BackShrinks ==
  ASSUME IInv, Types', UNCHANGED config, Busy' \subseteq Busy, Owed' \subseteq Owed,
         \A r \in Req : owes'[r] <= owes[r], Qnum2810' <= Qnum2810
  PROVE  WorkersCounted'
<1>1. UNCHANGED <<limit, workers, length>>
  BY DEF config
<1>2. /\ Busy \in SUBSET Req /\ Cardinality(Busy) \in Nat /\ Cardinality(Busy') <= Cardinality(Busy)
      /\ Cardinality(Busy') \in Nat
  BY Numbered, Finite, Sizes DEF IInv
<1>3. Cardinality(Owed) \in Nat /\ Cardinality(Owed') <= Cardinality(Owed) /\ Cardinality(Owed') \in Nat
  BY Numbered, Finite, Sizes DEF IInv
<1>4. Cardinality(Busy') <= workers'
  BY <1>1, <1>2 DEF IInv, Types, WorkersCounted
<1>5. \A r \in Req : owes'[r] <= length'[r].answer
  <2> SUFFICES ASSUME NEW r \in Req PROVE owes'[r] <= length[r].answer
    BY <1>1
  <2>1. owes[r] <= length[r].answer /\ owes'[r] <= owes[r]
    BY DEF IInv, WorkersCounted
  <2>2. owes[r] \in Nat /\ owes'[r] \in Nat /\ length[r].answer \in Nat
    BY Constants DEF IInv, Types
  <2>3. QED
    BY <2>1, <2>2
<1>6. Qnum2810 \in Nat /\ Qnum2810' \in Nat
  <2>1. Types => Qnum2810 \in Nat
    BY Numbered
  <2>2. (Types => Qnum2810 \in Nat)'
    BY Numbered, PTL
  <2>3. QED
    BY <2>1, <2>2 DEF IInv
<1>7. ASSUME NEW m \in Len1, \A r \in Req : length'[r].answer <= m
      PROVE  Qnum2810' + Cardinality(Owed)' <= limit' + workers' * m
  <2>1. Qnum2810 + Cardinality(Owed) <= limit + workers * m
    BY <1>1, <1>7 DEF IInv, WorkersCounted
  <2>2. workers \in Nat /\ m \in Nat /\ limit \in Nat
    BY Constants DEF IInv, Types
  <2>4. workers * m \in Nat
    BY <2>2, Times
  <2>3. QED
    BY <1>1, <1>3, <1>6, <2>1, <2>2, <2>4
<1>8. QED
  BY <1>4, <1>5, <1>7 DEF WorkersCounted

\* A step of the event loop or of the reader keeps what the workers have counted.
LEMMA BackStutter ==
  ASSUME IInv, UNCHANGED config, UNCHANGED hands, Qnum2810' <= Qnum2810, Types'
  PROVE  WorkersCounted'
<1>1. Busy' = Busy /\ Owed' = Owed
  BY DEF hands, Busy, receiving, replying, Owed
<1>2. \A r \in Req : owes'[r] <= owes[r]
  BY Constants DEF hands, IInv, Types
<1>3. QED
  BY <1>1, <1>2, BackShrinks

\* Nothing added to the second queue.
LEMMA SameQnum ==
  ASSUME IInv, UNCHANGED second
  PROVE  Qnum2810' <= Qnum2810
<1>1. Qnum2810' = Qnum2810 /\ Qnum2810 \in Nat
  BY Numbered DEF IInv, second, Qnum2810
<1>2. QED
  BY <1>1

\* What the event loop has counted in 1106 is all there is.
LEMMA ArriveInv == ASSUME IInv, NEW r \in Req, Arrive(r) PROVE IInv'
<1>1. length[r].ask \in Len1 /\ length[r].ask \in Nat /\ length[r].ask > 0
  BY Constants DEF IInv, Types
<1>2. Types'
  BY <1>1, Constants DEF IInv, Types, Arrive, config, loop, first, hands, second, reader
<1>3. LoopCounted'
  <2>1. CASE HasRoom(Qnum1106) /\ sending' = r /\ unsent' = length[r].ask
    <3>1. Qnum1106' = Qnum1106 /\ UNCHANGED <<limit, length>>
      BY DEF Arrive, config, first, Qnum1106
    <3>2. Qnum1106 <= limit /\ Qnum1106 \in Nat /\ limit \in Nat
      BY <2>1, Numbered DEF HasRoom, IInv, Types
    <3>3. length[r].ask \in 1..length[r].ask
      BY <1>1
    <3>4. QED
      BY <1>1, <2>1, <3>1, <3>2, <3>3 DEF LoopCounted
  <2>2. CASE UNCHANGED loop
    BY <2>2, FrontStutter DEF Arrive, config, first, loop
  <2>3. QED
    BY <2>1, <2>2 DEF Arrive
<1>4. WorkersCounted'
  BY <1>2, BackStutter, SameQnum DEF Arrive
<1>5. QED
  BY <1>2, <1>3, <1>4 DEF IInv

\* The queue grows by a chunk that was counted.
LEMMA ForwardInv == ASSUME IInv, Forward PROVE IInv'
<1>1. /\ sending \in Req /\ unsent \in Nat /\ unsent > 0
      /\ length[sending].ask \in Nat /\ unsent <= length[sending].ask
      /\ Qnum1106 + unsent <= limit + length[sending].ask /\ limit \in Nat /\ Qnum1106 \in Nat
  <2>1. sending \in Req
    BY DEF IInv, Types, Forward
  <2>2. length[sending].ask \in Nat
    BY <2>1, Constants DEF IInv, Types
  <2>3. QED
    BY <2>1, <2>2, Numbered DEF IInv, Types, LoopCounted, Forward
<1>2. /\ UNCHANGED <<config, conn, hands, second, reader, deaths>>
      /\ unsent' = unsent - 1 /\ sending' = IF unsent = 1 THEN None ELSE sending
      /\ \/ queue1106' = Append(queue1106, sending) /\ rest1106' = rest1106
         \/ rest1106' = rest1106 + 1 /\ queue1106' = queue1106
  BY DEF Forward
<1>3. queue1106' \in Seq(Req) /\ rest1106' \in Nat /\ Qnum1106' = Qnum1106 + 1
  <2>1. PICK q, a : q = queue1106 /\ a = Append(queue1106, sending)
    OBVIOUS
  <2>2. q \in Seq(Req) /\ a \in Seq(Req) /\ Len(a) = Len(q) + 1 /\ Len(q) \in Nat /\ rest1106 \in Nat
    BY <1>1, <2>1 DEF IInv, Types
  <2>3. \/ queue1106' = a /\ rest1106' = rest1106
        \/ rest1106' = rest1106 + 1 /\ queue1106' = q
    BY <1>2, <2>1
  <2>4. QED
    BY <2>1, <2>2, <2>3 DEF Qnum1106
<1>4. Types'
  <2>1. unsent' \in Nat /\ sending' \in Req \cup {None}
    BY <1>1, <1>2
  <2>2. QED
    BY <1>2, <1>3, <2>1 DEF IInv, Types, config, hands, second, reader
<1>5. LoopCounted'
  <2>1. CASE unsent = 1
    BY <1>2, <2>1 DEF LoopCounted, config
  <2>2. CASE unsent # 1
    <3>1. sending' = sending /\ limit' = limit /\ length' = length
      BY <1>2, <2>2 DEF config
    <3>2. unsent' \in 1..length[sending].ask
      BY <1>1, <1>2, <2>2
    <3>3. Qnum1106' + unsent' <= limit + length[sending].ask
      BY <1>1, <1>2, <1>3
    <3>4. QED
      BY <3>1, <3>2, <3>3 DEF LoopCounted
  <2>3. QED
    BY <2>1, <2>2
<1>6. WorkersCounted'
  BY <1>2, <1>4, BackStutter, SameQnum
<1>7. QED
  BY <1>4, <1>5, <1>6 DEF IInv

\* The first queue gets shorter.
LEMMA LoopRelieved ==
  ASSUME IInv, UNCHANGED config, UNCHANGED loop, Types', Qnum1106' <= Qnum1106, Qnum1106' \in Nat
  PROVE  LoopCounted'
<1>1. UNCHANGED <<limit, length, sending, unsent>>
  BY DEF config, loop
<1> SUFFICES ASSUME sending # None
             PROVE  /\ unsent \in 1..length[sending].ask
                    /\ Qnum1106' + unsent <= limit + length[sending].ask
  BY <1>1 DEF LoopCounted
<1>2. unsent \in 1..length[sending].ask /\ Qnum1106 + unsent <= limit + length[sending].ask
  BY DEF IInv, LoopCounted
<1>3. length[sending].ask \in Nat /\ limit \in Nat /\ unsent \in Nat /\ Qnum1106 \in Nat
  BY Constants, Numbered DEF IInv, Types
<1>4. QED
  BY <1>2, <1>3

\* A worker makes the first queue shorter and holds one request more.
LEMMA TakeInv == ASSUME IInv, Take PROVE IInv'
<1>1. PICK q, t, r, n : q = queue1106 /\ t = Tail(queue1106) /\ r = Head(queue1106)
                        /\ n = length[Head(queue1106)].ask - 1
  OBVIOUS
<1>2. q \in Seq(Req) /\ q # <<>>
  BY <1>1 DEF IInv, Types, Take
<1>3. r \in Req /\ t \in Seq(Req) /\ Len(t) \in Nat /\ Len(q) \in Nat /\ Len(t) <= Len(q)
  BY <1>1, <1>2
<1>4. length[r].ask \in Len1
  BY <1>3 DEF IInv, Types
<1>5. n \in 0..MaxLen /\ n \in Nat
  BY <1>1, <1>4, Constants
<1>6. /\ UNCHANGED <<config, conn, loop, rest1106, owes, second, reader, deaths>>
      /\ queue1106' = t /\ wants' = [wants EXCEPT ![r] = n]
      /\ executing' = IF n = 0 THEN executing \cup {r} ELSE executing
  BY <1>1 DEF Take, Awaits
<1>7. Types'
  BY <1>3, <1>5, <1>6 DEF IInv, Types, config, loop, second, reader
<1>8. Qnum1106' <= Qnum1106 /\ Qnum1106' \in Nat
  BY <1>1, <1>3, <1>6 DEF Qnum1106, IInv, Types
<1>9. LoopCounted'
  BY <1>6, <1>7, <1>8, LoopRelieved
<1>10. Busy' \subseteq Busy \cup {r}
  BY <1>3, <1>6 DEF Busy, receiving, replying, IInv, Types
<1>11. Cardinality(Busy') <= workers
  <2>1. Busy \in SUBSET Req /\ Cardinality(Busy) \in Nat /\ workers \in Nat
    BY Numbered DEF IInv, Types
  <2>2. Cardinality(Busy \cup {r}) <= Cardinality(Busy) + 1
    BY <2>1, Finite, OneMoreOneLess
  <2>3. Busy \cup {r} \in SUBSET Req
    BY <2>1, <1>3
  <2>4. Cardinality(Busy') <= Cardinality(Busy \cup {r}) /\ Cardinality(Busy') \in Nat
        /\ Cardinality(Busy \cup {r}) \in Nat
    BY <1>10, <2>3, Finite, Sizes
  <2>5. Cardinality(Busy) < workers
    BY DEF Take
  <2>6. QED
    BY <2>1, <2>2, <2>4, <2>5
<1>12. WorkersCounted'
  <2>1. Owed' = Owed /\ Qnum2810' = Qnum2810 /\ UNCHANGED <<limit, workers, length, owes>>
    BY <1>6 DEF Owed, Qnum2810, second, config
  <2>2. QED
    BY <1>11, <2>1 DEF WorkersCounted, IInv
<1>13. QED
  BY <1>7, <1>9, <1>12 DEF IInv

\* One more chunk leaves the first queue.
LEMMA TakeRestInv == ASSUME IInv, NEW r \in Req, TakeRest(r) PROVE IInv'
<1>1. wants[r] \in Nat /\ wants[r] > 0 /\ wants[r] <= MaxLen /\ rest1106 > 0 /\ rest1106 \in Nat
  BY Constants DEF IInv, Types, TakeRest
<1>2. PICK n : n = wants[r] - 1
  OBVIOUS
<1>3. n \in 0..MaxLen
  BY <1>1, <1>2, Constants
<1>4. /\ UNCHANGED <<config, conn, loop, queue1106, owes, second, reader, deaths>>
      /\ rest1106' = rest1106 - 1 /\ wants' = [wants EXCEPT ![r] = n]
      /\ executing' = IF n = 0 THEN executing \cup {r} ELSE executing
  BY <1>2 DEF TakeRest, Awaits
<1>5. Types'
  BY <1>1, <1>3, <1>4 DEF IInv, Types, config, loop, second, reader
<1>6. Qnum1106' <= Qnum1106 /\ Qnum1106' \in Nat
  BY <1>1, <1>4, Numbered DEF Qnum1106, IInv
<1>7. LoopCounted'
  BY <1>4, <1>5, <1>6, LoopRelieved
<1>8. Busy' \subseteq Busy /\ Owed' \subseteq Owed
  BY <1>1, <1>4 DEF Busy, receiving, replying, Owed, IInv, Types
<1>9. \A p \in Req : owes'[p] <= owes[p]
  BY <1>4, Constants DEF IInv, Types
<1>10. WorkersCounted'
  BY <1>4, <1>5, <1>8, <1>9, SameQnum, BackShrinks
<1>11. QED
  BY <1>5, <1>7, <1>10 DEF IInv

\* A worker that replies is one more that has passed the test.
LEMMA ExecuteInv == ASSUME IInv, NEW r \in Req, Execute(r) PROVE IInv'
<1>1. /\ UNCHANGED <<config, conn, loop, first, wants, second, reader, deaths>>
      /\ r \in executing /\ executing' = executing \ {r}
      /\ \/ HasRoom(Qnum2810) /\ owes' = [owes EXCEPT ![r] = length[r].answer]
         \/ UNCHANGED owes
  BY DEF Execute
<1>2. length[r].answer \in 0..MaxLen
  BY Constants DEF IInv, Types, Len1
<1>3. Types'
  BY <1>1, <1>2 DEF IInv, Types, config, loop, first, second, reader
<1>4. LoopCounted'
  BY <1>1, FrontStutter DEF config, loop, first
<1>5. Busy' \subseteq Busy
  BY <1>1 DEF Busy, receiving, replying, IInv, Types
<1>6. CASE UNCHANGED owes
  <2>1. Owed' \subseteq Owed
    BY <1>6 DEF Owed
  <2>2. \A q \in Req : owes'[q] <= owes[q]
    BY <1>6, Constants DEF IInv, Types
  <2>3. WorkersCounted'
    BY <1>1, <1>3, <1>5, <2>1, <2>2, SameQnum, BackShrinks
  <2>4. QED
    BY <1>3, <1>4, <2>3 DEF IInv
<1>7. CASE HasRoom(Qnum2810) /\ owes' = [owes EXCEPT ![r] = length[r].answer]
  <2>1. UNCHANGED <<limit, workers, length>> /\ Qnum2810' = Qnum2810 /\ Qnum2810 \in Nat
        /\ limit \in Nat /\ workers \in Nat
    BY <1>1, Numbered DEF config, second, Qnum2810, IInv, Types
  <2>2. Cardinality(Busy') <= workers'
    <3>1. Busy \in SUBSET Req /\ Cardinality(Busy) <= workers
      BY Numbered DEF IInv, WorkersCounted
    <3>2. Cardinality(Busy') <= Cardinality(Busy) /\ Cardinality(Busy') \in Nat /\ Cardinality(Busy) \in Nat
      BY <1>5, <3>1, Finite, Sizes
    <3>3. QED
      BY <2>1, <3>1, <3>2
  <2>3. \A q \in Req : owes'[q] <= length'[q].answer
    <3>1. \A q \in Req : owes[q] <= length[q].answer /\ length[q].answer <= length[q].answer
      BY Constants DEF IInv, WorkersCounted, Types
    <3>2. QED
      BY <1>7, <2>1, <3>1 DEF IInv, Types
  <2>4. ASSUME NEW m \in Len1, \A q \in Req : length'[q].answer <= m
        PROVE  Qnum2810' + Cardinality(Owed)' <= limit' + workers' * m
    <3>1. (Types /\ OneAnswerEach => OwesLittle)'
      BY OwedIsBounded, PTL
    <3>2. Cardinality(Owed)' <= workers' * m
      BY <1>3, <2>2, <2>3, <2>4, <3>1 DEF OneAnswerEach, OwesLittle
    <3>3. (Types => Cardinality(Owed) \in Nat)'
      BY Numbered, PTL
    <3>4. m \in Nat
      BY Constants
    <3>5. workers * m \in Nat
      BY <2>1, <3>4, Times
    <3>6. Qnum2810 <= limit
      BY <1>7 DEF HasRoom
    <3>7. QED
      BY <1>3, <2>1, <3>2, <3>3, <3>5, <3>6
  <2>5. WorkersCounted'
    BY <2>2, <2>3, <2>4 DEF WorkersCounted
  <2>6. QED
    BY <1>3, <1>4, <2>5 DEF IInv
<1>8. QED
  BY <1>1, <1>6, <1>7

\* A chunk that is sent is one more in the queue and one less owed.
LEMMA ReplyInv == ASSUME IInv, NEW r \in Req, Reply(r) PROVE IInv'
<1>1. PICK q, a, k : q = queue2810 /\ a = Append(queue2810, r) /\ k = owes[r]
  OBVIOUS
<1>2. k \in Nat /\ k > 0 /\ k \in Len1 /\ k - 1 \in 0..MaxLen
  <2>1. k \in 0..MaxLen /\ k > 0
    BY <1>1 DEF Reply, IInv, Types
  <2>2. QED
    BY <2>1, Constants DEF Len1
<1>3. q \in Seq(Req) /\ a \in Seq(Req) /\ Len(a) = Len(q) + 1 /\ Len(q) \in Nat
  BY <1>1 DEF IInv, Types
<1>4. /\ UNCHANGED <<config, conn, loop, first, wants, executing, reader, deaths>>
      /\ owes' = [owes EXCEPT ![r] = k - 1]
      /\ \/ queue2810' = a /\ rest2810' = rest2810
         \/ queue2810' = q /\ rest2810' = rest2810 \cup {<<r, k>>}
  BY <1>1 DEF Reply
<1>5. Types'
  <2>1. queue2810' \in Seq(Req) /\ rest2810' \subseteq Chunk
    BY <1>2, <1>3, <1>4 DEF IInv, Types, Chunk
  <2>2. owes' \in [Req -> 0..MaxLen]
    BY <1>2, <1>4 DEF IInv, Types
  <2>3. QED
    BY <1>4, <2>1, <2>2 DEF IInv, Types, config, loop, first, reader
<1>6. LoopCounted'
  BY <1>4, FrontStutter DEF config, loop, first
<1>7. UNCHANGED <<limit, workers, length>> /\ limit \in Nat /\ workers \in Nat
  BY <1>4 DEF config, IInv, Types
<1>8. Cardinality(Busy') <= workers'
  <2>1. Busy' \subseteq Busy
    BY <1>1, <1>2, <1>4 DEF Busy, receiving, replying, IInv, Types
  <2>2. Busy \in SUBSET Req /\ Cardinality(Busy) <= workers
    BY Numbered DEF IInv, WorkersCounted
  <2>3. Cardinality(Busy') <= Cardinality(Busy) /\ Cardinality(Busy') \in Nat /\ Cardinality(Busy) \in Nat
    BY <2>1, <2>2, Finite, Sizes
  <2>4. QED
    BY <1>7, <2>2, <2>3
<1>9. \A p \in Req : owes'[p] <= length'[p].answer
  <2> SUFFICES ASSUME NEW p \in Req PROVE owes'[p] <= length[p].answer
    BY <1>7
  <2>1. owes[p] <= length[p].answer /\ owes[p] \in Nat /\ length[p].answer \in Nat
    BY Constants DEF IInv, Types, WorkersCounted
  <2>2. owes'[p] = owes[p] \/ (p = r /\ owes'[p] = k - 1)
    BY <1>4 DEF IInv, Types
  <2>3. QED
    BY <1>1, <1>2, <2>1, <2>2
<1>10. Cardinality(Owed)' = Cardinality(Owed) - 1 /\ Cardinality(Owed) \in Nat
  <2>1. Owed \in SUBSET Chunk /\ Cardinality(Owed) \in Nat
    BY Numbered DEF IInv
  <2>2. k <= k
    BY <1>2
  <2>3. <<r, k>> \in Owed
    BY <1>1, <1>2, <2>2 DEF Owed, Chunk
  <2>4. Owed' = Owed \ {<<r, k>>}
    <3>1. ASSUME NEW p \in Req, NEW n \in Len1
          PROVE  n <= owes'[p] <=> (n <= owes[p] /\ <<p, n>> # <<r, k>>)
      <4>1. n \in Nat
        BY Constants
      <4>2. CASE p = r
        <5>1. owes'[p] = k - 1 /\ owes[p] = k
          BY <1>1, <1>4, <4>2 DEF IInv, Types
        <5>2. n <= k - 1 <=> (n <= k /\ n # k)
          BY <1>2, <4>1
        <5>3. QED
          BY <4>2, <5>1, <5>2
      <4>3. CASE p # r
        BY <1>4, <4>3 DEF IInv, Types
      <4>4. QED
        BY <4>2, <4>3
    <3>2. QED
      BY <3>1 DEF Owed, Chunk
  <2>5. Cardinality(Owed \ {<<r, k>>}) = Cardinality(Owed) - 1
    BY <2>1, <2>3, Finite, OneMoreOneLess
  <2>6. QED
    BY <2>1, <2>4, <2>5
<1>11. Qnum2810' <= Qnum2810 + 1 /\ Qnum2810 \in Nat /\ Qnum2810' \in Nat
  <2>1. Cardinality(rest2810 \cup {<<r, k>>}) <= Cardinality(rest2810) + 1
    BY Finite, OneMoreOneLess DEF IInv, Types
  <2>2. Cardinality(rest2810) \in Nat /\ Qnum2810 \in Nat
    BY Numbered DEF IInv
  <2>3. (Types => Qnum2810 \in Nat /\ Cardinality(rest2810) \in Nat)'
    BY Numbered, PTL
  <2>4. CASE queue2810' = a /\ rest2810' = rest2810
    BY <1>1, <1>3, <2>2, <2>3, <1>5, <2>4 DEF Qnum2810
  <2>5. CASE queue2810' = q /\ rest2810' = rest2810 \cup {<<r, k>>}
    BY <1>1, <1>3, <1>5, <2>1, <2>2, <2>3, <2>5 DEF Qnum2810
  <2>6. QED
    BY <1>4, <2>4, <2>5
<1>12. ASSUME NEW m \in Len1, \A p \in Req : length'[p].answer <= m
       PROVE  Qnum2810' + Cardinality(Owed)' <= limit' + workers' * m
  <2>1. Qnum2810 + Cardinality(Owed) <= limit + workers * m
    BY <1>7, <1>12 DEF IInv, WorkersCounted
  <2>2. m \in Nat
    BY Constants
  <2>3. workers * m \in Nat
    BY <1>7, <2>2, Times
  <2>4. QED
    BY <1>7, <1>10, <1>11, <2>1, <2>3
<1>13. QED
  BY <1>5, <1>6, <1>8, <1>9, <1>12 DEF IInv, WorkersCounted

\* A worker that dies owes nothing any more.
LEMMA DiesInv == ASSUME IInv, NEW r \in Req, Dies(r) PROVE IInv'
<1>1. /\ UNCHANGED <<config, conn, loop, first, second, reader>>
      /\ wants' = [wants EXCEPT ![r] = 0] /\ executing' = executing \ {r}
      /\ owes' = [owes EXCEPT ![r] = 0]
  BY DEF Dies
<1>2. 0 \in 0..MaxLen
  BY Constants
<1>3. Types'
  BY <1>1, <1>2 DEF IInv, Types, config, loop, first, second, reader
<1>4. LoopCounted'
  BY <1>1, FrontStutter DEF config, loop, first
<1>5. \A p \in Req : owes'[p] <= owes[p] /\ wants'[p] <= wants[p]
      /\ owes[p] \in Nat /\ owes'[p] \in Nat /\ wants[p] \in Nat /\ wants'[p] \in Nat
  <2> SUFFICES ASSUME NEW p \in Req
               PROVE  owes'[p] <= owes[p] /\ wants'[p] <= wants[p]
                      /\ owes[p] \in Nat /\ owes'[p] \in Nat /\ wants[p] \in Nat /\ wants'[p] \in Nat
    OBVIOUS
  <2>1. owes[p] \in Nat /\ wants[p] \in Nat /\ owes'[p] \in Nat /\ wants'[p] \in Nat
    BY <1>3, Constants DEF IInv, Types
  <2>2. owes'[p] \in {owes[p], 0} /\ wants'[p] \in {wants[p], 0}
    BY <1>1 DEF IInv, Types
  <2>3. QED
    BY <2>1, <2>2
<1>6. Busy' \subseteq Busy
  <2>1. ASSUME NEW p \in Req
        PROVE  (owes'[p] > 0 => owes[p] > 0) /\ (wants'[p] > 0 => wants[p] > 0)
    BY <1>5
  <2>2. QED
    BY <1>1, <2>1 DEF Busy, receiving, replying
<1>7. Owed' \subseteq Owed
  <2>1. ASSUME NEW p \in Req, NEW n \in Len1, n <= owes'[p] PROVE n <= owes[p]
    BY <1>5, <2>1, Constants
  <2>2. QED
    BY <2>1 DEF Owed, Chunk
<1>8. WorkersCounted'
  BY <1>1, <1>3, <1>5, <1>6, <1>7, SameQnum, BackShrinks
<1>9. QED
  BY <1>3, <1>4, <1>8 DEF IInv

\* What MsqRcv of the reader leaves behind has its type.
LEMMA ReadsTypes ==
  ASSUME NEW r \in Req, NEW n \in 0..MaxLen, Reads(r, n)
  PROVE  /\ reading' \in Req \cup {None} /\ missing' \in 0..MaxLen
         /\ (reading' # None => missing' > 0)
BY Constants DEF Reads

\* The reader makes the second queue shorter.
LEMMA ReaderTakesInv == ASSUME IInv, ReaderTakes PROVE IInv'
<1>1. PICK q, t, r, n : q = queue2810 /\ t = Tail(queue2810) /\ r = Head(queue2810)
                        /\ n = length[Head(queue2810)].answer - 1
  OBVIOUS
<1>2. q \in Seq(Req) /\ q # <<>>
  BY <1>1 DEF IInv, Types, ReaderTakes
<1>3. r \in Req /\ t \in Seq(Req) /\ Len(t) \in Nat /\ Len(q) \in Nat /\ Len(t) <= Len(q)
  BY <1>1, <1>2
<1>4. length[r].answer \in Len1
  BY <1>3 DEF IInv, Types
<1>5. n \in 0..MaxLen
  BY <1>1, <1>4, Constants
<1>6. /\ UNCHANGED <<config, conn, loop, first, hands, rest2810, deaths>>
      /\ queue2810' = t /\ Reads(r, n)
  BY <1>1 DEF ReaderTakes
<1>7. Types'
  BY <1>3, <1>5, <1>6, ReadsTypes DEF IInv, Types, config, loop, first, hands
<1>8. LoopCounted'
  BY <1>6, FrontStutter DEF config, loop, first
<1>9. Qnum2810' <= Qnum2810
  <2>1. Cardinality(rest2810) \in Nat /\ rest2810' = rest2810
    BY <1>6, Numbered DEF IInv
  <2>2. QED
    BY <1>1, <1>3, <1>6, <2>1 DEF Qnum2810
<1>10. WorkersCounted'
  BY <1>6, <1>7, <1>9, BackStutter
<1>11. QED
  BY <1>7, <1>8, <1>10 DEF IInv

\* One more chunk leaves the second queue.
LEMMA ReaderContinuesInv == ASSUME IInv, ReaderContinues PROVE IInv'
<1>1. PICK n, r : n = missing - 1 /\ r = reading
  OBVIOUS
<1>2. missing \in 0..MaxLen /\ missing > 0 /\ r \in Req
  BY <1>1 DEF IInv, Types, ReaderContinues
<1>3. n \in 0..MaxLen
  BY <1>1, <1>2, Constants
<1>4. /\ UNCHANGED <<config, conn, loop, first, hands, queue2810, deaths>>
      /\ rest2810' = rest2810 \ {<<r, missing>>} /\ <<r, missing>> \in rest2810
      /\ Reads(r, n)
  BY <1>1 DEF ReaderContinues
<1>5. Types'
  BY <1>2, <1>3, <1>4, ReadsTypes DEF IInv, Types, config, loop, first, hands
<1>6. LoopCounted'
  BY <1>4, FrontStutter DEF config, loop, first
<1>7. Qnum2810' <= Qnum2810
  <2>1. Cardinality(rest2810') = Cardinality(rest2810) - 1
    BY <1>4, Finite, OneMoreOneLess DEF IInv, Types
  <2>2. Cardinality(rest2810) \in Nat /\ Len(queue2810) \in Nat
    BY Numbered DEF IInv
  <2>3. QED
    BY <1>4, <2>1, <2>2 DEF Qnum2810
<1>8. WorkersCounted'
  BY <1>4, <1>5, <1>7, BackStutter
<1>9. QED
  BY <1>5, <1>6, <1>8 DEF IInv

\* A step that only ends a request at the client or empties the pipe.
LEMMA OutsideInv ==
  ASSUME IInv, UNCHANGED <<config, loop, first, hands, second, reading, missing>>
  PROVE  IInv'
<1>1. Types'
  BY DEF IInv, Types, config, loop, first, hands, second
<1>2. LoopCounted'
  BY FrontStutter DEF config, loop, first
<1>3. WorkersCounted'
  BY <1>1, SameQnum, BackStutter
<1>4. QED
  BY <1>1, <1>2, <1>3 DEF IInv

\* Every step keeps the invariant.
LEMMA StepInv == IInv /\ [Next]_vars => IInv'
<1> SUFFICES ASSUME IInv, [Next]_vars PROVE IInv'
  OBVIOUS
<1>1. ASSUME NEW r \in Req, TimerFires(r) PROVE IInv'
  BY <1>1, OutsideInv DEF TimerFires, reader
<1>2. CASE ReadPipe
  BY <1>2, OutsideInv DEF ReadPipe
<1>3. CASE UNCHANGED vars
  BY <1>3, OutsideInv DEF vars, reader
<1>4. QED
  BY <1>1, <1>2, <1>3, ArriveInv, ForwardInv, TakeInv, TakeRestInv, ExecuteInv, ReplyInv,
     DiesInv, ReaderTakesInv, ReaderContinuesInv DEF Next

\* Chunks are counted by those who may still send them, in every instance
\* (MsqOpr.c:299).
THEOREM Counted == Spec => []IInv
BY InitInv, StepInv, PTL DEF Spec

----------------------------------------------------------------------------
(* The properties *)

\* Whatever the sizes: with a limit that leaves room for the longest request in
\* queue 1106 the event loop never waits in an msgsnd of MsqSnd.
THEOREM LoopIsFree == Spec => []LoopNeverWaits
<1>1. IInv => LoopNeverWaits
  <2> SUFFICES ASSUME IInv, NEW m \in 1..MaxLen, limit + m <= Cap1106,
                      \A r \in Req : length[r].ask <= m, sending # None
               PROVE  Qnum1106 < Cap1106
    BY DEF LoopNeverWaits
  <2>1. sending \in Req /\ limit \in Nat /\ Qnum1106 \in Nat
    BY Numbered DEF IInv, Types
  <2>2. length[sending].ask <= m /\ length[sending].ask \in Nat
    BY <2>1, Constants DEF IInv, Types
  <2>3. unsent \in 1..length[sending].ask /\ Qnum1106 + unsent <= limit + length[sending].ask
    BY DEF IInv, LoopCounted
  <2>4. unsent \in Nat /\ unsent > 0
    BY <2>2, <2>3
  <2>5. QED
    BY <2>1, <2>2, <2>3, <2>4, Constants
<1>2. QED
  BY <1>1, Counted, PTL

\* Whatever the sizes: with a limit that leaves room for the longest answer of
\* each worker none of them waits in an msgsnd of its reply.
THEOREM WorkersAreFree == Spec => []WorkersNeverWait
<1>1. IInv => WorkersNeverWait
  <2> SUFFICES ASSUME IInv, NEW m \in 1..MaxLen, limit + workers * m <= Cap2810,
                      \A r \in Req : length[r].answer <= m, replying # {}
               PROVE  Qnum2810 < Cap2810
    BY DEF WorkersNeverWait
  <2>1. limit \in Nat /\ Qnum2810 \in Nat /\ Owed \in SUBSET Chunk /\ workers \in Nat /\ m \in Nat
    BY Numbered, Constants DEF IInv, Types, Len1
  <2>2. workers * m \in Nat
    BY <2>1, Times
  <2>3. PICK r \in Req : owes[r] > 0
    BY DEF replying
  <2>4. owes[r] \in Len1 /\ owes[r] <= owes[r]
    BY <2>3, Constants DEF IInv, Types, Len1
  <2>5. <<r, owes[r]>> \in Owed
    BY <2>3, <2>4 DEF Owed, Chunk
  <2>6. Cardinality(Owed) >= 1 /\ Cardinality(Owed) \in Nat
    BY <2>1, <2>5, Finite, Sizes
  <2>7. Qnum2810 + Cardinality(Owed) <= limit + workers * m
    BY DEF IInv, WorkersCounted, Len1
  <2>8. QED
    BY <2>1, <2>2, <2>6, <2>7, Constants
<1>2. QED
  BY <1>1, Counted, PTL
----------------------------------------------------------------------------
(* Where a request is *)

\* A queue in which no request is twice.
Proper(q) == q \in Seq(Req) /\ IsInjective(q)

\* The requests whose first chunk the event loop, or a worker, has still to send.
unbegun == {r \in Req : sending = r /\ unsent = length[r].ask}
about == {r \in Req : owes[r] = length[r].answer}
held == {reading} \ {None}

Early == unbegun \cup ToSet(queue1106) \cup receiving \cup executing
Late == replying \cup ToSet(queue2810) \cup held \cup ToSet(pipe)

\* A request is in one place at a time, and in none before it arrived: what keeps
\* it from being put twice into a queue.  While chunks are still to come its sender
\* is at it too.
OnePlace ==
  /\ unbegun \cap (ToSet(queue1106) \cup receiving \cup executing) = {}
  /\ ToSet(queue1106) \cap (receiving \cup executing) = {}
  /\ receiving \cap executing = {}
  /\ Early \cap Late = {}
  /\ about \cap (ToSet(queue2810) \cup held \cup ToSet(pipe)) = {}
  /\ ToSet(queue2810) \cap (held \cup ToSet(pipe)) = {}
  /\ held \cap ToSet(pipe) = {}
  /\ \A r \in Req : conn[r] = "new" => r \notin Early \cup Late

Lives ==
  /\ limit \in Limits /\ workers \in Numbers /\ length \in Lengths
  /\ conn \in [Req -> {"new", "open", "done"}]
  /\ deaths \in 0..MaxDeaths

Room ==
  /\ Qnum1106 <= Cap1106 /\ Qnum2810 <= Cap2810 /\ Len(pipe) <= PipeCap
  /\ reading # None => Len(pipe) < PipeCap
  /\ unsent <= MaxLen

Queues == Proper(queue1106) /\ Proper(queue2810) /\ Proper(pipe)

Placed == Lives /\ Room /\ Queues /\ OnePlace

\* A request that is not in a queue joins it.
LEMMA ProperAppend ==
  ASSUME NEW q, Proper(q), NEW r \in Req, r \notin ToSet(q)
  PROVE  /\ Proper(Append(q, r))
         /\ ToSet(Append(q, r)) = ToSet(q) \cup {r}
<1>1. PICK n, a : n = Len(q) /\ a = Append(q, r)
  OBVIOUS
<1>2. /\ q \in Seq(Req) /\ n \in Nat /\ DOMAIN q = 1..n /\ IsInjective(q)
      /\ a \in Seq(Req) /\ Len(a) = n + 1 /\ DOMAIN a = 1..(n + 1)
      /\ a[n + 1] = r /\ \A i \in 1..n : a[i] = q[i]
  BY <1>1 DEF Proper
<1>3. \A i \in 1..n : q[i] # r
  BY <1>2 DEF ToSet
<1>4. \A i \in 1..(n + 1) : i \in 1..n \/ i = n + 1
  BY <1>2
<1>5. IsInjective(a)
  BY <1>2, <1>3, <1>4 DEF IsInjective
<1>6. n + 1 \in 1..(n + 1) /\ \A i \in 1..n : i \in 1..(n + 1)
  BY <1>2
<1>7. ToSet(a) = ToSet(q) \cup {r}
  BY <1>2, <1>4, <1>6 DEF ToSet
<1>9. QED
  BY <1>1, <1>2, <1>5, <1>7 DEF Proper

\* The first request leaves a queue and is in it no more.
LEMMA ProperTail ==
  ASSUME NEW q, Proper(q), q # <<>>
  PROVE  /\ Proper(Tail(q)) /\ Head(q) \in Req /\ Head(q) \in ToSet(q)
         /\ ToSet(Tail(q)) = ToSet(q) \ {Head(q)}
<1>1. PICK n, t : n = Len(q) /\ t = Tail(q)
  OBVIOUS
<1>2. q \in Seq(Req) /\ n \in Nat /\ n > 0 /\ DOMAIN q = 1..n
      /\ \A i, j \in 1..n : q[i] = q[j] => i = j
  BY <1>1 DEF Proper, IsInjective
<1>3. /\ t \in Seq(Req) /\ Len(t) = n - 1 /\ DOMAIN t = 1..(n - 1) /\ Head(q) = q[1]
      /\ \A i \in 1..(n - 1) : t[i] = q[i + 1]
  BY <1>1, <1>2
<1>4. \A i \in 1..(n - 1) : i + 1 \in 1..n /\ i + 1 # 1
  BY <1>2
<1>5. 1 \in 1..n
  BY <1>2
<1>6. IsInjective(t)
  <2> SUFFICES ASSUME NEW i \in 1..(n - 1), NEW j \in 1..(n - 1), t[i] = t[j] PROVE i = j
    BY <1>3 DEF IsInjective
  <2>1. i + 1 = j + 1
    BY <1>2, <1>3, <1>4
  <2>2. QED
    BY <2>1
<1>7. ToSet(t) = ToSet(q) \ {q[1]}
  <2>1. ASSUME NEW i \in 1..(n - 1) PROVE t[i] \in ToSet(q) /\ t[i] # q[1]
    BY <1>2, <1>3, <1>4, <1>5 DEF ToSet
  <2>2. ASSUME NEW i \in 1..n, q[i] # q[1] PROVE q[i] \in ToSet(t)
    <3>1. i # 1
      BY <2>2
    <3>2. i - 1 \in 1..(n - 1) /\ (i - 1) + 1 = i
      BY <1>2, <3>1
    <3>3. t[i - 1] = q[i]
      BY <1>3, <3>2
    <3>4. QED
      BY <1>3, <3>2, <3>3 DEF ToSet
  <2>3. ToSet(t) \subseteq ToSet(q) \ {q[1]}
    BY <1>3, <2>1 DEF ToSet
  <2>4. ToSet(q) \ {q[1]} \subseteq ToSet(t)
    BY <1>2, <2>2 DEF ToSet
  <2>5. QED
    BY <2>3, <2>4
<1>8. q[1] \in ToSet(q) /\ q[1] \in Req
  BY <1>2, <1>5 DEF ToSet
<1>9. QED
  BY <1>1, <1>2, <1>3, <1>6, <1>7, <1>8 DEF Proper

\* A chunk fits where there was room, and taking one leaves room.
LEMMA RoomStutter ==
  ASSUME Room, UNCHANGED <<queue1106, rest1106, queue2810, rest2810, reading, unsent>>,
         Len(pipe') <= Len(pipe), Len(pipe) \in Nat, Len(pipe') \in Nat
  PROVE  Room'
<1>1. Qnum1106' = Qnum1106 /\ Qnum2810' = Qnum2810
  BY DEF Qnum1106, Qnum2810
<1>2. QED
  BY <1>1, Constants DEF Room

\* Requests that stay where they are, or leave.
LEMMA ShrinkPlaces ==
  ASSUME OnePlace, unbegun' \subseteq unbegun, ToSet(queue1106)' \subseteq ToSet(queue1106),
         receiving' \subseteq receiving, executing' \subseteq executing,
         replying' \subseteq replying, about' \subseteq about,
         ToSet(queue2810)' \subseteq ToSet(queue2810), held' \subseteq held,
         ToSet(pipe)' \subseteq ToSet(pipe),
         \A r \in Req : conn'[r] = "new" => conn[r] = "new"
  PROVE  OnePlace'
<1>1. Early' \subseteq Early /\ Late' \subseteq Late
  BY DEF Early, Late
<1>2. QED
  BY <1>1 DEF OnePlace

\* What a step does that leaves the places alone.
LEMMA SamePlaces ==
  ASSUME UNCHANGED <<length, sending, unsent, queue1106, wants, executing, owes, queue2810,
                     reading>>
  PROVE  UNCHANGED <<unbegun, ToSet(queue1106), receiving, replying, about,
                     ToSet(queue2810), held>>
BY DEF unbegun, receiving, replying, about, held

\* A life ends, never begins anew.
LEMMA Closed ==
  ASSUME Lives, NEW r \in Req, Close(r) \/ UNCHANGED conn
  PROVE  /\ conn' \in [Req -> {"new", "open", "done"}]
         /\ \A q \in Req : conn'[q] = "new" => conn[q] = "new"
BY DEF Lives, Close

\* A new request is nowhere yet.
LEMMA ArrivePlaces == ASSUME IInv, Placed, NEW r \in Req, Arrive(r) PROVE Placed'
<1>1. UNCHANGED <<config, first, hands, second, reader, deaths>> /\ sending = None /\ conn[r] = "new"
  BY DEF Arrive
<1>2. UNCHANGED <<limit, workers, length, queue1106, rest1106, wants, executing, owes, queue2810,
                  rest2810, reading, missing, pipe>>
  BY <1>1 DEF config, first, hands, second, reader
<1>3. Queues'
  BY <1>2 DEF Placed, Queues
<1>4. UNCHANGED <<ToSet(queue1106), receiving, replying, about, ToSet(queue2810), held, ToSet(pipe)>>
  BY <1>2 DEF receiving, replying, about, held
<1>5. CASE conn' = [conn EXCEPT ![r] = "open"] /\ sending' = r /\ unsent' = length[r].ask
  <2>1. conn' \in [Req -> {"new", "open", "done"}]
        /\ \A q \in Req : conn'[q] = "new" => conn[q] = "new" /\ q # r
    BY <1>5 DEF Placed, Lives
  <2>2. unbegun' = {r}
    BY <1>2, <1>5 DEF unbegun
  <2>3. r \notin Early /\ r \notin Late
    BY <1>1 DEF Placed, OnePlace
  <2>4. Early' \subseteq Early \cup {r} /\ Late' = Late
    BY <1>2, <1>4, <2>2 DEF Early, Late
  <2>5. OnePlace'
    <3>1. r \notin ToSet(queue1106) \cup receiving \cup executing
      BY <2>3 DEF Early
    <3>2. QED
      BY <1>2, <1>4, <2>1, <2>2, <2>3, <2>4, <3>1 DEF Placed, OnePlace
  <2>6. length[r].ask <= MaxLen
    BY Constants DEF IInv, Types, Len1
  <2>7. Room'
    BY <1>2, <1>5, <2>6 DEF Placed, Room, Qnum1106, Qnum2810
  <2>8. Lives'
    BY <1>1, <1>2, <2>1 DEF Placed, Lives
  <2>9. QED
    BY <1>3, <2>5, <2>7, <2>8 DEF Placed
<1>6. CASE Close(r) /\ UNCHANGED loop
  <2>1. conn' \in [Req -> {"new", "open", "done"}] /\ \A q \in Req : conn'[q] = "new" => conn[q] = "new"
    BY <1>6, Closed DEF Placed
  <2>2. unbegun' = unbegun
    BY <1>2, <1>6 DEF unbegun, loop
  <2>3. OnePlace'
    BY <1>2, <1>4, <2>1, <2>2, ShrinkPlaces DEF Placed
  <2>4. Room'
    BY <1>2, <1>6 DEF Placed, Room, Qnum1106, Qnum2810, loop
  <2>5. Lives'
    BY <1>1, <1>2, <2>1 DEF Placed, Lives
  <2>6. QED
    BY <1>3, <2>3, <2>4, <2>5 DEF Placed
<1>7. QED
  BY <1>5, <1>6 DEF Arrive

\* The first chunk takes a request from the event loop to its queue.
LEMMA ForwardPlaces == ASSUME IInv, Placed, Forward PROVE Placed'
<1>1. PICK r : r = sending
  OBVIOUS
<1>2. /\ r \in Req /\ unsent \in Nat /\ unsent > 0 /\ length[r].ask \in Nat
      /\ unsent <= length[r].ask
  <2>1. r \in Req
    BY <1>1 DEF IInv, Types, Forward
  <2>2. length[r].ask \in Nat
    BY <2>1, Constants DEF IInv, Types
  <2>3. QED
    BY <1>1, <2>1, <2>2 DEF IInv, LoopCounted, Types, Forward
<1>3. /\ UNCHANGED <<limit, workers, length, conn, wants, executing, owes, queue2810,
                     rest2810, reading, missing, pipe, deaths>>
      /\ unsent' = unsent - 1 /\ (sending' = None \/ sending' = r) /\ Qnum1106 < Cap1106
      /\ \/ unsent = length[r].ask /\ queue1106' = Append(queue1106, r) /\ rest1106' = rest1106
         \/ unsent # length[r].ask /\ rest1106' = rest1106 + 1 /\ queue1106' = queue1106
  BY <1>1 DEF Forward, config, hands, second, reader
<1>4. Lives'
  BY <1>3 DEF Placed, Lives
<1>5. unbegun' = {}
  <2>1. unsent' # length[r].ask
    BY <1>2, <1>3
  <2>2. QED
    BY <1>1, <1>3, <2>1, Constants DEF unbegun
<1>6. UNCHANGED <<receiving, replying, about, ToSet(queue2810), held, ToSet(pipe)>>
  BY <1>3 DEF receiving, replying, about, held
<1>7. CASE unsent = length[r].ask /\ queue1106' = Append(queue1106, r) /\ rest1106' = rest1106
  <2>1. r \in unbegun
    BY <1>1, <1>2, <1>7 DEF unbegun
  <2>2. r \notin ToSet(queue1106)
    BY <2>1 DEF Placed, OnePlace
  <2>3. Proper(queue1106') /\ ToSet(queue1106)' = ToSet(queue1106) \cup {r}
    BY <1>2, <1>7, <2>2, ProperAppend DEF Placed, Queues
  <2>4. Early' \subseteq Early /\ Late' = Late
    BY <1>3, <1>5, <1>6, <2>1, <2>3 DEF Early, Late
  <2>5. OnePlace'
    BY <1>3, <1>5, <1>6, <2>1, <2>3, <2>4 DEF Placed, OnePlace
  <2>6. Queues'
    BY <1>3, <2>3 DEF Placed, Queues
  <2>7. QED
    <3>1. Len(queue1106') = Len(queue1106) + 1
      BY <1>2, <1>7 DEF IInv, Types
    <3>2. Qnum1106' <= Cap1106
      BY <1>3, <1>7, <3>1, Numbered, Constants DEF IInv, Types, Qnum1106
    <3>3. Room'
      BY <1>2, <1>3, <3>2, Constants DEF Placed, Room, Qnum2810
    <3>4. QED
      BY <1>4, <2>5, <2>6, <3>3 DEF Placed
<1>8. CASE unsent # length[r].ask /\ rest1106' = rest1106 + 1 /\ queue1106' = queue1106
  <2>1. OnePlace'
    BY <1>3, <1>5, <1>6, <1>8, ShrinkPlaces DEF Placed
  <2>2. Qnum1106' <= Cap1106
    BY <1>3, <1>8, Numbered, Constants DEF IInv, Types, Qnum1106
  <2>3. Room'
    BY <1>2, <1>3, <2>2, Constants DEF Placed, Room, Qnum2810
  <2>4. QED
    BY <1>3, <1>4, <1>8, <2>1, <2>3 DEF Placed, Queues
<1>9. QED
  BY <1>3, <1>7, <1>8

\* A timeout moves nothing.
LEMMA TimerPlaces == ASSUME IInv, Placed, NEW r \in Req, TimerFires(r) PROVE Placed'
<1>1. UNCHANGED <<limit, workers, length, sending, unsent, queue1106, rest1106, wants, executing,
                  owes, queue2810, rest2810, reading, missing, pipe, deaths>> /\ Close(r)
  BY DEF TimerFires, config, loop, first, hands, second, reader
<1>2. conn' \in [Req -> {"new", "open", "done"}] /\ \A q \in Req : conn'[q] = "new" => conn[q] = "new"
  BY <1>1, Closed DEF Placed
<1>3. OnePlace'
  BY <1>1, <1>2, SamePlaces, ShrinkPlaces DEF Placed
<1>4. QED
  BY <1>1, <1>2, <1>3 DEF Placed, Lives, Room, Queues, Qnum1106, Qnum2810

\* A reply leaves the pipe.
LEMMA ReadPipePlaces == ASSUME IInv, Placed, ReadPipe PROVE Placed'
<1>1. PICK r : r = Head(pipe)
  OBVIOUS
<1>2. /\ UNCHANGED <<limit, workers, length, sending, unsent, queue1106, rest1106, wants,
                     executing, owes, queue2810, rest2810, reading, missing, deaths>>
      /\ pipe # <<>> /\ pipe' = Tail(pipe) /\ (Close(r) \/ UNCHANGED conn)
  BY <1>1 DEF ReadPipe, config, loop, first, hands, second
<1>3. Proper(pipe') /\ ToSet(pipe)' \subseteq ToSet(pipe) /\ r \in Req
  BY <1>1, <1>2, ProperTail DEF Placed, Queues
<1>4. conn' \in [Req -> {"new", "open", "done"}] /\ \A q \in Req : conn'[q] = "new" => conn[q] = "new"
  BY <1>2, <1>3, Closed DEF Placed
<1>5. OnePlace'
  BY <1>2, <1>3, <1>4, SamePlaces, ShrinkPlaces DEF Placed
<1>6. Len(pipe) \in Nat /\ Len(pipe') \in Nat /\ Len(pipe') <= Len(pipe)
  BY <1>2 DEF Placed, Queues, Proper
<1>7. Room'
  BY <1>2, <1>6, RoomStutter DEF Placed
<1>8. QED
  BY <1>2, <1>3, <1>4, <1>5, <1>7 DEF Placed, Lives, Queues

\* What the worker's MsqRcv does to the places of a request: it is received
\* further, or executed.
LEMMA AwaitsPlaces ==
  ASSUME IInv, NEW r \in Req, NEW n \in 0..MaxLen, Awaits(r, n)
  PROVE  \/ receiving' = receiving \cup {r} /\ executing' = executing
         \/ receiving' = receiving \ {r} /\ executing' = executing \cup {r}
<1>1. wants' = [wants EXCEPT ![r] = n] /\ wants \in [Req -> 0..MaxLen]
  BY DEF Awaits, IInv, Types
<1>2. CASE n = 0
  BY <1>1, <1>2 DEF receiving, Awaits
<1>3. CASE n # 0
  <2>1. n > 0
    BY <1>3, Constants
  <2>2. QED
    BY <1>1, <1>3, <2>1 DEF receiving, Awaits
<1>4. QED
  BY <1>2, <1>3

\* A request goes from its queue to a worker.
LEMMA TakePlaces == ASSUME IInv, Placed, Take PROVE Placed'
<1>1. PICK r, n : r = Head(queue1106) /\ n = length[Head(queue1106)].ask - 1
  OBVIOUS
<1>2. /\ UNCHANGED <<limit, workers, length, conn, sending, unsent, rest1106, owes, queue2810,
                     rest2810, reading, missing, pipe, deaths>>
      /\ queue1106 # <<>> /\ queue1106' = Tail(queue1106) /\ Awaits(r, n)
  BY <1>1 DEF Take, config, loop, second, reader
<1>3. /\ Proper(queue1106') /\ r \in Req /\ r \in ToSet(queue1106)
      /\ ToSet(queue1106)' = ToSet(queue1106) \ {r}
  BY <1>1, <1>2, ProperTail DEF Placed, Queues
<1>4. n \in 0..MaxLen
  <2>1. length[r].ask \in Len1
    BY <1>3 DEF IInv, Types
  <2>2. QED
    BY <1>1, <2>1, Constants
<1>5. \/ receiving' = receiving \cup {r} /\ executing' = executing
      \/ receiving' = receiving \ {r} /\ executing' = executing \cup {r}
  BY <1>2, <1>3, <1>4, AwaitsPlaces
<1>6. UNCHANGED <<unbegun, replying, about, ToSet(queue2810), held, ToSet(pipe)>>
  BY <1>2 DEF unbegun, replying, about, held
<1>7. Early' \subseteq Early /\ Late' = Late
  BY <1>3, <1>5, <1>6 DEF Early, Late
<1>8. OnePlace'
  <2>1. unbegun \cap (ToSet(queue1106) \cup receiving \cup executing) = {}
        /\ r \notin unbegun
    BY <1>3 DEF Placed, OnePlace
  <2>2. r \notin receiving /\ r \notin executing
    BY <1>3 DEF Placed, OnePlace
  <2>3. QED
    BY <1>2, <1>3, <1>5, <1>6, <1>7, <2>1, <2>2 DEF Placed, OnePlace
<1>9. Qnum1106' <= Cap1106
  <2>1. queue1106 \in Seq(Req) /\ rest1106 \in Nat /\ Qnum1106 <= Cap1106
    BY DEF IInv, Types, Placed, Room
  <2>2. Len(queue1106') <= Len(queue1106) /\ Len(queue1106') \in Nat /\ Len(queue1106) \in Nat
    BY <1>2, <2>1
  <2>3. QED
    BY <1>2, <2>1, <2>2, Constants DEF Qnum1106
<1>10. Room'
  BY <1>2, <1>9 DEF Placed, Room, Qnum2810
<1>11. QED
  BY <1>2, <1>3, <1>8, <1>10 DEF Placed, Lives, Queues

\* The worker has one more chunk.
LEMMA TakeRestPlaces == ASSUME IInv, Placed, NEW r \in Req, TakeRest(r) PROVE Placed'
<1>1. PICK n : n = wants[r] - 1
  OBVIOUS
<1>2. /\ UNCHANGED <<limit, workers, length, conn, sending, unsent, queue1106, owes, queue2810,
                     rest2810, reading, missing, pipe, deaths>>
      /\ rest1106' = rest1106 - 1 /\ Awaits(r, n) /\ wants[r] > 0
  BY <1>1 DEF TakeRest, config, loop, second, reader
<1>3. n \in 0..MaxLen /\ r \in receiving
  <2>1. wants[r] \in 0..MaxLen
    BY DEF IInv, Types
  <2>2. QED
    BY <1>1, <1>2, <2>1, Constants DEF receiving
<1>4. \/ receiving' = receiving \cup {r} /\ executing' = executing
      \/ receiving' = receiving \ {r} /\ executing' = executing \cup {r}
  BY <1>2, <1>3, AwaitsPlaces
<1>5. UNCHANGED <<unbegun, ToSet(queue1106), replying, about, ToSet(queue2810), held, ToSet(pipe)>>
  BY <1>2 DEF unbegun, replying, about, held
<1>6. Early' \subseteq Early /\ Late' = Late
  BY <1>3, <1>4, <1>5 DEF Early, Late
<1>7. OnePlace'
  BY <1>2, <1>3, <1>4, <1>5, <1>6 DEF Placed, OnePlace
<1>8. Qnum1106' <= Cap1106
  <2>1. Len(queue1106) \in Nat /\ rest1106 \in Nat /\ Qnum1106 <= Cap1106
    BY Numbered DEF IInv, Types, Placed, Room
  <2>2. QED
    BY <1>2, <2>1, Constants DEF Qnum1106
<1>9. Room'
  BY <1>2, <1>8 DEF Placed, Room, Qnum2810
<1>10. QED
  BY <1>2, <1>7, <1>9 DEF Placed, Lives, Queues

\* A request that was executed is replied to, or refused by the test.
LEMMA ExecutePlaces == ASSUME IInv, Placed, NEW r \in Req, Execute(r) PROVE Placed'
<1>1. /\ UNCHANGED <<limit, workers, length, conn, sending, unsent, queue1106, rest1106, wants,
                     queue2810, rest2810, reading, missing, pipe, deaths>>
      /\ r \in executing /\ executing' = executing \ {r}
      /\ (owes' = [owes EXCEPT ![r] = length[r].answer] \/ owes' = owes)
  BY DEF Execute, config, loop, first, second, reader
<1>2. UNCHANGED <<unbegun, ToSet(queue1106), receiving, ToSet(queue2810), held, ToSet(pipe)>>
  BY <1>1 DEF unbegun, receiving, held
<1>3. replying' \subseteq replying \cup {r} /\ about' \subseteq about \cup {r}
  BY <1>1 DEF replying, about, IInv, Types
<1>4. r \in Early /\ r \notin Late
  BY <1>1 DEF Early, Placed, OnePlace
<1>5. r \notin unbegun /\ r \notin ToSet(queue1106) /\ r \notin receiving /\ conn[r] # "new"
  BY <1>1, <1>4 DEF Placed, OnePlace
<1>6. Early' \subseteq Early \ {r} /\ Late' \subseteq Late \cup {r}
  BY <1>1, <1>2, <1>3, <1>5 DEF Early, Late
<1>7. OnePlace'
  <2>1. r \notin ToSet(queue2810) \cup held \cup ToSet(pipe)
    BY <1>4 DEF Late
  <2>2. QED
    BY <1>1, <1>2, <1>3, <1>5, <1>6, <2>1 DEF Placed, OnePlace
<1>8. QED
  BY <1>1, <1>7 DEF Placed, Lives, Room, Queues, Qnum1106, Qnum2810

\* The first chunk takes an answer from a worker to its queue.
LEMMA ReplyPlaces == ASSUME IInv, Placed, NEW r \in Req, Reply(r) PROVE Placed'
<1>1. PICK k, c : k = owes[r] /\ c = length[r].answer
  OBVIOUS
<1>2. k \in Nat /\ k > 0 /\ c \in Nat /\ k <= c
  BY <1>1, Constants DEF Reply, IInv, Types, WorkersCounted
<1>3. /\ UNCHANGED <<limit, workers, length, conn, sending, unsent, queue1106, rest1106, wants,
                     executing, reading, missing, pipe, deaths>>
      /\ owes' = [owes EXCEPT ![r] = k - 1] /\ Qnum2810 < Cap2810
      /\ \/ k = c /\ queue2810' = Append(queue2810, r) /\ rest2810' = rest2810
         \/ k # c /\ rest2810' = rest2810 \cup {<<r, k>>} /\ queue2810' = queue2810
  BY <1>1 DEF Reply, config, loop, first, reader
<1>4. UNCHANGED <<unbegun, ToSet(queue1106), receiving, held, ToSet(pipe)>>
  BY <1>3 DEF unbegun, receiving, held
<1>5. r \in replying
  BY <1>1, <1>2 DEF replying
<1>6. replying' \subseteq replying /\ about' \subseteq about \ {r}
  <2>1. owes'[r] = k - 1 /\ \A q \in Req : q # r => owes'[q] = owes[q]
    BY <1>3 DEF IInv, Types
  <2>2. k - 1 # c
    BY <1>2
  <2>3. QED
    BY <1>1, <1>3, <1>5, <2>1, <2>2 DEF replying, about
<1>7. Lives'
  BY <1>3 DEF Placed, Lives
<1>8. CASE k = c /\ queue2810' = Append(queue2810, r) /\ rest2810' = rest2810
  <2>1. r \in about
    BY <1>1, <1>8 DEF about
  <2>2. r \notin ToSet(queue2810) /\ r \notin held \cup ToSet(pipe)
    BY <2>1 DEF Placed, OnePlace
  <2>3. Proper(queue2810') /\ ToSet(queue2810)' = ToSet(queue2810) \cup {r}
    BY <1>8, <2>2, ProperAppend DEF Placed, Queues
  <2>4. Early' = Early /\ Late' \subseteq Late
    BY <1>3, <1>4, <1>5, <1>6, <2>3 DEF Early, Late
  <2>5. OnePlace'
    BY <1>3, <1>4, <1>6, <2>2, <2>3, <2>4 DEF Placed, OnePlace
  <2>6. Len(queue2810') = Len(queue2810) + 1
    BY <1>8 DEF IInv, Types
  <2>7. Qnum2810' <= Cap2810
    BY <1>3, <1>8, <2>6, Numbered, Constants DEF IInv, Qnum2810
  <2>8. Room'
    BY <1>3, <2>7 DEF Placed, Room, Qnum1106
  <2>9. QED
    BY <1>3, <1>7, <2>3, <2>5, <2>8 DEF Placed, Queues
<1>9. CASE k # c /\ rest2810' = rest2810 \cup {<<r, k>>} /\ queue2810' = queue2810
  <2>1. OnePlace'
    BY <1>3, <1>4, <1>6, <1>9, ShrinkPlaces DEF Placed
  <2>2. Cardinality(rest2810') <= Cardinality(rest2810) + 1 /\ Cardinality(rest2810) \in Nat
        /\ Len(queue2810) \in Nat
    BY <1>9, Finite, OneMoreOneLess, Numbered DEF IInv, Types
  <2>3. rest2810' \subseteq Chunk
    <3>1. k \in Len1
      BY <1>1, <1>2, Constants DEF IInv, Types, Len1
    <3>2. QED
      BY <1>9, <3>1 DEF IInv, Types, Chunk
  <2>4. Cardinality(rest2810') \in Nat
    BY <2>3, Finite, Sizes
  <2>5. Qnum2810' <= Cap2810
    BY <1>3, <1>9, <2>2, <2>4, Constants DEF Qnum2810
  <2>6. Room'
    BY <1>3, <2>5 DEF Placed, Room, Qnum1106
  <2>7. QED
    BY <1>3, <1>7, <1>9, <2>1, <2>6 DEF Placed, Queues
<1>10. QED
  BY <1>3, <1>8, <1>9

\* A request in the hands of a worker that dies is gone.
LEMMA DiesPlaces == ASSUME IInv, Placed, NEW r \in Req, Dies(r) PROVE Placed'
<1>1. /\ UNCHANGED <<limit, workers, length, conn, sending, unsent, queue1106, rest1106,
                     queue2810, rest2810, reading, missing, pipe>>
      /\ wants' = [wants EXCEPT ![r] = 0] /\ executing' = executing \ {r}
      /\ owes' = [owes EXCEPT ![r] = 0]
      /\ deaths < MaxDeaths /\ deaths' = deaths + 1
  BY DEF Dies, config, loop, first, second, reader
<1>2. deaths' \in 0..MaxDeaths
  BY <1>1, Constants DEF Placed, Lives
<1>3. UNCHANGED <<unbegun, ToSet(queue1106), ToSet(queue2810), held, ToSet(pipe)>>
  BY <1>1 DEF unbegun, held
<1>4. \A q \in Req : q # r => wants'[q] = wants[q] /\ owes'[q] = owes[q]
  BY <1>1 DEF IInv, Types
<1>5. wants'[r] = 0 /\ owes'[r] = 0 /\ length[r].answer # 0
  BY <1>1, Constants DEF IInv, Types
<1>6. receiving' \subseteq receiving /\ replying' \subseteq replying /\ about' \subseteq about
  BY <1>1, <1>4, <1>5 DEF receiving, replying, about
<1>7. OnePlace'
  BY <1>1, <1>3, <1>6, ShrinkPlaces DEF Placed
<1>8. QED
  BY <1>1, <1>2, <1>7 DEF Placed, Lives, Room, Queues, Qnum1106, Qnum2810

\* What the reader's MsqRcv does to the place of an answer: it is received further,
\* or written to the pipe.
LEMMA ReadsPlaces ==
  ASSUME Placed, NEW r \in Req, NEW n \in 0..MaxLen, Reads(r, n), Len(pipe) < PipeCap,
         held \subseteq {r}, r \notin ToSet(pipe)
  PROVE  /\ \/ held' = {r} /\ ToSet(pipe)' = ToSet(pipe)
            \/ held' = {} /\ ToSet(pipe)' = ToSet(pipe) \cup {r}
         /\ Proper(pipe')
         /\ Len(pipe') <= PipeCap
         /\ (reading' # None => Len(pipe') < PipeCap)
<1>1. CASE n = 0
  <2>1. reading' = None /\ pipe' = Append(pipe, r)
    BY <1>1 DEF Reads
  <2>2. Proper(pipe') /\ ToSet(pipe)' = ToSet(pipe) \cup {r}
    BY <2>1, ProperAppend DEF Placed, Queues
  <2>3. Len(pipe') = Len(pipe) + 1 /\ Len(pipe) \in Nat
    BY <2>1 DEF Placed, Queues, Proper
  <2>4. Len(pipe') <= PipeCap
    BY <2>3, Constants
  <2>5. held' = {}
    BY <2>1 DEF held
  <2>6. QED
    BY <2>1, <2>2, <2>4, <2>5
<1>2. CASE n # 0
  <2>1. reading' = r /\ pipe' = pipe
    BY <1>2, Constants DEF Reads
  <2>2. held' = {r}
    BY <2>1, Constants DEF held
  <2>3. Proper(pipe') /\ Len(pipe') <= PipeCap
    BY <2>1 DEF Placed, Queues, Room
  <2>4. QED
    BY <2>1, <2>2, <2>3
<1>3. QED
  BY <1>1, <1>2

\* An answer goes from its queue to the reader.
LEMMA ReaderTakesPlaces == ASSUME IInv, Placed, ReaderTakes PROVE Placed'
<1>1. PICK r, n : r = Head(queue2810) /\ n = length[Head(queue2810)].answer - 1
  OBVIOUS
<1>2. /\ UNCHANGED <<limit, workers, length, conn, sending, unsent, queue1106, rest1106, wants,
                     executing, owes, rest2810, deaths>>
      /\ queue2810 # <<>> /\ queue2810' = Tail(queue2810) /\ Reads(r, n)
      /\ reading = None /\ Len(pipe) < PipeCap
  BY <1>1 DEF ReaderTakes, config, loop, first, hands
<1>3. /\ Proper(queue2810') /\ r \in Req /\ r \in ToSet(queue2810)
      /\ ToSet(queue2810)' = ToSet(queue2810) \ {r}
  BY <1>1, <1>2, ProperTail DEF Placed, Queues
<1>4. n \in 0..MaxLen
  <2>1. length[r].answer \in Len1
    BY <1>3 DEF IInv, Types
  <2>2. QED
    BY <1>1, <2>1, Constants
<1>5. held = {} /\ r \notin ToSet(pipe) /\ r \notin about
  BY <1>2, <1>3 DEF held, Placed, OnePlace
<1>6. /\ \/ held' = {r} /\ ToSet(pipe)' = ToSet(pipe)
         \/ held' = {} /\ ToSet(pipe)' = ToSet(pipe) \cup {r}
      /\ Proper(pipe') /\ Len(pipe') <= PipeCap /\ (reading' # None => Len(pipe') < PipeCap)
  BY <1>2, <1>3, <1>4, <1>5, ReadsPlaces
<1>7. UNCHANGED <<unbegun, ToSet(queue1106), receiving, replying, about>>
  BY <1>2 DEF unbegun, receiving, replying, about
<1>8. Early' = Early /\ Late' \subseteq Late
  BY <1>2, <1>3, <1>5, <1>6, <1>7 DEF Early, Late
<1>9. OnePlace'
  BY <1>2, <1>3, <1>5, <1>6, <1>7, <1>8 DEF Placed, OnePlace
<1>10. Qnum2810' <= Cap2810
  <2>1. queue2810 \in Seq(Req) /\ Cardinality(rest2810) \in Nat /\ Qnum2810 <= Cap2810
    BY Numbered DEF IInv, Types, Placed, Room
  <2>2. Len(queue2810') <= Len(queue2810) /\ Len(queue2810') \in Nat /\ Len(queue2810) \in Nat
    BY <1>2, <2>1
  <2>3. QED
    BY <1>2, <2>1, <2>2, Constants DEF Qnum2810
<1>11. Room'
  BY <1>2, <1>6, <1>10 DEF Placed, Room, Qnum1106
<1>12. QED
  BY <1>2, <1>3, <1>6, <1>9, <1>11 DEF Placed, Lives, Queues

\* An answer goes from the reader to the pipe with its last chunk.
LEMMA ReaderContinuesPlaces == ASSUME IInv, Placed, ReaderContinues PROVE Placed'
<1>1. PICK r, n : r = reading /\ n = missing - 1
  OBVIOUS
<1>2. /\ UNCHANGED <<limit, workers, length, conn, sending, unsent, queue1106, rest1106, wants,
                     executing, owes, queue2810, deaths>>
      /\ r # None /\ rest2810' = rest2810 \ {<<r, missing>>} /\ <<r, missing>> \in rest2810
      /\ Reads(r, n)
  BY <1>1 DEF ReaderContinues, config, loop, first, hands
<1>3. r \in Req /\ n \in 0..MaxLen
  <2>1. missing \in 0..MaxLen /\ missing > 0
    BY <1>1, <1>2 DEF IInv, Types
  <2>2. QED
    BY <1>1, <1>2, <2>1, Constants DEF IInv, Types
<1>4. held = {r} /\ Len(pipe) < PipeCap
  BY <1>1, <1>2 DEF held, Placed, Room
<1>5. r \notin ToSet(pipe) /\ r \notin about /\ r \notin ToSet(queue2810)
  BY <1>4 DEF Placed, OnePlace
<1>6. /\ \/ held' = {r} /\ ToSet(pipe)' = ToSet(pipe)
         \/ held' = {} /\ ToSet(pipe)' = ToSet(pipe) \cup {r}
      /\ Proper(pipe') /\ Len(pipe') <= PipeCap /\ (reading' # None => Len(pipe') < PipeCap)
  BY <1>2, <1>3, <1>4, <1>5, ReadsPlaces
<1>7. UNCHANGED <<unbegun, ToSet(queue1106), receiving, replying, about, ToSet(queue2810)>>
  BY <1>2 DEF unbegun, receiving, replying, about
<1>8. Early' = Early /\ Late' = Late
  BY <1>2, <1>4, <1>6, <1>7 DEF Early, Late
<1>9. OnePlace'
  BY <1>2, <1>4, <1>5, <1>6, <1>7, <1>8 DEF Placed, OnePlace
<1>10. Qnum2810' <= Cap2810
  <2>1. Cardinality(rest2810') = Cardinality(rest2810) - 1
    BY <1>2, Finite, OneMoreOneLess DEF IInv, Types
  <2>2. Cardinality(rest2810) \in Nat /\ Len(queue2810) \in Nat /\ Qnum2810 <= Cap2810
    BY Numbered DEF IInv, Placed, Room
  <2>3. QED
    BY <1>2, <2>1, <2>2, Constants DEF Qnum2810
<1>11. Room'
  BY <1>2, <1>6, <1>10 DEF Placed, Room, Qnum1106
<1>12. QED
  BY <1>2, <1>6, <1>9, <1>11 DEF Placed, Lives, Queues

\* Nothing is anywhere at the start.
LEMMA InitPlaces == Init => Placed
<1> SUFFICES ASSUME Init PROVE Placed
  OBVIOUS
<1>1. Queues
  BY DEF Init, Queues, Proper, IsInjective
<1>2. ToSet(queue1106) = {} /\ ToSet(queue2810) = {} /\ ToSet(pipe) = {}
  BY DEF Init, ToSet
<1>3. length \in [Req -> [ask : Len1, answer : Len1]]
  BY PipelineAssumption DEF Init, Len1
<1>4. \A r \in Req : length[r].answer # 0
  BY <1>3, Constants
<1>5. unbegun = {} /\ receiving = {} /\ executing = {} /\ replying = {} /\ about = {} /\ held = {}
  BY <1>4, Constants DEF Init, unbegun, receiving, replying, about, held
<1>6. OnePlace
  BY <1>2, <1>5 DEF OnePlace, Early, Late
<1>7. Cardinality(rest2810) = 0
  BY FS_EmptySet DEF Init
<1>8. Room
  BY <1>7, Constants, PipelineAssumption DEF Init, Room, Qnum1106, Qnum2810
<1>9. Lives
  BY PipelineAssumption DEF Init, Lives
<1>10. QED
  BY <1>1, <1>6, <1>8, <1>9 DEF Placed

\* Every step leaves each request in one place.
LEMMA StepPlaces == IInv /\ Placed /\ [Next]_vars => Placed'
<1> SUFFICES ASSUME IInv, Placed, [Next]_vars PROVE Placed'
  OBVIOUS
<1>1. CASE UNCHANGED vars
  <2>1. UNCHANGED <<limit, workers, length, conn, sending, unsent, queue1106, rest1106, wants,
                    executing, owes, queue2810, rest2810, reading, missing, pipe, deaths>>
    BY <1>1 DEF vars, config, loop, first, hands, second, reader
  <2>2. OnePlace'
    BY <2>1, SamePlaces, ShrinkPlaces DEF Placed
  <2>3. QED
    BY <2>1, <2>2 DEF Placed, Lives, Room, Queues, Qnum1106, Qnum2810
<1>2. QED
  BY <1>1, ArrivePlaces, ForwardPlaces, TimerPlaces, ReadPipePlaces, TakePlaces,
     TakeRestPlaces, ExecutePlaces, ReplyPlaces, DiesPlaces, ReaderTakesPlaces,
     ReaderContinuesPlaces DEF Next

\* No request is ever in two queues, twice in one, or in the hands of two
\* workers, no queue holds more chunks than the operating system gives it, and
\* there is always a place in the pipe for the answer the reader is at, whatever
\* the sizes and whoever dies.
THEOREM Typed == Spec => []TypeOK
<1>1. IInv /\ Placed => TypeOK
  <2> SUFFICES ASSUME IInv, Placed PROVE TypeOK
    OBVIOUS
  <2>1. ToSet(queue1106) \subseteq Req /\ ToSet(queue2810) \subseteq Req /\ ToSet(pipe) \subseteq Req
    BY DEF Placed, Queues, Proper, ToSet
  <2>2. \A q \in {queue1106, queue2810, pipe} : IsInjective(q) /\ ToSet(q) \subseteq Req
    BY <2>1 DEF Placed, Queues, Proper
  <2>3. executing \cap replying = {} /\ receiving \cap replying = {} /\ receiving \cap executing = {}
    BY DEF Placed, OnePlace, Early, Late
  <2>4. executing \subseteq Req \ (receiving \cup replying)
    BY <2>3 DEF IInv, Types
  <2>5. rest2810 \subseteq Req \X (1..MaxLen)
    BY DEF IInv, Types, Chunk, Len1
  <2>6. unsent \in 0..MaxLen
    BY Constants DEF IInv, Types, Placed, Room
  <2>7. Cardinality(Busy) <= workers
    BY DEF IInv, WorkersCounted
  <2>8. QED
    BY <2>2, <2>3, <2>4, <2>5, <2>6, <2>7 DEF IInv, Types, Placed, Lives, Room, TypeOK
<1>2. QED
  BY <1>1, InitPlaces, StepPlaces, Counted, PTL DEF Spec
=============================================================================
