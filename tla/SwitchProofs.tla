---------------------------- MODULE SwitchProofs ----------------------------
(***************************************************************************)
(* Proofs about Switch for any number of workers and requests, any orderly *)
(* programs, and every failure: commits are complete (IInv), and a reply   *)
(* 200 means committed changes if the programs are settled, too (AInv).    *)
(*                                                                         *)
(* AInv follows a request from its arrival on: nobody has changes of it    *)
(* before a worker takes it (Untouched), then only this worker has         *)
(* (Owned), and each change it insists on is pending or committed once the *)
(* worker is past it (Going).                                              *)
(***************************************************************************)
EXTENDS Switch, TLAPS

IsSeq(s) == \E S : s \in Seq(S)

Fields == {"req", "at", "id", "saw", "link", "snap", "mine"}
Shape(x) == DOMAIN x = Fields /\ x.at \in Nat /\ IsSeq(x.mine)

\* In the following q is the function from requests to their programs.
Due(q, r) == {i \in DOMAIN q[r] : Insisted(q[r][i])}

\* Statements of requests that have arrived, each with the ones its handler
\* insisted on before it.
Complete(q, P) ==
  \A c \in P :
    /\ c[1] \in Req /\ q[c[1]] # <<>>
    /\ c[2] \in Due(q, c[1]) =>
         \A i \in Due(q, c[1]) : i < c[2] => <<c[1], i>> \in P

\* While a handler has a change before it that it insists on, and the link to
\* execute it, the ones behind it are pending.
Ready(q, x) ==
  x.req # None =>
    /\ x.req \in Req /\ q[x.req] # <<>> /\ x.at >= 1
    /\ x.link => \A j \in Due(q, x.req) : j >= x.at =>
         \A i \in Due(q, x.req) : i < x.at => <<x.req, i>> \in Places(x.mine)

Sound(q, x) == Shape(x) /\ Complete(q, Places(x.mine)) /\ Ready(q, x)

Programs == prog \in [Req -> Seq(Statements)] /\ \A r \in Req : Orderly(prog[r])
Queued == inbox \in Seq(Req) /\ \A k \in DOMAIN inbox : prog[inbox[k]] # <<>>
Workers == DOMAIN work = Worker /\ \A w \in Worker : Sound(prog, work[w])
History == IsSeq(log) /\ \A k \in DOMAIN log : Complete(prog, log[k].by)

IInv == Programs /\ Queued /\ Workers /\ History

----------------------------------------------------------------------------
(* Sequences and the places of their changes *)

LEMMA EmptyIsSeq == IsSeq(<<>>) /\ Places(<<>>) = {}
<1>1. <<>> \in Seq({})
  OBVIOUS
<1>2. QED
  BY <1>1 DEF IsSeq, Places

\* One more change of a sequence of changes.
LEMMA AppendIsSeq ==
  ASSUME NEW s, IsSeq(s), NEW c
  PROVE  /\ IsSeq(Append(s, c))
         /\ DOMAIN s = 1..Len(s) /\ Len(s) \in Nat
         /\ DOMAIN Append(s, c) = 1..(Len(s) + 1)
         /\ \A i \in 1..Len(s) : Append(s, c)[i] = s[i]
         /\ Append(s, c)[Len(s) + 1] = c
<1>1. PICK S : s \in Seq(S)
  BY DEF IsSeq
<1> DEFINE T == S \cup {c}
<1>2. s \in Seq(T)
  BY <1>1
<1>3. Append(s, c) \in Seq(T) /\ Len(Append(s, c)) = Len(s) + 1
  BY <1>2
<1>4. QED
  BY <1>2, <1>3 DEF IsSeq

\* The places of one more change.
LEMMA AppendPlaces ==
  ASSUME NEW s, IsSeq(s), NEW c
  PROVE  Places(Append(s, c)) = Places(s) \cup {<<c.req, c.at>>}
<1> DEFINE t == Append(s, c)
<1>1. /\ DOMAIN s = 1..Len(s) /\ Len(s) \in Nat
      /\ DOMAIN t = 1..(Len(s) + 1)
      /\ \A i \in 1..Len(s) : t[i] = s[i]
      /\ t[Len(s) + 1] = c
  BY AppendIsSeq
<1> HIDE DEF t
<1>2. ASSUME NEW e \in Places(t) PROVE e \in Places(s) \cup {<<c.req, c.at>>}
  <2>1. PICK i \in DOMAIN t : e = <<t[i].req, t[i].at>>
    BY <1>2 DEF Places
  <2>2. CASE i \in 1..Len(s)
    BY <1>1, <2>1, <2>2 DEF Places
  <2>3. CASE i = Len(s) + 1
    BY <1>1, <2>1, <2>3
  <2>4. QED
    BY <1>1, <2>1, <2>2, <2>3
<1>3. ASSUME NEW e \in Places(s) PROVE e \in Places(t)
  <2>1. PICK i \in DOMAIN s : e = <<s[i].req, s[i].at>>
    BY <1>3 DEF Places
  <2>2. i \in DOMAIN t /\ t[i] = s[i]
    BY <1>1, <2>1
  <2>3. QED
    BY <2>1, <2>2 DEF Places
<1>4. <<c.req, c.at>> \in Places(t)
  <2>1. Len(s) + 1 \in DOMAIN t
    BY <1>1
  <2>2. QED
    BY <1>1, <2>1 DEF Places
<1>5. QED
  BY <1>2, <1>3, <1>4 DEF t

----------------------------------------------------------------------------
(* Records of workers *)

LEMMA WaitingSound ==
  ASSUME NEW q, NEW link, NEW snap, NEW mine, IsSeq(mine), Complete(q, Places(mine))
  PROVE  Sound(q, Waiting(link, snap, mine))
<1>1. Shape(Waiting(link, snap, mine))
  BY DEF Shape, Fields, Waiting
<1>2. QED
  BY <1>1 DEF Sound, Ready, Waiting

\* A worker that was just started is sound.
LEMMA BornSound == \A q, v : Sound(q, Born(v))
<1>1. \A q : Complete(q, {})
  BY DEF Complete
<1>2. QED
  BY <1>1, EmptyIsSeq, WaitingSound DEF Born

\* What each way of changing a record leaves alone.
LEMMA FurtherFields ==
  ASSUME NEW x, Shape(x)
  PROVE  LET y == Further(x) IN
    /\ Shape(y) /\ y.at = x.at + 1
    /\ y.req = x.req /\ y.link = x.link /\ y.mine = x.mine
  BY DEF Shape, Fields, Further

\* A worker whose pending changes are replaced.
LEMMA MineFields ==
  ASSUME NEW x, Shape(x), NEW m, IsSeq(m)
  PROVE  LET y == [x EXCEPT !.mine = m] IN
    /\ Shape(y) /\ y.at = x.at /\ y.req = x.req /\ y.link = x.link /\ y.mine = m
  BY DEF Shape, Fields

\* A worker with another snapshot.
LEMMA SnapFields ==
  ASSUME NEW x, Shape(x), NEW n
  PROVE  LET y == [x EXCEPT !.snap = n] IN
    /\ Shape(y) /\ y.at = x.at /\ y.req = x.req /\ y.link = x.link /\ y.mine = x.mine
  BY DEF Shape, Fields

\* A worker that has seen more.
LEMMA SawFields ==
  ASSUME NEW x, Shape(x), NEW n
  PROVE  LET y == [x EXCEPT !.saw = n] IN
    /\ Shape(y) /\ y.at = x.at /\ y.req = x.req /\ y.link = x.link /\ y.mine = x.mine
  BY DEF Shape, Fields

\* A worker that has read a key.
LEMMA IdFields ==
  ASSUME NEW x, Shape(x), NEW n
  PROVE  LET y == [x EXCEPT !.id = n] IN
    /\ Shape(y) /\ y.at = x.at /\ y.req = x.req /\ y.link = x.link /\ y.mine = x.mine
  BY DEF Shape, Fields

\* A worker whose connection is another.
LEMMA LinkFields ==
  ASSUME NEW x, Shape(x), NEW n
  PROVE  LET y == [x EXCEPT !.link = n] IN
    /\ Shape(y) /\ y.at = x.at /\ y.req = x.req /\ y.link = n /\ y.mine = x.mine
  BY DEF Shape, Fields

\* A statement is what the program has there, but for the key found.
LEMMA StmtOfProgram ==
  ASSUME Programs, NEW w \in Worker, Sound(prog, work[w]), Busy(w),
         work[w].at \in DOMAIN prog[work[w].req]
  PROVE  /\ Stmt(w).op = prog[work[w].req][work[w].at].op
         /\ Stmt(w).onerr = prog[work[w].req][work[w].at].onerr
<1> DEFINE s == prog[work[w].req][work[w].at]
<1>1. work[w].req \in Req
  BY DEF Sound, Ready, Busy
<1>2. s \in Statements
  BY <1>1 DEF Programs
<1>3. QED
  BY <1>2 DEF Stmt, Bound, Statements

\* The statement a worker is at is one its handler insists on just when its
\* place in the program is.
LEMMA InsistedHere ==
  ASSUME Programs, NEW w \in Worker, Sound(prog, work[w]), Busy(w)
  PROVE  work[w].at \in Due(prog, work[w].req) =>
           /\ Stmt(w).onerr = "abort"
           /\ Writes(Stmt(w)) \/ Stmt(w).op = "truncate"
  BY StmtOfProgram DEF Due, Insisted, Writes

\* Nothing a handler insists on comes behind a commit or a change whose error
\* it ignores.
LEMMA NothingBehind ==
  ASSUME Programs, NEW w \in Worker, Sound(prog, work[w]), Busy(w),
         NEW j \in Due(prog, work[w].req), j >= work[w].at + 1
  PROVE  /\ Stmt(w).op \notin {"commit", "truncate"}
         /\ Writes(Stmt(w)) => work[w].at \in Due(prog, work[w].req)
<1> DEFINE r == work[w].req
           a == work[w].at
           p == prog[r]
<1>1. r \in Req /\ a \in Nat /\ a >= 1
  BY DEF Sound, Ready, Busy, Shape
<1>2. p \in Seq(Statements) /\ Orderly(p)
  BY <1>1 DEF Programs
<1>3. j \in DOMAIN p /\ Insisted(p[j])
  BY DEF Due
<1>4. a \in DOMAIN p /\ a < j
  BY <1>1, <1>2, <1>3
<1>5. p[a].op \notin {"commit", "truncate"} /\ (Writes(p[a]) => Insisted(p[a]))
  BY <1>2, <1>3, <1>4 DEF Orderly
<1>6. Stmt(w).op = p[a].op
  BY <1>4, StmtOfProgram
<1>7. QED
  BY <1>4, <1>5, <1>6 DEF Due, Writes

----------------------------------------------------------------------------
(* A worker's step *)

\* The record after a statement that was skipped, or entered in mine, or
\* behind which nothing is insisted on.
LEMMA BehindSound ==
  ASSUME Programs, NEW w \in Worker, Sound(prog, work[w]), Busy(w),
         NEW x, Shape(x), Complete(prog, Places(x.mine)),
         x.req = work[w].req, x.at = work[w].at + 1, x.link => work[w].link,
         \/ /\ work[w].at \notin Due(prog, work[w].req)
            /\ Places(x.mine) = Places(work[w].mine)
         \/ Places(x.mine) = Places(work[w].mine) \cup {<<work[w].req, work[w].at>>}
         \/ \A j \in Due(prog, work[w].req) : ~(j >= work[w].at + 1)
  PROVE  Sound(prog, x)
<1> DEFINE r == work[w].req
           a == work[w].at
<1>1. r \in Req /\ prog[r] # <<>> /\ a \in Nat /\ a >= 1 /\ r # None
  BY DEF Sound, Ready, Busy, Shape
<1>2. Due(prog, r) \subseteq Nat
  BY <1>1 DEF Programs, Due
<1>3. ASSUME x.link, NEW j \in Due(prog, r), j >= a + 1, NEW i \in Due(prog, r), i < a + 1
      PROVE  <<r, i>> \in Places(x.mine)
  <2>1. i < a => <<r, i>> \in Places(work[w].mine)
    BY <1>1, <1>2, <1>3 DEF Sound, Ready
  <2>2. i < a \/ i = a
    BY <1>1, <1>2, <1>3
  <2>3. QED
    BY <1>3, <2>1, <2>2
<1>4. Ready(prog, x)
  BY <1>1, <1>3 DEF Ready
<1>5. QED
  BY <1>4 DEF Sound

\* The statement a worker executes may join the pending ones.
LEMMA ChangeComplete ==
  ASSUME Programs, NEW w \in Worker, Sound(prog, work[w]), Busy(w), work[w].link, NEW s
  PROVE  LET t == Append(work[w].mine, Change(w, s)) IN
    /\ IsSeq(t)
    /\ Places(t) = Places(work[w].mine) \cup {<<work[w].req, work[w].at>>}
    /\ Complete(prog, Places(t))
<1> DEFINE r == work[w].req
           a == work[w].at
           c == Change(w, s)
           t == Append(work[w].mine, c)
<1>1. IsSeq(work[w].mine) /\ c.req = r /\ c.at = a
  BY DEF Sound, Shape, Change
<1>2. IsSeq(t) /\ Places(t) = Places(work[w].mine) \cup {<<r, a>>}
  <2> HIDE DEF c
  <2>1. QED
    BY <1>1, AppendIsSeq, AppendPlaces
<1>3. r \in Req /\ prog[r] # <<>> /\ a \in Nat
  BY DEF Sound, Ready, Busy, Shape
<1>4. a \in Due(prog, r) => \A i \in Due(prog, r) : i < a => <<r, i>> \in Places(work[w].mine)
  BY <1>3 DEF Sound, Ready, Busy
<1>5. Complete(prog, Places(work[w].mine))
  BY DEF Sound
<1>6. Complete(prog, Places(work[w].mine) \cup {<<r, a>>})
  BY <1>3, <1>4, <1>5 DEF Complete
<1>7. QED
  BY <1>2, <1>6

\* Worker w goes on with a sound record, and a commit is complete.
Served(w) ==
  /\ \E y : Sound(prog, y) /\ work' = [work EXCEPT ![w] = y]
  /\ \/ log' = log
     \/ \E ch : Complete(prog, Places(ch)) /\ log' = Append(log, Entry(ch))

\* A worker whose transaction was rolled back.
LEMMA DroppedFields ==
  ASSUME NEW x, Shape(x)
  PROVE  LET y == [x EXCEPT !.mine = <<>>, !.snap = 0] IN
    /\ Shape(y) /\ y.at = x.at /\ y.req = x.req /\ y.link = x.link /\ y.mine = <<>>
  BY EmptyIsSeq DEF Shape, Fields

\* A worker that reads opens a snapshot, if it has none.
LEMMA OpenedFields ==
  ASSUME NEW w, Shape(work[w]), NEW s
  PROVE  LET y == Opened(w, s) IN
    /\ Shape(y) /\ y.at = work[w].at /\ y.req = work[w].req
    /\ y.link = work[w].link /\ y.mine = work[w].mine
  BY SnapFields DEF Opened

\* The worker keeps nothing but the link, the snapshot and what is pending.
LEMMA StoppedServed ==
  ASSUME NEW w \in Worker, NEW x, IsSeq(x.mine), Complete(prog, Places(x.mine)),
         work' = [work EXCEPT ![w] = Return(x)], log' = log
  PROVE  Served(w)
  BY WaitingSound DEF Served, Return

\* A handler that uses a bad pointer dies or answers; it commits nothing.
LEMMA StrayServed ==
  ASSUME NEW w \in Worker, NEW x, IsSeq(x.mine), Complete(prog, Places(x.mine)),
         Stray(w, x), log' = log
  PROVE  Served(w)
<1>1. CASE work' = [work EXCEPT ![w] = Born(Len(log))]
  BY <1>1, BornSound DEF Served
<1>2. CASE work' = [work EXCEPT ![w] = Return(x)]
  BY <1>2, StoppedServed
<1>3. QED
  BY <1>1, <1>2 DEF Stray

\* Whatever a handler does about an error.
LEMMA OnErrorServed ==
  ASSUME Programs, NEW w \in Worker, Sound(prog, work[w]), Busy(w),
         NEW x, Shape(x), Complete(prog, Places(x.mine)),
         x.req = work[w].req, x.at = work[w].at, x.link => work[w].link,
         x.mine = work[w].mine \/ Writes(Stmt(w)),
         OnError(w, Stmt(w), x)
  PROVE  Served(w)
<1>1. log' = log /\ IsSeq(x.mine)
  BY DEF OnError, Shape
<1>2. CASE work' = [work EXCEPT ![w] = Return(x)]
  BY <1>1, <1>2, StoppedServed
<1>3. CASE Stray(w, x)
  BY <1>1, <1>3, StrayServed
<1>4. CASE GoesOn(Stmt(w)) /\ work' = [work EXCEPT ![w] = Further(x)]
  <2> DEFINE y == Further(x)
  <2>1. /\ Shape(y) /\ y.at = work[w].at + 1
        /\ y.req = work[w].req /\ (y.link => work[w].link) /\ y.mine = x.mine
    BY FurtherFields
  <2>2. work[w].at \notin Due(prog, work[w].req)
    BY <1>4, InsistedHere DEF GoesOn
  <2>3. \/ Places(y.mine) = Places(work[w].mine)
        \/ \A j \in Due(prog, work[w].req) : ~(j >= work[w].at + 1)
    BY <2>1, <2>2, NothingBehind
  <2> HIDE DEF y
  <2>4. Sound(prog, y)
    BY <2>1, <2>2, <2>3, BehindSound
  <2>5. QED
    BY <1>1, <1>4, <2>4 DEF Served, y
<1>5. QED
  BY <1>2, <1>3, <1>4 DEF OnError

\* A query changes nothing that is pending.
LEMMA ReadServed ==
  ASSUME Programs, NEW w \in Worker, Sound(prog, work[w]), Busy(w), Read(w, Stmt(w))
  PROVE  Served(w)
<1> DEFINE s == Stmt(w)
           o == Opened(w, s)
           y == Further(o)
<1>1. /\ Shape(y) /\ y.at = work[w].at + 1 /\ y.req = work[w].req
      /\ y.link = work[w].link /\ y.mine = work[w].mine
  <2>1. Shape(work[w])
    BY DEF Sound
  <2>2. /\ Shape(o) /\ o.at = work[w].at /\ o.req = work[w].req
        /\ o.link = work[w].link /\ o.mine = work[w].mine
    BY <2>1, OpenedFields
  <2> HIDE DEF o
  <2>3. QED
    BY <2>2, FurtherFields
<1>2. work[w].at \notin Due(prog, work[w].req)
  <2>1. s.op \in {"select", "need", "needBy", "refs", "find", "malformed"}
    BY DEF Read, Reads
  <2>2. ~Writes(s) /\ s.op # "truncate"
    BY <2>1 DEF Writes
  <2>3. QED
    BY <2>2, InsistedHere
<1> HIDE DEF y
<1>3. \E z : /\ work' = [work EXCEPT ![w] = z]
             /\ \/ z = [y EXCEPT !.id = KeyFound(s, View(w))]
                \/ z = [y EXCEPT !.saw = @ \cup Touched(s, View(w))]
  BY DEF Read, y
<1>4. PICK z : /\ work' = [work EXCEPT ![w] = z]
               /\ \/ z = [y EXCEPT !.id = KeyFound(s, View(w))]
                  \/ z = [y EXCEPT !.saw = @ \cup Touched(s, View(w))]
  BY <1>3
<1>5. Shape(z) /\ z.at = y.at /\ z.req = y.req /\ z.link = y.link /\ z.mine = y.mine
  <2>1. CASE z = [y EXCEPT !.id = KeyFound(s, View(w))]
    <3> DEFINE n == KeyFound(s, View(w))
    <3>1. z = [y EXCEPT !.id = n]
      BY <2>1
    <3> HIDE DEF n
    <3>2. QED
      BY <1>1, <3>1, IdFields
  <2>2. CASE z = [y EXCEPT !.saw = @ \cup Touched(s, View(w))]
    <3> DEFINE n == y.saw \cup Touched(s, View(w))
    <3>1. z = [y EXCEPT !.saw = n]
      BY <2>2
    <3> HIDE DEF n
    <3>2. QED
      BY <1>1, <3>1, SawFields
  <2>3. QED
    BY <1>4, <2>1, <2>2
<1>6. Sound(prog, z)
  BY <1>1, <1>2, <1>5, BehindSound DEF Sound
<1>7. log' = log
  BY DEF Read
<1>8. QED
  BY <1>4, <1>6, <1>7 DEF Served

\* A change joins those before it.
LEMMA WriteServed ==
  ASSUME Programs, NEW w \in Worker, Sound(prog, work[w]), Busy(w), work[w].link,
         Write(w, Stmt(w))
  PROVE  Served(w)
<1> DEFINE t == Append(work[w].mine, Change(w, Stmt(w)))
           y == Further(work[w])
           z == [y EXCEPT !.mine = t]
<1>1. /\ IsSeq(t)
      /\ Places(t) = Places(work[w].mine) \cup {<<work[w].req, work[w].at>>}
      /\ Complete(prog, Places(t))
  BY ChangeComplete
<1>2. /\ Shape(y) /\ y.at = work[w].at + 1 /\ y.req = work[w].req
      /\ y.link = work[w].link /\ y.mine = work[w].mine
  BY FurtherFields DEF Sound
<1>3. log' = log
  BY DEF Write
<1>4. work' = [work EXCEPT ![w] = z]
  BY <1>2 DEF Write, Workers
<1> HIDE DEF t, y
<1>5. Shape(z) /\ z.at = y.at /\ z.req = y.req /\ z.link = y.link /\ z.mine = t
  BY <1>1, <1>2, MineFields
<1> HIDE DEF z
<1>6. Sound(prog, z)
  BY <1>1, <1>2, <1>5, BehindSound
<1>7. QED
  BY <1>3, <1>4, <1>6 DEF Served

\* A commit of ch, which leaves nothing pending.
LEMMA CommitServed ==
  ASSUME Programs, NEW w \in Worker, Sound(prog, work[w]), Busy(w),
         Stmt(w).op \in {"commit", "truncate"},
         NEW ch, Complete(prog, Places(ch)), log' = Logged(ch),
         work' = [work EXCEPT ![w] = [Further(work[w]) EXCEPT !.mine = <<>>, !.snap = 0]]
  PROVE  Served(w)
<1> DEFINE y == Further(work[w])
           z == [y EXCEPT !.mine = <<>>, !.snap = 0]
<1>1. /\ Shape(y) /\ y.at = work[w].at + 1 /\ y.req = work[w].req /\ y.link = work[w].link
  BY FurtherFields DEF Sound
<1> HIDE DEF y
<1>2. Shape(z) /\ z.at = y.at /\ z.req = y.req /\ z.link = y.link /\ z.mine = <<>>
  BY <1>1, DroppedFields
<1>3. work' = [work EXCEPT ![w] = z]
  BY DEF y
<1> HIDE DEF z
<1>4. \A j \in Due(prog, work[w].req) : ~(j >= work[w].at + 1)
  BY NothingBehind
<1>5. Complete(prog, Places(z.mine))
  BY <1>2, EmptyIsSeq DEF Complete
<1>6. Sound(prog, z)
  BY <1>1, <1>2, <1>4, <1>5, BehindSound
<1>7. QED
  BY <1>3, <1>6 DEF Served, Logged

\* Every kind of statement.
LEMMA ExecuteServed ==
  ASSUME Programs, NEW w \in Worker, Sound(prog, work[w]), Busy(w), Execute(w, Stmt(w))
  PROVE  Served(w)
<1> DEFINE s == Stmt(w)
<1>1. work[w].link /\ Shape(work[w]) /\ Complete(prog, Places(work[w].mine))
  BY DEF Execute, Sound
<1>2. CASE OnError(w, s, Opened(w, s))
  <2>1. /\ Shape(Opened(w, s)) /\ Opened(w, s).at = work[w].at /\ Opened(w, s).req = work[w].req
        /\ Opened(w, s).link = work[w].link /\ Opened(w, s).mine = work[w].mine
    BY <1>1, OpenedFields
  <2>2. QED
    BY <1>1, <1>2, <2>1, OnErrorServed
<1>3. CASE Read(w, s)
  BY <1>3, ReadServed
<1>4. CASE Write(w, s)
  BY <1>1, <1>4, WriteServed
<1>5. CASE TruncateTable(w, s)
  <2> DEFINE ch == Append(work[w].mine, Change(w, s))
  <2>1. Complete(prog, Places(ch))
    BY <1>1, ChangeComplete
  <2>2. log' = Logged(ch) /\ s.op = "truncate"
        /\ work' = [work EXCEPT ![w] = [Further(work[w]) EXCEPT !.mine = <<>>, !.snap = 0]]
    BY <1>5 DEF TruncateTable
  <2> HIDE DEF ch
  <2>3. QED
    BY <2>1, <2>2, CommitServed
<1>6. QED
  BY <1>2, <1>3, <1>4, <1>5 DEF Execute

\* A statement, on a connection that is alive or not.
LEMMA StepServed ==
  ASSUME Programs, NEW w \in Worker, Sound(prog, work[w]), Step(w)
  PROVE  Served(w)
<1> DEFINE s == Stmt(w)
<1>1. Busy(w) /\ Shape(work[w]) /\ IsSeq(work[w].mine) /\ Complete(prog, Places(work[w].mine))
  BY DEF Step, Sound, Shape
<1>2. CASE Reply1(w, s)
  BY <1>1, <1>2, StoppedServed DEF Reply1
<1>3. CASE StaySilent(w, s)
  BY <1>1, <1>3, StoppedServed DEF StaySilent
<1>4. CASE GoStray(w, s)
  BY <1>1, <1>4, StrayServed DEF GoStray
<1>5. CASE OnError(w, s, work[w])
  BY <1>1, <1>5, OnErrorServed
<1>6. CASE Execute(w, s)
  BY <1>1, <1>6, ExecuteServed
<1>7. CASE Commit1(w, s)
  <2>1. s.op = "commit" /\ log' = Logged(work[w].mine)
        /\ work' = [work EXCEPT ![w] = [Further(work[w]) EXCEPT !.mine = <<>>, !.snap = 0]]
    BY <1>7 DEF Commit1
  <2>2. QED
    BY <1>1, <2>1, CommitServed
<1>8. QED
  BY <1>2, <1>3, <1>4, <1>5, <1>6, <1>7 DEF Step, Unsent, LockTimeout

----------------------------------------------------------------------------
(* Failures *)

LEMMA DroppedSound ==
  ASSUME Programs, NEW w \in Worker, Sound(prog, work[w])
  PROVE  /\ Shape(Dropped(w)) /\ Dropped(w).at = work[w].at /\ Dropped(w).req = work[w].req
         /\ Dropped(w).link = work[w].link /\ Dropped(w).mine = <<>>
         /\ Complete(prog, Places(Dropped(w).mine))
<1>1. /\ Shape(Dropped(w)) /\ Dropped(w).at = work[w].at /\ Dropped(w).req = work[w].req
      /\ Dropped(w).link = work[w].link /\ Dropped(w).mine = <<>>
  BY DroppedFields DEF Dropped, Sound
<1>2. QED
  BY <1>1, EmptyIsSeq DEF Complete

\* A broken connection drops all that is pending, and calls fail from then on.
LEMMA LinkLostServed ==
  ASSUME Programs, NEW w \in Worker, Sound(prog, work[w]), LinkLost(w)
  PROVE  Served(w)
<1> DEFINE d == Dropped(w)
           y == [d EXCEPT !.link = FALSE]
<1>1. /\ Shape(d) /\ d.at = work[w].at /\ d.req = work[w].req
      /\ Complete(prog, Places(d.mine))
  BY DroppedSound
<1>2. work' = [work EXCEPT ![w] = y] /\ log' = log
  BY DEF LinkLost
<1> HIDE DEF d
<1>3. Shape(y) /\ y.at = d.at /\ y.req = d.req /\ y.link = FALSE /\ y.mine = d.mine
  BY <1>1, LinkFields
<1> HIDE DEF y
<1>4. Sound(prog, y)
  BY <1>1, <1>3 DEF Sound, Ready
<1>5. QED
  BY <1>2, <1>4 DEF Served

\* So every failure.
LEMMA FailureServed ==
  ASSUME Programs, NEW w \in Worker, Sound(prog, work[w]),
         LinkLost(w) \/ Victim(w) \/ StatementFails(w) \/ Dies(w)
  PROVE  Served(w)
<1>1. Shape(work[w]) /\ Complete(prog, Places(work[w].mine))
  BY DEF Sound
<1>2. CASE LinkLost(w)
  BY <1>2, LinkLostServed
<1>3. CASE Victim(w)
  <2>1. Busy(w) /\ Writes(Stmt(w)) /\ OnError(w, Stmt(w), Dropped(w))
    BY <1>3 DEF Victim
  <2>2. QED
    BY <2>1, DroppedSound, OnErrorServed
<1>4. CASE StatementFails(w)
  <2> DEFINE x == Opened(w, Stmt(w))
  <2>1. Busy(w) /\ OnError(w, Stmt(w), x)
    BY <1>4 DEF StatementFails
  <2>2. /\ Shape(x) /\ x.at = work[w].at /\ x.req = work[w].req
        /\ x.link = work[w].link /\ x.mine = work[w].mine
    BY <1>1, OpenedFields
  <2> HIDE DEF x
  <2>3. QED
    BY <1>1, <2>1, <2>2, OnErrorServed
<1>5. CASE Dies(w)
  BY <1>5, BornSound DEF Dies, Served
<1>6. QED
  BY <1>2, <1>3, <1>4, <1>5

----------------------------------------------------------------------------
(* The invariant *)

LEMMA ServedStep ==
  ASSUME IInv, NEW w \in Worker, Served(w), prog' = prog, Queued'
  PROVE  IInv'
<1>1. PICK y : Sound(prog, y) /\ work' = [work EXCEPT ![w] = y]
  BY DEF Served
<1>2. Workers'
  <2>1. DOMAIN work' = Worker
    BY <1>1 DEF IInv, Workers
  <2>2. \A v \in Worker : work'[v] = y \/ work'[v] = work[v]
    BY <1>1 DEF IInv, Workers
  <2>3. \A v \in Worker : Sound(prog, work'[v])
    BY <1>1, <2>2 DEF IInv, Workers
  <2>4. QED
    BY <2>1, <2>3 DEF Workers
<1>3. CASE log' = log
  <2>1. History'
    BY <1>3 DEF IInv, History
  <2>2. QED
    BY <1>2, <2>1 DEF IInv, Programs
<1>4. CASE \E ch : Complete(prog, Places(ch)) /\ log' = Append(log, Entry(ch))
  <2>1. PICK ch : Complete(prog, Places(ch)) /\ log' = Append(log, Entry(ch))
    BY <1>4
  <2> DEFINE e == Entry(ch)
  <2>2. e.by = Places(ch)
    BY DEF Entry
  <2>3. IsSeq(log) /\ log' = Append(log, e)
    BY <2>1 DEF IInv, History
  <2> HIDE DEF e
  <2>4. /\ IsSeq(log')
        /\ DOMAIN log = 1..Len(log) /\ Len(log) \in Nat
        /\ DOMAIN log' = 1..(Len(log) + 1)
        /\ \A i \in 1..Len(log) : log'[i] = log[i]
        /\ log'[Len(log) + 1] = e
    BY <2>3, AppendIsSeq
  <2>5. \A k \in DOMAIN log : Complete(prog, log[k].by)
    BY DEF IInv, History
  <2>6. \A k \in DOMAIN log' : k \in DOMAIN log \/ k = Len(log) + 1
    BY <2>4
  <2>7. \A k \in DOMAIN log' : Complete(prog, log'[k].by)
    BY <2>1, <2>2, <2>4, <2>5, <2>6
  <2>8. History'
    BY <2>4, <2>7 DEF History
  <2>9. QED
    BY <1>2, <2>8 DEF IInv, Programs
<1>5. QED
  BY <1>3, <1>4 DEF Served

\* A worker takes a request and connects when it must.
LEMMA TakeStep ==
  ASSUME IInv, NEW w \in Worker, Take(w)
  PROVE  IInv'
<1> DEFINE r == Head(inbox)
           y == [work[w] EXCEPT !.req = r, !.at = 1, !.link = TRUE]
<1>1. inbox \in Seq(Req) /\ inbox # <<>> /\ inbox' = Tail(inbox) /\ prog' = prog /\ log' = log
  BY DEF IInv, Queued, Take
<1>2. r \in Req /\ prog[r] # <<>> /\ Queued'
  <2>1. r = inbox[1] /\ 1 \in DOMAIN inbox /\ r \in Req
    BY <1>1
  <2>2. Tail(inbox) \in Seq(Req)
        /\ \A k \in DOMAIN Tail(inbox) : k + 1 \in DOMAIN inbox /\ Tail(inbox)[k] = inbox[k + 1]
    BY <1>1
  <2>3. QED
    BY <1>1, <2>1, <2>2 DEF IInv, Queued
<1>3. DOMAIN work = Worker /\ Sound(prog, work[w])
  BY DEF IInv, Workers
<1>4. work' = [work EXCEPT ![w] = y]
  BY <1>3 DEF Take
<1>5. Shape(y) /\ y.at = 1 /\ y.req = r /\ y.mine = work[w].mine
  <2> HIDE DEF r
  <2>1. QED
    BY <1>3 DEF Sound, Shape, Fields
<1> HIDE DEF r, y
<1>6. Due(prog, r) \subseteq Nat \ {0}
  BY <1>2 DEF IInv, Programs, Due
<1>7. Sound(prog, y)
  BY <1>2, <1>3, <1>5, <1>6 DEF Sound, Ready
<1>8. Served(w)
  BY <1>1, <1>4, <1>7 DEF Served
<1>9. QED
  BY <1>1, <1>2, <1>8, ServedStep

\* What holds of the requests that have arrived holds on when another does.
LEMMA ArriveKeeps ==
  ASSUME Programs, NEW r \in Req, prog[r] = <<>>, NEW p, NEW q, q = [prog EXCEPT ![r] = p]
  PROVE  /\ \A P : Complete(prog, P) => Complete(q, P)
         /\ \A x : Sound(prog, x) => Sound(q, x)
<1>1. \A v \in Req : prog[v] # <<>> => q[v] = prog[v]
  BY DEF Programs
<1>2. \A v \in Req : prog[v] # <<>> => Due(q, v) = Due(prog, v)
  BY <1>1 DEF Due
<1>3. \A P : Complete(prog, P) => Complete(q, P)
  BY <1>1, <1>2 DEF Complete
<1>4. \A x : Ready(prog, x) => Ready(q, x)
  BY <1>1, <1>2 DEF Ready
<1>5. QED
  BY <1>3, <1>4 DEF Sound

\* A program that arrives is orderly.
LEMMA ArriveStep ==
  ASSUME IInv, NEW r \in Req, Arrive(r)
  PROVE  IInv'
<1>1. PICK p \in Asks[r] : prog' = [prog EXCEPT ![r] = p]
  BY DEF Arrive
<1>2. prog[r] = <<>> /\ inbox' = Append(inbox, r) /\ work' = work /\ log' = log
  BY DEF Arrive
<1>3. p \in Seq(Statements) /\ p # <<>> /\ Orderly(p)
  BY AsksAssumption
<1>4. Programs'
  BY <1>1, <1>3 DEF IInv, Programs
<1>5. /\ \A P : Complete(prog, P) => Complete(prog', P)
      /\ \A x : Sound(prog, x) => Sound(prog', x)
  BY <1>1, <1>2, ArriveKeeps DEF IInv
<1>6. Workers' /\ History'
  BY <1>2, <1>5 DEF IInv, Workers, History
<1>7. Queued'
  <2>1. \A v \in Req : prog[v] # <<>> \/ v = r => prog'[v] # <<>>
    BY <1>1, <1>3 DEF IInv, Programs
  <2>2. inbox \in Seq(Req) /\ \A k \in DOMAIN inbox : prog[inbox[k]] # <<>>
    BY DEF IInv, Queued
  <2>3. inbox' \in Seq(Req)
        /\ \A k \in DOMAIN inbox' : inbox'[k] = r \/ (k \in DOMAIN inbox /\ inbox'[k] = inbox[k])
    BY <1>2, <2>2
  <2>4. \A k \in DOMAIN inbox' : inbox'[k] \in Req /\ prog'[inbox'[k]] # <<>>
    BY <2>1, <2>2, <2>3
  <2>5. QED
    BY <2>3, <2>4 DEF Queued
<1>8. QED
  BY <1>4, <1>6, <1>7 DEF IInv

\* IInv holds at the start.
LEMMA InitIInv == Init => IInv
<1> SUFFICES ASSUME Init PROVE IInv
  OBVIOUS
<1>1. Programs /\ Queued
  BY DEF Init, Programs, Queued, Orderly
<1>2. Workers
  BY BornSound DEF Init, Workers
<1>3. History
  <2> DEFINE e == [by |-> {}, rows |-> InitRows]
  <2>1. <<e>> \in Seq({e}) /\ DOMAIN <<e>> = {1}
    OBVIOUS
  <2>2. Complete(prog, {})
    BY DEF Complete
  <2>3. log = <<e>> /\ e.by = {}
    BY DEF Init
  <2> HIDE DEF e
  <2>4. IsSeq(log)
    BY <2>1, <2>3 DEF IsSeq
  <2>5. \A k \in DOMAIN log : log[k] = e
    BY <2>1, <2>3
  <2>6. QED
    BY <2>2, <2>3, <2>4, <2>5 DEF History
<1>4. QED
  BY <1>1, <1>2, <1>3 DEF IInv

\* Every step keeps IInv.
LEMMA NextIInv == IInv /\ [Next]_vars => IInv'
<1> SUFFICES ASSUME IInv, [Next]_vars PROVE IInv'
  OBVIOUS
<1>1. ASSUME NEW r \in Req, Arrive(r) PROVE IInv'
  BY <1>1, ArriveStep
<1>2. ASSUME NEW w \in Worker, Take(w) PROVE IInv'
  BY <1>2, TakeStep
<1>3. ASSUME NEW w \in Worker,
             Step(w) \/ LinkLost(w) \/ Victim(w) \/ StatementFails(w) \/ Dies(w)
      PROVE  IInv'
  <2>1. prog' = prog /\ inbox' = inbox
    BY <1>3 DEF Step, LinkLost, Victim, StatementFails, Dies
  <2>2. Programs /\ Sound(prog, work[w])
    BY DEF IInv, Workers
  <2>3. Served(w)
    BY <1>3, <2>2, StepServed, FailureServed
  <2>4. Queued'
    BY <2>1 DEF IInv, Queued
  <2>5. QED
    BY <2>1, <2>3, <2>4, ServedStep
<1>4. CASE UNCHANGED vars
  BY <1>4 DEF vars, IInv, Programs, Queued, Workers, History
<1>5. QED
  BY <1>1, <1>2, <1>3, <1>4 DEF Next, Serve

\* For any workers, requests and orderly programs, with lock waits, deadlocks,
\* broken links and deaths at any step: no change a handler insisted on is
\* committed without those before it.
THEOREM PrefixIsCommitted == Spec => []PrefixCommitted
<1>1. IInv => PrefixCommitted
  BY DEF IInv, History, Complete, PrefixCommitted, Needed, Due
<1>2. Spec => []IInv
  BY InitIInv, NextIInv, PTL DEF Spec
<1>3. QED
  BY <1>1, <1>2, PTL

----------------------------------------------------------------------------
(* The invariant behind a reply 200 *)

\* All changes that are committed.
Kept(l) == UNION {l[k].by : k \in DOMAIN l}

\* A worker's record x has a pending change of request r.
Has(x, r) == \E c \in Places(x.mine) : c[1] = r

Unserved(r) == prog[r] = <<>> \/ \E k \in DOMAIN inbox : inbox[k] = r

Lined == \A i, j \in DOMAIN inbox : inbox[i] = inbox[j] => i = j

Untouched ==
  \A r \in Req : Unserved(r) =>
    /\ answer[r].code # 200
    /\ \A w \in Worker : work[w].req # r /\ ~Has(work[w], r)

Owned ==
  \A v, w \in Worker : Busy(v) /\ v # w =>
    work[w].req # work[v].req /\ ~Has(work[w], work[v].req)

Unanswered ==
  /\ DOMAIN answer = Req
  /\ \A w \in Worker : Busy(w) => answer[work[w].req].code # 200

Placed(q, x) == x.req # None => x.at \in DOMAIN q[x.req]

\* K are the changes committed, H the requests that lost their transaction.
\* What is pending of the request has no commit behind it yet.
Going(q, K, H, x) ==
  x.req # None /\ x.req \notin H =>
    /\ x.link
    /\ \A i \in Due(q, x.req) : i < x.at => <<x.req, i>> \in Places(x.mine) \cup K
    /\ \A c \in Places(x.mine) : c[1] = x.req =>
         /\ c[2] \in DOMAIN q[x.req] /\ c[2] < x.at /\ Writes(q[x.req][c[2]])
         /\ \A k \in DOMAIN q[x.req] : c[2] < k /\ k < x.at => q[x.req][k].op # "commit"

Disciplined == \A r \in Req : prog[r] # <<>> => Settled(prog[r])
Working == \A w \in Worker : Going(prog, Kept(log), hurt, work[w]) /\ Placed(prog, work[w])
Acked ==
  \A r \in Req \ hurt : answer[r].code = 200 =>
    /\ \A i \in Due(prog, r) : <<r, i>> \in Kept(log)
    /\ \A w \in Worker : ~Has(work[w], r)

AInv == Disciplined /\ Lined /\ Untouched /\ Owned /\ Unanswered /\ Working /\ Acked

\* What a step of worker w does, which leaves it with record y.
Acts(w, y) ==
  /\ work' = [work EXCEPT ![w] = y]
  /\ prog' = prog /\ inbox' = inbox /\ hurt \subseteq hurt'
  /\ y.req \in {None, work[w].req}
  /\ \A c \in Places(y.mine) : c \in Places(work[w].mine) \/ (Busy(w) /\ c[1] = work[w].req)
  /\ Kept(log) \subseteq Kept(log')
  /\ \/ answer' = answer
     \/ /\ Busy(w) /\ y.req = None
        /\ \E a : /\ answer' = [answer EXCEPT ![work[w].req] = a]
                  /\ a.code = 200 /\ work[w].req \notin hurt' =>
                       /\ \A i \in Due(prog, work[w].req) : <<work[w].req, i>> \in Kept(log')
                       /\ ~Has(y, work[w].req)
  /\ Going(prog, Kept(log'), hurt', y) /\ Placed(prog, y)

----------------------------------------------------------------------------
(* What every step of a worker keeps *)

\* More commits and more losses change nothing for the others.
LEMMA GoingOn ==
  ASSUME NEW q, NEW x, NEW K, NEW L, NEW H, NEW J, K \subseteq L, H \subseteq J,
         Going(q, K, H, x)
  PROVE  Going(q, L, J, x)
  BY DEF Going

\* A worker that acts within its own request keeps AInv.
LEMMA ActsKeeps ==
  ASSUME IInv, AInv, NEW w \in Worker, NEW y, Acts(w, y)
  PROVE  AInv'
<1>1. /\ work' = [work EXCEPT ![w] = y]
      /\ prog' = prog /\ inbox' = inbox /\ hurt \subseteq hurt'
      /\ y.req \in {None, work[w].req}
      /\ Kept(log) \subseteq Kept(log')
      /\ Going(prog, Kept(log'), hurt', y) /\ Placed(prog, y)
  BY DEF Acts
<1>2. /\ DOMAIN work = Worker /\ DOMAIN work' = Worker /\ work'[w] = y
      /\ \A v \in Worker \ {w} : work'[v] = work[v]
  BY <1>1 DEF IInv, Workers
<1>3. \A r \in Req : Has(y, r) => Has(work[w], r) \/ (Busy(w) /\ r = work[w].req)
  BY DEF Acts, Has
<1>4. Busy(w) => work[w].req \in Req /\ prog[work[w].req] # <<>>
  BY DEF IInv, Workers, Sound, Ready, Busy
<1>5. /\ DOMAIN answer' = Req
      /\ \A r \in Req : answer'[r] = answer[r] \/ (Busy(w) /\ r = work[w].req)
  BY <1>4 DEF Acts, AInv, Unanswered
<1>6. \A r \in Req : Unserved(r) => ~(Busy(w) /\ r = work[w].req)
  BY DEF AInv, Untouched
<1>7. None \notin Req
  BY SwitchAssumption
<1>8. Disciplined' /\ Lined'
  BY <1>1 DEF AInv, Disciplined, Lined
<1>9. Untouched'
  <2>1. \A r \in Req : Unserved(r)' => Unserved(r)
    BY <1>1 DEF Unserved
  <2>2. ASSUME NEW r \in Req, Unserved(r) PROVE answer'[r].code # 200
    BY <1>5, <1>6, <2>2 DEF AInv, Untouched
  <2>3. ASSUME NEW r \in Req, Unserved(r), NEW v \in Worker
        PROVE  work'[v].req # r /\ ~Has(work'[v], r)
    <3>1. work[v].req # r /\ ~Has(work[v], r)
      BY <2>3 DEF AInv, Untouched
    <3>2. CASE v = w
      BY <1>1, <1>2, <1>3, <1>6, <1>7, <2>3, <3>1, <3>2
    <3>3. CASE v # w
      BY <1>2, <3>1, <3>3
    <3>4. QED
      BY <3>2, <3>3
  <2>4. QED
    BY <2>1, <2>2, <2>3 DEF Untouched
<1>10. Owned'
  <2>1. ASSUME NEW u \in Worker, NEW v \in Worker, work'[u].req # None, u # v
        PROVE  work'[v].req # work'[u].req /\ ~Has(work'[v], work'[u].req)
    <3>1. work[u].req # None /\ work'[u].req = work[u].req
      BY <1>1, <1>2, <2>1
    <3>2. work[u].req \in Req
      BY <3>1 DEF IInv, Workers, Sound, Ready
    <3>3. work[v].req # work[u].req /\ ~Has(work[v], work[u].req)
      BY <2>1, <3>1 DEF AInv, Owned, Busy
    <3>4. CASE v = w
      <4>1. y.req # work[u].req
        BY <1>1, <3>1, <3>3, <3>4
      <4>2. ~Has(y, work[u].req)
        BY <1>3, <3>2, <3>3, <3>4
      <4>3. QED
        BY <1>2, <3>1, <3>4, <4>1, <4>2
    <3>5. CASE v # w
      BY <1>2, <3>1, <3>3, <3>5
    <3>6. QED
      BY <3>4, <3>5
  <2>2. QED
    BY <2>1 DEF Owned, Busy
<1>11. Unanswered'
  <2>1. ASSUME NEW v \in Worker, work'[v].req # None
        PROVE  answer'[work'[v].req].code # 200
    <3>1. work[v].req # None /\ work'[v].req = work[v].req
      BY <1>1, <1>2, <2>1
    <3>2. work[v].req \in Req /\ answer[work[v].req].code # 200
      BY <3>1 DEF IInv, Workers, Sound, Ready, AInv, Unanswered, Busy
    <3>3. CASE v = w
      <4>1. y.req # None
        BY <1>2, <2>1, <3>3
      <4>2. answer' = answer
        BY <4>1 DEF Acts
      <4>3. QED
        BY <3>1, <3>2, <4>2
    <3>4. CASE v # w
      <4>1. ~(Busy(w) /\ work[v].req = work[w].req)
        BY <3>1, <3>4 DEF AInv, Owned, Busy
      <4>2. QED
        BY <1>5, <3>1, <3>2, <4>1
    <3>5. QED
      BY <3>3, <3>4
  <2>2. QED
    BY <1>5, <2>1 DEF Unanswered, Busy
<1>12. Working'
  <2>1. ASSUME NEW v \in Worker
        PROVE  Going(prog, Kept(log'), hurt', work'[v]) /\ Placed(prog, work'[v])
    <3>1. CASE v = w
      BY <1>1, <1>2, <3>1
    <3>2. CASE v # w
      <4>1. Going(prog, Kept(log), hurt, work[v]) /\ Placed(prog, work[v])
        BY DEF AInv, Working
      <4>2. Going(prog, Kept(log'), hurt', work[v])
        BY <1>1, <4>1, GoingOn
      <4>3. QED
        BY <1>2, <3>2, <4>1, <4>2
    <3>3. QED
      BY <3>1, <3>2
  <2>2. QED
    BY <1>1, <2>1 DEF Working
<1>13. Acked'
  <2>1. ASSUME NEW r \in Req, r \notin hurt', answer'[r].code = 200
        PROVE  /\ \A i \in Due(prog, r) : <<r, i>> \in Kept(log')
               /\ \A v \in Worker : ~Has(work'[v], r)
    <3>1. CASE Busy(w) /\ r = work[w].req
      <4>1. answer[r].code # 200
        BY <3>1 DEF AInv, Unanswered
      <4>2. PICK a : /\ answer' = [answer EXCEPT ![work[w].req] = a]
                     /\ a.code = 200 /\ work[w].req \notin hurt' =>
                          /\ \A i \in Due(prog, work[w].req) : <<work[w].req, i>> \in Kept(log')
                          /\ ~Has(y, work[w].req)
        BY <2>1, <4>1 DEF Acts
      <4>3. answer'[r] = a
        BY <3>1, <4>2 DEF AInv, Unanswered
      <4>4. (\A i \in Due(prog, r) : <<r, i>> \in Kept(log')) /\ ~Has(y, r)
        BY <2>1, <3>1, <4>2, <4>3
      <4>5. \A v \in Worker \ {w} : ~Has(work[v], r)
        BY <3>1 DEF AInv, Owned
      <4>6. QED
        BY <1>2, <4>4, <4>5
    <3>2. CASE ~(Busy(w) /\ r = work[w].req)
      <4>1. answer[r].code = 200 /\ r \notin hurt
        BY <1>1, <1>5, <2>1, <3>2
      <4>2. /\ \A i \in Due(prog, r) : <<r, i>> \in Kept(log)
            /\ \A v \in Worker : ~Has(work[v], r)
        BY <4>1 DEF AInv, Acked
      <4>3. ~Has(y, r)
        BY <1>3, <3>2, <4>2
      <4>4. QED
        BY <1>1, <1>2, <4>2, <4>3
    <3>3. QED
      BY <3>1, <3>2
  <2>2. QED
    BY <1>1, <2>1 DEF Acked
<1>14. QED
  BY <1>8, <1>9, <1>10, <1>11, <1>12, <1>13 DEF AInv

----------------------------------------------------------------------------
(* The statement a worker is at *)

LEMMA LoggedKeeps ==
  ASSUME IsSeq(log), NEW ch, log' = Logged(ch)
  PROVE  Kept(log) \subseteq Kept(log') /\ Places(ch) \subseteq Kept(log')
<1>1. CASE ch = <<>>
  BY <1>1, EmptyIsSeq DEF Logged
<1>2. CASE ch # <<>>
  <2> DEFINE e == Entry(ch)
  <2>1. e.by = Places(ch) /\ log' = Append(log, e)
    BY <1>2 DEF Entry, Logged
  <2> HIDE DEF e
  <2>2. /\ DOMAIN log = 1..Len(log) /\ Len(log) \in Nat
        /\ DOMAIN log' = 1..(Len(log) + 1)
        /\ \A i \in 1..Len(log) : log'[i] = log[i]
        /\ log'[Len(log) + 1] = e
    BY <2>1, AppendIsSeq
  <2>3. Kept(log) \subseteq Kept(log')
    BY <2>2 DEF Kept
  <2>4. Len(log) + 1 \in DOMAIN log'
    BY <2>2
  <2>5. Places(ch) \subseteq Kept(log')
    BY <2>1, <2>2, <2>4 DEF Kept
  <2>6. QED
    BY <2>3, <2>5
<1>3. QED
  BY <1>1, <1>2

\* A worker is at a statement of a settled program.
LEMMA Here ==
  ASSUME IInv, AInv, NEW w \in Worker, Busy(w)
  PROVE  /\ work[w].req \in Req /\ work[w].at \in Nat /\ Shape(work[w])
         /\ prog[work[w].req] \in Seq(Statements) /\ Settled(prog[work[w].req])
         /\ work[w].at \in DOMAIN prog[work[w].req]
         /\ Stmt(w).op = prog[work[w].req][work[w].at].op
         /\ Stmt(w).onerr = prog[work[w].req][work[w].at].onerr
         /\ Stmt(w).op = "reply" =>
              /\ Stmt(w).a = prog[work[w].req][work[w].at].a
              /\ Stmt(w).a \in {200, 401, 500}
<1> DEFINE s == prog[work[w].req][work[w].at]
<1>1. Programs /\ Sound(prog, work[w]) /\ Shape(work[w])
  BY DEF IInv, Workers, Sound
<1>2. work[w].req \in Req /\ prog[work[w].req] # <<>> /\ work[w].at \in Nat
  BY <1>1 DEF Sound, Ready, Busy, Shape
<1>3. prog[work[w].req] \in Seq(Statements) /\ Settled(prog[work[w].req])
  BY <1>1, <1>2 DEF Programs, AInv, Disciplined
<1>4. work[w].at \in DOMAIN prog[work[w].req]
  BY DEF AInv, Working, Placed, Busy
<1>5. Stmt(w).op = s.op /\ Stmt(w).onerr = s.onerr
  BY <1>1, <1>4, StmtOfProgram
<1>6. s \in Statements
  BY <1>3, <1>4
<1>7. Stmt(w).op = "reply" => Stmt(w).a = s.a /\ Stmt(w).a \in {200, 401, 500}
  <2>1. s.op = "reply" => s.a \in {200, 401, 500}
    BY <1>3, <1>4 DEF Settled
  <2>2. s.a # Found => Stmt(w).a = s.a
    BY DEF Stmt, Bound
  <2>3. QED
    BY <1>5, <2>1, <2>2 DEF Found
<1>8. QED
  BY <1>1, <1>2, <1>3, <1>4, <1>5, <1>7

\* A program does not end with a statement that has one behind it.
LEMMA NotLast ==
  ASSUME NEW p \in Seq(Statements), Settled(p), NEW i \in DOMAIN p,
         p[i].op \notin {"reply", "silent", "undefined"}
  PROVE  i + 1 \in DOMAIN p
<1>1. DOMAIN p = 1..Len(p) /\ Len(p) \in Nat
  OBVIOUS
<1>2. i # Len(p)
  BY DEF Settled
<1>3. QED
  BY <1>1, <1>2

\* The worker goes on behind its statement.  J are the requests that lost their
\* transaction, L what is committed; if this one is not among the former,
\* nothing it had pending is gone but by a commit.
LEMMA GoingAhead ==
  ASSUME IInv, AInv, NEW w \in Worker, Busy(w),
         Stmt(w).op \notin {"reply", "silent", "undefined"},
         NEW y, y.req = work[w].req, y.at = work[w].at + 1, y.link = work[w].link,
         NEW L, Kept(log) \subseteq L, NEW J, hurt \subseteq J,
         work[w].req \notin J =>
           /\ \A c \in Places(work[w].mine) : c \in Places(y.mine) \cup L
           /\ \A c \in Places(y.mine) :
                \/ c \in Places(work[w].mine) /\ Stmt(w).op # "commit"
                \/ c = <<work[w].req, work[w].at>> /\ Writes(Stmt(w))
           /\ work[w].at \in Due(prog, work[w].req) =>
                <<work[w].req, work[w].at>> \in Places(y.mine) \cup L
  PROVE  Going(prog, L, J, y) /\ Placed(prog, y)
<1> DEFINE r == work[w].req
           a == work[w].at
           p == prog[r]
<1>1. /\ r \in Req /\ a \in Nat /\ p \in Seq(Statements) /\ Settled(p) /\ a \in DOMAIN p
      /\ Stmt(w).op = p[a].op
  BY Here
<1>2. DOMAIN p \subseteq Nat
  BY <1>1
<1>3. Placed(prog, y)
  BY <1>1, NotLast DEF Placed
<1>9. a \in Nat
  BY <1>1
<1>4. ASSUME r \notin J PROVE Going(prog, L, J, y)
  <2>1. /\ work[w].link
        /\ \A i \in Due(prog, r) : i < a => <<r, i>> \in Places(work[w].mine) \cup Kept(log)
        /\ \A c \in Places(work[w].mine) : c[1] = r =>
             /\ c[2] \in DOMAIN p /\ c[2] < a /\ Writes(p[c[2]])
             /\ \A k \in DOMAIN p : c[2] < k /\ k < a => p[k].op # "commit"
    BY <1>4 DEF AInv, Working, Going, Busy
  <2>2. ASSUME NEW i \in Due(prog, r), i < a + 1 PROVE <<r, i>> \in Places(y.mine) \cup L
    <3>1. i \in Nat
      BY <1>2 DEF Due
    <3>2. CASE i = a
      BY <1>4, <3>2
    <3>3. CASE i < a
      BY <1>4, <2>1, <3>3
    <3>4. QED
      BY <1>1, <2>2, <3>1, <3>2, <3>3
  <2>3. ASSUME NEW c \in Places(y.mine), c[1] = r
        PROVE  /\ c[2] \in DOMAIN p /\ c[2] < a + 1 /\ Writes(p[c[2]])
               /\ \A k \in DOMAIN p : c[2] < k /\ k < a + 1 => p[k].op # "commit"
    <3>1. CASE c \in Places(work[w].mine) /\ Stmt(w).op # "commit"
      <4>1. /\ c[2] \in DOMAIN p /\ c[2] < a /\ Writes(p[c[2]])
            /\ \A k \in DOMAIN p : c[2] < k /\ k < a => p[k].op # "commit"
        BY <2>1, <2>3, <3>1
      <4>2. \A k \in DOMAIN p : k < a + 1 => k < a \/ k = a
        BY <1>2, <1>9
      <4>3. c[2] < a + 1
        <5>1. \A k \in Nat : k < a => k < a + 1
          BY <1>9
        <5>2. QED
          BY <1>2, <4>1, <5>1
      <4>4. QED
        BY <1>1, <3>1, <4>1, <4>2, <4>3
    <3>2. CASE c = <<r, a>> /\ Writes(Stmt(w))
      <4>1. c[2] = a /\ Writes(p[a])
        BY <1>1, <3>2 DEF Writes
      <4>2. (\A k \in DOMAIN p : ~(a < k /\ k < a + 1)) /\ a < a + 1
        BY <1>2, <1>9
      <4>3. QED
        BY <1>1, <4>1, <4>2
    <3>3. QED
      BY <1>4, <2>3, <3>1, <3>2
  <2>4. QED
    BY <2>1, <2>2, <2>3 DEF Going
<1>5. QED
  BY <1>3, <1>4 DEF Going

----------------------------------------------------------------------------
(* The steps of a worker *)

\* Whoever reports success has nothing left to commit.
LEMMA SuccessIsWhole ==
  ASSUME IInv, AInv, NEW w \in Worker, Busy(w), work[w].req \notin hurt,
         Succeeds(prog[work[w].req][work[w].at])
  PROVE  /\ \A i \in Due(prog, work[w].req) : <<work[w].req, i>> \in Kept(log)
         /\ ~Has(work[w], work[w].req)
<1> DEFINE r == work[w].req
           a == work[w].at
           p == prog[r]
<1>1. r \in Req /\ a \in Nat /\ p \in Seq(Statements) /\ Settled(p) /\ a \in DOMAIN p
  BY Here
<1>2. /\ \A i \in DOMAIN p : Insisted(p[i]) => i < a
      /\ \A i \in DOMAIN p : i < a /\ Writes(p[i]) =>
           \E k \in DOMAIN p : i < k /\ k < a /\ p[k].op = "commit"
  <2>1. a \in DOMAIN p /\ Succeeds(p[a]) /\ Settled(p)
    BY <1>1
  <2> HIDE DEF p
  <2>2. QED
    BY <2>1 DEF Settled
<1>3. /\ \A i \in Due(prog, r) : i < a => <<r, i>> \in Places(work[w].mine) \cup Kept(log)
      /\ \A c \in Places(work[w].mine) : c[1] = r =>
           /\ c[2] \in DOMAIN p /\ c[2] < a /\ Writes(p[c[2]])
           /\ \A k \in DOMAIN p : c[2] < k /\ k < a => p[k].op # "commit"
  BY DEF AInv, Working, Going, Busy
<1>4. \A c \in Places(work[w].mine) : c[1] # r
  BY <1>2, <1>3
<1>5. \A i \in Due(prog, r) : <<r, i>> \in Kept(log)
  BY <1>2, <1>3, <1>4 DEF Due
<1>6. QED
  BY <1>4, <1>5 DEF Has

\* It gives up its request, without reporting success.
LEMMA LeaveKeeps ==
  ASSUME IInv, AInv, NEW w \in Worker, NEW y, y.req = None,
         Places(y.mine) \subseteq Places(work[w].mine),
         work' = [work EXCEPT ![w] = y], prog' = prog, inbox' = inbox, hurt \subseteq hurt',
         log' = log,
         \/ answer' = answer
         \/ /\ Busy(w)
            /\ \E a : a.code # 200 /\ answer' = [answer EXCEPT ![work[w].req] = a]
  PROVE  AInv'
<1>1. Going(prog, Kept(log'), hurt', y) /\ Placed(prog, y)
  BY DEF Going, Placed
<1>2. Acts(w, y)
  BY <1>1 DEF Acts
<1>3. QED
  BY <1>2, ActsKeeps

\* It goes on with its next statement.
LEMMA AheadKeeps ==
  ASSUME IInv, AInv, NEW w \in Worker, Busy(w),
         Stmt(w).op \notin {"reply", "silent", "undefined"},
         NEW y, y.req = work[w].req, y.at = work[w].at + 1, y.link = work[w].link,
         work' = [work EXCEPT ![w] = y], prog' = prog, inbox' = inbox, hurt \subseteq hurt',
         answer' = answer, Kept(log) \subseteq Kept(log'),
         \A c \in Places(y.mine) :
           \/ c \in Places(work[w].mine) /\ Stmt(w).op # "commit"
           \/ c = <<work[w].req, work[w].at>> /\ Writes(Stmt(w)),
         work[w].req \notin hurt' =>
           /\ \A c \in Places(work[w].mine) : c \in Places(y.mine) \cup Kept(log')
           /\ work[w].at \in Due(prog, work[w].req) =>
                <<work[w].req, work[w].at>> \in Places(y.mine) \cup Kept(log')
  PROVE  AInv'
<1>1. PICK L, J : L = Kept(log') /\ J = hurt'
  OBVIOUS
<1>2. Going(prog, L, J, y) /\ Placed(prog, y)
  BY <1>1, GoingAhead
<1>3. Acts(w, y)
  BY <1>1, <1>2 DEF Acts
<1>4. QED
  BY <1>3, ActsKeeps

\* It has met an error; x is its record since.
LEMMA OnErrorKeeps ==
  ASSUME IInv, AInv, NEW w \in Worker, Busy(w), NEW x, Shape(x),
         Stmt(w).op \notin {"reply", "silent", "undefined", "commit"},
         x.req = work[w].req, x.at = work[w].at, x.link = work[w].link,
         x.mine = work[w].mine \/ (x.mine = <<>> /\ work[w].req \in hurt'),
         OnError(w, Stmt(w), x),
         prog' = prog, inbox' = inbox, hurt \subseteq hurt'
  PROVE  AInv'
<1>1. log' = log /\ Places(x.mine) \subseteq Places(work[w].mine)
  BY EmptyIsSeq DEF OnError
<1>2. CASE /\ work' = [work EXCEPT ![w] = Return(x)]
           /\ \/ answer' = answer \/ answer' = Answered(w, 500) \/ answer' = Answered(w, Garbage)
  <2> DEFINE y == Return(x)
  <2>1. y.req = None /\ y.mine = x.mine
    BY DEF Return, Waiting
  <2>2. \/ answer' = answer
        \/ \E a : a.code # 200 /\ answer' = [answer EXCEPT ![work[w].req] = a]
    <3>1. \A c : [code |-> c, saw |-> work[w].saw].code = c
      OBVIOUS
    <3>2. QED
      BY <1>2, <3>1 DEF Answered, Garbage
  <2>3. work' = [work EXCEPT ![w] = y]
    BY <1>2
  <2> HIDE DEF y
  <2>4. QED
    BY <1>1, <2>1, <2>2, <2>3, LeaveKeeps
<1>3. CASE work' = [work EXCEPT ![w] = Born(Len(log))] /\ answer' = answer
  <2> DEFINE y == Born(Len(log))
  <2>1. y.req = None /\ Places(y.mine) = {}
    BY EmptyIsSeq DEF Born, Waiting
  <2>2. work' = [work EXCEPT ![w] = y]
    BY <1>3
  <2> HIDE DEF y
  <2>3. QED
    BY <1>1, <1>3, <2>1, <2>2, LeaveKeeps
<1>4. CASE /\ GoesOn(Stmt(w))
           /\ work' = [work EXCEPT ![w] = Further(x)] /\ answer' = answer
  <2> DEFINE y == Further(x)
  <2>1. y.at = work[w].at + 1 /\ y.req = work[w].req /\ y.link = work[w].link /\ y.mine = x.mine
    BY FurtherFields
  <2>2. work[w].at \notin Due(prog, work[w].req)
    BY <1>4, Here DEF Due, Insisted, GoesOn
  <2>3. work' = [work EXCEPT ![w] = y]
    BY <1>4
  <2> HIDE DEF y
  <2>4. QED
    BY <1>1, <1>4, <2>1, <2>2, <2>3, AheadKeeps
<1>5. CASE /\ Stmt(w).onerr = "echo"
           /\ work' = [work EXCEPT ![w] = Return(x)] /\ answer' = Answered(w, 200)
  <2> DEFINE y == Return(x)
             b == [code |-> 200, saw |-> work[w].saw]
  <2>1. y.req = None /\ y.mine = x.mine
    BY DEF Return, Waiting
  <2>2. work' = [work EXCEPT ![w] = y] /\ answer' = [answer EXCEPT ![work[w].req] = b]
    BY <1>5 DEF Answered
  <2> HIDE DEF y, b
  <2>3. Going(prog, Kept(log'), hurt', y) /\ Placed(prog, y)
    BY <2>1 DEF Going, Placed
  <2>4. ASSUME work[w].req \notin hurt'
        PROVE  /\ \A i \in Due(prog, work[w].req) : <<work[w].req, i>> \in Kept(log')
               /\ ~Has(y, work[w].req)
    <3>1. Succeeds(prog[work[w].req][work[w].at])
      BY <1>5, Here DEF Succeeds
    <3>2. work[w].req \notin hurt /\ x.mine = work[w].mine
      BY <2>4
    <3>3. /\ \A i \in Due(prog, work[w].req) : <<work[w].req, i>> \in Kept(log)
          /\ ~Has(work[w], work[w].req)
      BY <3>1, <3>2, SuccessIsWhole
    <3>4. QED
      BY <1>1, <2>1, <3>2, <3>3 DEF Has
  <2>5. Acts(w, y)
    BY <1>1, <2>1, <2>2, <2>3, <2>4 DEF Acts
  <2>6. QED
    BY <2>5, ActsKeeps
<1>6. QED
  BY <1>2, <1>3, <1>4, <1>5 DEF OnError, Stray

\* A query.
LEMMA ReadKeeps ==
  ASSUME IInv, AInv, NEW w \in Worker, Busy(w), Read(w, Stmt(w)),
         prog' = prog, inbox' = inbox, hurt' = hurt
  PROVE  AInv'
<1> DEFINE s == Stmt(w)
           o == Opened(w, s)
           y == Further(o)
<1>1. /\ Shape(y) /\ y.at = work[w].at + 1 /\ y.req = work[w].req
      /\ y.link = work[w].link /\ y.mine = work[w].mine
  <2>1. Shape(work[w])
    BY Here
  <2>2. /\ Shape(o) /\ o.at = work[w].at /\ o.req = work[w].req
        /\ o.link = work[w].link /\ o.mine = work[w].mine
    BY <2>1, OpenedFields
  <2> HIDE DEF o
  <2>3. QED
    BY <2>2, FurtherFields
<1>2. s.op \in {"select", "need", "needBy", "refs", "find", "malformed"}
  BY DEF Read, Reads
<1>3. work[w].at \notin Due(prog, work[w].req)
  BY <1>2, Here DEF Due, Insisted, Writes
<1> HIDE DEF y
<1>4. \E z : /\ work' = [work EXCEPT ![w] = z]
             /\ \/ z = [y EXCEPT !.id = KeyFound(s, View(w))]
                \/ z = [y EXCEPT !.saw = @ \cup Touched(s, View(w))]
  BY DEF Read, y
<1>5. PICK z : /\ work' = [work EXCEPT ![w] = z]
               /\ \/ z = [y EXCEPT !.id = KeyFound(s, View(w))]
                  \/ z = [y EXCEPT !.saw = @ \cup Touched(s, View(w))]
  BY <1>4
<1>6. z.at = y.at /\ z.req = y.req /\ z.link = y.link /\ z.mine = y.mine
  <2>1. \A n : LET v == [y EXCEPT !.id = n]
               IN v.at = y.at /\ v.req = y.req /\ v.link = y.link /\ v.mine = y.mine
    BY <1>1, IdFields
  <2>2. \A n : LET v == [y EXCEPT !.saw = n]
               IN v.at = y.at /\ v.req = y.req /\ v.link = y.link /\ v.mine = y.mine
    BY <1>1, SawFields
  <2>3. CASE z = [y EXCEPT !.id = KeyFound(s, View(w))]
    BY <2>1, <2>3
  <2>4. CASE z = [y EXCEPT !.saw = @ \cup Touched(s, View(w))]
    BY <2>2, <2>4
  <2>5. QED
    BY <1>5, <2>3, <2>4
<1>7. answer' = answer /\ log' = log
  BY DEF Read
<1>8. s.op \notin {"reply", "silent", "undefined", "commit"}
  BY <1>2
<1>9. z.at = work[w].at + 1 /\ z.req = work[w].req /\ z.link = work[w].link /\ z.mine = work[w].mine
  BY <1>1, <1>6
<1> HIDE DEF o
<1>10. QED
  BY <1>3, <1>5, <1>7, <1>8, <1>9, AheadKeeps

\* A change: pending, or dropped and then the request is hurt.
LEMMA WriteKeeps ==
  ASSUME IInv, AInv, NEW w \in Worker, Busy(w), Write(w, Stmt(w)),
         prog' = prog, inbox' = inbox, hurt' = hurt
  PROVE  AInv'
<1> DEFINE c == Change(w, Stmt(w))
           t == Append(work[w].mine, c)
           y == Further(work[w])
           z == [y EXCEPT !.mine = t]
<1>1. Shape(work[w]) /\ IsSeq(work[w].mine)
  BY Here DEF Shape
<1>2. c.req = work[w].req /\ c.at = work[w].at
  BY DEF Change
<1> HIDE DEF c
<1>3. IsSeq(t) /\ Places(t) = Places(work[w].mine) \cup {<<work[w].req, work[w].at>>}
  BY <1>1, <1>2, AppendIsSeq, AppendPlaces
<1>4. /\ Shape(y) /\ y.at = work[w].at + 1 /\ y.req = work[w].req
      /\ y.link = work[w].link /\ y.mine = work[w].mine
  BY <1>1, FurtherFields
<1>5. work' = [work EXCEPT ![w] = z]
  BY <1>4 DEF Write, c
<1>6. Writes(Stmt(w)) /\ Stmt(w).op \notin {"reply", "silent", "undefined", "commit"}
  BY DEF Write, Writes
<1>7. answer' = answer /\ log' = log
  BY DEF Write
<1> HIDE DEF t, y
<1>8. z.at = y.at /\ z.req = y.req /\ z.link = y.link /\ z.mine = t
  BY <1>3, <1>4, MineFields
<1> HIDE DEF z
<1>9. QED
  BY <1>3, <1>4, <1>5, <1>6, <1>7, <1>8, AheadKeeps

\* COMMIT or TRUNCATE: ch is committed and nothing is pending any more.
LEMMA CommitKeeps ==
  ASSUME IInv, AInv, NEW w \in Worker, Busy(w),
         NEW ch, Places(work[w].mine) \subseteq Places(ch), log' = Logged(ch),
         \/ Stmt(w).op = "commit"
         \/ Stmt(w).op = "truncate" /\ <<work[w].req, work[w].at>> \in Places(ch),
         work' = [work EXCEPT ![w] = [Further(work[w]) EXCEPT !.mine = <<>>, !.snap = 0]],
         answer' = answer, prog' = prog, inbox' = inbox, hurt' = hurt
  PROVE  AInv'
<1> DEFINE y == Further(work[w])
           z == [y EXCEPT !.mine = <<>>, !.snap = 0]
<1>1. Shape(work[w]) /\ IsSeq(log)
  BY Here DEF IInv, History
<1>2. /\ Shape(y) /\ y.at = work[w].at + 1 /\ y.req = work[w].req /\ y.link = work[w].link
  BY <1>1, FurtherFields
<1>3. work' = [work EXCEPT ![w] = z]
  OBVIOUS
<1> HIDE DEF y
<1>4. z.at = y.at /\ z.req = y.req /\ z.link = y.link /\ Places(z.mine) = {}
  BY <1>2, DroppedFields, EmptyIsSeq
<1> HIDE DEF z
<1>5. Kept(log) \subseteq Kept(log') /\ Places(ch) \subseteq Kept(log')
  BY <1>1, LoggedKeeps
<1>6. \/ work[w].at \notin Due(prog, work[w].req)
      \/ <<work[w].req, work[w].at>> \in Kept(log')
  <2>1. CASE Stmt(w).op = "commit"
    BY <2>1, Here DEF Due, Insisted, Writes
  <2>2. CASE Stmt(w).op # "commit"
    BY <1>5, <2>2
  <2>3. QED
    BY <2>1, <2>2
<1>7. Stmt(w).op \notin {"reply", "silent", "undefined"}
  OBVIOUS
<1>8. z.at = work[w].at + 1 /\ z.req = work[w].req /\ z.link = work[w].link
  BY <1>2, <1>4
<1>9. \A c \in Places(work[w].mine) : c \in Places(z.mine) \cup Kept(log')
  BY <1>5
<1>10. QED
  BY <1>3, <1>4, <1>5, <1>6, <1>7, <1>8, <1>9, AheadKeeps

\* A reply 200 comes when everything is committed.
LEMMA ReplyKeeps ==
  ASSUME IInv, AInv, NEW w \in Worker, Busy(w), Reply1(w, Stmt(w)),
         prog' = prog, inbox' = inbox, hurt' = hurt
  PROVE  AInv'
<1> DEFINE r == work[w].req
           a == work[w].at
           p == prog[r]
           y == Return(work[w])
           b == [code |-> Stmt(w).a, saw |-> work[w].saw]
<1>1. /\ r \in Req /\ a \in Nat /\ p \in Seq(Statements) /\ Settled(p) /\ a \in DOMAIN p
      /\ p[a].op = "reply" /\ Stmt(w).a = p[a].a
  BY Here DEF Reply1
<1>2. y.req = None /\ y.mine = work[w].mine /\ b.code = Stmt(w).a
  BY DEF Return, Waiting
<1>3. work' = [work EXCEPT ![w] = y] /\ answer' = [answer EXCEPT ![r] = b] /\ log' = log
  BY DEF Reply1, Answered
<1> HIDE DEF y, b
<1>4. ASSUME Stmt(w).a = 200, r \notin hurt
      PROVE  (\A i \in Due(prog, r) : <<r, i>> \in Kept(log)) /\ ~Has(y, r)
  <2>1. Succeeds(p[a])
    BY <1>1, <1>4 DEF Succeeds
  <2>2. (\A i \in Due(prog, r) : <<r, i>> \in Kept(log)) /\ ~Has(work[w], r)
    BY <1>4, <2>1, SuccessIsWhole
  <2>3. QED
    BY <1>2, <2>2 DEF Has
<1>5. Going(prog, Kept(log'), hurt', y) /\ Placed(prog, y)
  BY <1>2 DEF Going, Placed
<1>6. b.code = 200 /\ r \notin hurt' =>
        (\A i \in Due(prog, r) : <<r, i>> \in Kept(log')) /\ ~Has(y, r)
  BY <1>2, <1>3, <1>4
<1>7. Acts(w, y)
  BY <1>2, <1>3, <1>5, <1>6 DEF Acts
<1>8. QED
  BY <1>7, ActsKeeps

\* Every kind of statement.
LEMMA ExecuteKeeps ==
  ASSUME IInv, AInv, NEW w \in Worker, Busy(w), Execute(w, Stmt(w)),
         prog' = prog, inbox' = inbox, hurt' = hurt
  PROVE  AInv'
<1> DEFINE s == Stmt(w)
<1>1. Shape(work[w]) /\ IsSeq(work[w].mine)
  BY Here DEF Shape
<1>2. s.op \notin {"reply", "silent", "undefined", "commit"}
  BY DEF Execute, Sql, Reads, Writes
<1>3. CASE OnError(w, s, Opened(w, s))
  <2> DEFINE x == Opened(w, s)
  <2>1. Shape(x) /\ x.at = work[w].at /\ x.req = work[w].req
        /\ x.link = work[w].link /\ x.mine = work[w].mine
    BY <1>1, OpenedFields
  <2>2. OnError(w, s, x)
    BY <1>3
  <2> HIDE DEF x
  <2>3. QED
    BY <1>2, <2>1, <2>2, OnErrorKeeps
<1>4. CASE Read(w, s)
  BY <1>4, ReadKeeps
<1>5. CASE Write(w, s)
  BY <1>5, WriteKeeps
<1>6. CASE TruncateTable(w, s)
  <2> DEFINE c == Change(w, s)
             ch == Append(work[w].mine, c)
  <2>1. c.req = work[w].req /\ c.at = work[w].at
    BY DEF Change
  <2>2. /\ s.op = "truncate" /\ log' = Logged(ch) /\ answer' = answer
        /\ work' = [work EXCEPT ![w] = [Further(work[w]) EXCEPT !.mine = <<>>, !.snap = 0]]
    BY <1>6 DEF TruncateTable
  <2> HIDE DEF c
  <2>3. Places(ch) = Places(work[w].mine) \cup {<<work[w].req, work[w].at>>}
    BY <1>1, <2>1, AppendPlaces
  <2> HIDE DEF ch
  <2>4. QED
    BY <2>2, <2>3, CommitKeeps
<1>7. QED
  BY <1>3, <1>4, <1>5, <1>6 DEF Execute

\* It ends its request without an answer, or with none of its own.
LEMMA SilentKeeps ==
  ASSUME IInv, AInv, NEW w \in Worker, Busy(w),
         StaySilent(w, Stmt(w)) \/ GoStray(w, Stmt(w)),
         prog' = prog, inbox' = inbox, hurt' = hurt
  PROVE  AInv'
<1>1. log' = log
  BY DEF StaySilent, GoStray
<1>2. CASE /\ work' = [work EXCEPT ![w] = Return(work[w])]
           /\ answer' = answer \/ answer' = Answered(w, Garbage)
  <2> DEFINE y == Return(work[w])
  <2>1. y.req = None /\ y.mine = work[w].mine
    BY DEF Return, Waiting
  <2>2. \/ answer' = answer
        \/ \E a : a.code # 200 /\ answer' = [answer EXCEPT ![work[w].req] = a]
    BY <1>2 DEF Answered, Garbage
  <2>3. work' = [work EXCEPT ![w] = y]
    BY <1>2
  <2> HIDE DEF y
  <2>4. QED
    BY <1>1, <2>1, <2>2, <2>3, LeaveKeeps
<1>3. CASE work' = [work EXCEPT ![w] = Born(Len(log))] /\ answer' = answer
  <2> DEFINE y == Born(Len(log))
  <2>1. y.req = None /\ Places(y.mine) = {}
    BY EmptyIsSeq DEF Born, Waiting
  <2>2. work' = [work EXCEPT ![w] = y]
    BY <1>3
  <2> HIDE DEF y
  <2>3. QED
    BY <1>1, <1>3, <2>1, <2>2, LeaveKeeps
<1>4. QED
  BY <1>2, <1>3 DEF StaySilent, GoStray, Stray

\* A statement, on a connection that is alive or not.
LEMMA StepKeeps ==
  ASSUME IInv, AInv, NEW w \in Worker, Step(w)
  PROVE  AInv'
<1> DEFINE s == Stmt(w)
<1>1. Busy(w) /\ prog' = prog /\ inbox' = inbox /\ hurt' = hurt
  BY DEF Step
<1>2. CASE Reply1(w, s)
  BY <1>1, <1>2, ReplyKeeps
<1>3. CASE StaySilent(w, s) \/ GoStray(w, s)
  BY <1>1, <1>3, SilentKeeps
<1>4. CASE Unsent(w, s) \/ LockTimeout(w, s)
  <2>1. OnError(w, s, work[w]) /\ s.op \notin {"reply", "silent", "undefined", "commit"}
    BY <1>4 DEF Unsent, LockTimeout, Blocked, Sql, Reads, Writes
  <2>2. Shape(work[w])
    BY <1>1, Here
  <2>3. QED
    BY <1>1, <2>1, <2>2, OnErrorKeeps
<1>5. CASE Execute(w, s)
  BY <1>1, <1>5, ExecuteKeeps
<1>6. CASE Commit1(w, s)
  <2> DEFINE ch == work[w].mine
  <2>1. /\ s.op = "commit" /\ log' = Logged(ch) /\ answer' = answer
        /\ work' = [work EXCEPT ![w] = [Further(work[w]) EXCEPT !.mine = <<>>, !.snap = 0]]
    BY <1>6 DEF Commit1
  <2>2. QED
    BY <1>1, <2>1, CommitKeeps
<1>7. QED
  BY <1>2, <1>3, <1>4, <1>5, <1>6 DEF Step

----------------------------------------------------------------------------
(* Failures, arrivals and the whole *)

LEMMA LinkLostKeeps ==
  ASSUME IInv, AInv, NEW w \in Worker, LinkLost(w)
  PROVE  AInv'
<1> DEFINE d == Dropped(w)
           y == [d EXCEPT !.link = FALSE]
<1>1. Shape(work[w])
  BY DEF IInv, Workers, Sound
<1>2. Shape(d) /\ d.at = work[w].at /\ d.req = work[w].req /\ d.mine = <<>>
  BY <1>1, DroppedFields DEF Dropped
<1>3. /\ work' = [work EXCEPT ![w] = y] /\ prog' = prog /\ inbox' = inbox
      /\ answer' = answer /\ log' = log /\ Hurt(w)
  BY DEF LinkLost
<1> HIDE DEF d
<1>4. y.at = work[w].at /\ y.req = work[w].req /\ Places(y.mine) = {}
  BY <1>2, LinkFields, EmptyIsSeq
<1> HIDE DEF y
<1>5. hurt \subseteq hurt' /\ (Busy(w) => work[w].req \in hurt')
  BY <1>3 DEF Hurt
<1>6. Going(prog, Kept(log'), hurt', y)
  BY <1>4, <1>5 DEF Going, Busy
<1>7. Placed(prog, y)
  BY <1>4 DEF Placed, AInv, Working
<1>8. Acts(w, y)
  BY <1>3, <1>4, <1>5, <1>6, <1>7 DEF Acts
<1>9. QED
  BY <1>8, ActsKeeps

\* A failure drops pending changes and hurts the requests that made them.
LEMMA FailureKeeps ==
  ASSUME IInv, AInv, NEW w \in Worker,
         LinkLost(w) \/ Victim(w) \/ StatementFails(w) \/ Dies(w)
  PROVE  AInv'
<1>1. Shape(work[w])
  BY DEF IInv, Workers, Sound
<1>2. CASE LinkLost(w)
  BY <1>2, LinkLostKeeps
<1>3. CASE Victim(w)
  <2> DEFINE x == Dropped(w)
  <2>1. /\ Busy(w) /\ Writes(Stmt(w)) /\ OnError(w, Stmt(w), x)
        /\ hurt' = hurt \cup {work[w].req} /\ prog' = prog /\ inbox' = inbox
    BY <1>3 DEF Victim, Hurt
  <2>2. Shape(x) /\ x.at = work[w].at /\ x.req = work[w].req
        /\ x.link = work[w].link /\ x.mine = <<>>
    BY <1>1, DroppedFields DEF Dropped
  <2>3. Stmt(w).op \notin {"reply", "silent", "undefined", "commit"}
    BY <2>1 DEF Writes
  <2> HIDE DEF x
  <2>4. QED
    BY <2>1, <2>2, <2>3, OnErrorKeeps
<1>4. CASE StatementFails(w)
  <2> DEFINE x == Opened(w, Stmt(w))
  <2>1. /\ Busy(w) /\ Sql(Stmt(w)) /\ OnError(w, Stmt(w), x)
        /\ hurt' = hurt /\ prog' = prog /\ inbox' = inbox
    BY <1>4 DEF StatementFails
  <2>2. Shape(x) /\ x.at = work[w].at /\ x.req = work[w].req
        /\ x.link = work[w].link /\ x.mine = work[w].mine
    BY <1>1, OpenedFields
  <2>3. Stmt(w).op \notin {"reply", "silent", "undefined", "commit"}
    BY <2>1 DEF Sql, Reads, Writes
  <2> HIDE DEF x
  <2>4. QED
    BY <2>1, <2>2, <2>3, OnErrorKeeps
<1>5. CASE Dies(w)
  <2> DEFINE y == Born(Len(log))
  <2>1. y.req = None /\ Places(y.mine) = {}
    BY EmptyIsSeq DEF Born, Waiting
  <2>2. /\ work' = [work EXCEPT ![w] = y] /\ prog' = prog /\ inbox' = inbox
        /\ answer' = answer /\ log' = log /\ hurt \subseteq hurt'
    BY <1>5 DEF Dies, Hurt
  <2> HIDE DEF y
  <2>3. QED
    BY <2>1, <2>2, LeaveKeeps
<1>6. QED
  BY <1>2, <1>3, <1>4, <1>5

\* A worker takes a request that nobody has touched.
LEMMA TakeKeeps ==
  ASSUME IInv, AInv, NEW w \in Worker, Take(w)
  PROVE  AInv'
<1> DEFINE r == Head(inbox)
           y == [work[w] EXCEPT !.req = r, !.at = 1, !.link = TRUE]
<1>1. /\ ~Busy(w) /\ inbox' = Tail(inbox) /\ inbox \in Seq(Req) /\ inbox # <<>>
      /\ prog' = prog /\ log' = log /\ answer' = answer /\ hurt' = hurt
      /\ DOMAIN work = Worker /\ Shape(work[w])
  BY DEF Take, IInv, Queued, Workers, Sound
<1>2. work' = [work EXCEPT ![w] = y]
  BY <1>1 DEF Take
<1>3. /\ 1 \in DOMAIN inbox /\ inbox[1] = r /\ r \in Req
      /\ \A k \in DOMAIN inbox' : k + 1 \in DOMAIN inbox /\ k + 1 # 1 /\ k \in Nat
                                  /\ inbox'[k] = inbox[k + 1]
  BY <1>1
<1>4. /\ prog[r] # <<>> /\ prog \in [Req -> Seq(Statements)]
      /\ answer[r].code # 200
      /\ \A v \in Worker : work[v].req # r /\ ~Has(work[v], r)
  BY <1>3 DEF IInv, Queued, Programs, AInv, Untouched, Unserved
<1>5. \A k \in DOMAIN inbox' : inbox'[k] # r
  BY <1>3 DEF AInv, Lined
<1> HIDE DEF r
<1>6. y.req = r /\ y.at = 1 /\ y.link = TRUE /\ y.mine = work[w].mine
  BY <1>1 DEF Shape, Fields
<1> HIDE DEF y
<1>7. /\ DOMAIN work' = Worker /\ work'[w] = y
      /\ \A v \in Worker \ {w} : work'[v] = work[v]
  BY <1>1, <1>2
<1>8. \A v \in Worker : work'[v].mine = work[v].mine
  BY <1>6, <1>7
<1>9. \A v \in Worker, q \in Req : Has(work'[v], q) => Has(work[v], q)
  BY <1>8 DEF Has
<1>10. Disciplined'
  BY <1>1 DEF AInv, Disciplined
<1>11. Lined'
  <2>1. ASSUME NEW i \in DOMAIN inbox', NEW j \in DOMAIN inbox', inbox'[i] = inbox'[j]
        PROVE  i = j
    <3>1. i + 1 = j + 1
      BY <1>3, <2>1 DEF AInv, Lined
    <3>2. QED
      BY <1>3, <3>1
  <2>2. QED
    BY <2>1 DEF Lined
<1>12. Untouched'
  <2>1. ASSUME NEW q \in Req, Unserved(q)'
        PROVE  answer'[q].code # 200 /\ \A v \in Worker : work'[v].req # q /\ ~Has(work'[v], q)
    <3>1. Unserved(q) /\ q # r
      BY <1>1, <1>3, <1>4, <1>5, <2>1 DEF Unserved
    <3>2. answer[q].code # 200 /\ \A v \in Worker : work[v].req # q /\ ~Has(work[v], q)
      BY <3>1 DEF AInv, Untouched
    <3>3. \A v \in Worker : work'[v].req = work[v].req \/ work'[v].req = r
      BY <1>6, <1>7
    <3>4. QED
      BY <1>1, <1>9, <3>1, <3>2, <3>3
  <2>2. QED
    BY <2>1 DEF Untouched
<1>13. Owned'
  <2>1. ASSUME NEW u \in Worker, NEW v \in Worker, work'[u].req # None, u # v
        PROVE  work'[v].req # work'[u].req /\ ~Has(work'[v], work'[u].req)
    <3>1. CASE u = w
      <4>1. work'[u].req = r /\ work'[v].req # r /\ ~Has(work'[v], r)
        BY <1>3, <1>4, <1>6, <1>7, <1>9, <2>1, <3>1
      <4>2. QED
        BY <4>1
    <3>2. CASE u # w
      <4>1. work'[u] = work[u] /\ work[u].req # None /\ work[u].req \in Req
        BY <1>7, <2>1, <3>2 DEF IInv, Workers, Sound, Ready
      <4>2. work[v].req # work[u].req /\ ~Has(work[v], work[u].req)
        BY <2>1, <4>1 DEF AInv, Owned, Busy
      <4>3. work'[v].req = work[v].req \/ work'[v].req = r
        BY <1>6, <1>7
      <4>4. QED
        BY <1>4, <1>9, <4>1, <4>2, <4>3
    <3>3. QED
      BY <3>1, <3>2
  <2>2. QED
    BY <2>1 DEF Owned, Busy
<1>14. Unanswered'
  <2>1. \A v \in Worker : work'[v].req = r \/ work'[v] = work[v]
    BY <1>6, <1>7
  <2>2. ASSUME NEW v \in Worker, work'[v].req # None PROVE answer[work'[v].req].code # 200
    BY <1>4, <2>1, <2>2 DEF AInv, Unanswered, Busy
  <2>3. DOMAIN answer = Req
    BY DEF AInv, Unanswered
  <2>4. QED
    BY <1>1, <2>2, <2>3 DEF Unanswered, Busy
<1>15. Working'
  <2>1. Going(prog, Kept(log), hurt, y) /\ Placed(prog, y)
    <3>1. DOMAIN prog[r] \subseteq Nat \ {0} /\ 1 \in DOMAIN prog[r]
      BY <1>3, <1>4
    <3>2. \A i \in Due(prog, r) : ~(i < 1)
      BY <3>1 DEF Due
    <3>3. \A c \in Places(y.mine) : c[1] # r
      BY <1>4, <1>6 DEF Has
    <3>4. QED
      BY <1>6, <3>1, <3>2, <3>3 DEF Going, Placed
  <2>2. \A v \in Worker : Going(prog, Kept(log), hurt, work'[v]) /\ Placed(prog, work'[v])
    BY <1>7, <2>1 DEF AInv, Working
  <2>3. QED
    BY <1>1, <2>2 DEF Working
<1>16. Acked'
  BY <1>1, <1>9 DEF AInv, Acked
<1>17. QED
  BY <1>10, <1>11, <1>12, <1>13, <1>14, <1>15, <1>16 DEF AInv

\* A program that arrives is settled and untouched.
LEMMA ArriveKeepsAcked ==
  ASSUME Settling, IInv, AInv, NEW r \in Req, Arrive(r)
  PROVE  AInv'
<1>1. PICK p \in Asks[r] : prog' = [prog EXCEPT ![r] = p]
  BY DEF Arrive
<1>2. /\ prog[r] = <<>> /\ inbox' = Append(inbox, r) /\ inbox \in Seq(Req)
      /\ work' = work /\ log' = log /\ answer' = answer /\ hurt' = hurt
      /\ prog \in [Req -> Seq(Statements)]
      /\ \A k \in DOMAIN inbox : prog[inbox[k]] # <<>>
  BY DEF Arrive, IInv, Queued, Programs
<1>3. Settled(p) /\ p # <<>>
  BY AsksAssumption DEF Settling
<1>4. prog'[r] = p /\ \A q \in Req \ {r} : prog'[q] = prog[q]
  BY <1>1, <1>2
<1>5. /\ answer[r].code # 200
      /\ \A v \in Worker : work[v].req # r /\ ~Has(work[v], r)
  BY <1>2 DEF AInv, Untouched, Unserved
<1>6. \A v \in Worker : work[v].req # None => work[v].req \in Req \ {r}
  BY <1>5 DEF IInv, Workers, Sound, Ready
<1>7. /\ DOMAIN inbox = 1..Len(inbox) /\ Len(inbox) \in Nat
      /\ DOMAIN inbox' = 1..(Len(inbox) + 1)
      /\ \A k \in DOMAIN inbox : inbox'[k] = inbox[k] /\ inbox[k] # r
      /\ inbox'[Len(inbox) + 1] = r
  <2>1. inbox \in Seq(Req) /\ inbox' = Append(inbox, r)
    BY <1>2
  <2>2. /\ DOMAIN inbox = 1..Len(inbox) /\ Len(inbox) \in Nat
        /\ DOMAIN inbox' = 1..(Len(inbox) + 1)
        /\ \A k \in DOMAIN inbox : inbox'[k] = inbox[k]
        /\ inbox'[Len(inbox) + 1] = r
    BY <2>1
  <2>3. \A k \in DOMAIN inbox : inbox[k] # r
    BY <1>2
  <2>4. QED
    BY <2>2, <2>3
<1>8. \A k \in DOMAIN inbox' : k \in DOMAIN inbox \/ k = Len(inbox) + 1
  BY <1>7
<1>9. Disciplined'
  BY <1>3, <1>4 DEF AInv, Disciplined
<1>10. Lined'
  BY <1>7, <1>8 DEF AInv, Lined
<1>11. Untouched'
  <2>1. \A q \in Req : Unserved(q)' => Unserved(q)
    BY <1>2, <1>4, <1>7, <1>8 DEF Unserved
  <2>2. QED
    BY <1>2, <2>1 DEF AInv, Untouched
<1>12. Owned' /\ Unanswered'
  BY <1>2 DEF AInv, Owned, Unanswered, Busy
<1>13. \A q \in Req \ {r} : Due(prog', q) = Due(prog, q)
  BY <1>4 DEF Due
<1>14. Working'
  <2>1. ASSUME NEW v \in Worker
        PROVE  Going(prog', Kept(log), hurt, work[v]) /\ Placed(prog', work[v])
    <3>1. Going(prog, Kept(log), hurt, work[v]) /\ Placed(prog, work[v])
      BY DEF AInv, Working
    <3>2. CASE work[v].req = None
      BY <3>2 DEF Going, Placed
    <3>3. CASE work[v].req # None
      <4>1. /\ prog'[work[v].req] = prog[work[v].req]
            /\ Due(prog', work[v].req) = Due(prog, work[v].req)
        BY <1>4, <1>6, <1>13, <3>3
      <4>2. QED
        BY <3>1, <4>1 DEF Going, Placed
    <3>4. QED
      BY <3>2, <3>3
  <2>2. QED
    BY <1>2, <2>1 DEF Working
<1>15. Acked'
  <2>1. ASSUME NEW q \in Req, q \notin hurt, answer[q].code = 200
        PROVE  /\ \A i \in Due(prog', q) : <<q, i>> \in Kept(log)
               /\ \A v \in Worker : ~Has(work[v], q)
    <3>1. Due(prog', q) = Due(prog, q)
      BY <1>5, <1>13, <2>1
    <3>2. QED
      BY <2>1, <3>1 DEF AInv, Acked
  <2>2. QED
    BY <1>2, <2>1 DEF Acked
<1>16. QED
  BY <1>9, <1>10, <1>11, <1>12, <1>14, <1>15 DEF AInv

\* AInv holds at the start.
LEMMA InitAcked == Init => AInv
<1> SUFFICES ASSUME Init PROVE AInv
  OBVIOUS
<1> DEFINE b == Born(1)
<1>1. b.req = None /\ Places(b.mine) = {}
  BY EmptyIsSeq DEF Born, Waiting
<1>2. /\ work = [w \in Worker |-> b] /\ inbox = <<>> /\ prog = [r \in Req |-> <<>>]
      /\ answer = [r \in Req |-> NoAnswer]
  BY DEF Init
<1> HIDE DEF b
<1>3. \A w \in Worker : work[w].req = None /\ \A r : ~Has(work[w], r)
  BY <1>1, <1>2 DEF Has
<1>4. \A r \in Req : answer[r].code # 200
  BY <1>2 DEF NoAnswer
<1>5. None \notin Req
  BY SwitchAssumption
<1>6. Disciplined /\ Lined
  BY <1>2 DEF Disciplined, Lined
<1>7. Untouched /\ Owned /\ Unanswered
  BY <1>2, <1>3, <1>4, <1>5 DEF Untouched, Owned, Unanswered, Busy
<1>8. Working /\ Acked
  BY <1>3, <1>4 DEF Working, Acked, Going, Placed
<1>9. QED
  BY <1>6, <1>7, <1>8 DEF AInv

\* Every step keeps AInv.
LEMMA NextAcked == ASSUME Settling PROVE IInv /\ AInv /\ [Next]_vars => AInv'
<1> SUFFICES ASSUME IInv, AInv, [Next]_vars PROVE AInv'
  OBVIOUS
<1>1. ASSUME NEW r \in Req, Arrive(r) PROVE AInv'
  BY <1>1, ArriveKeepsAcked
<1>2. ASSUME NEW w \in Worker, Take(w) PROVE AInv'
  BY <1>2, TakeKeeps
<1>3. ASSUME NEW w \in Worker, Step(w) PROVE AInv'
  BY <1>3, StepKeeps
<1>4. ASSUME NEW w \in Worker, LinkLost(w) \/ Victim(w) \/ StatementFails(w) \/ Dies(w)
      PROVE  AInv'
  BY <1>4, FailureKeeps
<1>5. CASE UNCHANGED vars
  BY <1>5 DEF vars, AInv, Disciplined, Lined, Untouched, Unserved, Owned, Unanswered, Working,
              Acked, Busy
<1>6. QED
  BY <1>1, <1>2, <1>3, <1>4, <1>5 DEF Next, Serve

\* For any workers, requests and settled programs, with lock waits, deadlocks,
\* broken links and deaths at any step: a reply 200 is only sent for changes
\* that are committed, unless MySQL dropped the transaction meanwhile.
THEOREM SuccessIsCommitted == ASSUME Settling PROVE Spec => []AckedIsCommitted
<1>1. AInv => AckedIsCommitted
  <2> SUFFICES ASSUME AInv, NEW r \in Req \ hurt, answer[r].code = 200
               PROVE  /\ \A i \in Needed(r) : CommittedIn(r, i) # {}
                      /\ \A w \in Worker : ~Left(r, w)
    BY DEF AckedIsCommitted
  <2>1. /\ \A i \in Due(prog, r) : <<r, i>> \in Kept(log)
        /\ \A w \in Worker : ~Has(work[w], r)
    BY DEF AInv, Acked
  <2>2. \A i \in Needed(r) : CommittedIn(r, i) # {}
    BY <2>1 DEF Needed, Due, Kept, CommittedIn
  <2>3. ASSUME NEW w \in Worker, Left(r, w) PROVE FALSE
    <3>1. PICK i \in DOMAIN work[w].mine : work[w].mine[i].req = r
      BY <2>3 DEF Left
    <3>2. <<r, work[w].mine[i].at>> \in Places(work[w].mine)
      BY <3>1 DEF Places
    <3>3. QED
      BY <2>1, <3>2 DEF Has
  <2>4. QED
    BY <2>2, <2>3
<1>2. Spec => []AInv
  <2>1. IInv /\ AInv /\ [Next]_vars => AInv'
    BY NextAcked
  <2>2. QED
    BY <2>1, InitAcked, InitIInv, NextIInv, PTL DEF Spec
<1>3. QED
  BY <1>1, <1>2, PTL
=============================================================================
