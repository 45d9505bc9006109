----------------------------- MODULE StoreProofs -----------------------------
(***************************************************************************)
(* What AppliedAll and Outcome compute, for every program and every set of *)
(* rows, and what follows for Switch: its types, whatever fails; and that  *)
(* one worker whose connection holds implements Store, reads what is there *)
(* and leaves no role menu without a role, no post without a user.         *)
(***************************************************************************)
EXTENDS SwitchProofs, SwitchRefines, FiniteSetTheorems, SequenceTheorems

----------------------------------------------------------------------------
(* Induction.  The set of the numbers that have a property stands for the   *)
(* property; were n the first to lack it, adding one would map the members  *)
(* of S below n into themselves without 0.                                  *)

LEMMA Induct ==
  ASSUME NEW S, 0 \in S, \A n \in S : n \in Nat => n + 1 \in S
  PROVE  Nat \subseteq S
<1> SUFFICES ASSUME NEW n \in Nat, n \notin S PROVE FALSE
  OBVIOUS
<1> DEFINE A == S \cap 0..n
           f == [x \in A |-> x + 1]
<1>1. IsFiniteSet(0..n)
  BY FS_Interval
<1>2. IsFiniteSet(A) /\ IsFiniteSet(A \ {0})
  BY <1>1, FS_Subset
<1>3. 0 \in A
  OBVIOUS
<1>4. Cardinality(A \ {0}) = Cardinality(A) - 1 /\ Cardinality(A) \in Nat
  BY <1>2, <1>3, FS_RemoveElement, FS_CardinalityType
<1>5. f \in [A -> A \ {0}]
  <2>1. ASSUME NEW x \in A PROVE x + 1 \in A \ {0}
    BY <2>1
  <2>2. QED
    BY <2>1
<1>6. \A x, y \in A : x # y => f[x] # f[y]
  OBVIOUS
<1> HIDE DEF A, f
<1>7. Cardinality(A \ {0}) < Cardinality(A)
  BY <1>4
<1>8. \E x, y \in A : x # y /\ f[x] = f[y]
  BY <1>2, <1>4, <1>5, <1>7, FS_PigeonHole
<1>9. QED
  BY <1>6, <1>8

----------------------------------------------------------------------------
(* AppliedAll: one statement after the other *)

Stages(f, n, ss, rows) ==
  f = [i \in 0..n |-> IF i = 0 THEN rows
                      ELSE UNION {Applied(ss[i], before) : before \in {f[i - 1]}}]

\* The stages, one by one.
LEMMA StagesAre ==
  ASSUME NEW f, NEW n \in Nat, NEW ss, NEW rows, Stages(f, n, ss, rows)
  PROVE  /\ f[0] = rows
         /\ \A i \in 1..n : f[i] = Applied(ss[i], f[i - 1])
<1>1. \A i \in 0..n : f[i] = IF i = 0 THEN rows
                             ELSE UNION {Applied(ss[i], before) : before \in {f[i - 1]}}
  BY DEF Stages
<1>2. ASSUME NEW i \in 1..n PROVE f[i] = Applied(ss[i], f[i - 1])
  <2>1. f[i] = UNION {Applied(ss[i], before) : before \in {f[i - 1]}}
    BY <1>1
  <2>2. QED
    BY <2>1
<1>3. QED
  BY <1>1, <1>2

\* There is such a function for every number of statements.
LEMMA StagesExist ==
  ASSUME NEW ss, NEW rows
  PROVE  \A n \in Nat : \E f : Stages(f, n, ss, rows)
<1> DEFINE S == {n \in Nat : \E f : Stages(f, n, ss, rows)}
<1>1. 0 \in S
  <2> DEFINE f == [i \in 0..0 |-> rows]
  <2>1. Stages(f, 0, ss, rows)
    BY DEF Stages
  <2>2. QED
    BY <2>1
<1>2. ASSUME NEW n \in S PROVE n + 1 \in S
  <2>1. PICK f : Stages(f, n, ss, rows)
    OBVIOUS
  <2> DEFINE g == [i \in 0..(n + 1) |-> IF i = n + 1 THEN Applied(ss[i], f[i - 1]) ELSE f[i]]
  <2>2. f[0] = rows /\ \A i \in 1..n : f[i] = Applied(ss[i], f[i - 1])
    BY <2>1, StagesAre
  <2>3. g[0] = rows
    BY <2>2
  <2>4. ASSUME NEW i \in 1..(n + 1) PROVE g[i] = Applied(ss[i], g[i - 1])
    <3>1. g[i - 1] = f[i - 1]
      OBVIOUS
    <3>2. QED
      BY <2>2, <3>1
  <2>5. \A i \in 1..(n + 1) : g[i] = UNION {Applied(ss[i], before) : before \in {g[i - 1]}}
    BY <2>4
  <2>6. g = [i \in 0..(n + 1) |-> g[i]]
    OBVIOUS
  <2> HIDE DEF g
  <2>7. \A i \in 0..(n + 1) :
          g[i] = IF i = 0 THEN rows ELSE UNION {Applied(ss[i], before) : before \in {g[i - 1]}}
    <3>1. \A i \in 0..(n + 1) : i = 0 \/ i \in 1..(n + 1)
      OBVIOUS
    <3>2. QED
      BY <2>3, <2>5, <3>1
  <2>9. Stages(g, n + 1, ss, rows)
    BY <2>6, <2>7, Zenon DEF Stages
  <2>10. QED
    BY <2>9
<1> HIDE DEF S
<1>3. Nat \subseteq S
  BY <1>1, <1>2, Induct
<1>4. QED
  BY <1>3 DEF S

\* AppliedAll is the last of the stages.
LEMMA AppliedAllStages ==
  ASSUME NEW ss, Len(ss) \in Nat, NEW rows
  PROVE  \E f : Stages(f, Len(ss), ss, rows) /\ AppliedAll(ss, rows) = f[Len(ss)]
<1>1. \E f : Stages(f, Len(ss), ss, rows)
  BY StagesExist
<1>2. QED
  BY <1>1 DEF Stages, AppliedAll

\* The first stages of two sequences that begin alike are the same.
LEMMA StagesAgree ==
  ASSUME NEW f, NEW g, NEW n \in Nat, NEW m \in Nat, n <= m, NEW ss, NEW tt, NEW rows,
         Stages(f, n, ss, rows), Stages(g, m, tt, rows),
         \A i \in 1..n : ss[i] = tt[i]
  PROVE  f[n] = g[n]
<1> DEFINE S == {i \in Nat : i <= n => f[i] = g[i]}
<1>1. /\ f[0] = rows /\ \A i \in 1..n : f[i] = Applied(ss[i], f[i - 1])
      /\ g[0] = rows /\ \A i \in 1..m : g[i] = Applied(tt[i], g[i - 1])
  BY StagesAre
<1>2. 0 \in S
  BY <1>1
<1>3. ASSUME NEW i \in S PROVE i + 1 \in S
  <2>1. ASSUME i + 1 <= n PROVE f[i + 1] = g[i + 1]
    <3>1. f[i] = g[i] /\ i + 1 \in 1..n /\ i + 1 \in 1..m /\ (i + 1) - 1 = i
      BY <2>1
    <3>2. f[i + 1] = Applied(ss[i + 1], f[i]) /\ g[i + 1] = Applied(tt[i + 1], g[i])
      BY <1>1, <3>1
    <3>3. QED
      BY <3>1, <3>2
  <2>2. QED
    BY <2>1
<1> HIDE DEF S
<1>4. Nat \subseteq S
  BY <1>2, <1>3, Induct
<1>5. QED
  BY <1>4 DEF S

\* No statement changes nothing.
LEMMA AppliedNone == \A rows : AppliedAll(<<>>, rows) = rows
<1> SUFFICES ASSUME NEW rows PROVE AppliedAll(<<>>, rows) = rows
  OBVIOUS
<1>1. Len(<<>>) = 0
  BY EmptySeq
<1>2. PICK f : Stages(f, 0, <<>>, rows) /\ AppliedAll(<<>>, rows) = f[0]
  BY <1>1, AppliedAllStages
<1>3. QED
  BY <1>2, StagesAre

\* One more statement acts on what those before it have left.
LEMMA AppliedAppend ==
  ASSUME NEW S, NEW ss \in Seq(S), NEW s \in S, NEW rows
  PROVE  AppliedAll(Append(ss, s), rows) = Applied(s, AppliedAll(ss, rows))
<1> DEFINE tt == Append(ss, s)
           n == Len(ss)
<1>1. /\ n \in Nat /\ Len(tt) = n + 1 /\ tt[n + 1] = s
      /\ \A i \in 1..n : ss[i] = tt[i]
  OBVIOUS
<1> HIDE DEF tt, n
<1>2. PICK f : Stages(f, n, ss, rows) /\ AppliedAll(ss, rows) = f[n]
  BY <1>1, AppliedAllStages DEF n
<1>3. PICK g : Stages(g, n + 1, tt, rows) /\ AppliedAll(tt, rows) = g[n + 1]
  BY <1>1, AppliedAllStages
<1>4. f[n] = g[n]
  <2>1. PICK m : m = n + 1
    OBVIOUS
  <2>2. n \in Nat /\ m \in Nat /\ n <= m
    BY <1>1, <2>1
  <2>3. Stages(f, n, ss, rows) /\ Stages(g, m, tt, rows)
    BY <1>2, <1>3, <2>1
  <2>4. \A i \in 1..n : ss[i] = tt[i]
    BY <1>1
  <2>5. QED
    BY <2>2, <2>3, <2>4, StagesAgree
<1>5. g[n + 1] = Applied(tt[n + 1], g[n])
  <2>1. n + 1 \in 1..(n + 1) /\ (n + 1) - 1 = n /\ n + 1 \in Nat
    BY <1>1
  <2>2. g[n + 1] = Applied(tt[n + 1], g[(n + 1) - 1])
    BY <1>3, <2>1, StagesAre
  <2>3. QED
    BY <2>1, <2>2
<1>6. QED
  BY <1>1, <1>2, <1>3, <1>4, <1>5 DEF tt
----------------------------------------------------------------------------
(* Outcome: the same for Perform *)

Turns(f, n, p, rows) ==
  f = [i \in 0..n |-> IF i = 0 THEN Started(rows)
                      ELSE CHOOSE st \in {Perform(before, p[i]) : before \in {f[i - 1]}} : TRUE]

\* The member of a set with one.
LEMMA TheOnly == \A x : (CHOOSE y \in {x} : TRUE) = x
  OBVIOUS

\* The states of a run, one by one.
LEMMA TurnsAre ==
  ASSUME NEW f, NEW n \in Nat, NEW p, NEW rows, Turns(f, n, p, rows)
  PROVE  /\ f[0] = Started(rows)
         /\ \A i \in 1..n : f[i] = Perform(f[i - 1], p[i])
<1>1. \A i \in 0..n :
        f[i] = IF i = 0 THEN Started(rows)
               ELSE CHOOSE st \in {Perform(before, p[i]) : before \in {f[i - 1]}} : TRUE
  BY DEF Turns
<1>2. ASSUME NEW i \in 1..n PROVE f[i] = Perform(f[i - 1], p[i])
  <2>1. f[i] = CHOOSE st \in {Perform(before, p[i]) : before \in {f[i - 1]}} : TRUE
    BY <1>1
  <2>2. {Perform(before, p[i]) : before \in {f[i - 1]}} = {Perform(f[i - 1], p[i])}
    OBVIOUS
  <2>3. QED
    BY <2>1, <2>2, TheOnly
<1>3. QED
  BY <1>1, <1>2

\* There is such a function for every number of statements.
LEMMA TurnsExist ==
  ASSUME NEW p, NEW rows
  PROVE  \A n \in Nat : \E f : Turns(f, n, p, rows)
<1> DEFINE S == {n \in Nat : \E f : Turns(f, n, p, rows)}
<1>1. 0 \in S
  <2> DEFINE f == [i \in 0..0 |-> Started(rows)]
  <2>1. Turns(f, 0, p, rows)
    BY DEF Turns
  <2>2. QED
    BY <2>1
<1>2. ASSUME NEW n \in S PROVE n + 1 \in S
  <2>1. PICK f : Turns(f, n, p, rows)
    OBVIOUS
  <2> DEFINE g == [i \in 0..(n + 1) |-> IF i = n + 1 THEN Perform(f[i - 1], p[i]) ELSE f[i]]
  <2>2. f[0] = Started(rows) /\ \A i \in 1..n : f[i] = Perform(f[i - 1], p[i])
    BY <2>1, TurnsAre
  <2>3. g[0] = Started(rows)
    BY <2>2
  <2>4. ASSUME NEW i \in 1..(n + 1)
        PROVE  g[i] = CHOOSE st \in {Perform(before, p[i]) : before \in {g[i - 1]}} : TRUE
    <3>1. g[i - 1] = f[i - 1]
      OBVIOUS
    <3>2. g[i] = Perform(g[i - 1], p[i])
      BY <2>2, <3>1
    <3> HIDE DEF g
    <3>3. {Perform(before, p[i]) : before \in {g[i - 1]}} = {Perform(g[i - 1], p[i])}
      OBVIOUS
    <3>4. QED
      BY <3>2, <3>3, TheOnly
  <2>5. g = [i \in 0..(n + 1) |-> g[i]]
    OBVIOUS
  <2> HIDE DEF g
  <2>6. \A i \in 0..(n + 1) :
          g[i] = IF i = 0 THEN Started(rows)
                 ELSE CHOOSE st \in {Perform(before, p[i]) : before \in {g[i - 1]}} : TRUE
    <3>1. \A i \in 0..(n + 1) : i = 0 \/ i \in 1..(n + 1)
      OBVIOUS
    <3>2. QED
      BY <2>3, <2>4, <3>1, Zenon
  <2>7. Turns(g, n + 1, p, rows)
    BY <2>5, <2>6, Zenon DEF Turns
  <2>8. QED
    BY <2>7
<1> HIDE DEF S
<1>3. Nat \subseteq S
  BY <1>1, <1>2, Induct
<1>4. QED
  BY <1>3 DEF S

\* Outcome is the last of the turns.
LEMMA OutcomeTurns ==
  ASSUME NEW p, Len(p) \in Nat, NEW rows
  PROVE  \E f : Turns(f, Len(p), p, rows) /\ Outcome(p, rows) = f[Len(p)]
<1>1. \E f : Turns(f, Len(p), p, rows)
  BY TurnsExist
<1>2. QED
  BY <1>1 DEF Turns, Outcome

\* Programs that begin alike run alike.
LEMMA TurnsAgree ==
  ASSUME NEW f, NEW g, NEW n \in Nat, NEW m \in Nat, n <= m, NEW p, NEW q, NEW rows,
         Turns(f, n, p, rows), Turns(g, m, q, rows),
         \A i \in 1..n : p[i] = q[i]
  PROVE  f[n] = g[n]
<1> DEFINE S == {i \in Nat : i <= n => f[i] = g[i]}
<1>1. /\ f[0] = Started(rows) /\ \A i \in 1..n : f[i] = Perform(f[i - 1], p[i])
      /\ g[0] = Started(rows) /\ \A i \in 1..m : g[i] = Perform(g[i - 1], q[i])
  BY TurnsAre
<1>2. 0 \in S
  BY <1>1
<1>3. ASSUME NEW i \in S PROVE i + 1 \in S
  <2>1. ASSUME i + 1 <= n PROVE f[i + 1] = g[i + 1]
    <3>1. f[i] = g[i] /\ i + 1 \in 1..n /\ i + 1 \in 1..m /\ (i + 1) - 1 = i
      BY <2>1
    <3>2. f[i + 1] = Perform(f[i], p[i + 1]) /\ g[i + 1] = Perform(g[i], q[i + 1])
      BY <1>1, <3>1
    <3>3. QED
      BY <3>1, <3>2
  <2>2. QED
    BY <2>1
<1> HIDE DEF S
<1>4. Nat \subseteq S
  BY <1>2, <1>3, Induct
<1>5. QED
  BY <1>4 DEF S

\* A program without statements leaves what it found.
LEMMA OutcomeNone == \A rows : Outcome(<<>>, rows) = Started(rows)
<1> SUFFICES ASSUME NEW rows PROVE Outcome(<<>>, rows) = Started(rows)
  OBVIOUS
<1>1. Len(<<>>) = 0
  BY EmptySeq
<1>2. PICK f : Turns(f, 0, <<>>, rows) /\ Outcome(<<>>, rows) = f[0]
  BY <1>1, OutcomeTurns
<1>3. QED
  BY <1>2, TurnsAre

\* One more statement acts on the outcome of those before it.
LEMMA OutcomeAppend ==
  ASSUME NEW S, NEW p \in Seq(S), NEW s \in S, NEW rows
  PROVE  Outcome(Append(p, s), rows) = Perform(Outcome(p, rows), s)
<1> DEFINE q == Append(p, s)
           n == Len(p)
<1>1. /\ n \in Nat /\ Len(q) = n + 1 /\ q[n + 1] = s
      /\ \A i \in 1..n : p[i] = q[i]
  OBVIOUS
<1> HIDE DEF q, n
<1>2. PICK f : Turns(f, n, p, rows) /\ Outcome(p, rows) = f[n]
  BY <1>1, OutcomeTurns DEF n
<1>3. PICK g : Turns(g, n + 1, q, rows) /\ Outcome(q, rows) = g[n + 1]
  BY <1>1, OutcomeTurns
<1>4. f[n] = g[n]
  <2>1. PICK m : m = n + 1
    OBVIOUS
  <2>2. n \in Nat /\ m \in Nat /\ n <= m
    BY <1>1, <2>1
  <2>3. Turns(f, n, p, rows) /\ Turns(g, m, q, rows)
    BY <1>2, <1>3, <2>1
  <2>4. \A i \in 1..n : p[i] = q[i]
    BY <1>1
  <2>5. QED
    BY <2>2, <2>3, <2>4, TurnsAgree
<1>5. g[n + 1] = Perform(g[n], q[n + 1])
  <2>1. n + 1 \in 1..(n + 1) /\ (n + 1) - 1 = n /\ n + 1 \in Nat
    BY <1>1
  <2>2. g[n + 1] = Perform(g[(n + 1) - 1], q[n + 1])
    BY <1>3, <2>1, TurnsAre
  <2>3. QED
    BY <2>1, <2>2
<1>6. QED
  BY <1>1, <1>2, <1>3, <1>4, <1>5 DEF q
----------------------------------------------------------------------------
(* Rows and statements *)

LEMMA AppliedRows ==
  ASSUME NEW s \in Statements, NEW rows, rows \subseteq Row
  PROVE  Applied(s, rows) \subseteq Row
<1>1. <<s.t, s.a, s.b>> \in Row
  BY DEF Statements, Row
<1>2. QED
  BY <1>1 DEF Applied

\* Rows stay rows under any statements.
LEMMA AppliedAllRows ==
  ASSUME NEW rows, rows \subseteq Row
  PROVE  \A ss \in Seq(Statements) : AppliedAll(ss, rows) \subseteq Row
<1> DEFINE S == {n \in Nat : \A ss \in Seq(Statements) :
                               Len(ss) = n => AppliedAll(ss, rows) \subseteq Row}
<1>1. 0 \in S
  <2>1. ASSUME NEW ss \in Seq(Statements), Len(ss) = 0 PROVE AppliedAll(ss, rows) \subseteq Row
    <3>1. ss = <<>>
      BY <2>1, EmptySeq
    <3>2. QED
      BY <3>1, AppliedNone
  <2>2. QED
    BY <2>1
<1>2. ASSUME NEW n \in S PROVE n + 1 \in S
  <2>1. ASSUME NEW ss \in Seq(Statements), Len(ss) = n + 1
        PROVE  AppliedAll(ss, rows) \subseteq Row
    <3> DEFINE tt == SubSeq(ss, 1, n)
               s == ss[n + 1]
    <3>1. n \in Nat /\ n + 1 \in 1..Len(ss) /\ s \in Statements
      BY <2>1
    <3>2. tt \in Seq(Statements) /\ Len(tt) = n /\ ss = Append(tt, s)
      BY <2>1, <3>1
    <3>3. AppliedAll(tt, rows) \subseteq Row
      BY <3>2
    <3> HIDE DEF tt, s
    <3>4. AppliedAll(ss, rows) = Applied(s, AppliedAll(tt, rows))
      BY <3>1, <3>2, AppliedAppend
    <3>5. QED
      BY <3>1, <3>3, <3>4, AppliedRows
  <2>2. QED
    BY <2>1
<1> HIDE DEF S
<1>3. Nat \subseteq S
  BY <1>1, <1>2, Induct
<1>4. ASSUME NEW ss \in Seq(Statements) PROVE AppliedAll(ss, rows) \subseteq Row
  <2>1. Len(ss) \in S
    BY <1>3
  <2>2. QED
    BY <2>1 DEF S
<1>5. QED
  BY <1>4

\* What a handler reads as a key is a number, row or not.
LEMMA KeyIsInt ==
  ASSUME NEW s, NEW rows, rows \subseteq Row
  PROVE  KeyFound(s, rows) \in Int
<1>1. CASE Cardinality(Touched(s, rows)) = 1
  <2> DEFINE x == CHOOSE x \in Touched(s, rows) : TRUE
  <2>1. Touched(s, rows) # {}
    BY <1>1, FS_EmptySet
  <2>2. x \in rows
    BY <2>1 DEF Touched
  <2>3. x[2] \in Int
    BY <2>2 DEF Row
  <2>4. QED
    BY <1>1, <2>3 DEF KeyFound
<1>2. CASE Cardinality(Touched(s, rows)) # 1
  BY <1>2 DEF KeyFound
<1>3. QED
  BY <1>1, <1>2

\* A statement with the key that was read is a statement.
LEMMA BoundIsStatement ==
  ASSUME NEW s \in Statements, NEW id \in Int
  PROVE  Bound(s, id) \in Statements
  BY DEF Bound, Statements
----------------------------------------------------------------------------
(* The types of Switch.  n is the length of the log: a snapshot is of a     *)
(* committed state, and a broken connection holds nothing.                  *)

Held(x, n) ==
  /\ x.id \in Int
  /\ x.snap \in 0..n
  /\ x.mine \in Seq(Changes)
  /\ ~x.link => x.mine = <<>> /\ x.snap = 0

Codes == {Garbage, 0, 200, 401, 500}

Types ==
  /\ \A w \in Worker : Held(work[w], Len(log))
  /\ Len(log) >= 1
  /\ \A k \in DOMAIN log : log[k].rows \subseteq Row
  /\ since \in [Req -> Nat] /\ \A r \in Req : since[r] <= Len(log)
  /\ \A r \in Req : answer[r].code \in Codes
  /\ faults \in 0..MaxFaults

\* What a step of worker w does that leaves it with record y.
Moves(w, y) ==
  /\ work' = [work EXCEPT ![w] = y] /\ Held(y, Len(log'))
  /\ log' = log \/ \E e : e.rows \subseteq Row /\ log' = Append(log, e)
  /\ \/ answer' = answer
     \/ Busy(w) /\ \E a : a.code \in Codes /\ answer' = [answer EXCEPT ![work[w].req] = a]

\* The committed databases are numbered from one.
LEMMA LogIsSeq ==
  ASSUME IInv
  PROVE  /\ Len(log) \in Nat /\ DOMAIN log = 1..Len(log) /\ IsSeq(log)
         /\ \A e : /\ Len(Append(log, e)) = Len(log) + 1
                   /\ DOMAIN Append(log, e) = 1..(Len(log) + 1)
                   /\ \A i \in 1..Len(log) : Append(log, e)[i] = log[i]
                   /\ Append(log, e)[Len(log) + 1] = e
<1>1. PICK S : log \in Seq(S)
  BY DEF IInv, History, IsSeq
<1>2. ASSUME NEW e
      PROVE  /\ Len(Append(log, e)) = Len(log) + 1
             /\ DOMAIN Append(log, e) = 1..(Len(log) + 1)
             /\ \A i \in 1..Len(log) : Append(log, e)[i] = log[i]
             /\ Append(log, e)[Len(log) + 1] = e
  <2> DEFINE T == S \cup {e}
  <2>1. log \in Seq(T) /\ e \in T
    BY <1>1
  <2>2. QED
    BY <2>1
<1>3. QED
  BY <1>1, <1>2 DEF IsSeq

\* A worker's snapshot stays one when more is committed.
LEMMA HeldLonger ==
  ASSUME NEW x, NEW n \in Nat, NEW m \in Nat, n <= m, Held(x, n)
  PROVE  Held(x, m)
  BY DEF Held

\* A step in which one worker moves keeps the types.
LEMMA MovesKeeps ==
  ASSUME IInv, AInv, Types, NEW w \in Worker, NEW y, Moves(w, y),
         since' = since, faults' \in 0..MaxFaults
  PROVE  Types'
<1>1. Len(log) \in Nat /\ Len(log') \in Nat /\ Len(log) <= Len(log')
  <2>1. CASE log' = log
    BY <2>1, LogIsSeq
  <2>2. CASE log' # log
    <3>1. PICK e : log' = Append(log, e)
      BY <2>2 DEF Moves
    <3>2. Len(log') = Len(log) + 1
      BY <3>1, LogIsSeq
    <3>3. QED
      BY <3>2, LogIsSeq
  <2>3. QED
    BY <2>1, <2>2
<1>2. \A v \in Worker : Held(work'[v], Len(log'))
  <2>1. ASSUME NEW v \in Worker PROVE Held(work'[v], Len(log'))
    <3>1. work'[v] = y \/ work'[v] = work[v]
      BY DEF Moves, IInv, Workers
    <3>2. Held(work[v], Len(log'))
      BY <1>1, HeldLonger DEF Types
    <3>3. QED
      BY <3>1, <3>2 DEF Moves
  <2>2. QED
    BY <2>1
<1>3. \A k \in DOMAIN log' : log'[k].rows \subseteq Row
  <2>1. CASE log' = log
    BY <2>1 DEF Types
  <2>2. CASE log' # log
    <3>1. PICK e : e.rows \subseteq Row /\ log' = Append(log, e)
      BY <2>2 DEF Moves
    <3>2. /\ DOMAIN log = 1..Len(log) /\ DOMAIN log' = 1..(Len(log) + 1)
          /\ \A i \in 1..Len(log) : log'[i] = log[i]
          /\ log'[Len(log) + 1] = e
      BY <3>1, LogIsSeq
    <3>3. \A k \in DOMAIN log' : k \in DOMAIN log \/ k = Len(log) + 1
      BY <1>1, <3>2
    <3>4. QED
      BY <3>1, <3>2, <3>3 DEF Types
  <2>3. QED
    BY <2>1, <2>2
<1>4. \A r \in Req : answer'[r].code \in Codes
  <2>1. DOMAIN answer = Req
    BY DEF AInv, Unanswered
  <2>2. CASE answer' = answer
    BY <2>2 DEF Types
  <2>3. CASE answer' # answer
    <3>1. PICK a : a.code \in Codes /\ answer' = [answer EXCEPT ![work[w].req] = a]
      BY <2>3 DEF Moves
    <3>2. \A r \in Req : answer'[r] = a \/ answer'[r] = answer[r]
      BY <2>1, <3>1
    <3>3. QED
      BY <3>1, <3>2 DEF Types
  <2>4. QED
    BY <2>2, <2>3
<1>5. since' \in [Req -> Nat] /\ \A r \in Req : since'[r] <= Len(log')
  BY <1>1 DEF Types
<1>6. Len(log') >= 1
  BY <1>1 DEF Types
<1>7. QED
  BY <1>2, <1>3, <1>4, <1>5, <1>6 DEF Types

\* A worker that is done.
LEMMA ReturnHeld ==
  ASSUME NEW x, NEW n \in Nat, Held(x, n)
  PROVE  Held(Return(x), n)
  BY DEF Held, Return, Waiting

\* A worker at its next statement.
LEMMA FurtherHeld ==
  ASSUME NEW x, Shape(x), NEW n \in Nat, Held(x, n)
  PROVE  Held(Further(x), n)
<1>1. LET y == Further(x) IN
      y.id = x.id /\ y.snap = x.snap /\ y.mine = x.mine /\ y.link = x.link
  BY DEF Shape, Fields, Further
<1>2. QED
  BY <1>1 DEF Held

\* A worker that has opened a snapshot.
LEMMA OpenedHeld ==
  ASSUME IInv, Types, NEW w \in Worker, work[w].link, NEW s
  PROVE  Held(Opened(w, s), Len(log))
<1>1. Shape(work[w]) /\ Held(work[w], Len(log)) /\ Len(log) \in Nat
  BY LogIsSeq DEF IInv, Workers, Sound, Types
<1>2. Snapshot(w) \in 0..Len(log)
  BY <1>1 DEF Snapshot, Held
<1>3. LET y == [work[w] EXCEPT !.snap = Snapshot(w)] IN
      y.id = work[w].id /\ y.snap = Snapshot(w) /\ y.mine = work[w].mine /\ y.link = work[w].link
  <2> DEFINE n == Snapshot(w)
             x == work[w]
  <2> HIDE DEF n
  <2>1. QED
    BY <1>1 DEF Shape, Fields
<1>4. Held([work[w] EXCEPT !.snap = Snapshot(w)], Len(log))
  BY <1>1, <1>2, <1>3 DEF Held
<1>5. QED
  BY <1>1, <1>4 DEF Opened

\* A worker whose transaction was rolled back.
LEMMA DroppedHeld ==
  ASSUME NEW x, Shape(x), NEW n \in Nat, Held(x, n)
  PROVE  Held([x EXCEPT !.mine = <<>>, !.snap = 0], n)
<1>1. <<>> \in Seq(Changes)
  BY EmptySeq
<1>2. LET y == [x EXCEPT !.mine = <<>>, !.snap = 0] IN
      y.id = x.id /\ y.snap = 0 /\ y.mine = <<>> /\ y.link = x.link
  BY DEF Shape, Fields
<1>3. QED
  BY <1>1, <1>2 DEF Held

\* What a worker can see are rows.
LEMMA ViewIsRows ==
  ASSUME IInv, Types, NEW w \in Worker
  PROVE  /\ Pending(w) \in Seq(Statements) /\ Snapshot(w) \in DOMAIN log
         /\ View(w) \subseteq Row /\ Latest(w) \subseteq Row /\ Current \subseteq Row
<1>1. Len(log) \in Nat /\ Len(log) >= 1 /\ DOMAIN log = 1..Len(log)
  BY LogIsSeq DEF Types
<1>2. Held(work[w], Len(log))
  BY DEF Types
<1>3. Pending(w) \in Seq(Statements)
  <2>1. work[w].mine \in Seq(Changes)
    BY <1>2 DEF Held
  <2>2. \A c \in Changes : c.stmt \in Statements
    BY DEF Changes
  <2>3. \A i \in DOMAIN work[w].mine : work[w].mine[i].stmt \in Statements
    BY <2>1, <2>2
  <2>4. QED
    BY <2>1, <2>3 DEF Pending
<1>4. Snapshot(w) \in DOMAIN log
  BY <1>1, <1>2 DEF Snapshot, Held
<1>5. log[Snapshot(w)].rows \subseteq Row /\ log[Len(log)].rows \subseteq Row
  BY <1>1, <1>4 DEF Types
<1>6. QED
  BY <1>3, <1>4, <1>5, AppliedAllRows DEF View, Latest, Current
----------------------------------------------------------------------------
(* The steps of a worker keep the types *)

LEMMA StmtTyped ==
  ASSUME IInv, AInv, Types, NEW w \in Worker, Busy(w)
  PROVE  /\ Stmt(w) \in Statements /\ Change(w, Stmt(w)) \in Changes
         /\ Shape(work[w]) /\ Held(work[w], Len(log)) /\ Len(log) \in Nat
<1> DEFINE s == prog[work[w].req][work[w].at]
<1>1. /\ work[w].req \in Req /\ work[w].at \in Nat /\ s \in Statements /\ Shape(work[w])
  BY Here
<1>2. Held(work[w], Len(log)) /\ Len(log) \in Nat
  BY LogIsSeq DEF Types
<1>3. Stmt(w) \in Statements
  BY <1>1, <1>2, BoundIsStatement DEF Stmt, Held
<1>4. Change(w, Stmt(w)) \in Changes
  BY <1>1, <1>3 DEF Change, Changes
<1>5. QED
  BY <1>1, <1>2, <1>3, <1>4

\* A worker that was just started.
LEMMA BornHeld == ASSUME IInv, Types PROVE Held(Born(Len(log)), Len(log))
<1>1. Len(log) \in Nat
  BY LogIsSeq
<1>2. <<>> \in Seq(Changes)
  BY EmptySeq
<1>3. QED
  BY <1>1, <1>2 DEF Born, Waiting, Held

\* What a handler does about an error of its call.
LEMMA OnErrorMoves ==
  ASSUME IInv, AInv, Types, NEW w \in Worker, Busy(w),
         NEW x, Shape(x), Held(x, Len(log)), OnError(w, Stmt(w), x)
  PROVE  \E y : Moves(w, y)
<1>1. log' = log /\ Len(log) \in Nat
  BY LogIsSeq DEF OnError
<1>2. CASE /\ work' = [work EXCEPT ![w] = Return(x)]
           /\ \/ answer' = answer \/ \E n \in {200, 500, Garbage} : answer' = Answered(w, n)
  <2>1. \/ answer' = answer
        \/ \E a : a.code \in Codes /\ answer' = [answer EXCEPT ![work[w].req] = a]
    <3>1. \A c : [code |-> c, saw |-> work[w].saw].code = c
      OBVIOUS
    <3>2. QED
      BY <1>2, <3>1 DEF Answered, Codes
  <2>2. Held(Return(x), Len(log))
    BY <1>1, ReturnHeld
  <2>3. QED
    BY <1>1, <1>2, <2>1, <2>2 DEF Moves
<1>3. CASE work' = [work EXCEPT ![w] = Born(Len(log))] /\ answer' = answer
  BY <1>1, <1>3, BornHeld DEF Moves
<1>4. CASE work' = [work EXCEPT ![w] = Further(x)] /\ answer' = answer
  <2>1. Held(Further(x), Len(log))
    BY <1>1, FurtherHeld
  <2>2. QED
    BY <1>1, <1>4, <2>1 DEF Moves
<1>5. QED
  BY <1>2, <1>3, <1>4 DEF OnError, Stray

\* A query.
LEMMA ReadMoves ==
  ASSUME IInv, AInv, Types, NEW w \in Worker, Busy(w), work[w].link, Read(w, Stmt(w))
  PROVE  \E y : Moves(w, y)
<1> DEFINE s == Stmt(w)
           o == Opened(w, s)
           y == Further(o)
           i == KeyFound(s, View(w))
<1>1. Shape(y) /\ Held(y, Len(log)) /\ Len(log) \in Nat
  <2>1. Shape(work[w]) /\ Len(log) \in Nat
    BY StmtTyped
  <2>2. Shape(o) /\ Held(o, Len(log))
    BY <2>1, OpenedFields, OpenedHeld
  <2> HIDE DEF o
  <2>3. QED
    BY <2>1, <2>2, FurtherFields, FurtherHeld
<1>2. i \in Int
  BY ViewIsRows, KeyIsInt
<1>3. \/ work' = [work EXCEPT ![w] = [y EXCEPT !.id = i]]
      \/ \E v : work' = [work EXCEPT ![w] = [y EXCEPT !.saw = v]]
  BY DEF Read
<1>4. log' = log /\ answer' = answer
  BY DEF Read
<1> HIDE DEF y, i
<1>5. Held([y EXCEPT !.id = i], Len(log))
  <2>1. LET z == [y EXCEPT !.id = i] IN
        z.id = i /\ z.snap = y.snap /\ z.mine = y.mine /\ z.link = y.link
    BY <1>1 DEF Shape, Fields
  <2>2. QED
    BY <1>1, <1>2, <2>1 DEF Held
<1>6. ASSUME NEW v PROVE Held([y EXCEPT !.saw = v], Len(log))
  <2>1. LET z == [y EXCEPT !.saw = v] IN
        z.id = y.id /\ z.snap = y.snap /\ z.mine = y.mine /\ z.link = y.link
    BY <1>1 DEF Shape, Fields
  <2>2. QED
    BY <1>1, <2>1 DEF Held
<1>7. QED
  BY <1>3, <1>4, <1>5, <1>6 DEF Moves

\* A change.
LEMMA WriteMoves ==
  ASSUME IInv, AInv, Types, NEW w \in Worker, Busy(w), work[w].link, Write(w, Stmt(w))
  PROVE  \E y : Moves(w, y)
<1> DEFINE t == Append(work[w].mine, Change(w, Stmt(w)))
           x == Further(work[w])
           y == [x EXCEPT !.mine = t]
<1>1. /\ Shape(work[w]) /\ Held(work[w], Len(log)) /\ Len(log) \in Nat
      /\ Change(w, Stmt(w)) \in Changes
  BY StmtTyped
<1>2. t \in Seq(Changes)
  BY <1>1 DEF Held
<1>3. Shape(x) /\ Held(x, Len(log)) /\ x.link = work[w].link
  BY <1>1, FurtherFields, FurtherHeld
<1>4. work' = [work EXCEPT ![w] = y] /\ log' = log /\ answer' = answer
  BY DEF Write
<1> HIDE DEF t, x
<1>5. y.id = x.id /\ y.snap = x.snap /\ y.mine = t /\ y.link = x.link
  BY <1>3 DEF Shape, Fields
<1>6. Held(y, Len(log))
  BY <1>2, <1>3, <1>5 DEF Held
<1> HIDE DEF y
<1>7. QED
  BY <1>4, <1>6 DEF Moves

\* A commit, if there is something to commit or not.
LEMMA CommitMoves ==
  ASSUME IInv, AInv, Types, NEW w \in Worker, Busy(w),
         NEW ch \in Seq(Changes), log' = Logged(ch), answer' = answer,
         work' = [work EXCEPT ![w] = [Further(work[w]) EXCEPT !.mine = <<>>, !.snap = 0]]
  PROVE  \E y : Moves(w, y)
<1> DEFINE x == Further(work[w])
           y == [x EXCEPT !.mine = <<>>, !.snap = 0]
           ss == [i \in DOMAIN ch |-> ch[i].stmt]
<1>1. Shape(work[w]) /\ Held(work[w], Len(log)) /\ Len(log) \in Nat
  BY StmtTyped
<1>2. Shape(x) /\ Held(x, Len(log))
  BY <1>1, FurtherFields, FurtherHeld
<1> HIDE DEF x
<1>3. Held(y, Len(log))
  BY <1>1, <1>2, DroppedHeld
<1>4. ss \in Seq(Statements)
  <2>1. \A c \in Changes : c.stmt \in Statements
    BY DEF Changes
  <2>2. QED
    BY <2>1
<1>5. Entry(ch).rows \subseteq Row
  <2>1. AppliedAll(ss, Current) \subseteq Row
    BY <1>4, ViewIsRows, AppliedAllRows
  <2>2. QED
    BY <2>1 DEF Entry
<1>6. log' = log \/ log' = Append(log, Entry(ch))
  BY DEF Logged
<1>7. Held(y, Len(log'))
  <2>1. Len(log') \in Nat /\ Len(log) <= Len(log')
    BY <1>1, <1>6, LogIsSeq
  <2> HIDE DEF y
  <2>2. QED
    BY <1>1, <1>3, <2>1, HeldLonger
<1>8. work' = [work EXCEPT ![w] = y]
  BY DEF x
<1> HIDE DEF y
<1>9. QED
  BY <1>5, <1>6, <1>7, <1>8 DEF Moves

\* Every statement is a move of one worker.
LEMMA StepMoves ==
  ASSUME IInv, AInv, Types, NEW w \in Worker, Step(w)
  PROVE  \E y : Moves(w, y)
<1> DEFINE s == Stmt(w)
<1>1. /\ Busy(w) /\ Shape(work[w]) /\ Held(work[w], Len(log)) /\ Len(log) \in Nat
      /\ Change(w, s) \in Changes
  BY StmtTyped DEF Step
<1>2. CASE Reply1(w, s) \/ StaySilent(w, s) \/ GoStray(w, s)
  <2>1. log' = log
    BY <1>2 DEF Reply1, StaySilent, GoStray
  <2>2. CASE work' = [work EXCEPT ![w] = Return(work[w])] /\ answer' = answer
    BY <1>1, <2>1, <2>2, ReturnHeld DEF Moves
  <2>3. CASE /\ work' = [work EXCEPT ![w] = Return(work[w])]
             /\ \E c \in Codes : answer' = Answered(w, c)
    <3>1. \A c : [code |-> c, saw |-> work[w].saw].code = c
      OBVIOUS
    <3>2. \E a : a.code \in Codes /\ answer' = [answer EXCEPT ![work[w].req] = a]
      BY <2>3, <3>1 DEF Answered
    <3>3. Held(Return(work[w]), Len(log))
      BY <1>1, ReturnHeld
    <3>4. QED
      BY <1>1, <2>1, <2>3, <3>2, <3>3 DEF Moves
  <2>4. CASE work' = [work EXCEPT ![w] = Born(Len(log))] /\ answer' = answer
    BY <2>1, <2>4, BornHeld DEF Moves
  <2>5. Reply1(w, s) => s.a \in Codes
    BY <1>1, Here DEF Reply1, Codes
  <2>6. Garbage \in Codes
    BY DEF Codes
  <2>7. QED
    BY <1>2, <2>2, <2>3, <2>4, <2>5, <2>6 DEF Reply1, StaySilent, GoStray, Stray
<1>3. CASE Unsent(w, s) \/ LockTimeout(w, s)
  <2>1. OnError(w, s, work[w])
    BY <1>3 DEF Unsent, LockTimeout
  <2>2. QED
    BY <1>1, <2>1, OnErrorMoves
<1>4. CASE Execute(w, s)
  <2>1. work[w].link
    BY <1>4 DEF Execute
  <2>2. CASE OnError(w, s, Opened(w, s))
    <3>1. Shape(Opened(w, s)) /\ Held(Opened(w, s), Len(log))
      BY <1>1, <2>1, OpenedFields, OpenedHeld
    <3>2. QED
      BY <1>1, <2>2, <3>1, OnErrorMoves
  <2>3. CASE Read(w, s)
    BY <1>1, <2>1, <2>3, ReadMoves
  <2>4. CASE Write(w, s)
    BY <1>1, <2>1, <2>4, WriteMoves
  <2>5. CASE TruncateTable(w, s)
    <3>1. Append(work[w].mine, Change(w, s)) \in Seq(Changes)
      BY <1>1 DEF Held
    <3>2. QED
      BY <1>1, <2>5, <3>1, CommitMoves DEF TruncateTable
  <2>6. QED
    BY <1>4, <2>2, <2>3, <2>4, <2>5 DEF Execute
<1>5. CASE Commit1(w, s)
  <2>1. work[w].mine \in Seq(Changes)
    BY <1>1 DEF Held
  <2>2. QED
    BY <1>1, <1>5, <2>1, CommitMoves DEF Commit1
<1>6. QED
  BY <1>2, <1>3, <1>4, <1>5 DEF Step

\* So is every failure.
LEMMA FailureMoves ==
  ASSUME IInv, AInv, Types, NEW w \in Worker,
         LinkLost(w) \/ Victim(w) \/ StatementFails(w) \/ Dies(w)
  PROVE  \E y : Moves(w, y)
<1> DEFINE d == Dropped(w)
<1>1. Shape(work[w]) /\ Held(work[w], Len(log)) /\ Len(log) \in Nat
  BY LogIsSeq DEF IInv, Workers, Sound, Types
<1>2. Shape(d) /\ Held(d, Len(log)) /\ d.mine = <<>> /\ d.snap = 0
  <2>1. d.snap = 0
    BY <1>1 DEF Dropped, Shape, Fields
  <2>2. QED
    BY <1>1, <2>1, DroppedFields, DroppedHeld DEF Dropped
<1>3. CASE LinkLost(w)
  <2> DEFINE y == [d EXCEPT !.link = FALSE]
  <2>1. work' = [work EXCEPT ![w] = y] /\ log' = log /\ answer' = answer
    BY <1>3 DEF LinkLost
  <2> HIDE DEF d
  <2>2. y.id = d.id /\ y.snap = d.snap /\ y.mine = d.mine
    BY <1>2 DEF Shape, Fields
  <2>3. Held(y, Len(log))
    BY <1>2, <2>2 DEF Held
  <2> HIDE DEF y
  <2>4. QED
    BY <2>1, <2>3 DEF Moves
<1>4. CASE Victim(w)
  <2>1. Busy(w) /\ OnError(w, Stmt(w), d)
    BY <1>4 DEF Victim
  <2> HIDE DEF d
  <2>2. QED
    BY <1>2, <2>1, OnErrorMoves
<1>5. CASE StatementFails(w)
  <2>1. Busy(w) /\ work[w].link /\ OnError(w, Stmt(w), Opened(w, Stmt(w)))
    BY <1>5 DEF StatementFails
  <2>2. Shape(Opened(w, Stmt(w))) /\ Held(Opened(w, Stmt(w)), Len(log))
    BY <1>1, <2>1, OpenedFields, OpenedHeld
  <2>3. QED
    BY <2>1, <2>2, OnErrorMoves
<1>6. CASE Dies(w)
  BY <1>6, BornHeld DEF Dies, Moves
<1>7. QED
  BY <1>3, <1>4, <1>5, <1>6

\* Every step keeps the types.
LEMMA TypesNext ==
  ASSUME IInv, AInv, Types, [Next]_vars
  PROVE  Types'
<1>1. ASSUME NEW r \in Req, Arrive(r) PROVE Types'
  <2>1. /\ work' = work /\ log' = log /\ answer' = answer /\ faults' = faults
        /\ since' = [since EXCEPT ![r] = Len(log)]
    BY <1>1 DEF Arrive
  <2>2. Len(log) \in Nat
    BY LogIsSeq
  <2>3. since' \in [Req -> Nat] /\ \A q \in Req : since'[q] <= Len(log)
    BY <2>1, <2>2 DEF Types
  <2>4. QED
    BY <2>1, <2>3 DEF Types
<1>2. ASSUME NEW w \in Worker, Take(w) PROVE Types'
  <2> DEFINE r == Head(inbox)
             y == [work[w] EXCEPT !.req = r, !.at = 1, !.link = TRUE]
  <2>1. /\ Shape(work[w]) /\ Held(work[w], Len(log))
        /\ log' = log /\ answer' = answer /\ since' = since /\ faults' = faults
        /\ DOMAIN work = Worker
    BY <1>2 DEF Take, IInv, Workers, Sound, Types
  <2>2. work' = [work EXCEPT ![w] = y]
    BY <1>2, <2>1 DEF Take
  <2> HIDE DEF r
  <2>3. y.id = work[w].id /\ y.snap = work[w].snap /\ y.mine = work[w].mine /\ y.link = TRUE
    BY <2>1 DEF Shape, Fields
  <2>4. Held(y, Len(log))
    BY <2>1, <2>3 DEF Held
  <2> HIDE DEF y
  <2>5. Moves(w, y)
    BY <2>1, <2>2, <2>4 DEF Moves
  <2>6. QED
    BY <2>1, <2>5, MovesKeeps DEF Types
<1>3. ASSUME NEW w \in Worker, Step(w) PROVE Types'
  <2>1. since' = since /\ faults' \in 0..MaxFaults
    BY <1>3 DEF Step, Types
  <2>2. QED
    BY <1>3, <2>1, StepMoves, MovesKeeps
<1>4. ASSUME NEW w \in Worker, LinkLost(w) \/ Victim(w) \/ StatementFails(w) \/ Dies(w)
      PROVE  Types'
  <2>1. since' = since /\ faults' \in 0..MaxFaults
    BY <1>4, SwitchAssumption DEF LinkLost, Victim, StatementFails, Dies, Fault, Types
  <2>2. QED
    BY <1>4, <2>1, FailureMoves, MovesKeeps
<1>5. CASE UNCHANGED vars
  BY <1>5 DEF vars, Types
<1>6. QED
  BY <1>1, <1>2, <1>3, <1>4, <1>5 DEF Next, Serve

\* The types hold at the start.
LEMMA TypesInit == Init => Types
<1> SUFFICES ASSUME Init PROVE Types
  OBVIOUS
<1> DEFINE e == [by |-> {}, rows |-> InitRows]
<1>1. log = <<e>> /\ e.rows \subseteq Row
  BY SwitchAssumption DEF Init
<1> HIDE DEF e
<1>2. Len(log) = 1 /\ DOMAIN log = {1} /\ log[1] = e
  BY <1>1
<1>3. <<>> \in Seq(Changes)
  BY EmptySeq
<1>4. \A w \in Worker : Held(work[w], Len(log))
  <2>1. Held(Born(1), 1)
    BY <1>3 DEF Born, Waiting, Held
  <2>2. QED
    BY <1>2, <2>1 DEF Init
<1>5. since \in [Req -> Nat] /\ \A r \in Req : since[r] <= Len(log)
  BY <1>2 DEF Init
<1>6. \A r \in Req : answer[r].code \in Codes
  BY DEF Init, NoAnswer, Codes
<1>7. faults \in 0..MaxFaults
  BY SwitchAssumption DEF Init
<1>8. QED
  BY <1>1, <1>2, <1>4, <1>5, <1>6, <1>7 DEF Types

\* The invariants of SwitchProofs and the types hold always.
LEMMA AlwaysTyped == ASSUME Settling PROVE Spec => [](IInv /\ AInv /\ Types)
<1>1. Init => IInv /\ AInv /\ Types
  BY InitIInv, InitAcked, TypesInit
<1>2. IInv /\ AInv /\ Types /\ [Next]_vars => IInv' /\ AInv' /\ Types'
  BY NextIInv, NextAcked, TypesNext
<1>3. QED
  BY <1>1, <1>2, PTL DEF Spec

\* For any workers, requests and settled programs and any failures: a worker is
\* at a statement of its request's program, a request belongs to one worker, a
\* broken connection holds nothing, and keys that a handler has read are
\* numbers also when no row or a changed one was found.
THEOREM SwitchTyped == ASSUME Settling PROVE Spec => []TypeOK
<1>1. IInv /\ AInv /\ Types => TypeOK
  <2> SUFFICES ASSUME IInv, AInv, Types PROVE TypeOK
    OBVIOUS
  <2>1. ASSUME NEW w \in Worker
        PROVE  /\ work[w].req \in Req \cup {None}
               /\ Busy(w) => work[w].at \in DOMAIN prog[work[w].req]
               /\ work[w].snap \in 0..Len(log)
               /\ \A i \in DOMAIN work[w].mine : work[w].mine[i] \in Changes
               /\ ~work[w].link => work[w].mine = <<>> /\ work[w].snap = 0
    <3>1. work[w].req \in Req \cup {None}
      BY DEF IInv, Workers, Sound, Ready
    <3>2. Busy(w) => work[w].at \in DOMAIN prog[work[w].req]
      BY DEF AInv, Working, Placed, Busy
    <3>3. Held(work[w], Len(log))
      BY DEF Types
    <3>4. \A i \in DOMAIN work[w].mine : work[w].mine[i] \in Changes
      <4>1. work[w].mine \in Seq(Changes)
        BY <3>3 DEF Held
      <4>2. QED
        BY <4>1
    <3>5. QED
      BY <3>1, <3>2, <3>3, <3>4 DEF Held
  <2>2. \A v, w \in Worker : Busy(v) /\ work[v].req = work[w].req => v = w
    BY DEF AInv, Owned
  <2>3. \A r \in Req : answer[r].code \in {Garbage, 0, 200, 401, 500} /\ since[r] \in 0..Len(log)
    BY LogIsSeq DEF Types, Codes
  <2>4. faults \in 0..MaxFaults
    BY DEF Types
  <2>5. QED
    BY <2>1, <2>2, <2>3, <2>4 DEF TypeOK
<1>2. Spec => [](IInv /\ AInv /\ Types)
  BY AlwaysTyped
<1>3. QED
  BY <1>1, <1>2, PTL
----------------------------------------------------------------------------
(* What a statement does to the outcome *)

IsOutcome(o) == DOMAIN o = {"rows", "id", "saw", "wrote", "code", "over"}

\* A statement in error leaves the rows, and ends the run unless it goes on.
LEMMA GaveUpIs ==
  ASSUME NEW o, IsOutcome(o), NEW s
  PROVE  LET q == GaveUp(o, s) IN
    /\ IsOutcome(q) /\ q.rows = o.rows /\ q.wrote = o.wrote /\ q.saw = o.saw /\ q.id = o.id
    /\ GoesOn(s) => q = o
    /\ s.onerr \in {"refuse", "echo", "abort", "stray"} => q.over
    /\ s.onerr = "refuse" => q.code = 500
    /\ s.onerr = "echo" => q.code = 200
<1>1. CASE s.onerr = "refuse"
  BY ZenonT(60), <1>1 DEF GaveUp, IsOutcome, GoesOn
<1>5. CASE s.onerr = "echo"
  BY ZenonT(60), <1>5 DEF GaveUp, IsOutcome, GoesOn
<1>2. CASE s.onerr \in {"abort", "stray"}
  BY <1>2 DEF GaveUp, IsOutcome, GoesOn
<1>3. CASE s.onerr \notin {"refuse", "echo", "abort", "stray"}
  BY <1>3 DEF GaveUp, IsOutcome
<1>4. QED
  BY <1>1, <1>2, <1>3, <1>5

\* A reply ends the run.
LEMMA DoneReply ==
  ASSUME NEW o, IsOutcome(o), NEW s, NEW b, s.op \in {"reply", "silent", "undefined"}
  PROVE  LET q == Done(o, s, b) IN
    /\ IsOutcome(q) /\ q.rows = o.rows /\ q.wrote = o.wrote /\ q.saw = o.saw /\ q.id = o.id
    /\ q.over
    /\ s.op = "reply" => q.code = s.a
<1>1. CASE s.op = "reply"
  <2>1. Done(o, s, b) = [o EXCEPT !.over = TRUE, !.code = s.a]
    BY <1>1 DEF Done, Reads
  <2>2. QED
    BY <1>1, <2>1 DEF IsOutcome
<1>2. CASE s.op \in {"silent", "undefined"}
  BY <1>2 DEF Done, IsOutcome, Reads
<1>3. QED
  BY <1>1, <1>2

\* A query leaves the rows.
LEMMA DoneRead ==
  ASSUME NEW o, IsOutcome(o), NEW s, NEW b, Reads(s)
  PROVE  LET q == Done(o, s, b) IN
    /\ IsOutcome(q) /\ q.rows = o.rows /\ q.wrote = o.wrote /\ q.over = o.over
    /\ s.op = "find" => q.id = KeyFound(b, o.rows) /\ q.saw = o.saw
    /\ s.op # "find" => q.id = o.id /\ q.saw = o.saw \cup Touched(b, o.rows)
<1>1. CASE s.op = "find"
  <2> DEFINE n == KeyFound(b, o.rows)
  <2>1. Done(o, s, b) = [o EXCEPT !.id = n]
    BY <1>1 DEF Done, Reads
  <2> HIDE DEF n
  <2>2. LET q == [o EXCEPT !.id = n] IN
        /\ IsOutcome(q) /\ q.rows = o.rows /\ q.wrote = o.wrote /\ q.over = o.over
        /\ q.id = n /\ q.saw = o.saw
    BY DEF IsOutcome
  <2>3. QED
    BY <1>1, <2>1, <2>2 DEF n
<1>2. CASE s.op # "find"
  <2> DEFINE n == o.saw \cup Touched(b, o.rows)
  <2>1. Done(o, s, b) = [o EXCEPT !.saw = n]
    BY <1>2 DEF Done, Reads
  <2> HIDE DEF n
  <2>2. LET q == [o EXCEPT !.saw = n] IN
        /\ IsOutcome(q) /\ q.rows = o.rows /\ q.wrote = o.wrote /\ q.over = o.over
        /\ q.saw = n /\ q.id = o.id
    BY DEF IsOutcome
  <2>3. QED
    BY <1>2, <2>1, <2>2 DEF n
<1>3. QED
  BY <1>1, <1>2

\* A commit changes nothing of a program that runs by itself.
LEMMA DoneCommit == \A o, s, b : s.op = "commit" => Done(o, s, b) = o
  BY DEF Done, Reads

\* Whatever is neither a reply, a SELECT nor a commit changes the rows.
LEMMA DoneOther ==
  ASSUME NEW o, IsOutcome(o), NEW s, NEW b, ~Reads(s),
         s.op \notin {"reply", "silent", "undefined", "commit"}
  PROVE  LET q == Done(o, s, b) IN
    /\ IsOutcome(q) /\ q.rows = Applied(b, o.rows) /\ q.wrote = TRUE
    /\ q.id = o.id /\ q.saw = o.saw /\ q.over = o.over
<1> DEFINE n == Applied(b, o.rows)
<1>1. Done(o, s, b) = [o EXCEPT !.rows = n, !.wrote = TRUE]
  BY DEF Done, Reads
<1> HIDE DEF n
<1>2. LET q == [o EXCEPT !.rows = n, !.wrote = TRUE] IN
      /\ IsOutcome(q) /\ q.rows = n /\ q.wrote = TRUE
      /\ q.id = o.id /\ q.saw = o.saw /\ q.over = o.over
  BY DEF IsOutcome
<1>3. QED
  BY <1>1, <1>2 DEF n

\* A run that is over stays as it is, and only changes write.
LEMMA PerformKeeps ==
  ASSUME NEW o, IsOutcome(o), NEW s
  PROVE  /\ IsOutcome(Perform(o, s))
         /\ o.over => Perform(o, s) = o
         /\ s.op \in {"reply", "silent", "undefined", "commit"} \/ Reads(s) =>
              Perform(o, s).rows = o.rows /\ Perform(o, s).wrote = o.wrote
<1> DEFINE b == Bound(s, o.id)
           Alike(q) == q.rows = o.rows /\ q.wrote = o.wrote
<1>1. Perform(o, s) = o \/ Perform(o, s) = GaveUp(o, s) \/ Perform(o, s) = Done(o, s, b)
  BY DEF Perform
<1>2. o.over => Perform(o, s) = o
  BY DEF Perform
<1> HIDE DEF b
<1>3. IsOutcome(GaveUp(o, s)) /\ Alike(GaveUp(o, s))
  BY ZenonT(60), GaveUpIs
<1>4. /\ IsOutcome(Done(o, s, b))
      /\ s.op \in {"reply", "silent", "undefined", "commit"} \/ Reads(s) => Alike(Done(o, s, b))
  <2>1. CASE s.op \in {"reply", "silent", "undefined"}
    BY <2>1, DoneReply
  <2>2. CASE Reads(s)
    BY <2>2, DoneRead
  <2>3. CASE s.op = "commit"
    <3>1. Done(o, s, b) = o
      BY <2>3, DoneCommit
    <3>2. QED
      BY <3>1
  <2>4. CASE s.op \notin {"reply", "silent", "undefined", "commit"} /\ ~Reads(s)
    BY <2>4, DoneOther
  <2>5. QED
    BY <2>1, <2>2, <2>3, <2>4
<1>5. QED
  BY <1>1, <1>2, <1>3, <1>4

\* The start of a run.
LEMMA StartedIs ==
  \A rows : LET o == Started(rows) IN
    /\ IsOutcome(o) /\ o.rows = rows /\ o.id = 0 /\ o.saw = {} /\ ~o.wrote /\ ~o.over
  BY DEF Started, IsOutcome

----------------------------------------------------------------------------
(* The outcome of the first n statements of p *)

LEMMA OutcomeNext ==
  ASSUME NEW p \in Seq(Statements), NEW a \in 1..Len(p), NEW rows
  PROVE  Outcome(SubSeq(p, 1, a), rows) = Perform(Outcome(SubSeq(p, 1, a - 1), rows), p[a])
<1> DEFINE q == SubSeq(p, 1, a - 1)
<1>1. q \in Seq(Statements) /\ p[a] \in Statements /\ SubSeq(p, 1, a) = Append(q, p[a])
  OBVIOUS
<1> HIDE DEF q
<1>2. Outcome(Append(q, p[a]), rows) = Perform(Outcome(q, rows), p[a])
  BY <1>1, OutcomeAppend
<1>3. QED
  BY <1>1, <1>2 DEF q

\* Before its first statement a program has only started.
LEMMA OutcomeNothing ==
  ASSUME NEW p, NEW rows
  PROVE  Outcome(SubSeq(p, 1, 0), rows) = Started(rows)
<1>1. SubSeq(p, 1, 0) = <<>>
  OBVIOUS
<1>2. QED
  BY <1>1, OutcomeNone

\* The run is an outcome at every statement.
LEMMA OutcomeShape ==
  ASSUME NEW p \in Seq(Statements), NEW rows
  PROVE  \A n \in 0..Len(p) : IsOutcome(Outcome(SubSeq(p, 1, n), rows))
<1> DEFINE S == {n \in Nat : n <= Len(p) => IsOutcome(Outcome(SubSeq(p, 1, n), rows))}
<1>1. 0 \in S
  BY OutcomeNothing, StartedIs
<1>2. ASSUME NEW n \in S PROVE n + 1 \in S
  <2>1. ASSUME n + 1 <= Len(p) PROVE IsOutcome(Outcome(SubSeq(p, 1, n + 1), rows))
    <3>1. PICK m : m = n + 1
      OBVIOUS
    <3>2. m \in 1..Len(p) /\ m - 1 = n /\ IsOutcome(Outcome(SubSeq(p, 1, m - 1), rows))
      BY <2>1, <3>1
    <3>3. IsOutcome(Outcome(SubSeq(p, 1, m), rows))
      <4> DEFINE o == Outcome(SubSeq(p, 1, m - 1), rows)
      <4>1. IsOutcome(o) /\ Outcome(SubSeq(p, 1, m), rows) = Perform(o, p[m])
        BY <3>2, OutcomeNext
      <4> HIDE DEF o
      <4>2. QED
        BY <4>1, PerformKeeps
    <3>4. QED
      BY <3>1, <3>3
  <2>2. QED
    BY <2>1
<1> HIDE DEF S
<1>3. Nat \subseteq S
  BY <1>1, <1>2, Induct
<1>4. QED
  BY <1>3 DEF S

\* From statement n on nothing but replies, SELECTs and commits: the rows stay.
LEMMA OutcomeSettles ==
  ASSUME NEW p \in Seq(Statements), NEW n \in 0..Len(p), NEW rows,
         \A j \in DOMAIN p : j > n =>
           p[j].op \in {"reply", "silent", "undefined", "commit"} \/ Reads(p[j])
  PROVE  /\ Outcome(p, rows).rows = Outcome(SubSeq(p, 1, n), rows).rows
         /\ Outcome(p, rows).wrote = Outcome(SubSeq(p, 1, n), rows).wrote
<1> DEFINE O(m) == Outcome(SubSeq(p, 1, m), rows)
           S == {i \in Nat : n + i <= Len(p) =>
                               O(n + i).rows = O(n).rows /\ O(n + i).wrote = O(n).wrote}
<1>1. 0 \in S
  OBVIOUS
<1>2. ASSUME NEW i \in S PROVE i + 1 \in S
  <2>1. ASSUME n + (i + 1) <= Len(p)
        PROVE  O(n + (i + 1)).rows = O(n).rows /\ O(n + (i + 1)).wrote = O(n).wrote
    <3>1. PICK m : m = n + (i + 1)
      OBVIOUS
    <3>2. m \in 1..Len(p) /\ m - 1 = n + i /\ m > n /\ m \in DOMAIN p
      BY <2>1, <3>1
    <3>3. O(m - 1).rows = O(n).rows /\ O(m - 1).wrote = O(n).wrote
      BY <3>2
    <3>4. IsOutcome(O(m - 1)) /\ O(m) = Perform(O(m - 1), p[m])
      BY <3>2, OutcomeNext, OutcomeShape
    <3>5. p[m].op \in {"reply", "silent", "undefined", "commit"} \/ Reads(p[m])
      BY <3>2
    <3> HIDE DEF O
    <3>6. O(m).rows = O(m - 1).rows /\ O(m).wrote = O(m - 1).wrote
      BY <3>4, <3>5, PerformKeeps
    <3>7. QED
      BY <3>1, <3>3, <3>6
  <2>2. QED
    BY <2>1
<1> HIDE DEF S
<1>3. Nat \subseteq S
  BY <1>1, <1>2, Induct
<1>4. Len(p) - n \in S /\ n + (Len(p) - n) = Len(p)
  BY <1>3
<1>5. SubSeq(p, 1, Len(p)) = p
  OBVIOUS
<1>6. O(Len(p)).rows = O(n).rows /\ O(Len(p)).wrote = O(n).wrote
  <2> HIDE DEF O
  <2>1. QED
    BY <1>4 DEF S
<1>7. QED
  BY <1>5, <1>6

\* The rest of a program that is over does nothing.
LEMMA OutcomeOver ==
  ASSUME NEW p \in Seq(Statements), NEW n \in 0..Len(p), NEW rows,
         Outcome(SubSeq(p, 1, n), rows).over
  PROVE  Outcome(p, rows) = Outcome(SubSeq(p, 1, n), rows)
<1> DEFINE O(m) == Outcome(SubSeq(p, 1, m), rows)
           S == {i \in Nat : n + i <= Len(p) => O(n + i) = O(n)}
<1>1. 0 \in S
  OBVIOUS
<1>2. ASSUME NEW i \in S PROVE i + 1 \in S
  <2>1. ASSUME n + (i + 1) <= Len(p) PROVE O(n + (i + 1)) = O(n)
    <3>1. PICK m : m = n + (i + 1)
      OBVIOUS
    <3>2. m \in 1..Len(p) /\ m - 1 = n + i
      BY <2>1, <3>1
    <3>3. O(m - 1) = O(n) /\ O(n).over
      BY <3>2
    <3>4. IsOutcome(O(m - 1)) /\ O(m) = Perform(O(m - 1), p[m])
      BY <3>2, OutcomeNext, OutcomeShape
    <3> HIDE DEF O
    <3>5. O(m) = O(m - 1)
      BY <3>3, <3>4, PerformKeeps
    <3>6. QED
      BY <3>1, <3>3, <3>5
  <2>2. QED
    BY <2>1
<1> HIDE DEF S
<1>3. Nat \subseteq S
  BY <1>1, <1>2, Induct
<1>4. Len(p) - n \in S /\ n + (Len(p) - n) = Len(p)
  BY <1>3
<1>5. SubSeq(p, 1, Len(p)) = p
  OBVIOUS
<1>6. O(Len(p)) = O(n)
  <2> HIDE DEF O
  <2>1. QED
    BY <1>4 DEF S
<1>7. QED
  BY <1>5, <1>6
----------------------------------------------------------------------------
(* One worker without faults.  A request that acts is the only one in its   *)
(* commit and is in one commit only.  What the worker is at is where its    *)
(* program has come to (SoFar) on the rows that it found (Base).            *)

At(r) == CHOOSE k \in Acted(r) : TRUE
Base(r) == IF Acted(r) = {} THEN Current ELSE log[At(r) - 1].rows
SoFar(x) == Outcome(SubSeq(prog[x.req], 1, x.at - 1), Base(x.req))

\* Record x of the worker at request x.req agrees with o, p being its program.
Follows(x, p, o, acted) ==
  /\ ~o.over /\ o.id = x.id /\ o.saw = x.saw
  /\ o.wrote <=> x.mine # <<>> \/ acted
  /\ o.wrote => \E i \in DOMAIN p : i < x.at /\ Changing(p[i])
  /\ acted => x.mine = <<>> /\ \E k \in DOMAIN p : k < x.at /\ Committing(p[k])

Running(w) ==
  LET r == work[w].req IN
    /\ Follows(work[w], prog[r], SoFar(work[w]), Acted(r) # {})
    /\ SoFar(work[w]).rows = Latest(w)
    /\ \A c \in Places(work[w].mine) : c[1] = r
    /\ answer[r] = NoAnswer

Idle(x) == x.mine = <<>> /\ x.id = 0 /\ x.saw = {}

Journal ==
  /\ log[1].by = {}
  /\ \A k \in DOMAIN log : \A c \in log[k].by :
       c[2] \in DOMAIN prog[c[1]] /\ Changing(prog[c[1]][c[2]])
  /\ \A r \in Req : \A k, l \in Acted(r) : k = l

Unread == \A r \in Req : Unserved(r) => answer[r] = NoAnswer /\ Acted(r) = {}

Fresh ==
  \A r \in Req : answer[r].code = 200 /\ Acted(r) = {} =>
    \E k \in DOMAIN log : since[r] <= k /\ Outcome(prog[r], log[k].rows).saw = answer[r].saw

Atoms == \A r \in Req : prog[r] # <<>> => Atomic(prog[r])

LInv(w) ==
  /\ hurt = {} /\ work[w].link = TRUE /\ work[w].snap \in {0, Len(log)}
  /\ Busy(w) => Running(w)
  /\ ~Busy(w) => Idle(work[w])
  /\ Journal /\ Unread /\ Fresh /\ Atoms
Lone(w) == Worker = {w} /\ MaxFaults = 0
Safe(w) == IInv /\ AInv /\ Types /\ LInv(w)

\* What the worker is at.
Place(w) ==
  LET r == work[w].req
      p == prog[r]
      o == SoFar(work[w])
  IN /\ r \in Req /\ p \in Seq(Statements) /\ p # <<>> /\ Atomic(p) /\ Settled(p)
     /\ work[w].at \in DOMAIN p /\ DOMAIN p = 1..Len(p) /\ Len(p) \in Nat
     /\ p[work[w].at] \in Statements
     /\ Stmt(w) = Bound(p[work[w].at], o.id)
     /\ IsOutcome(o) /\ Running(w)
     /\ ~Unserved(r) /\ since[r] \in Nat /\ since[r] <= Len(log)
     /\ DOMAIN answer = Req

\* Where a busy worker is, in one formula.
LEMMA AtStatement ==
  ASSUME NEW w \in Worker, Safe(w), Busy(w)
  PROVE  Place(w)
<1> DEFINE r == work[w].req
           a == work[w].at
           p == prog[r]
           o == SoFar(work[w])
<1>1. /\ r \in Req /\ p \in Seq(Statements) /\ Settled(p) /\ a \in DOMAIN p
  BY Here DEF Safe
<1>2. p # <<>>
  BY DEF Safe, IInv, Workers, Sound, Ready, Busy
<1>3. Atomic(p) /\ Running(w)
  BY <1>1, <1>2 DEF Safe, LInv, Atoms
<1>4. DOMAIN p = 1..Len(p) /\ Len(p) \in Nat /\ p[a] \in Statements /\ a - 1 \in 0..Len(p)
  BY <1>1
<1>5. Stmt(w) = Bound(p[a], o.id)
  BY <1>3 DEF Running, Follows, Stmt
<1>6. IsOutcome(o)
  <2> HIDE DEF p, a
  <2>1. IsOutcome(Outcome(SubSeq(p, 1, a - 1), Base(r)))
    BY <1>1, <1>4, OutcomeShape
  <2>2. QED
    BY <2>1 DEF SoFar, p, a
<1>7. ~Unserved(r)
  BY <1>1 DEF Safe, AInv, Untouched
<1>8. since[r] \in Nat /\ since[r] <= Len(log) /\ DOMAIN answer = Req
  BY <1>1 DEF Safe, Types, AInv, Unanswered
<1>9. QED
  BY <1>1, <1>2, <1>3, <1>4, <1>5, <1>6, <1>7, <1>8 DEF Place

\* The worker's snapshot is of the last committed state.
LEMMA UpToDate ==
  ASSUME NEW w \in Worker, Safe(w)
  PROVE  /\ View(w) = Latest(w) /\ Snapshot(w) = Len(log)
         /\ Len(log) \in Nat /\ Len(log) >= 1 /\ DOMAIN log = 1..Len(log)
<1>1. Len(log) \in Nat /\ DOMAIN log = 1..Len(log) /\ Len(log) >= 1
  BY LogIsSeq DEF Safe, Types
<1>2. Snapshot(w) = Len(log)
  BY DEF Safe, LInv, Snapshot
<1>3. QED
  BY <1>1, <1>2 DEF View, Latest, Current

\* Where the worker comes to with this statement.
LEMMA Onward ==
  ASSUME NEW w \in Worker, Safe(w), Busy(w)
  PROVE  LET r == work[w].req
             p == prog[r]
             a == work[w].at
         IN Outcome(SubSeq(p, 1, a), Base(r)) = Perform(SoFar(work[w]), p[a])
<1> DEFINE r == work[w].req
           a == work[w].at
           p == prog[r]
<1>1. p \in Seq(Statements) /\ a \in 1..Len(p)
  BY AtStatement DEF Place
<1> HIDE DEF a, p
<1>2. Outcome(SubSeq(p, 1, a), Base(r)) = Perform(Outcome(SubSeq(p, 1, a - 1), Base(r)), p[a])
  BY <1>1, OutcomeNext
<1>3. QED
  BY <1>2 DEF SoFar, a, p

\* A step without commit, answer or arrival is none of Store.
LEMMA Stutter ==
  ASSUME log' = log, prog' = prog, answer' = answer
  PROVE  UNCHANGED StoreMap!vars
  BY DEF StoreMap!vars, Current, Owed, Given, Acted

\* What a request has come to changes with the log and its program only.
LEMMA SoFarStays ==
  ASSUME log' = log, prog' = prog, NEW y
  PROVE  SoFar(y)' = SoFar(y)
<1>1. Acted(y.req)' = Acted(y.req) /\ Current' = Current
  BY DEF Acted, Current
<1>2. At(y.req)' = At(y.req)
  BY <1>1 DEF At
<1>3. Base(y.req)' = Base(y.req)
  BY <1>1, <1>2 DEF Base
<1>4. QED
  BY <1>3 DEF SoFar

\* The worker goes on with record y and without a commit.
LEMMA StayKeeps ==
  ASSUME NEW w \in Worker, Lone(w), Safe(w), Busy(w), NEW y,
         work' = [work EXCEPT ![w] = y],
         UNCHANGED <<inbox, prog, log, answer, since, hurt>>,
         y.req = work[w].req, y.at = work[w].at + 1, y.link = TRUE,
         y.snap \in {0, Len(log)},
         Follows(y, prog[work[w].req], Perform(SoFar(work[w]), prog[work[w].req][work[w].at]),
                 Acted(work[w].req) # {}),
         Perform(SoFar(work[w]), prog[work[w].req][work[w].at]).rows
           = AppliedAll([i \in DOMAIN y.mine |-> y.mine[i].stmt], Current),
         \A c \in Places(y.mine) : c[1] = work[w].req
  PROVE  LInv(w)' /\ UNCHANGED StoreMap!vars
<1> DEFINE r == work[w].req
           a == work[w].at
           p == prog[r]
           q == Perform(SoFar(work[w]), p[a])
<1>1. work'[w] = y
  BY DEF Safe, IInv, Workers
<1>2. /\ r \in Req /\ a \in Nat /\ r # None /\ Running(w)
  BY AtStatement, SwitchAssumption DEF Place
<1>3. SoFar(y)' = q
  <2>1. SoFar(y)' = Outcome(SubSeq(p, 1, y.at - 1), Base(r))
    <3>1. log' = log /\ prog' = prog /\ y.req = r
      OBVIOUS
    <3>2. SoFar(y)' = SoFar(y)
      BY <3>1, SoFarStays
    <3>3. QED
      BY <3>1, <3>2 DEF SoFar
  <2>2. y.at - 1 = a
    <3>1. y.at = a + 1 /\ a \in Nat
      BY <1>2
    <3>2. QED
      BY <3>1
  <2>3. QED
    BY <2>1, <2>2, Onward
<1>4. Running(w)'
  <2>1. Follows(work[w], prog[work[w].req], SoFar(work[w]), Acted(work[w].req) # {})'
    BY <1>1, <1>3 DEF Acted
  <2>2. (SoFar(work[w]).rows)' = Latest(w)'
    BY <1>1, <1>3 DEF Latest, Pending, Current
  <2>3. (answer[work[w].req] = NoAnswer)'
    BY <1>1, <1>2 DEF Running
  <2>4. QED
    BY <1>1, <2>1, <2>2, <2>3 DEF Running
<1>5. Busy(w)'
  BY <1>1, <1>2 DEF Busy
<1>6. (Journal /\ Unread /\ Fresh /\ Atoms)'
  BY DEF Safe, LInv, Journal, Unread, Fresh, Atoms, Acted, Unserved
<1>7. (hurt = {} /\ work[w].link = TRUE /\ work[w].snap \in {0, Len(log)})'
  BY <1>1 DEF Safe, LInv
<1>8. QED
  BY <1>4, <1>5, <1>6, <1>7, Stutter DEF LInv

\* The worker is through with its request and holds nothing.
LEMMA ReturnKeeps ==
  ASSUME NEW w \in Worker, Lone(w), Safe(w), Busy(w), NEW y,
         work' = [work EXCEPT ![w] = y],
         UNCHANGED <<inbox, prog, log, since, hurt>>,
         y.req = None, y.link = TRUE, y.snap \in {0, Len(log)}, Idle(y),
         \/ answer' = answer
         \/ \E c : /\ answer' = [answer EXCEPT ![work[w].req] = c]
                   /\ c.code = 200 /\ Acted(work[w].req) = {} =>
                        Outcome(prog[work[w].req], Current).saw = c.saw
  PROVE  LInv(w)'
<1> DEFINE r == work[w].req
<1>1. work'[w] = y
  BY DEF Safe, IInv, Workers
<1>2. /\ r \in Req /\ ~Unserved(r) /\ since[r] \in Nat /\ since[r] <= Len(log)
      /\ DOMAIN answer = Req
  BY AtStatement DEF Place
<1>3. Journal' /\ Atoms'
  BY DEF Safe, LInv, Journal, Atoms, Acted
<1>4. \A q \in Req \ {r} : answer'[q] = answer[q]
  BY <1>2
<1>5. Unread'
  <2>1. ASSUME NEW q \in Req, Unserved(q)' PROVE answer'[q] = NoAnswer /\ Acted(q)' = {}
    <3>1. Unserved(q)
      BY <2>1 DEF Unserved
    <3>2. q # r /\ answer[q] = NoAnswer /\ Acted(q) = {}
      BY <1>2, <3>1 DEF Safe, LInv, Unread
    <3>3. QED
      BY <1>4, <3>2 DEF Acted
  <2>2. QED
    BY <2>1 DEF Unread
<1>6. Fresh'
  <2> SUFFICES ASSUME NEW q \in Req, answer'[q].code = 200, Acted(q)' = {}
               PROVE  \E k \in DOMAIN log :
                        since[q] <= k /\ Outcome(prog[q], log[k].rows).saw = answer'[q].saw
    BY DEF Fresh
  <2>1. Acted(q) = {}
    BY DEF Acted
  <2>2. CASE answer'[q] = answer[q]
    BY <2>1, <2>2 DEF Safe, LInv, Fresh
  <2>3. CASE answer'[q] # answer[q]
    <3>1. q = r
      BY <1>4, <2>3
    <3>2. Outcome(prog[r], Current).saw = answer'[r].saw
      BY <1>2, <2>1, <2>3, <3>1
    <3>3. Len(log) \in DOMAIN log /\ since[r] <= Len(log)
      BY <1>2, UpToDate
    <3>4. QED
      BY <3>1, <3>2, <3>3 DEF Current
  <2>4. QED
    BY <2>2, <2>3
<1>7. QED
  BY <1>1, <1>3, <1>5, <1>6 DEF Safe, LInv, Busy

\* Nobody has an answer to a request that is being served.
LEMMA NotYet ==
  ASSUME NEW w \in Worker, Safe(w), Busy(w)
  PROVE  /\ answer[work[w].req] = NoAnswer /\ Given(work[w].req) = NoAnswer
         /\ Acted(work[w].req) = {} => Owed(work[w].req) = NoAnswer
<1>1. answer[work[w].req] = NoAnswer
  BY AtStatement DEF Place, Running
<1>2. NoAnswer.code # Garbage
  BY DEF NoAnswer, Garbage
<1>3. QED
  BY <1>1, <1>2 DEF Given, Owed

\* An answer without a commit before it.
LEMMA TellStep ==
  ASSUME NEW w \in Worker, Safe(w), Busy(w), log' = log, prog' = prog, NEW c,
         answer' = [answer EXCEPT ![work[w].req] = c], c.code \in {200, 401, 500},
         Acted(work[w].req) = {}, ~Outcome(prog[work[w].req], Current).wrote,
         c = [code |-> Outcome(prog[work[w].req], Current).code,
              saw |-> Outcome(prog[work[w].req], Current).saw]
  PROVE  StoreMap!Next
<1>0. PICK r, o : r = work[w].req /\ o = Outcome(prog[r], Current)
  OBVIOUS
<1>1. r \in Req /\ prog[r] # <<>> /\ DOMAIN answer = Req
  BY <1>0, AtStatement DEF Place
<1>2. c.code # Garbage /\ c # NoAnswer
  BY DEF Garbage, NoAnswer
<1>3. \A q \in Req \ {r} : answer'[q] = answer[q]
  BY <1>0, <1>1
<1>4. answer'[r] = c
  BY <1>0, <1>1
<1>5. \A q \in Req : Acted(q)' = Acted(q)
  BY DEF Acted
<1>6. [q \in Req |-> Owed(q)]' = [q \in Req |-> Owed(q)]
  <2>1. Owed(r)' = Owed(r)
    BY <1>0, <1>1, <1>5, NotYet DEF Owed
  <2>2. ASSUME NEW q \in Req \ {r} PROVE Owed(q)' = Owed(q)
    <3>1. answer'[q] = answer[q]
      BY <1>3
    <3>2. QED
      BY <3>1 DEF Owed, Acted
  <2>3. QED
    BY <1>1, <2>1, <2>2
<1>7. [q \in Req |-> Given(q)]' = [[q \in Req |-> Given(q)] EXCEPT ![r] = c]
  <2>1. Given(r)' = c
    BY <1>2, <1>4 DEF Given
  <2>2. ASSUME NEW q \in Req \ {r} PROVE Given(q)' = Given(q)
    BY <1>3 DEF Given
  <2> DEFINE g == [q \in Req |-> Given(q)]
  <2>3. DOMAIN g = Req /\ DOMAIN g' = Req /\ g'[r] = c /\ \A q \in Req \ {r} : g'[q] = g[q]
    BY <1>1, <2>1, <2>2
  <2>4. g' = [q \in Req |-> g'[q]] /\ g = [q \in Req |-> g[q]]
    OBVIOUS
  <2> HIDE DEF g
  <2>5. g' = [g EXCEPT ![r] = c]
    BY <2>3, <2>4
  <2>6. QED
    BY <2>5 DEF g
<1>8. Current' = Current
  BY DEF Current
<1>9. StoreMap!Waits(r)
  BY <1>0, <1>1, NotYet DEF StoreMap!Waits
<1>10. StoreMap!Tell(r, o)
  BY <1>0, <1>6, <1>7, <1>8 DEF StoreMap!Tell, StoreMap!Result
<1>11. StoreMap!Serve(r)
  BY <1>0, <1>9, <1>10 DEF StoreMap!Serve
<1>12. QED
  BY <1>1, <1>11 DEF StoreMap!Next

\* The answer of a request that has acted is the one it was owed.
Paying(w, r, o, c) ==
  /\ r = work[w].req /\ Acted(r) # {} /\ o = Outcome(prog[r], Base(r))
  /\ c = [code |-> o.code, saw |-> o.saw] /\ c.code \in {200, 401, 500}
  /\ answer' = [answer EXCEPT ![r] = c]
  /\ log' = log /\ prog' = prog

\* A reply to a request that has acted is what Store owes.
LEMMA PayStep ==
  ASSUME NEW w \in Worker, Safe(w), Busy(w), NEW r, NEW o, NEW c, Paying(w, r, o, c)
  PROVE  StoreMap!Next
<1>0. /\ r = work[w].req /\ Acted(r) # {} /\ o = Outcome(prog[r], Base(r))
      /\ c = [code |-> o.code, saw |-> o.saw] /\ c.code \in {200, 401, 500}
      /\ answer' = [answer EXCEPT ![r] = c]
      /\ log' = log /\ prog' = prog
  BY DEF Paying
<1>1. r \in Req /\ DOMAIN answer = Req
  BY <1>0, AtStatement DEF Place
<1>2. c.code # Garbage /\ c # NoAnswer
  BY <1>0 DEF Garbage, NoAnswer
<1>3. \A q \in Req \ {r} : answer'[q] = answer[q]
  BY <1>0, <1>1
<1>4. answer'[r] = c
  BY <1>0, <1>1
<1>5. \A q \in Req : Acted(q)' = Acted(q)
  BY <1>0 DEF Acted
<1>6. Owed(r) = c
  BY <1>0, NotYet DEF Owed, Base, At
<1>7. [q \in Req |-> Owed(q)]' = [[q \in Req |-> Owed(q)] EXCEPT ![r] = NoAnswer]
  <2>1. Owed(r)' = NoAnswer
    BY <1>0, <1>2, <1>4 DEF Owed
  <2>2. ASSUME NEW q \in Req \ {r} PROVE Owed(q)' = Owed(q)
    <3>1. answer'[q] = answer[q] /\ Acted(q)' = Acted(q)
      BY <1>3, <1>5
    <3>2. log' = log /\ prog' = prog
      BY <1>0
    <3>3. Base(q)' = Base(q)
      BY <3>2 DEF Base, At, Acted, Current
    <3>4. QED
      BY <3>1, <3>2, <3>3 DEF Owed
  <2> DEFINE g == [q \in Req |-> Owed(q)]
  <2>3. /\ DOMAIN g = Req /\ DOMAIN g' = Req /\ g'[r] = NoAnswer
        /\ \A q \in Req \ {r} : g'[q] = g[q]
    BY <1>1, <2>1, <2>2
  <2>4. g' = [q \in Req |-> g'[q]] /\ g = [q \in Req |-> g[q]]
    OBVIOUS
  <2> HIDE DEF g
  <2>5. g' = [g EXCEPT ![r] = NoAnswer]
    BY <2>3, <2>4
  <2>6. QED
    BY <2>5 DEF g
<1>8. [q \in Req |-> Given(q)]' = [[q \in Req |-> Given(q)] EXCEPT ![r] = c]
  <2>1. Given(r)' = c
    BY <1>0, <1>2, <1>4 DEF Given
  <2>2. ASSUME NEW q \in Req \ {r} PROVE Given(q)' = Given(q)
    BY <1>3 DEF Given
  <2> DEFINE g == [q \in Req |-> Given(q)]
  <2>3. DOMAIN g = Req /\ DOMAIN g' = Req /\ g'[r] = c /\ \A q \in Req \ {r} : g'[q] = g[q]
    BY <1>1, <2>1, <2>2
  <2>4. g' = [q \in Req |-> g'[q]] /\ g = [q \in Req |-> g[q]]
    OBVIOUS
  <2> HIDE DEF g
  <2>5. g' = [g EXCEPT ![r] = c]
    BY <2>3, <2>4
  <2>6. QED
    BY <2>5 DEF g
<1>9. Current' = Current
  BY <1>0 DEF Current
<1>10. StoreMap!Pay(r)
  BY <1>0, <1>1, <1>2, <1>6, <1>7, <1>8, <1>9 DEF StoreMap!Pay
<1>11. QED
  BY <1>1, <1>10 DEF StoreMap!Next

\* What a handler sends once it is astray answers nothing.
LEMMA AstrayStep ==
  ASSUME NEW w \in Worker, Safe(w), Busy(w), log' = log, prog' = prog,
         \/ answer' = answer
         \/ answer' = Answered(w, Garbage) /\ Acted(work[w].req) = {}
  PROVE  UNCHANGED StoreMap!vars
<1>1. CASE answer' = answer
  BY <1>1, Stutter
<1>2. CASE answer' = Answered(w, Garbage) /\ Acted(work[w].req) = {}
  <2>0. PICK r : r = work[w].req
    OBVIOUS
  <2>9. PICK c : c = [code |-> Garbage, saw |-> work[w].saw]
    OBVIOUS
  <2>1. r \in Req /\ DOMAIN answer = Req
    BY <2>0, AtStatement DEF Place
  <2>2. answer' = [answer EXCEPT ![r] = c] /\ c.code = Garbage
    BY <1>2, <2>0, <2>9 DEF Answered
  <2>3. answer'[r] = c /\ \A q \in Req \ {r} : answer'[q] = answer[q]
    BY <2>1, <2>2
  <2>4. \A q \in Req : Acted(q)' = Acted(q)
    BY DEF Acted
  <2>5. \A q \in Req : Owed(q)' = Owed(q)
    <3>1. Owed(r)' = NoAnswer /\ Owed(r) = NoAnswer
      BY <1>2, <2>0, <2>1, <2>4, NotYet DEF Owed
    <3>2. ASSUME NEW q \in Req \ {r} PROVE Owed(q)' = Owed(q)
      <4>1. answer'[q] = answer[q]
        BY <2>3
      <4>2. QED
        BY <4>1 DEF Owed, Acted
    <3>3. QED
      BY <3>1, <3>2
  <2>6. \A q \in Req : Given(q)' = Given(q)
    <3>1. Given(r)' = NoAnswer /\ Given(r) = NoAnswer
      BY <2>0, <2>2, <2>3, NotYet DEF Given
    <3>2. \A q \in Req \ {r} : Given(q)' = Given(q)
      BY <2>3 DEF Given
    <3>3. QED
      BY <3>1, <3>2
  <2>7. QED
    BY <2>5, <2>6 DEF StoreMap!vars, Current
<1>3. QED
  BY <1>1, <1>2

\* What is pending are writes of the request's program.
LEMMA PendingHere ==
  ASSUME NEW w \in Worker, Safe(w), Busy(w)
  PROVE  LET p == prog[work[w].req] IN
         \A c \in Places(work[w].mine) :
           /\ c[1] = work[w].req /\ c[2] \in DOMAIN p /\ c[2] < work[w].at /\ Writes(p[c[2]])
           /\ \A k \in DOMAIN p : c[2] < k /\ k < work[w].at => p[k].op # "commit"
<1>1. \A c \in Places(work[w].mine) : c[1] = work[w].req
  BY AtStatement DEF Place, Running
<1>2. Going(prog, Kept(log), hurt, work[w]) /\ hurt = {} /\ work[w].req # None
  BY DEF Safe, AInv, Working, LInv, Busy
<1>3. QED
  BY <1>1, <1>2 DEF Going

\* A commit of changes that are all request r's: r acts, nobody else does.
Acting(w, r, ch) ==
  /\ Acted(r) = {} /\ ch # <<>> /\ ch \in Seq(Changes)
  /\ log' = Append(log, Entry(ch)) /\ prog' = prog /\ answer' = answer
  /\ \A c \in Places(ch) : c[1] = r /\ c[2] \in DOMAIN prog[r] /\ Changing(prog[r][c[2]])

\* A commit adds one database, made by this request alone.
LEMMA ActedNow ==
  ASSUME NEW w \in Worker, Safe(w), Busy(w), NEW r, r = work[w].req,
         NEW ch, Acting(w, r, ch)
  PROVE  /\ Acted(r)' = {Len(log) + 1}
         /\ \A q : q # r => Acted(q)' = Acted(q) /\ \A k \in Acted(q) : k - 1 \in DOMAIN log
         /\ \A i \in DOMAIN log : log'[i] = log[i]
         /\ DOMAIN log' = 1..(Len(log) + 1) /\ Len(log') = Len(log) + 1
         /\ log'[Len(log) + 1] = Entry(ch)
         /\ Current' = Entry(ch).rows /\ Base(r) = Current /\ Base(r)' = Current
<1>1. PICK n \in Nat : n = Len(log)
  BY UpToDate
<1>2. /\ n >= 1 /\ DOMAIN log = 1..n
      /\ DOMAIN log' = 1..(n + 1) /\ Len(log') = n + 1
      /\ \A i \in 1..n : log'[i] = log[i]
      /\ log'[n + 1] = Entry(ch)
  BY <1>1, UpToDate, LogIsSeq DEF Acting, Safe
<1>3. log'[n + 1].by = Places(ch) /\ log'[n + 1].rows = Entry(ch).rows
  BY <1>2 DEF Entry
<1>4. (\E c \in Places(ch) : c[1] = r) /\ \A c \in Places(ch) : c[1] = r
  <2>1. ch \in Seq(Changes) /\ ch # <<>>
    BY DEF Acting
  <2>2. 1 \in DOMAIN ch
    BY <2>1
  <2>3. QED
    BY <2>2 DEF Places, Acting
<1>5. \A k \in DOMAIN log' : k \in DOMAIN log \/ k = n + 1
  BY <1>2
<1>6. n + 1 \in DOMAIN log' /\ \A k \in DOMAIN log : k \in DOMAIN log' /\ k # n + 1
  BY <1>2
<1>7. Acted(r)' = {n + 1}
  <2>1. \A k \in DOMAIN log : ~\E e \in log[k].by : e[1] = r
    BY DEF Acting, Acted
  <2>2. \A k \in DOMAIN log' : (\E e \in log'[k].by : e[1] = r) <=> k = n + 1
    BY <1>2, <1>3, <1>4, <1>5, <1>6, <2>1
  <2>3. QED
    BY <1>6, <2>2 DEF Acted
<1>8. ASSUME NEW q, q # r PROVE Acted(q)' = Acted(q) /\ \A k \in Acted(q) : k - 1 \in DOMAIN log
  <2>1. \A k \in DOMAIN log' :
          (\E e \in log'[k].by : e[1] = q) <=> k \in DOMAIN log /\ \E e \in log[k].by : e[1] = q
    BY <1>2, <1>3, <1>4, <1>5, <1>6, <1>8
  <2>2. Acted(q)' = Acted(q)
    BY <1>6, <2>1 DEF Acted
  <2>3. log[1].by = {}
    BY DEF Safe, LInv, Journal
  <2>4. \A k \in Acted(q) : k \in 1..n /\ k # 1
    BY <1>2, <2>3 DEF Acted
  <2>5. QED
    BY <1>2, <2>2, <2>4
<1>9. Current' = Entry(ch).rows
  BY <1>2, <1>3 DEF Current
<1>10. Base(r) = Current /\ Base(r)' = Current
  <2>1. Base(r) = Current
    BY DEF Base, Acting
  <2>2. At(r)' = n + 1
    BY <1>7, TheOnly DEF At
  <2>3. Base(r)' = log'[(n + 1) - 1].rows
    BY <1>7, <2>2 DEF Base
  <2>4. (n + 1) - 1 = n /\ n \in 1..n
    BY <1>2
  <2>5. QED
    BY <1>1, <1>2, <2>1, <2>3, <2>4 DEF Current
<1>11. QED
  BY <1>1, <1>2, <1>7, <1>8, <1>9, <1>10

\* The worker goes on behind its commit.
LEMMA ActKeeps ==
  ASSUME NEW w \in Worker, Lone(w), Safe(w), Busy(w), NEW r, r = work[w].req,
         NEW ch, Acting(w, r, ch), NEW y, NEW q,
         work' = [work EXCEPT ![w] = y],
         UNCHANGED <<inbox, since, hurt>>,
         y.req = r, y.at = work[w].at + 1, y.link = TRUE, y.snap = 0, y.mine = <<>>,
         q = Perform(SoFar(work[w]), prog[r][work[w].at]),
         Follows(y, prog[r], q, TRUE), q.rows = Entry(ch).rows
  PROVE  LInv(w)'
<1>1. work'[w] = y
  BY DEF Safe, IInv, Workers
<1>2. PICK a, p : a = work[w].at /\ p = prog[r]
  OBVIOUS
<1>3. /\ r \in Req /\ a \in Nat /\ r # None /\ answer[r] = NoAnswer /\ ~Unserved(r)
      /\ p \in Seq(Statements) /\ Len(log) \in Nat /\ prog' = prog /\ answer' = answer
  <2>1. Place(w)
    BY AtStatement
  <2>2. r \in Req /\ ~Unserved(r) /\ p \in Seq(Statements)
    BY <1>2, <2>1 DEF Place
  <2>8. a \in DOMAIN p /\ DOMAIN p = 1..Len(p)
    BY <1>2, <2>1 DEF Place
  <2>9. a \in Nat
    BY <2>8
  <2>3. r # None
    BY <2>2, SwitchAssumption
  <2>4. answer[r] = NoAnswer
    BY NotYet
  <2>5. prog' = prog /\ answer' = answer
    BY DEF Acting
  <2>6. Len(log) \in Nat
    BY UpToDate
  <2>7. QED
    BY <2>2, <2>3, <2>4, <2>5, <2>6, <2>9
<1>12. /\ Acted(r)' = {Len(log) + 1}
       /\ \A q2 : q2 # r => Acted(q2)' = Acted(q2)
       /\ \A i \in DOMAIN log : log'[i] = log[i]
       /\ DOMAIN log = 1..Len(log) /\ DOMAIN log' = 1..(Len(log) + 1)
       /\ Len(log) >= 1 /\ Len(log') = Len(log) + 1
       /\ log'[Len(log) + 1].by = Places(ch)
  <2>1. Entry(ch).by = Places(ch)
    BY DEF Entry
  <2>2. /\ Acted(r)' = {Len(log) + 1}
        /\ \A q2 : q2 # r => Acted(q2)' = Acted(q2)
    BY ActedNow
  <2>3. /\ \A i \in DOMAIN log : log'[i] = log[i]
        /\ DOMAIN log' = 1..(Len(log) + 1) /\ Len(log') = Len(log) + 1
        /\ log'[Len(log) + 1] = Entry(ch)
    BY ActedNow
  <2>4. DOMAIN log = 1..Len(log) /\ Len(log) >= 1
    BY UpToDate
  <2>5. QED
    BY <2>1, <2>2, <2>3, <2>4
<1>13. Journal /\ Unread /\ Fresh /\ Atoms
  BY DEF Safe, LInv
<1>4. SoFar(y)' = q
  <2>1. SoFar(y)' = Outcome(SubSeq(p, 1, y.at - 1), Base(r)')
    BY <1>2, <1>3 DEF SoFar
  <2>2. y.at - 1 = a
    BY <1>2, <1>3
  <2>3. Base(r)' = Base(r)
    BY ActedNow
  <2>4. QED
    BY <1>2, <2>1, <2>2, <2>3, Onward
<1>5. Running(w)'
  <2>1. Follows(y, prog[r], SoFar(y), Acted(r) # {})'
    <3>1. Acted(r)' # {}
      BY ActedNow
    <3>2. Follows(y, p, q, TRUE)
      BY <1>2
    <3> DEFINE b == Acted(r) # {}
    <3>3. b' = TRUE
      BY <3>1
    <3> HIDE DEF b
    <3>4. Follows(y, prog[r], SoFar(y), b)'
      BY <1>2, <1>3, <1>4, <3>2, <3>3 DEF Follows
    <3>5. QED
      BY <3>4 DEF b
  <2>2. (SoFar(y).rows)' = Latest(w)'
    <3>1. Pending(w)' = <<>>
      BY <1>1 DEF Pending
    <3>2. Latest(w)' = Current'
      BY <3>1, AppliedNone DEF Latest
    <3>3. QED
      BY <1>4, <3>2, ActedNow
  <2>3. Places(y.mine) = {}
    BY EmptyIsSeq
  <2>4. QED
    BY <1>1, <1>3, <2>1, <2>2, <2>3 DEF Running
<1>6. Busy(w)'
  BY <1>1, <1>3 DEF Busy
<1>7. Journal'
  <2>1. log'[1].by = {}
    BY <1>12, <1>13 DEF Journal
  <2>2. ASSUME NEW k \in DOMAIN log', NEW c \in log'[k].by
        PROVE  c[2] \in DOMAIN prog[c[1]] /\ Changing(prog[c[1]][c[2]])
    <3>1. CASE k \in DOMAIN log
      BY <1>12, <1>13, <2>2, <3>1 DEF Journal
    <3>2. CASE k = Len(log) + 1
      <4>1. c \in Places(ch)
        BY <1>12, <2>2, <3>2
      <4>2. QED
        BY <4>1 DEF Acting
    <3>3. QED
      BY <1>3, <1>12, <3>1, <3>2
  <2>3. ASSUME NEW q2 \in Req, NEW k \in Acted(q2)', NEW l \in Acted(q2)' PROVE k = l
    BY <1>12, <1>13, <2>3 DEF Journal
  <2>4. QED
    BY <1>3, <2>1, <2>2, <2>3 DEF Journal
<1>8. Unread'
  <2>1. ASSUME NEW q2 \in Req, Unserved(q2)' PROVE answer'[q2] = NoAnswer /\ Acted(q2)' = {}
    <3>1. Unserved(q2) /\ q2 # r
      BY <1>3, <2>1 DEF Unserved
    <3>2. QED
      BY <1>3, <1>12, <1>13, <3>1 DEF Unread
  <2>2. QED
    BY <2>1 DEF Unread
<1>9. Fresh'
  <2> SUFFICES ASSUME NEW q2 \in Req, answer'[q2].code = 200, Acted(q2)' = {}
               PROVE  \E k \in DOMAIN log' :
                        /\ since'[q2] <= k
                        /\ Outcome(prog'[q2], log'[k].rows).saw = answer'[q2].saw
    BY DEF Fresh
  <2>1. q2 # r
    BY <1>3 DEF NoAnswer
  <2>2. Acted(q2) = {}
    BY <1>12, <2>1
  <2>3. PICK k \in DOMAIN log :
          since[q2] <= k /\ Outcome(prog[q2], log[k].rows).saw = answer[q2].saw
    BY <1>3, <1>13, <2>2 DEF Fresh
  <2>4. k \in DOMAIN log'
    BY <1>3, <1>12
  <2>5. QED
    BY <1>3, <1>12, <2>3, <2>4
<1>10. Atoms'
  BY <1>3, <1>13 DEF Atoms
<1>11. QED
  BY <1>1, <1>5, <1>6, <1>7, <1>8, <1>9, <1>10 DEF Safe, LInv

\* After the statement that commits, the program changes nothing more.
LEMMA Settles ==
  ASSUME NEW p \in Seq(Statements), Atomic(p), NEW a \in DOMAIN p, Committing(p[a]), NEW rows
  PROVE  /\ Outcome(p, rows).rows = Outcome(SubSeq(p, 1, a), rows).rows
         /\ Outcome(p, rows).wrote = Outcome(SubSeq(p, 1, a), rows).wrote
<1>1. DOMAIN p = 1..Len(p) /\ Len(p) \in Nat /\ a \in 0..Len(p)
  OBVIOUS
<1>2. ASSUME NEW j \in DOMAIN p, j > a
      PROVE  p[j].op \in {"reply", "silent", "undefined", "commit"} \/ Reads(p[j])
  <2>1. ~Changing(p[j])
    BY <1>1, <1>2 DEF Atomic
  <2>2. p[j] \in Statements
    BY <1>1
  <2>3. p[j].op \in Ops
    BY <2>2 DEF Statements
  <2>4. QED
    BY <2>1, <2>3 DEF Changing, Writes, Reads, Ops
<1>3. QED
  BY <1>1, <1>2, OutcomeSettles

\* A commit is where the request acts.
LEMMA ActStep ==
  ASSUME NEW w \in Worker, Safe(w), Busy(w), NEW r, r = work[w].req,
         NEW ch, Acting(w, r, ch), Committing(prog[r][work[w].at]), NEW q,
         q = Perform(SoFar(work[w]), prog[r][work[w].at]), q.wrote, q.rows = Entry(ch).rows
  PROVE  StoreMap!Next
<1>1. PICK a, p, o, n : a = work[w].at /\ p = prog[r] /\ o = Outcome(p, Current) /\ n = Len(log)
  OBVIOUS
<1>2. /\ r \in Req /\ answer[r] = NoAnswer /\ p \in Seq(Statements) /\ p # <<>> /\ Atomic(p)
      /\ a \in DOMAIN p /\ n \in Nat /\ prog' = prog /\ answer' = answer
  BY <1>1, AtStatement, UpToDate DEF Place, Running, Acting
<1>3. /\ Acted(r)' = {n + 1}
      /\ \A i \in DOMAIN log : log'[i] = log[i]
      /\ Base(r) = Current /\ Base(r)' = Current /\ Current' = Entry(ch).rows
  BY <1>1, ActedNow
<1>4. o.rows = q.rows /\ o.wrote
  <2>1. Outcome(SubSeq(p, 1, a), Base(r)) = q
    BY <1>1, Onward
  <2>2. Outcome(SubSeq(p, 1, a), Current) = q
    BY <1>3, <2>1
  <2>3. Committing(p[a])
    BY <1>1
  <2>4. /\ Outcome(p, Current).rows = Outcome(SubSeq(p, 1, a), Current).rows
        /\ Outcome(p, Current).wrote = Outcome(SubSeq(p, 1, a), Current).wrote
    BY <1>2, <2>3, Settles
  <2>5. QED
    BY <1>1, <2>2, <2>4
<1>5. \A k : prog'[k] = prog[k] /\ answer'[k] = answer[k]
  BY <1>2
<1>6. Owed(r)' = [code |-> o.code, saw |-> o.saw]
  <2>1. At(r)' = n + 1
    BY <1>3, TheOnly DEF At
  <2>2. log'[At(r)' - 1].rows = Current
    BY <1>3 DEF Base
  <2>3. Owed(r)' = [code |-> Outcome(p, log'[At(r)' - 1].rows).code,
                    saw |-> Outcome(p, log'[At(r)' - 1].rows).saw]
    BY <1>1, <1>2, <1>3 DEF Owed, At
  <2>4. QED
    BY <1>1, <2>2, <2>3
<1>7. ASSUME NEW x \in Req \ {r} PROVE Owed(x)' = Owed(x)
  <2>1. Acted(x)' = Acted(x) /\ \A k \in Acted(x) : k - 1 \in DOMAIN log
    BY <1>7, ActedNow
  <2>2. CASE Acted(x) = {}
    BY <1>2, <2>1, <2>2 DEF Owed
  <2>3. CASE Acted(x) # {}
    <3>1. At(x) \in Acted(x) /\ At(x)' = At(x)
      BY <2>1, <2>3 DEF At
    <3>2. log'[At(x) - 1] = log[At(x) - 1]
      BY <1>3, <2>1, <3>1
    <3>3. Owed(x) = IF answer[x] # NoAnswer THEN NoAnswer
                    ELSE [code |-> Outcome(prog[x], log[At(x) - 1].rows).code,
                          saw |-> Outcome(prog[x], log[At(x) - 1].rows).saw]
      BY <2>3 DEF Owed, At
    <3>4. Owed(x)' = IF answer[x] # NoAnswer THEN NoAnswer
                     ELSE [code |-> Outcome(prog[x], log'[At(x)' - 1].rows).code,
                           saw |-> Outcome(prog[x], log'[At(x)' - 1].rows).saw]
      BY <1>2, <2>1, <2>3 DEF Owed, At
    <3>5. QED
      BY <3>1, <3>2, <3>3, <3>4
  <2>4. QED
    BY <2>2, <2>3
<1>8. [x \in Req |-> Owed(x)]' = [[x \in Req |-> Owed(x)] EXCEPT ![r] = [code |-> o.code, saw |-> o.saw]]
  <2> DEFINE g == [x \in Req |-> Owed(x)]
  <2>1. /\ DOMAIN g = Req /\ DOMAIN g' = Req /\ g'[r] = [code |-> o.code, saw |-> o.saw]
        /\ \A x \in Req \ {r} : g'[x] = g[x]
    BY <1>2, <1>6, <1>7
  <2>2. g' = [x \in Req |-> g'[x]] /\ g = [x \in Req |-> g[x]]
    OBVIOUS
  <2> HIDE DEF g
  <2>3. g' = [g EXCEPT ![r] = [code |-> o.code, saw |-> o.saw]]
    BY <2>1, <2>2
  <2>4. QED
    BY <2>3 DEF g
<1>9. [x \in Req |-> Given(x)]' = [x \in Req |-> Given(x)]
  BY <1>2 DEF Given
<1>10. StoreMap!Waits(r)
  BY <1>1, <1>2, NotYet DEF StoreMap!Waits, Acting
<1>11. StoreMap!Act(r, o)
  BY <1>2, <1>3, <1>4, <1>8, <1>9 DEF StoreMap!Act, StoreMap!Result
<1>12. StoreMap!Serve(r)
  BY <1>1, <1>10, <1>11 DEF StoreMap!Serve
<1>13. QED
  BY <1>2, <1>12 DEF StoreMap!Next

\* Worker w is at statement t of program p of request r, which has come to o
\* and comes to q; s is t with the key that was found.
Named(w, r, a, p, o, t, s, q) ==
  /\ r = work[w].req /\ a = work[w].at /\ p = prog[r] /\ o = SoFar(work[w])
  /\ t = p[a] /\ s = Stmt(w) /\ q = Perform(o, t)
Sited(r, a, p) ==
  /\ r \in Req /\ a \in DOMAIN p /\ a \in Nat
  /\ p \in Seq(Statements) /\ Atomic(p) /\ DOMAIN p = 1..Len(p) /\ Len(p) \in Nat
Reached(w, o, t, s) ==
  /\ IsOutcome(o) /\ ~o.over /\ o.rows = Latest(w)
  /\ o.id = work[w].id /\ o.saw = work[w].saw
  /\ s.op = t.op /\ s.onerr = t.onerr
Earned(w, r, a, p, o) ==
  /\ o.wrote <=> work[w].mine # <<>> \/ Acted(r) # {}
  /\ o.wrote => \E i \in DOMAIN p : i < a /\ Changing(p[i])
  /\ Acted(r) # {} => work[w].mine = <<>> /\ \E k \in DOMAIN p : k < a /\ Committing(p[k])
Turn(w, r, a, p, o, t, s, q) ==
  /\ Named(w, r, a, p, o, t, s, q) /\ Sited(r, a, p)
  /\ Reached(w, o, t, s) /\ Earned(w, r, a, p, o)
  /\ q = IF Rejected(s, Latest(w)) THEN GaveUp(o, t) ELSE Done(o, t, s)
  /\ Outcome(SubSeq(p, 1, a), Base(r)) = q

\* There are values for all the names of a turn.
LEMMA Turned ==
  ASSUME NEW w \in Worker, Safe(w), Busy(w)
  PROVE  \E r, a, p, o, t, s, q : Turn(w, r, a, p, o, t, s, q)
<1>1. PICK r, a, p, o, t, s, q :
        /\ r = work[w].req /\ a = work[w].at /\ p = prog[r] /\ o = SoFar(work[w])
        /\ t = p[a] /\ s = Stmt(w) /\ q = Perform(o, t)
  OBVIOUS
<1>2. Place(w) /\ Running(w)
  BY AtStatement DEF Place
<1>3. /\ r \in Req /\ a \in DOMAIN p /\ a \in Nat
      /\ p \in Seq(Statements) /\ Atomic(p) /\ DOMAIN p = 1..Len(p) /\ Len(p) \in Nat
      /\ IsOutcome(o) /\ s = Bound(t, o.id)
  BY <1>1, <1>2 DEF Place
<1>4. /\ ~o.over /\ o.rows = Latest(w) /\ o.id = work[w].id /\ o.saw = work[w].saw
      /\ o.wrote <=> work[w].mine # <<>> \/ Acted(r) # {}
      /\ o.wrote => \E i \in DOMAIN p : i < a /\ Changing(p[i])
      /\ Acted(r) # {} => work[w].mine = <<>> /\ \E k \in DOMAIN p : k < a /\ Committing(p[k])
  BY <1>1, <1>2 DEF Running, Follows
<1>5. s.op = t.op /\ s.onerr = t.onerr
  BY <1>1, Here DEF Safe
<1>6. q = IF Rejected(s, Latest(w)) THEN GaveUp(o, t) ELSE Done(o, t, s)
  BY <1>1, <1>3, <1>4 DEF Perform
<1>7. Outcome(SubSeq(p, 1, a), Base(r)) = q
  BY <1>1, Onward
<1>8. Turn(w, r, a, p, o, t, s, q)
  BY <1>1, <1>3, <1>4, <1>5, <1>6, <1>7 DEF Turn, Named, Sited, Reached, Earned
<1>9. QED
  BY <1>8

\* Where the statement stands.
LEMMA TurnAt ==
  ASSUME NEW w \in Worker, NEW r, NEW a, NEW p, NEW o, NEW t, NEW s, NEW q,
         Turn(w, r, a, p, o, t, s, q)
  PROVE  /\ r = work[w].req /\ a = work[w].at /\ p = prog[r] /\ o = SoFar(work[w])
         /\ a \in DOMAIN p /\ a \in Nat /\ DOMAIN p \subseteq Nat
         /\ p[a] = t /\ Atomic(p) /\ s = Stmt(w)
  BY DEF Turn, Named, Sited

\* A handler that may still end without a reply, or give up, has done nothing.
LEMMA Untold ==
  ASSUME NEW w \in Worker, NEW r, NEW a, NEW p, NEW o, NEW t, NEW s, NEW q,
         Turn(w, r, a, p, o, t, s, q),
         t.op \in {"silent", "undefined"} \/ (CanReject(t) /\ t.onerr # "go on")
  PROVE  ~o.wrote /\ work[w].mine = <<>> /\ Acted(r) = {} /\ Base(r) = Current
<1>1. ~o.wrote
  <2>1. Atomic(p) /\ a \in DOMAIN p /\ p[a] = t
    BY TurnAt
  <2>2. \A i \in DOMAIN p : ~(i < a /\ Changing(p[i]))
    BY <2>1 DEF Atomic
  <2>3. QED
    BY <2>2 DEF Turn, Earned
<1>2. work[w].mine = <<>> /\ Acted(r) = {}
  BY <1>1 DEF Turn, Earned
<1>3. QED
  BY <1>1, <1>2 DEF Base

\* At the reply a handler has nothing pending.
LEMMA Paid ==
  ASSUME NEW w \in Worker, Safe(w), Busy(w),
         NEW r, NEW a, NEW p, NEW o, NEW t, NEW s, NEW q,
         Turn(w, r, a, p, o, t, s, q), t.op = "reply"
  PROVE  work[w].mine = <<>>
<1> SUFFICES ASSUME work[w].mine # <<>> PROVE FALSE
  OBVIOUS
<1>1. IsSeq(work[w].mine)
  BY DEF Safe, IInv, Workers, Sound, Shape
<1>2. 1 \in DOMAIN work[w].mine
  BY <1>1 DEF IsSeq
<1>3. PICK c : c \in Places(work[w].mine)
  BY <1>2 DEF Places
<1>4. /\ c[2] \in DOMAIN p /\ c[2] < a /\ Writes(p[c[2]])
      /\ \A k \in DOMAIN p : c[2] < k /\ k < a => p[k].op # "commit"
  BY <1>3, PendingHere DEF Turn, Named
<1>5. \E k \in DOMAIN p : c[2] < k /\ k < a /\ p[k].op = "commit"
  <2>1. a \in DOMAIN p /\ p[a].op = "reply" /\ Atomic(p)
    BY TurnAt
  <2>2. Changing(p[c[2]])
    BY <1>4 DEF Changing
  <2>3. QED
    BY <1>4, <2>1, <2>2 DEF Atomic
<1>6. QED
  BY <1>4, <1>5

\* A change comes before any commit of its request.
LEMMA NotActed ==
  ASSUME NEW w \in Worker, NEW r, NEW a, NEW p, NEW o, NEW t, NEW s, NEW q,
         Turn(w, r, a, p, o, t, s, q), Changing(t)
  PROVE  Acted(r) = {}
<1>1. Atomic(p) /\ a \in DOMAIN p /\ p[a] = t
  BY TurnAt
<1>2. \A k \in DOMAIN p : ~(k < a /\ Committing(p[k]))
  BY <1>1 DEF Atomic
<1>3. QED
  BY <1>2 DEF Turn, Earned
----------------------------------------------------------------------------
(* Every step of the lone worker keeps the invariant and is a step of Store *)
(* or none.                                                                  *)

Goes(w) == LInv(w)' /\ (StoreMap!Next \/ UNCHANGED StoreMap!vars)

\* The handler has answered with what its program comes to.
Answering(w, o, q, x) ==
  /\ work[w].mine = <<>> /\ q.over /\ q.saw = o.saw /\ q.code \in {200, 401, 500}
  /\ q.wrote <=> o.wrote
  /\ x.mine = work[w].mine /\ x.link = TRUE /\ x.snap \in {0, Len(log)}
  /\ work' = [work EXCEPT ![w] = Return(x)] /\ answer' = Answered(w, q.code)
  /\ UNCHANGED <<inbox, prog, log, since, hurt>>

\* A reply: Store pays, or tells a request that has changed nothing.
LEMMA AnswerGoes ==
  ASSUME NEW w \in Worker, Lone(w), Safe(w), Busy(w),
         NEW r, NEW a, NEW p, NEW o, NEW t, NEW s, NEW q,
         Turn(w, r, a, p, o, t, s, q), NEW x, Answering(w, o, q, x)
  PROVE  Goes(w)
<1>0. /\ work[w].mine = <<>> /\ q.over /\ q.saw = o.saw /\ q.code \in {200, 401, 500}
      /\ q.wrote <=> o.wrote
      /\ x.mine = work[w].mine /\ x.link = TRUE /\ x.snap \in {0, Len(log)}
      /\ work' = [work EXCEPT ![w] = Return(x)] /\ answer' = Answered(w, q.code)
      /\ UNCHANGED <<inbox, prog, log, since, hurt>>
  BY DEF Answering
<1>1. PICK c : c = [code |-> q.code, saw |-> q.saw]
  OBVIOUS
<1>2. /\ answer' = [answer EXCEPT ![work[w].req] = c] /\ c.code \in {200, 401, 500}
      /\ c.code = q.code /\ c.saw = q.saw
  <2>1. c.code = q.code /\ c.saw = q.saw
    BY <1>1
  <2>2. q.code \in {200, 401, 500} /\ answer' = Answered(w, q.code) /\ q.saw = o.saw
    BY <1>0
  <2>3. o.saw = work[w].saw
    BY DEF Turn, Reached
  <2>4. Answered(w, q.code) = [answer EXCEPT ![work[w].req] = [code |-> q.code, saw |-> work[w].saw]]
    BY DEF Answered
  <2>5. QED
    BY <1>1, <2>1, <2>2, <2>3, <2>4
<1>3. Outcome(p, Base(r)) = q
  <2>1. Outcome(SubSeq(p, 1, a), Base(r)) = q /\ p \in Seq(Statements)
    BY DEF Turn, Sited
  <2>2. a \in 0..Len(p)
    <3>1. a \in DOMAIN p /\ a \in Nat /\ DOMAIN p = 1..Len(p) /\ Len(p) \in Nat
      BY DEF Turn, Sited
    <3>2. QED
      BY <3>1
  <2>3. Outcome(SubSeq(p, 1, a), Base(r)).over
    BY <1>0, <2>1
  <2>4. QED
    BY <2>1, <2>2, <2>3, OutcomeOver
<1>4. r = work[w].req /\ p = prog[r]
  BY DEF Turn, Named
<1>5. Acted(r) = {} => Base(r) = Current
  BY DEF Base
<1>6. LInv(w)'
  <2>1. PICK y : y = Return(x)
    OBVIOUS
  <2>2. y.req = None /\ y.link = TRUE /\ y.snap \in {0, Len(log)} /\ Idle(y)
    BY <1>0, <2>1 DEF Return, Waiting, Idle
  <2>3. c.code = 200 /\ Acted(work[w].req) = {} =>
          Outcome(prog[work[w].req], Current).saw = c.saw
    BY <1>2, <1>3, <1>4, <1>5
  <2>4. work' = [work EXCEPT ![w] = y] /\ UNCHANGED <<inbox, prog, log, since, hurt>>
    BY <1>0, <2>1
  <2>5. answer' = [answer EXCEPT ![work[w].req] = c] /\ c.code \in {200, 401, 500}
    BY <1>2
  <2>6. QED
    BY <2>2, <2>3, <2>4, <2>5, ReturnKeeps
<1>7. StoreMap!Next
  <2>1. CASE Acted(r) = {}
    <3>1. ~Outcome(prog[work[w].req], Current).wrote
      <4>1. ~o.wrote
        BY <1>0, <2>1 DEF Turn, Earned
      <4>2. ~q.wrote
        BY <1>0, <4>1
      <4>3. QED
        BY <1>3, <1>4, <1>5, <2>1, <4>2
    <3>2. c = [code |-> Outcome(prog[work[w].req], Current).code,
               saw |-> Outcome(prog[work[w].req], Current).saw]
      BY <1>1, <1>3, <1>4, <1>5, <2>1
    <3>3. Acted(work[w].req) = {}
      BY <1>4, <2>1
    <3>4. QED
      <5>1. answer' = [answer EXCEPT ![work[w].req] = c] /\ c.code \in {200, 401, 500}
        BY <1>2
      <5>2. UNCHANGED <<inbox, prog, log>>
        BY <1>0
      <5>3. QED
        BY ZenonT(60), <3>1, <3>2, <3>3, <5>1, <5>2, TellStep
  <2>2. CASE Acted(r) # {}
    <3>1. log' = log /\ prog' = prog /\ q = Outcome(prog[r], Base(r))
      BY <1>0, <1>3, <1>4
    <3>2. answer' = [answer EXCEPT ![r] = c]
      BY <1>2, <1>4
    <3>3. Paying(w, r, q, c)
      BY <1>1, <1>2, <1>4, <2>2, <3>1, <3>2 DEF Paying
    <3>4. QED
      BY <3>3, PayStep
  <2>3. QED
    BY <2>1, <2>2
<1>8. QED
  BY <1>6, <1>7 DEF Goes

\* The handler ends without an answer, or with what is none.
LEMMA LeaveGoes ==
  ASSUME NEW w \in Worker, Lone(w), Safe(w), Busy(w), NEW y,
         Acted(work[w].req) = {}, work' = [work EXCEPT ![w] = y],
         y.req = None, y.link = TRUE, y.snap \in {0, Len(log)}, Idle(y),
         answer' = answer \/ answer' = Answered(w, Garbage),
         UNCHANGED <<inbox, prog, log, since, hurt>>
  PROVE  Goes(w)
<1>1. \/ answer' = answer
      \/ \E c : /\ answer' = [answer EXCEPT ![work[w].req] = c]
                /\ c.code = 200 /\ Acted(work[w].req) = {} =>
                     Outcome(prog[work[w].req], Current).saw = c.saw
  <2>1. PICK c : c = [code |-> Garbage, saw |-> work[w].saw]
    OBVIOUS
  <2>2. c.code # 200
    BY <2>1 DEF Garbage
  <2>3. QED
    BY <2>1, <2>2 DEF Answered
<1>2. LInv(w)'
  BY <1>1, ReturnKeeps
<1>3. UNCHANGED StoreMap!vars
  BY AstrayStep
<1>4. QED
  BY <1>2, <1>3 DEF Goes

\* A bad pointer, before any change.
LEMMA StrayGoes ==
  ASSUME NEW w \in Worker, Lone(w), Safe(w), Busy(w), NEW x,
         Acted(work[w].req) = {}, x.mine = <<>>, x.link = TRUE, x.snap \in {0, Len(log)},
         Stray(w, x), UNCHANGED <<inbox, prog, log, since, hurt>>
  PROVE  Goes(w)
<1>1. CASE work' = [work EXCEPT ![w] = Born(Len(log))] /\ answer' = answer
  <2>1. PICK y : y = Born(Len(log))
    OBVIOUS
  <2>2. y.req = None /\ y.link = TRUE /\ y.snap \in {0, Len(log)} /\ Idle(y)
    BY <2>1 DEF Born, Waiting, Idle
  <2>3. QED
    BY <1>1, <2>1, <2>2, LeaveGoes
<1>2. CASE work' = [work EXCEPT ![w] = Return(x)] /\ answer' = Answered(w, Garbage)
  <2>1. PICK y : y = Return(x)
    OBVIOUS
  <2>2. y.req = None /\ y.link = TRUE /\ y.snap \in {0, Len(log)} /\ Idle(y)
    BY <2>1 DEF Return, Waiting, Idle
  <2>3. QED
    BY <1>2, <2>1, <2>2, LeaveGoes
<1>3. QED
  BY <1>1, <1>2 DEF Stray

\* The end of a handler.
LEMMA EndGoes ==
  ASSUME NEW w \in Worker, Lone(w), Safe(w), Busy(w),
         Reply1(w, Stmt(w)) \/ StaySilent(w, Stmt(w)) \/ GoStray(w, Stmt(w)),
         UNCHANGED <<inbox, prog, since, hurt>>
  PROVE  Goes(w)
<1>1. PICK r, a, p, o, t, s, q : Turn(w, r, a, p, o, t, s, q)
  BY Turned
<1>2. /\ s = Stmt(w) /\ s.op = t.op /\ IsOutcome(o) /\ r = work[w].req
      /\ q = IF Rejected(s, Latest(w)) THEN GaveUp(o, t) ELSE Done(o, t, s)
  BY <1>1 DEF Turn, Named, Reached
<1>3. work[w].link = TRUE /\ work[w].snap \in {0, Len(log)}
  BY DEF Safe, LInv
<1>4. PICK x : x = work[w]
  OBVIOUS
<1>5. log' = log /\ UNCHANGED <<inbox, prog, log, since, hurt>>
  BY DEF Reply1, StaySilent, GoStray
<1>6. CASE Reply1(w, s)
  <2>1. s.op = "reply" /\ work' = [work EXCEPT ![w] = Return(x)] /\ answer' = Answered(w, s.a)
    BY <1>4, <1>6 DEF Reply1
  <2>2. ~Rejected(s, Latest(w))
    BY <2>1 DEF Rejected
  <2>3. (q.wrote <=> o.wrote) /\ q.saw = o.saw /\ q.over /\ q.code = t.a
    <3>1. q = Done(o, t, s) /\ t.op = "reply" /\ IsOutcome(o)
      BY <1>2, <2>1, <2>2
    <3>2. QED
      BY <3>1, DoneReply
  <2>4. s.a = t.a /\ s.a \in {200, 401, 500}
    <3>1. t = prog[work[w].req][work[w].at] /\ s = Stmt(w)
      BY <1>1 DEF Turn, Named
    <3>2. IInv /\ AInv
      BY DEF Safe
    <3>3. QED
      BY <2>1, <3>1, <3>2, Here
  <2>5. work[w].mine = <<>>
    BY <1>1, <1>2, <2>1, Paid
  <2>6. x.mine = work[w].mine /\ x.link = TRUE /\ x.snap \in {0, Len(log)}
    BY <1>3, <1>4
  <2>7. answer' = Answered(w, q.code) /\ q.code \in {200, 401, 500}
    BY <2>1, <2>3, <2>4
  <2>8. Answering(w, o, q, x)
    BY <1>5, <2>1, <2>3, <2>5, <2>6, <2>7 DEF Answering
  <2>9. QED
    BY <1>1, <2>8, AnswerGoes
<1>7. CASE StaySilent(w, s)
  <2>1. t.op = "silent" /\ work' = [work EXCEPT ![w] = Return(x)] /\ answer' = answer
    BY <1>2, <1>4, <1>7 DEF StaySilent
  <2>2. work[w].mine = <<>> /\ Acted(r) = {}
    BY <1>1, <2>1, Untold
  <2>3. PICK y : y = Return(x)
    OBVIOUS
  <2>4. y.req = None /\ y.link = TRUE /\ y.snap \in {0, Len(log)} /\ Idle(y)
    BY <1>3, <1>4, <2>2, <2>3 DEF Return, Waiting, Idle
  <2>5. QED
    BY <1>2, <1>5, <2>1, <2>2, <2>3, <2>4, LeaveGoes
<1>8. CASE GoStray(w, s)
  <2>1. t.op = "undefined" /\ Stray(w, x)
    BY <1>2, <1>4, <1>8 DEF GoStray
  <2>2. work[w].mine = <<>> /\ Acted(r) = {}
    BY <1>1, <2>1, Untold
  <2>3. QED
    BY <1>2, <1>3, <1>4, <1>5, <2>1, <2>2, StrayGoes
<1>9. QED
  BY <1>2, <1>6, <1>7, <1>8

\* Further, then the fields that the statement has set.
Advances(w, y, r, a, o, t, q) ==
  /\ work' = [work EXCEPT ![w] = y] /\ UNCHANGED <<inbox, prog, log, answer, since, hurt>>
  /\ y.req = r /\ y.at = a + 1 /\ y.link = TRUE /\ y.snap \in {0, Len(log)}
  /\ q.id = y.id /\ q.saw = y.saw /\ ~q.over
  /\ q.wrote <=> y.mine # <<>> \/ Acted(r) # {}
  /\ q.rows = AppliedAll([i \in DOMAIN y.mine |-> y.mine[i].stmt], Current)
  /\ \A c \in Places(y.mine) : c[1] = r
  /\ q.wrote => o.wrote \/ Changing(t)
  /\ Acted(r) # {} => y.mine = work[w].mine

\* A statement that only advances the worker is a stutter of Store.
LEMMA Onwards ==
  ASSUME NEW w \in Worker, Lone(w), Safe(w), Busy(w), NEW y,
         NEW r, NEW a, NEW p, NEW o, NEW t, NEW s, NEW q,
         Turn(w, r, a, p, o, t, s, q), Advances(w, y, r, a, o, t, q)
  PROVE  Goes(w)
<1>0. /\ work' = [work EXCEPT ![w] = y] /\ UNCHANGED <<inbox, prog, log, answer, since, hurt>>
      /\ y.req = r /\ y.at = a + 1 /\ y.link = TRUE /\ y.snap \in {0, Len(log)}
      /\ q.id = y.id /\ q.saw = y.saw /\ ~q.over
      /\ q.wrote <=> y.mine # <<>> \/ Acted(r) # {}
      /\ q.rows = AppliedAll([i \in DOMAIN y.mine |-> y.mine[i].stmt], Current)
      /\ \A c \in Places(y.mine) : c[1] = r
      /\ q.wrote => o.wrote \/ Changing(t)
      /\ Acted(r) # {} => y.mine = work[w].mine
  BY DEF Advances
<1>1. /\ r = work[w].req /\ a = work[w].at /\ p = prog[r] /\ q = Perform(o, t)
      /\ o = SoFar(work[w]) /\ t = p[a]
  BY DEF Turn, Named
<1>2. a \in Nat /\ DOMAIN p \subseteq Nat
  BY TurnAt
<1>3. a < y.at /\ \A i \in DOMAIN p : i < a => i < y.at
  <2>1. y.at = a + 1
    BY <1>0
  <2>2. QED
    BY <1>2, <2>1
<1>4. Follows(y, p, q, Acted(r) # {})
  <2>1. q.wrote => \E i \in DOMAIN p : i < y.at /\ Changing(p[i])
    <3>1. o.wrote => \E i \in DOMAIN p : i < a /\ Changing(p[i])
      BY DEF Turn, Earned
    <3>2. a < y.at /\ \A i \in DOMAIN p : i < a => i < y.at
      BY <1>3
    <3>3. q.wrote => o.wrote \/ Changing(t)
      BY <1>0
    <3>4. a \in DOMAIN p /\ p[a] = t
      BY TurnAt
    <3>5. QED
      BY <3>1, <3>2, <3>3, <3>4
  <2>2. Acted(r) # {} => y.mine = <<>> /\ \E k \in DOMAIN p : k < y.at /\ Committing(p[k])
    <3>1. Acted(r) # {} =>
            work[w].mine = <<>> /\ \E k \in DOMAIN p : k < a /\ Committing(p[k])
      BY DEF Turn, Earned
    <3>2. \A i \in DOMAIN p : i < a => i < y.at
      BY <1>3
    <3>3. Acted(r) # {} => y.mine = work[w].mine
      BY <1>0
    <3>4. QED
      BY <3>1, <3>2, <3>3
  <2>3. QED
    BY <1>0, <2>1, <2>2 DEF Follows
<1>5. Perform(SoFar(work[w]), prog[work[w].req][work[w].at]) = q
  BY <1>1
<1>6. LInv(w)' /\ UNCHANGED StoreMap!vars
  <2>1. /\ y.req = work[w].req /\ y.at = work[w].at + 1
        /\ Follows(y, prog[work[w].req],
                   Perform(SoFar(work[w]), prog[work[w].req][work[w].at]),
                   Acted(work[w].req) # {})
        /\ Perform(SoFar(work[w]), prog[work[w].req][work[w].at]).rows
             = AppliedAll([i \in DOMAIN y.mine |-> y.mine[i].stmt], Current)
        /\ \A c \in Places(y.mine) : c[1] = work[w].req
    BY <1>0, <1>1, <1>4, <1>5
  <2>2. QED
    BY <1>0, <2>1, StayKeeps
<1>7. QED
  BY <1>6 DEF Goes

\* The record of the worker after a SELECT.
LEMMA OpenedIs ==
  ASSUME NEW w \in Worker, Safe(w), NEW s
  PROVE  LET x == Opened(w, s) IN
    /\ Shape(x) /\ x.at = work[w].at /\ x.req = work[w].req /\ x.id = work[w].id
    /\ x.saw = work[w].saw /\ x.mine = work[w].mine /\ x.link = TRUE
    /\ x.snap \in {0, Len(log)}
<1>1. /\ Shape(work[w]) /\ work[w].link = TRUE /\ work[w].snap \in {0, Len(log)}
  BY DEF Safe, IInv, Workers, Sound, LInv
<1>2. PICK n : n = Snapshot(w) /\ n = Len(log)
  BY UpToDate
<1>3. LET x == [work[w] EXCEPT !.snap = n] IN
      /\ Shape(x) /\ x.at = work[w].at /\ x.req = work[w].req /\ x.id = work[w].id
      /\ x.saw = work[w].saw /\ x.mine = work[w].mine /\ x.link = TRUE /\ x.snap = n
  BY <1>1 DEF Shape, Fields
<1>4. QED
  BY <1>1, <1>2, <1>3 DEF Opened

\* A worker at its next statement, field by field.
LEMMA FurtherIs ==
  ASSUME NEW x, Shape(x)
  PROVE  LET y == Further(x) IN
    /\ Shape(y) /\ y.at = x.at + 1 /\ y.req = x.req /\ y.id = x.id /\ y.saw = x.saw
    /\ y.mine = x.mine /\ y.link = x.link /\ y.snap = x.snap
  BY DEF Shape, Fields, Further

\* What a turn finds in the worker's record.
Finds(w, r, a, o, t, s) ==
  /\ r = work[w].req /\ a = work[w].at /\ s = Stmt(w) /\ s.op = t.op /\ s.onerr = t.onerr
  /\ IsOutcome(o) /\ ~o.over /\ o.rows = Latest(w) /\ o.rows = View(w)
  /\ o.id = work[w].id /\ o.saw = work[w].saw
  /\ o.wrote <=> work[w].mine # <<>> \/ Acted(r) # {}
  /\ o.rows = AppliedAll([i \in DOMAIN work[w].mine |-> work[w].mine[i].stmt], Current)
  /\ \A c \in Places(work[w].mine) : c[1] = r
  /\ work[w].mine \in Seq(Changes) /\ IsSeq(work[w].mine)
  /\ work[w].link = TRUE /\ work[w].snap \in {0, Len(log)} /\ Shape(work[w])

\* On one worker a query sees what the run by itself sees.
LEMMA TurnFinds ==
  ASSUME NEW w \in Worker, Safe(w), Busy(w),
         NEW r, NEW a, NEW p, NEW o, NEW t, NEW s, NEW q, Turn(w, r, a, p, o, t, s, q)
  PROVE  Finds(w, r, a, o, t, s)
<1>1. /\ r = work[w].req /\ a = work[w].at /\ s = Stmt(w) /\ s.op = t.op /\ s.onerr = t.onerr
      /\ IsOutcome(o) /\ ~o.over /\ o.rows = Latest(w)
      /\ o.id = work[w].id /\ o.saw = work[w].saw
      /\ o.wrote <=> work[w].mine # <<>> \/ Acted(r) # {}
  BY DEF Turn, Named, Reached, Earned
<1>2. o.rows = View(w)
  BY <1>1, UpToDate
<1>3. o.rows = AppliedAll([i \in DOMAIN work[w].mine |-> work[w].mine[i].stmt], Current)
  BY <1>1 DEF Latest, Pending
<1>4. \A c \in Places(work[w].mine) : c[1] = r
  BY <1>1, AtStatement DEF Place, Running
<1>5. work[w].mine \in Seq(Changes)
  BY DEF Safe, Types, Held
<1>6. /\ IsSeq(work[w].mine) /\ Shape(work[w])
      /\ work[w].link = TRUE /\ work[w].snap \in {0, Len(log)}
  BY DEF Safe, IInv, Workers, Sound, Shape, LInv
<1>7. QED
  BY <1>1, <1>2, <1>3, <1>4, <1>5, <1>6 DEF Finds

\* An error that the handler ignores, a statement that finds nothing to do.
LEMMA SkipGoes ==
  ASSUME NEW w \in Worker, Lone(w), Safe(w), Busy(w),
         NEW r, NEW a, NEW p, NEW o, NEW t, NEW s, Turn(w, r, a, p, o, t, s, o),
         NEW y, y.req = r, y.at = a + 1, y.link = TRUE, y.snap \in {0, Len(log)},
         y.id = work[w].id, y.saw = work[w].saw, y.mine = work[w].mine,
         work' = [work EXCEPT ![w] = y], UNCHANGED <<inbox, prog, log, answer, since, hurt>>
  PROVE  Goes(w)
<1>1. /\ o.id = y.id /\ o.saw = y.saw /\ ~o.over
      /\ o.wrote <=> y.mine # <<>> \/ Acted(r) # {}
      /\ o.rows = AppliedAll([i \in DOMAIN y.mine |-> y.mine[i].stmt], Current)
      /\ \A c \in Places(y.mine) : c[1] = r
  <2>1. Finds(w, r, a, o, t, s)
    BY TurnFinds
  <2>2. QED
    BY <2>1 DEF Finds
<1>2. Advances(w, y, r, a, o, t, o)
  BY <1>1 DEF Advances
<1>3. QED
  BY <1>2, Onwards

\* A call in error: the handler goes on, or ends before any change.
LEMMA ErrorGoes ==
  ASSUME NEW w \in Worker, Lone(w), Safe(w), Busy(w),
         NEW r, NEW a, NEW p, NEW o, NEW t, NEW s, NEW q, Turn(w, r, a, p, o, t, s, q),
         Rejected(s, Latest(w)), OnError(w, s, Opened(w, s)),
         UNCHANGED <<inbox, prog, since, hurt>>
  PROVE  Goes(w)
<1>1. q = GaveUp(o, t) /\ CanReject(t)
  <2>1. CanReject(s) /\ s.op = t.op
    BY DEF Turn, Reached, Rejected, CanReject
  <2>2. QED
    BY <2>1 DEF Turn, CanReject
<1>2. PICK x : x = Opened(w, s)
  OBVIOUS
<1>3. /\ Shape(x) /\ x.at = work[w].at /\ x.req = work[w].req /\ x.id = work[w].id
      /\ x.saw = work[w].saw /\ x.mine = work[w].mine /\ x.link = TRUE
      /\ x.snap \in {0, Len(log)}
  BY <1>2, OpenedIs
<1>4. /\ r = work[w].req /\ a = work[w].at /\ s.onerr = t.onerr /\ IsOutcome(o)
      /\ o.saw = work[w].saw
  <2>1. Finds(w, r, a, o, t, s)
    BY TurnFinds
  <2>2. QED
    BY <2>1 DEF Finds
<1>5. UNCHANGED <<inbox, prog, log, since, hurt>>
  BY DEF OnError
<1>6. ASSUME t.onerr # "go on" PROVE x.mine = <<>> /\ Acted(r) = {} /\ ~o.wrote
  BY <1>1, <1>3, <1>6, Untold
<1>7. CASE /\ s.onerr = "abort"
           /\ work' = [work EXCEPT ![w] = Return(x)] /\ answer' = answer
  <2>1. x.mine = <<>> /\ Acted(work[w].req) = {}
    BY <1>4, <1>6, <1>7
  <2>2. PICK y : y = Return(x)
    OBVIOUS
  <2>3. y.req = None /\ y.link = TRUE /\ y.snap \in {0, Len(log)} /\ Idle(y)
    BY <1>3, <2>1, <2>2 DEF Return, Waiting, Idle
  <2>4. QED
    BY <1>5, <1>7, <2>1, <2>2, <2>3, LeaveGoes
<1>8. CASE /\ s.onerr = "refuse"
           /\ work' = [work EXCEPT ![w] = Return(x)] /\ answer' = Answered(w, 500)
  <2>1. x.mine = <<>> /\ t.onerr = "refuse"
    BY <1>4, <1>6, <1>8
  <2>2. q.over /\ q.saw = o.saw /\ (q.wrote <=> o.wrote) /\ q.code = 500
    <3>1. IsOutcome(o) /\ q = GaveUp(o, t) /\ t.onerr = "refuse"
      BY <1>1, <1>4, <2>1
    <3>2. QED
      BY ZenonT(60), <3>1 DEF GaveUp, IsOutcome
  <2>3. Answering(w, o, q, x)
    BY <1>3, <1>5, <1>8, <2>1, <2>2 DEF Answering
  <2>4. QED
    BY <2>3, AnswerGoes
<1>12. CASE /\ s.onerr = "echo"
           /\ work' = [work EXCEPT ![w] = Return(x)] /\ answer' = Answered(w, 200)
  <2>1. x.mine = <<>> /\ t.onerr = "echo"
    BY <1>4, <1>6, <1>12
  <2>2. q.over /\ q.saw = o.saw /\ (q.wrote <=> o.wrote) /\ q.code = 200
    <3>1. IsOutcome(o) /\ q = GaveUp(o, t) /\ t.onerr = "echo"
      BY <1>1, <1>4, <2>1
    <3>2. QED
      BY ZenonT(60), <3>1 DEF GaveUp, IsOutcome
  <2>3. Answering(w, o, q, x)
    BY <1>3, <1>5, <1>12, <2>1, <2>2 DEF Answering
  <2>4. QED
    BY <2>3, AnswerGoes
<1>9. CASE s.onerr \in {"stray", "reuse"} /\ Stray(w, x)
  <2>1. x.mine = <<>> /\ Acted(work[w].req) = {}
    BY <1>4, <1>6, <1>9
  <2>2. QED
    BY <1>3, <1>5, <1>9, <2>1, StrayGoes
<1>10. CASE /\ GoesOn(s)
            /\ work' = [work EXCEPT ![w] = Further(x)] /\ answer' = answer
  <2>1. q = o
    <3>1. IsOutcome(o) /\ q = GaveUp(o, t) /\ GoesOn(t)
      BY <1>1, <1>4, <1>10 DEF GoesOn
    <3>2. QED
      BY <3>1, GaveUpIs
  <2>2. PICK y : y = Further(x)
    OBVIOUS
  <2>3. /\ y.req = r /\ y.at = a + 1 /\ y.link = TRUE /\ y.snap \in {0, Len(log)}
        /\ y.id = work[w].id /\ y.saw = work[w].saw /\ y.mine = work[w].mine
    BY <1>3, <1>4, <2>2, FurtherIs
  <2>4. Turn(w, r, a, p, o, t, s, o)
    BY <2>1
  <2>5. work' = [work EXCEPT ![w] = y] /\ UNCHANGED <<inbox, prog, log, answer, since, hurt>>
    BY <1>5, <1>10, <2>2
  <2>6. QED
    BY <2>3, <2>4, <2>5, SkipGoes
<1>11. QED
  BY <1>2, <1>7, <1>8, <1>9, <1>10, <1>12 DEF OnError

\* A query is a stutter of Store.
LEMMA ReadGoes ==
  ASSUME NEW w \in Worker, Lone(w), Safe(w), Busy(w),
         NEW r, NEW a, NEW p, NEW o, NEW t, NEW s, NEW q, Turn(w, r, a, p, o, t, s, q),
         ~Rejected(s, Latest(w)), Read(w, s), UNCHANGED <<inbox, prog, since, hurt>>
  PROVE  Goes(w)
<1>1. q = Done(o, t, s) /\ Reads(t) /\ (t.op = "find" <=> s.op = "find")
  BY DEF Turn, Reached, Read, Reads
<1>2. PICK x, i, v : x = Further(Opened(w, s)) /\ i = KeyFound(s, View(w)) /\ v = Touched(s, View(w))
  OBVIOUS
<1>3. /\ Shape(x) /\ x.req = r /\ x.at = a + 1 /\ x.link = TRUE /\ x.snap \in {0, Len(log)}
      /\ x.id = work[w].id /\ x.saw = work[w].saw /\ x.mine = work[w].mine
  <2>1. PICK z : z = Opened(w, s)
    OBVIOUS
  <2>2. /\ Shape(z) /\ z.at = work[w].at /\ z.req = work[w].req /\ z.id = work[w].id
        /\ z.saw = work[w].saw /\ z.mine = work[w].mine /\ z.link = TRUE
        /\ z.snap \in {0, Len(log)}
    BY <2>1, OpenedIs
  <2>3. Finds(w, r, a, o, t, s)
    BY TurnFinds
  <2>4. r = work[w].req /\ a = work[w].at
    BY <2>3 DEF Finds
  <2>5. QED
    BY <1>2, <2>1, <2>2, <2>4, FurtherIs
<1>4. PICK y : /\ work' = [work EXCEPT ![w] = y]
               /\ y = IF s.op = "find" THEN [x EXCEPT !.id = i]
                      ELSE [x EXCEPT !.saw = x.saw \cup v]
  BY <1>2 DEF Read
<1>5. /\ y.req = r /\ y.at = a + 1 /\ y.link = TRUE /\ y.snap \in {0, Len(log)}
      /\ y.mine = work[w].mine
      /\ s.op = "find" => y.id = i /\ y.saw = work[w].saw
      /\ s.op # "find" => y.id = work[w].id /\ y.saw = work[w].saw \cup v
  <2>1. CASE s.op = "find"
    BY <1>3, <1>4, <2>1 DEF Shape, Fields
  <2>2. CASE s.op # "find"
    BY <1>3, <1>4, <2>2 DEF Shape, Fields
  <2>3. QED
    BY <2>1, <2>2
<1>6. /\ IsOutcome(o) /\ ~o.over /\ o.rows = View(w)
      /\ o.id = work[w].id /\ o.saw = work[w].saw
      /\ o.wrote <=> work[w].mine # <<>> \/ Acted(r) # {}
      /\ o.rows = AppliedAll([j \in DOMAIN work[w].mine |-> work[w].mine[j].stmt], Current)
      /\ \A c \in Places(work[w].mine) : c[1] = r
  <2>1. Finds(w, r, a, o, t, s)
    BY TurnFinds
  <2>2. QED
    BY <2>1 DEF Finds
<1>7. /\ q.rows = o.rows /\ (q.wrote <=> o.wrote) /\ ~q.over
      /\ s.op = "find" => q.id = i /\ q.saw = o.saw
      /\ s.op # "find" => q.id = o.id /\ q.saw = o.saw \cup v
  BY <1>1, <1>2, <1>6, DoneRead
<1>8. q.id = y.id /\ q.saw = y.saw
  BY <1>5, <1>6, <1>7
<1>9. /\ (q.wrote <=> y.mine # <<>> \/ Acted(r) # {})
      /\ q.rows = AppliedAll([j \in DOMAIN y.mine |-> y.mine[j].stmt], Current)
      /\ \A c \in Places(y.mine) : c[1] = r
      /\ q.wrote => o.wrote \/ Changing(t)
  BY <1>5, <1>6, <1>7
<1>10. UNCHANGED <<inbox, prog, log, answer, since, hurt>>
  BY DEF Read
<1>11. Advances(w, y, r, a, o, t, q)
  BY <1>4, <1>5, <1>7, <1>8, <1>9, <1>10 DEF Advances
<1>12. QED
  BY <1>11, Onwards

\* One statement more, after the pending ones.
LEMMA OneMore ==
  ASSUME NEW mine \in Seq(Changes), NEW c \in Changes
  PROVE  LET m == Append(mine, c) IN
    /\ m \in Seq(Changes) /\ m # <<>>
    /\ AppliedAll([i \in DOMAIN m |-> m[i].stmt], Current)
         = Applied(c.stmt, AppliedAll([i \in DOMAIN mine |-> mine[i].stmt], Current))
<1>1. PICK m, n, ss : /\ m = Append(mine, c) /\ n = Len(mine)
                      /\ ss = [i \in DOMAIN mine |-> mine[i].stmt]
  OBVIOUS
<1>2. /\ m \in Seq(Changes) /\ m # <<>> /\ n \in Nat /\ DOMAIN mine = 1..n
      /\ DOMAIN m = 1..(n + 1) /\ m[n + 1] = c /\ \A i \in 1..n : m[i] = mine[i]
  BY <1>1
<1>3. c.stmt \in Statements /\ ss \in Seq(Statements)
  <2>1. \A d \in Changes : d.stmt \in Statements
    BY DEF Changes
  <2>2. QED
    BY SMTT(30), <1>1, <2>1
<1>4. [i \in DOMAIN m |-> m[i].stmt] = Append(ss, c.stmt)
  <2>1. Len(ss) = n /\ DOMAIN ss = 1..n /\ \A i \in 1..n : ss[i] = mine[i].stmt
    BY <1>1, <1>2
  <2>2. PICK tt : tt = Append(ss, c.stmt)
    OBVIOUS
  <2>3. /\ tt \in Seq(Statements) /\ Len(tt) = n + 1 /\ DOMAIN tt = 1..(n + 1)
        /\ tt[n + 1] = c.stmt /\ \A i \in 1..n : tt[i] = ss[i]
    BY <1>3, <2>1, <2>2
  <2>4. \A i \in 1..(n + 1) : tt[i] = m[i].stmt
    BY <1>2, <2>1, <2>3
  <2>5. tt = [i \in 1..(n + 1) |-> tt[i]]
    BY <2>3
  <2>6. QED
    BY <1>2, <2>2, <2>4, <2>5
<1>5. AppliedAll(Append(ss, c.stmt), Current) = Applied(c.stmt, AppliedAll(ss, Current))
  BY <1>3, AppliedAppend
<1>6. QED
  BY <1>1, <1>2, <1>4, <1>5

\* A change: what it does to the rows, and that nothing was committed before.
LEMMA Changed ==
  ASSUME NEW w \in Worker, Safe(w), Busy(w),
         NEW r, NEW a, NEW p, NEW o, NEW t, NEW s, NEW q, Turn(w, r, a, p, o, t, s, q),
         ~Rejected(s, Latest(w)), Changing(s)
  PROVE  LET m == Append(work[w].mine, Change(w, s)) IN
    /\ m \in Seq(Changes) /\ m # <<>> /\ Acted(r) = {} /\ Changing(t)
    /\ Places(m) = Places(work[w].mine) \cup {<<r, a>>}
    /\ q.rows = AppliedAll([i \in DOMAIN m |-> m[i].stmt], Current)
    /\ q.wrote /\ ~q.over /\ q.id = work[w].id /\ q.saw = work[w].saw
<1>1. Finds(w, r, a, o, t, s)
  BY TurnFinds
<1>2. q = Done(o, t, s) /\ Changing(t)
  BY <1>1 DEF Turn, Reached, Finds, Changing, Writes
<1>3. /\ IsOutcome(o) /\ ~Reads(t) /\ t.op \notin {"reply", "silent", "undefined", "commit"}
  BY <1>1, <1>2 DEF Finds, Changing, Writes, Reads
<1>4. /\ q.rows = Applied(s, o.rows) /\ q.wrote = TRUE
      /\ q.id = o.id /\ q.saw = o.saw /\ q.over = o.over
  BY ZenonT(60), <1>2, <1>3, DoneOther
<1>5. Acted(r) = {}
  BY <1>2, NotActed
<1>6. Change(w, s) \in Changes
  BY <1>1, StmtTyped DEF Finds, Safe
<1>7. PICK c, mine : /\ c = Change(w, s) /\ mine = work[w].mine
                     /\ c = [req |-> r, at |-> a, stmt |-> s]
  BY <1>1 DEF Finds, Change
<1>8. /\ mine \in Seq(Changes) /\ IsSeq(mine)
      /\ o.rows = AppliedAll([i \in DOMAIN mine |-> mine[i].stmt], Current)
      /\ ~o.over /\ o.id = work[w].id /\ o.saw = work[w].saw
  BY <1>1, <1>7 DEF Finds
<1>9. PICK m : m = Append(mine, c)
  OBVIOUS
<1>10. /\ m \in Seq(Changes) /\ m # <<>>
       /\ AppliedAll([i \in DOMAIN m |-> m[i].stmt], Current) = Applied(s, o.rows)
  <2>1. c \in Changes /\ c.stmt = s
    BY <1>6, <1>7
  <2>2. QED
    BY <1>8, <1>9, <2>1, OneMore
<1>11. Places(m) = Places(mine) \cup {<<r, a>>}
  <2>1. Places(m) = Places(mine) \cup {<<c.req, c.at>>}
    BY <1>8, <1>9, AppendPlaces
  <2>2. QED
    BY <1>7, <2>1
<1>12. q.wrote /\ ~q.over
  BY <1>4, <1>8
<1>13. QED
  BY <1>2, <1>4, <1>5, <1>7, <1>8, <1>9, <1>10, <1>11, <1>12

\* A pending change is a stutter of Store.
LEMMA WriteGoes ==
  ASSUME NEW w \in Worker, Lone(w), Safe(w), Busy(w),
         NEW r, NEW a, NEW p, NEW o, NEW t, NEW s, NEW q, Turn(w, r, a, p, o, t, s, q),
         ~Rejected(s, Latest(w)), Write(w, s), UNCHANGED <<inbox, prog, since, hurt>>
  PROVE  Goes(w)
<1>1. PICK m, x, y : /\ m = Append(work[w].mine, Change(w, s)) /\ x = Further(work[w])
                     /\ y = [x EXCEPT !.mine = m]
  OBVIOUS
<1>2. Finds(w, r, a, o, t, s)
  BY TurnFinds
<1>3. Changing(s)
  BY DEF Write, Changing
<1>4. /\ m \in Seq(Changes) /\ m # <<>> /\ Acted(r) = {} /\ Changing(t)
      /\ Places(m) = Places(work[w].mine) \cup {<<r, a>>}
      /\ q.rows = AppliedAll([i \in DOMAIN m |-> m[i].stmt], Current)
      /\ q.wrote /\ ~q.over /\ q.id = work[w].id /\ q.saw = work[w].saw
  BY <1>1, <1>3, Changed
<1>5. /\ Shape(x) /\ x.req = r /\ x.at = a + 1 /\ x.link = TRUE /\ x.snap \in {0, Len(log)}
      /\ x.id = work[w].id /\ x.saw = work[w].saw
  <2>1. /\ Shape(work[w]) /\ r = work[w].req /\ a = work[w].at
        /\ work[w].link = TRUE /\ work[w].snap \in {0, Len(log)}
    BY <1>2 DEF Finds
  <2>2. QED
    BY <1>1, <2>1, FurtherIs
<1>6. /\ y.req = r /\ y.at = a + 1 /\ y.link = TRUE /\ y.snap \in {0, Len(log)}
      /\ y.id = work[w].id /\ y.saw = work[w].saw /\ y.mine = m
  BY <1>1, <1>5 DEF Shape, Fields
<1>7. \A c \in Places(m) : c[1] = r
  <2>1. \A c \in Places(work[w].mine) : c[1] = r
    BY <1>2 DEF Finds
  <2>2. QED
    BY <1>4, <2>1
<1>8. work' = [work EXCEPT ![w] = y] /\ UNCHANGED <<inbox, prog, log, answer, since, hurt>>
  BY <1>1 DEF Write
<1>9. Advances(w, y, r, a, o, t, q)
  BY <1>4, <1>6, <1>7, <1>8 DEF Advances
<1>10. QED
  BY <1>9, Onwards

\* A commit that is the first of its request.
LEMMA CommitGoes ==
  ASSUME NEW w \in Worker, Lone(w), Safe(w), Busy(w),
         NEW r, NEW a, NEW p, NEW o, NEW t, NEW s, NEW q, Turn(w, r, a, p, o, t, s, q),
         Committing(t), q.wrote, ~q.over, q.id = work[w].id, q.saw = work[w].saw,
         q.wrote => o.wrote \/ Changing(t),
         NEW ch, Acting(w, r, ch), q.rows = Entry(ch).rows,
         work' = [work EXCEPT ![w] = [Further(work[w]) EXCEPT !.mine = <<>>, !.snap = 0]],
         UNCHANGED <<inbox, since, hurt>>
  PROVE  Goes(w)
<1>1. PICK x, y : x = Further(work[w]) /\ y = [x EXCEPT !.mine = <<>>, !.snap = 0]
  OBVIOUS
<1>2. Finds(w, r, a, o, t, s)
  BY TurnFinds
<1>3. /\ r = work[w].req /\ a = work[w].at /\ Shape(work[w]) /\ work[w].link = TRUE
  BY <1>2 DEF Finds
<1>4. /\ Shape(x) /\ x.req = r /\ x.at = a + 1 /\ x.link = TRUE
      /\ x.id = work[w].id /\ x.saw = work[w].saw
  BY <1>1, <1>3, FurtherIs
<1>5. /\ y.req = r /\ y.at = a + 1 /\ y.link = TRUE /\ y.snap = 0
      /\ y.id = work[w].id /\ y.saw = work[w].saw /\ y.mine = <<>>
  BY <1>1, <1>4 DEF Shape, Fields
<1>6. /\ p = prog[r] /\ q = Perform(SoFar(work[w]), prog[r][work[w].at])
      /\ prog[r][work[w].at] = t /\ p[a] = t /\ a \in DOMAIN p /\ a \in Nat /\ DOMAIN p \subseteq Nat
  <2>1. /\ r = work[w].req /\ a = work[w].at /\ p = prog[r] /\ o = SoFar(work[w])
        /\ a \in DOMAIN p /\ a \in Nat /\ DOMAIN p \subseteq Nat /\ p[a] = t
    BY TurnAt
  <2>2. q = Perform(o, t)
    BY DEF Turn, Named
  <2>3. QED
    BY <2>1, <2>2
<1>7. \E i \in DOMAIN p : i < a + 1 /\ Changing(p[i])
  <2>1. CASE Changing(t)
    BY <1>6, <2>1
  <2>2. CASE o.wrote
    <3>1. \E i \in DOMAIN p : i < a /\ Changing(p[i])
      BY <2>2 DEF Turn, Earned
    <3>2. \A i \in Nat : i < a => i < a + 1
      BY <1>6
    <3>3. QED
      BY <1>6, <3>1, <3>2
  <2>3. QED
    BY <2>1, <2>2
<1>8. Follows(y, prog[r], q, TRUE)
  <2>1. a \in DOMAIN p /\ a < a + 1 /\ Committing(p[a])
    BY <1>6
  <2>2. QED
    BY <1>5, <1>6, <1>7, <2>1 DEF Follows
<1>9. work' = [work EXCEPT ![w] = y] /\ y.at = work[w].at + 1
  BY <1>1, <1>3, <1>5
<1>10. LInv(w)'
  BY <1>3, <1>5, <1>6, <1>8, <1>9, ActKeeps
<1>11. StoreMap!Next
  BY <1>3, <1>6, ActStep
<1>12. QED
  BY <1>10, <1>11 DEF Goes

\* TRUNCATE commits by itself, so Store acts.
LEMMA TruncateGoes ==
  ASSUME NEW w \in Worker, Lone(w), Safe(w), Busy(w),
         NEW r, NEW a, NEW p, NEW o, NEW t, NEW s, NEW q, Turn(w, r, a, p, o, t, s, q),
         ~Rejected(s, Latest(w)), TruncateTable(w, s), UNCHANGED <<inbox, prog, since, hurt>>
  PROVE  Goes(w)
<1>1. PICK ch : ch = Append(work[w].mine, Change(w, s))
  OBVIOUS
<1>2. Finds(w, r, a, o, t, s)
  BY TurnFinds
<1>3. Changing(s) /\ s.op = "truncate"
  BY DEF TruncateTable, Changing
<1>4. /\ ch \in Seq(Changes) /\ ch # <<>> /\ Acted(r) = {} /\ Changing(t)
      /\ Places(ch) = Places(work[w].mine) \cup {<<r, a>>}
      /\ q.rows = AppliedAll([i \in DOMAIN ch |-> ch[i].stmt], Current)
      /\ q.wrote /\ ~q.over /\ q.id = work[w].id /\ q.saw = work[w].saw
  BY <1>1, <1>3, Changed
<1>5. r = work[w].req /\ s.op = t.op
  BY <1>2 DEF Finds
<1>6. p = prog[r] /\ t = p[a] /\ a \in DOMAIN p
  BY DEF Turn, Named, Sited
<1>7. ASSUME NEW c \in Places(ch)
      PROVE  c[1] = r /\ c[2] \in DOMAIN prog[r] /\ Changing(prog[r][c[2]])
  <2>1. CASE c \in Places(work[w].mine)
    BY <1>5, <2>1, PendingHere DEF Changing
  <2>2. CASE c = <<r, a>>
    BY <1>4, <1>6, <2>2
  <2>3. QED
    BY <1>4, <1>7, <2>1, <2>2
<1>8. Acting(w, r, ch)
  <2>1. log' = Append(log, Entry(ch)) /\ answer' = answer
    BY <1>1, <1>4 DEF TruncateTable, Logged
  <2>2. QED
    BY <1>4, <1>7, <2>1 DEF Acting
<1>9. q.rows = Entry(ch).rows
  BY <1>4 DEF Entry
<1>10. Committing(t)
  BY <1>3, <1>5 DEF Committing
<1>11. work' = [work EXCEPT ![w] = [Further(work[w]) EXCEPT !.mine = <<>>, !.snap = 0]]
  BY DEF TruncateTable
<1>12. QED
  BY <1>4, <1>8, <1>9, <1>10, <1>11, CommitGoes

\* Store acts at the commit, or stutters when nothing is pending.
LEMMA Commit1Goes ==
  ASSUME NEW w \in Worker, Lone(w), Safe(w), Busy(w),
         NEW r, NEW a, NEW p, NEW o, NEW t, NEW s, NEW q, Turn(w, r, a, p, o, t, s, q),
         Commit1(w, s), UNCHANGED <<inbox, prog, since, hurt>>
  PROVE  Goes(w)
<1>1. PICK ch : ch = work[w].mine
  OBVIOUS
<1>2. Finds(w, r, a, o, t, s)
  BY TurnFinds
<1>3. s.op = "commit" /\ t.op = "commit" /\ r = work[w].req /\ a = work[w].at
  BY <1>2 DEF Commit1, Finds
<1>4. q = o
  <2>1. ~Rejected(s, Latest(w))
    BY <1>3 DEF Rejected
  <2>2. q = Done(o, t, s)
    BY <2>1 DEF Turn
  <2>3. QED
    BY <1>3, <2>2, DoneCommit
<1>5. work' = [work EXCEPT ![w] = [Further(work[w]) EXCEPT !.mine = <<>>, !.snap = 0]]
  BY DEF Commit1
<1>6. CASE ch = <<>>
  <2>1. PICK x, y : x = Further(work[w]) /\ y = [x EXCEPT !.mine = <<>>, !.snap = 0]
    OBVIOUS
  <2>2. Shape(work[w]) /\ work[w].link = TRUE
    BY <1>2 DEF Finds
  <2>3. /\ Shape(x) /\ x.req = r /\ x.at = a + 1 /\ x.link = TRUE
        /\ x.id = work[w].id /\ x.saw = work[w].saw
    BY <1>3, <2>1, <2>2, FurtherIs
  <2>4. /\ y.req = r /\ y.at = a + 1 /\ y.link = TRUE /\ y.snap = 0
        /\ y.id = work[w].id /\ y.saw = work[w].saw /\ y.mine = <<>>
    BY <2>1, <2>3 DEF Shape, Fields
  <2>5. work' = [work EXCEPT ![w] = y] /\ UNCHANGED <<inbox, prog, log, answer, since, hurt>>
    BY <1>1, <1>5, <1>6, <2>1 DEF Commit1, Logged
  <2>6. Turn(w, r, a, p, o, t, s, o) /\ y.mine = work[w].mine
    BY <1>1, <1>4, <1>6, <2>4
  <2>7. QED
    BY <2>4, <2>5, <2>6, SkipGoes
<1>7. CASE ch # <<>>
  <2>1. Acted(r) = {}
    BY <1>1, <1>7 DEF Turn, Earned
  <2>2. p = prog[r]
    BY DEF Turn, Named
  <2>3. \A c \in Places(ch) : c[1] = r /\ c[2] \in DOMAIN prog[r] /\ Changing(prog[r][c[2]])
    BY <1>1, <1>3, PendingHere DEF Changing
  <2>4. Acting(w, r, ch)
    <3>1. log' = Append(log, Entry(ch)) /\ answer' = answer
      BY <1>1, <1>7 DEF Commit1, Logged
    <3>2. ch \in Seq(Changes)
      BY <1>1, <1>2 DEF Finds
    <3>3. QED
      BY <1>7, <2>1, <2>3, <3>1, <3>2 DEF Acting
  <2>5. q.rows = Entry(ch).rows
    <3>1. o.rows = AppliedAll([i \in DOMAIN ch |-> ch[i].stmt], Current)
      BY <1>1, <1>2 DEF Finds
    <3>2. QED
      BY <1>4, <3>1 DEF Entry
  <2>6. q.wrote /\ o.wrote /\ ~q.over /\ q.id = work[w].id /\ q.saw = work[w].saw
    BY <1>1, <1>2, <1>4, <1>7 DEF Finds
  <2>7. Committing(t)
    BY <1>3 DEF Committing
  <2>8. QED
    BY <1>5, <2>4, <2>5, <2>6, <2>7, CommitGoes
<1>8. QED
  BY <1>6, <1>7

\* Every statement is a step of Store or a stutter.
LEMMA StepGoes ==
  ASSUME NEW w \in Worker, Lone(w), Safe(w), Step(w)
  PROVE  Goes(w)
<1>1. Busy(w) /\ UNCHANGED <<inbox, prog, since, hurt>>
  BY DEF Step
<1>2. PICK r, a, p, o, t, s, q : Turn(w, r, a, p, o, t, s, q)
  BY <1>1, Turned
<1>3. s = Stmt(w) /\ work[w].link = TRUE
  BY <1>2 DEF Turn, Named, Safe, LInv
<1>4. CASE Reply1(w, s) \/ StaySilent(w, s) \/ GoStray(w, s)
  BY <1>1, <1>3, <1>4, EndGoes
<1>5. ~Unsent(w, s) /\ ~LockTimeout(w, s)
  BY <1>3 DEF Unsent, LockTimeout, Blocked, Lone
<1>6. CASE Execute(w, s)
  <2>1. Seen(w, s) = Latest(w)
    BY UpToDate DEF Seen
  <2>2. CASE Rejected(s, Latest(w))
    BY <1>1, <1>2, <1>6, <2>1, <2>2, ErrorGoes DEF Execute
  <2>3. CASE ~Rejected(s, Latest(w))
    <3>1. Read(w, s) \/ Write(w, s) \/ TruncateTable(w, s)
      BY <1>6, <2>1, <2>3 DEF Execute
    <3>2. QED
      BY <1>1, <1>2, <2>3, <3>1, ReadGoes, WriteGoes, TruncateGoes
  <2>4. QED
    BY <2>2, <2>3
<1>7. CASE Commit1(w, s)
  BY <1>1, <1>2, <1>7, Commit1Goes
<1>8. QED
  BY <1>3, <1>4, <1>5, <1>6, <1>7 DEF Step

\* Store does not see who takes a request.
LEMMA TakeGoes ==
  ASSUME NEW w \in Worker, Lone(w), Safe(w), Take(w)
  PROVE  Goes(w)
<1>1. PICK r, p, y : r = Head(inbox) /\ p = prog[r]
                     /\ y = [work[w] EXCEPT !.req = r, !.at = 1, !.link = TRUE]
  OBVIOUS
<1>2. /\ ~Busy(w) /\ inbox # <<>> /\ inbox' = Tail(inbox) /\ work' = [work EXCEPT ![w] = y]
      /\ UNCHANGED <<prog, log, answer, since, hurt>>
  BY <1>1 DEF Take
<1>3. /\ inbox \in Seq(Req) /\ (\A k \in DOMAIN inbox : prog[inbox[k]] # <<>>)
      /\ DOMAIN work = Worker /\ Shape(work[w]) /\ prog \in [Req -> Seq(Statements)]
  BY DEF Safe, IInv, Queued, Workers, Sound, Programs
<1>4. /\ r \in Req /\ r # None /\ (\E k \in DOMAIN inbox : inbox[k] = r) /\ p \in Seq(Statements)
  <2>1. 1 \in DOMAIN inbox /\ r = inbox[1]
    BY <1>1, <1>2, <1>3
  <2>2. QED
    BY <1>1, <1>3, <2>1, SwitchAssumption
<1>5. Idle(work[w]) /\ Journal /\ Unread /\ Fresh /\ Atoms /\ work[w].snap \in {0, Len(log)}
  BY <1>2 DEF Safe, LInv
<1>6. answer[r] = NoAnswer /\ Acted(r) = {}
  BY <1>4, <1>5 DEF Unread, Unserved
<1>7. /\ y.req = r /\ y.at = 1 /\ y.link = TRUE /\ y.snap = work[w].snap
      /\ y.id = 0 /\ y.saw = {} /\ y.mine = <<>>
  BY <1>1, <1>3, <1>5 DEF Shape, Fields, Idle
<1>8. work'[w] = y
  BY <1>2, <1>3
<1>9. SoFar(y)' = Started(Current)
  <2>1. SoFar(y)' = Outcome(SubSeq(p, 1, 1 - 1), Base(r))
    BY <1>1, <1>2, <1>7 DEF SoFar, Base, At, Acted, Current
  <2>2. Base(r) = Current
    BY <1>6 DEF Base
  <2>3. 1 - 1 = 0
    OBVIOUS
  <2>4. QED
    BY <2>1, <2>2, <2>3, OutcomeNothing
<1>10. Running(w)'
  <2>1. PICK o : o = Started(Current)
    OBVIOUS
  <2>2. o.rows = Current /\ o.id = 0 /\ o.saw = {} /\ ~o.wrote /\ ~o.over
    BY <2>1, StartedIs
  <2>3. Acted(r)' = {}
    BY <1>2, <1>6 DEF Acted
  <2>4. Follows(y, p, o, FALSE)
    BY <1>7, <2>2 DEF Follows
  <2>5. Follows(y, prog[r], SoFar(y), Acted(r) # {})'
    <3> DEFINE b == Acted(r) # {}
    <3>1. b' = FALSE
      BY <2>3
    <3> HIDE DEF b
    <3>2. Follows(y, prog[r], SoFar(y), b)'
      BY <1>1, <1>2, <1>9, <2>1, <2>4, <3>1 DEF Follows
    <3>3. QED
      BY <3>2 DEF b
  <2>6. (SoFar(y).rows)' = Latest(w)'
    <3>1. Pending(w)' = <<>>
      BY <1>7, <1>8 DEF Pending
    <3>2. Latest(w)' = Current'
      BY <3>1, AppliedNone DEF Latest
    <3>3. Current' = Current
      BY <1>2 DEF Current
    <3>4. QED
      BY <1>9, <2>1, <2>2, <3>2, <3>3
  <2>7. Places(y.mine) = {}
    BY <1>7, EmptyIsSeq
  <2>8. QED
    BY <1>2, <1>6, <1>7, <1>8, <2>5, <2>6, <2>7 DEF Running
<1>11. Unread'
  <2>1. \A q \in Req : Unserved(q)' => Unserved(q)
    <3>1. \A k \in DOMAIN Tail(inbox) : k + 1 \in DOMAIN inbox /\ Tail(inbox)[k] = inbox[k + 1]
      BY <1>2, <1>3
    <3>2. QED
      BY <1>2, <3>1 DEF Unserved
  <2>2. QED
    BY <1>2, <1>5, <2>1 DEF Unread, Acted
<1>12. (Journal /\ Fresh /\ Atoms)'
  BY <1>2, <1>5 DEF Journal, Fresh, Atoms, Acted
<1>13. LInv(w)'
  <2>1. Busy(w)'
    BY <1>4, <1>7, <1>8 DEF Busy
  <2>2. hurt = {}
    BY DEF Safe, LInv
  <2>3. QED
    BY <1>2, <1>5, <1>7, <1>8, <1>10, <1>11, <1>12, <2>1, <2>2 DEF LInv
<1>14. UNCHANGED StoreMap!vars
  BY <1>2, Stutter
<1>15. QED
  BY <1>13, <1>14 DEF Goes

\* A request that arrives is accepted.
LEMMA ArriveGoes ==
  ASSUME NEW w \in Worker, Lone(w), Safe(w), Atomically, NEW r \in Req, Arrive(r)
  PROVE  Goes(w)
<1>1. /\ prog[r] = <<>> /\ since' = [since EXCEPT ![r] = Len(log)] /\ inbox' = Append(inbox, r)
      /\ UNCHANGED <<work, log, answer, hurt>>
  BY DEF Arrive
<1>2. PICK p \in Asks[r] : prog' = [prog EXCEPT ![r] = p]
  BY DEF Arrive
<1>3. /\ inbox \in Seq(Req) /\ prog \in [Req -> Seq(Statements)]
      /\ \A k \in DOMAIN log : \A c \in log[k].by : c[1] \in Req
  BY DEF Safe, IInv, Queued, Programs, History, Complete
<1>4. prog'[r] = p /\ \A q \in Req \ {r} : prog'[q] = prog[q]
  BY <1>2, <1>3
<1>5. Journal /\ Unread /\ Fresh /\ Atoms /\ hurt = {} /\ work[w].link = TRUE
      /\ work[w].snap \in {0, Len(log)}
  BY DEF Safe, LInv
<1>6. answer[r] = NoAnswer /\ Acted(r) = {}
  BY <1>1, <1>5 DEF Unread, Unserved
<1>7. \A q \in Req : Acted(q)' = Acted(q)
  BY <1>1 DEF Acted
<1>8. Journal'
  <2>1. ASSUME NEW k \in DOMAIN log, NEW c \in log[k].by
        PROVE  c[2] \in DOMAIN prog'[c[1]] /\ Changing(prog'[c[1]][c[2]])
    <3>1. c[1] \in Req /\ c[2] \in DOMAIN prog[c[1]] /\ Changing(prog[c[1]][c[2]])
      BY <1>3, <1>5 DEF Journal
    <3>2. DOMAIN prog[r] = {}
      BY <1>1
    <3>3. c[1] # r
      BY <3>1, <3>2
    <3>4. QED
      BY <1>4, <3>1, <3>3
  <2>2. QED
    BY <1>1, <1>5, <1>7, <2>1 DEF Journal
<1>9. Unread'
  <2>1. ASSUME NEW q \in Req \ {r}, Unserved(q)' PROVE Unserved(q)
    <3>1. \A k \in DOMAIN inbox' : inbox'[k] = r \/ (k \in DOMAIN inbox /\ inbox'[k] = inbox[k])
      BY <1>1, <1>3
    <3>2. QED
      BY <1>4, <2>1, <3>1 DEF Unserved
  <2>2. QED
    BY <1>1, <1>5, <1>6, <1>7, <2>1 DEF Unread
<1>10. Fresh'
  <2>1. answer[r].code # 200
    BY <1>6 DEF NoAnswer
  <2>2. \A q \in Req \ {r} : since'[q] = since[q]
    BY <1>1 DEF Safe, Types
  <2>3. QED
    BY <1>1, <1>4, <1>5, <1>7, <2>1, <2>2 DEF Fresh
<1>11. Atoms'
  <2>1. Atomic(p)
    BY DEF Atomically
  <2>2. QED
    BY <1>4, <1>5, <2>1 DEF Atoms
<1>12. ASSUME Busy(w) PROVE Running(w)'
  <2>1. PICK x, q : x = work[w] /\ q = work[w].req
    OBVIOUS
  <2>2. q \in Req /\ prog[q] # <<>> /\ Running(w)
    BY <1>12, <2>1, AtStatement DEF Place
  <2>3. q # r /\ prog'[q] = prog[q] /\ Acted(q)' = Acted(q) /\ Base(q)' = Base(q)
    <3>1. q # r /\ prog'[q] = prog[q]
      BY <1>1, <1>4, <2>2
    <3>2. Acted(q)' = Acted(q)
      BY <1>7, <2>2
    <3>3. Base(q)' = Base(q)
      BY <1>1 DEF Base, At, Acted, Current
    <3>4. QED
      BY <3>1, <3>2, <3>3
  <2>4. SoFar(x)' = SoFar(x)
    BY <2>1, <2>3 DEF SoFar
  <2>5. Follows(x, prog[q], SoFar(x), Acted(q) # {})'
    <3> DEFINE b == Acted(q) # {}
    <3>1. b' = b
      BY <2>3
    <3>2. Follows(x, prog[q], SoFar(x), b)
      BY <2>1, <2>2 DEF Running
    <3> HIDE DEF b
    <3>3. Follows(x, prog[q], SoFar(x), b)'
      BY <2>3, <2>4, <3>1, <3>2 DEF Follows
    <3>4. QED
      BY <3>3 DEF b
  <2>6. (SoFar(x).rows)' = Latest(w)'
    BY <1>1, <2>1, <2>2, <2>4 DEF Running, Latest, Pending, Current
  <2>7. QED
    BY <1>1, <2>1, <2>2, <2>5, <2>6 DEF Running
<1>13. LInv(w)'
  <2>1. ~Busy(w) => Idle(work[w])
    BY DEF Safe, LInv
  <2>2. QED
    BY <1>1, <1>5, <1>8, <1>9, <1>10, <1>11, <1>12, <2>1 DEF LInv, Busy
<1>14. StoreMap!Next
  <2>1. ASSUME NEW q \in Req PROVE Owed(q)' = Owed(q)
    <3>1. CASE q = r
      BY <1>1, <1>6, <1>7, <3>1 DEF Owed
    <3>2. CASE q # r
      <4>1. prog'[q] = prog[q]
        BY <1>4, <3>2
      <4>2. QED
        BY <1>1, <4>1 DEF Owed, Acted
    <3>3. QED
      BY <3>1, <3>2
  <2>2. [q \in Req |-> Owed(q)]' = [q \in Req |-> Owed(q)]
    BY <2>1
  <2>3. [q \in Req |-> Given(q)]' = [q \in Req |-> Given(q)]
    BY <1>1 DEF Given
  <2>4. Current' = Current
    BY <1>1 DEF Current
  <2>5. StoreMap!Accept(r)
    BY <1>1, <1>2, <2>2, <2>3, <2>4 DEF StoreMap!Accept
  <2>6. QED
    BY <2>5 DEF StoreMap!Next
<1>15. QED
  BY <1>13, <1>14 DEF Goes

\* LInv holds at the start.
LEMMA InitLInv ==
  ASSUME NEW w \in Worker, Lone(w), Init
  PROVE  LInv(w) /\ StoreMap!Init
<1> DEFINE e == [by |-> {}, rows |-> InitRows]
<1>1. log = <<e>> /\ e.by = {} /\ e.rows = InitRows
  BY DEF Init
<1> HIDE DEF e
<1>2. Len(log) = 1 /\ DOMAIN log = {1} /\ log[1].by = {} /\ log[1].rows = InitRows
  BY <1>1
<1>3. \A r \in Req : Acted(r) = {}
  BY <1>2 DEF Acted
<1>4. work[w] = Born(1) /\ hurt = {}
  BY DEF Init
<1>5. work[w].req = None /\ Idle(work[w]) /\ work[w].link = TRUE /\ work[w].snap = 1
  BY <1>4 DEF Born, Waiting, Idle
<1>6. \A r \in Req : prog[r] = <<>> /\ answer[r] = NoAnswer /\ answer[r].code = 0
  BY DEF Init, NoAnswer
<1>7. Journal
  BY <1>2, <1>3 DEF Journal
<1>8. Unread /\ Fresh /\ Atoms
  BY <1>3, <1>6 DEF Unread, Fresh, Atoms
<1>9. LInv(w)
  BY <1>2, <1>4, <1>5, <1>7, <1>8 DEF LInv, Busy
<1>10. Current = InitRows
  BY <1>2 DEF Current
<1>11. prog = [r \in Req |-> <<>>]
  BY DEF Init
<1>12. [r \in Req |-> Owed(r)] = [r \in Req |-> NoAnswer]
  BY <1>3, <1>6 DEF Owed
<1>13. [r \in Req |-> Given(r)] = [r \in Req |-> NoAnswer]
  BY <1>6 DEF Given, Garbage
<1>14. QED
  BY <1>9, <1>10, <1>11, <1>12, <1>13 DEF StoreMap!Init

\* A stutter is a stutter.
LEMMA RestGoes ==
  ASSUME NEW w \in Worker, Lone(w), Safe(w), UNCHANGED vars
  PROVE  Goes(w)
<1>1. UNCHANGED StoreMap!vars
  BY Stutter DEF vars
<1>2. /\ hurt' = hurt /\ work' = work /\ log' = log /\ prog' = prog
      /\ answer' = answer /\ since' = since /\ inbox' = inbox
  BY DEF vars
<1>3. Journal' /\ Unread' /\ Fresh' /\ Atoms'
  BY <1>2 DEF Safe, LInv, Journal, Unread, Fresh, Atoms, Acted, Unserved
<1>4. Running(w)' <=> Running(w)
  BY <1>2 DEF Running, Follows, SoFar, Base, At, Acted, Current, Latest, Pending
<1>5. LInv(w)'
  BY <1>2, <1>3, <1>4 DEF Safe, LInv, Busy
<1>6. QED
  BY <1>1, <1>5 DEF Goes

\* Every step of Switch is a step of Store or a stutter.
LEMMA NextGoes ==
  ASSUME NEW w \in Worker, Lone(w), Safe(w), Atomically, [Next]_vars
  PROVE  Goes(w)
<1>1. faults = 0 /\ MaxFaults = 0
  BY DEF Safe, Types, Lone
<1>2. ~Fault
  BY <1>1 DEF Fault
<1>3. ASSUME NEW v \in Worker PROVE v = w /\ ~(LinkLost(v) \/ Victim(v) \/ StatementFails(v) \/ Dies(v))
  BY <1>2 DEF Lone, LinkLost, Victim, StatementFails, Dies
<1>4. (\E r \in Req : Arrive(r)) \/ Take(w) \/ Step(w) \/ UNCHANGED vars
  BY <1>3 DEF Next, Serve
<1>5. QED
  BY <1>4, ArriveGoes, TakeGoes, StepGoes, RestGoes

\* A worker whose connection holds, for any requests and any programs that are
\* settled and atomic, serves them as if each were one indivisible step, on
\* the database that the one before left, with the answer its program computes
\* there: the statements, snapshots and commits it takes cannot be told from it.
THEOREM ImplementsStore ==
  ASSUME NEW w, Worker = {w}, MaxFaults = 0, Settling, Atomically
  PROVE  Spec => StoreSpec
<1> w \in Worker /\ Lone(w)
  BY DEF Lone
<1>1. Init => Safe(w) /\ StoreMap!Init
  BY InitIInv, InitAcked, TypesInit, InitLInv DEF Safe
<1>2. Safe(w) /\ [Next]_vars => Safe(w)' /\ [StoreMap!Next]_(StoreMap!vars)
  <2> SUFFICES ASSUME Safe(w), [Next]_vars
               PROVE  Safe(w)' /\ [StoreMap!Next]_(StoreMap!vars)
    OBVIOUS
  <2>1. IInv' /\ AInv' /\ Types'
    BY NextIInv, NextAcked, TypesNext DEF Safe
  <2>2. Goes(w)
    BY NextGoes
  <2>3. QED
    BY <2>1, <2>2 DEF Safe, Goes
<1>3. QED
  BY <1>1, <1>2, PTL DEF Spec, StoreSpec, StoreMap!Spec

\* What such a worker answers to a query is what the database held at one
\* moment since the query arrived: no snapshot that an earlier request or the
\* start of the worker left open shows an older state.
THEOREM ReadsAreFresh ==
  ASSUME NEW w, Worker = {w}, MaxFaults = 0, Settling, Atomically
  PROVE  Spec => []FreshReads
<1> w \in Worker /\ Lone(w)
  BY DEF Lone
<1>1. Init => Safe(w)
  BY InitIInv, InitAcked, TypesInit, InitLInv DEF Safe
<1>2. Safe(w) /\ [Next]_vars => Safe(w)'
  <2> SUFFICES ASSUME Safe(w), [Next]_vars PROVE Safe(w)'
    OBVIOUS
  <2>1. IInv' /\ AInv' /\ Types'
    BY NextIInv, NextAcked, TypesNext DEF Safe
  <2>2. LInv(w)'
    BY NextGoes DEF Goes
  <2>3. QED
    BY <2>1, <2>2 DEF Safe
<1>3. Safe(w) => FreshReads
  <2> SUFFICES ASSUME Safe(w), NEW r \in Req, answer[r].code = 200, ReadOnly(prog[r])
               PROVE  \E k \in since[r]..Len(log) :
                        Outcome(prog[r], log[k].rows).saw = answer[r].saw
    BY DEF FreshReads
  <2>1. Journal /\ Fresh
    BY DEF Safe, LInv
  <2>2. Acted(r) = {}
    <3> SUFFICES ASSUME NEW k \in DOMAIN log, NEW e \in log[k].by, e[1] = r PROVE FALSE
      BY DEF Acted
    <3>1. e[2] \in DOMAIN prog[r] /\ Changing(prog[r][e[2]])
      BY <2>1 DEF Journal
    <3>2. QED
      BY <3>1 DEF ReadOnly, Changing
  <2>3. PICK k \in DOMAIN log : since[r] <= k /\ Outcome(prog[r], log[k].rows).saw = answer[r].saw
    BY <2>1, <2>2 DEF Fresh
  <2>4. k \in 1..Len(log) /\ Len(log) \in Nat /\ since[r] \in Nat
    BY <2>3, LogIsSeq DEF Safe, Types
  <2>5. k \in since[r]..Len(log)
    BY <2>3, <2>4
  <2>6. QED
    BY <2>3, <2>5
<1>4. QED
  BY <1>1, <1>2, <1>3, PTL DEF Spec
----------------------------------------------------------------------------
(* Rows of c that belong to rows of t.  While a tidy program runs, only the *)
(* rows of a key whose row in t it has deleted itself can be without one    *)
(* (Dangling); a program that is over has deleted those too.                *)

HasRow(t, k, rows) == \E y \in rows : y[1] = t /\ y[2] = k
Linked(c, t, rows) == \A x \in rows : x[1] = c /\ x[2] # 0 => HasRow(t, x[2], rows)

DeletesAt(s, t, k) == s.t = t /\ s.op = "delete" /\ s.a = k
Dangling(p, n, c, t, k) ==
  \E j \in 1..n : /\ DeletesAt(p[j], t, k)
                  /\ \A i \in 1..n : j < i => ~DeletesAt(p[i], c, k)

Covered(p, n, c, t, o) ==
  \A x \in o.rows : x[1] = c /\ x[2] # 0 => HasRow(t, x[2], o.rows) \/ Dangling(p, n, c, t, x[2])

\* What statement i has ensured, if nothing has undone it.
Ensured(p, n, t, o) ==
  \A i \in 1..n : \A a :
    /\ Ensures(p[i], t, a)
    /\ \A l \in 1..n : i < l => ~Removes(p[l], t) /\ p[l].op # "find"
    => LET k == IF a = Found THEN o.id ELSE a IN k = 0 \/ HasRow(t, k, o.rows)
Keeping(p, n, c, t, o) ==
  IF o.over THEN Linked(c, t, o.rows)
  ELSE Covered(p, n, c, t, o) /\ Ensured(p, n, t, o)

\* A row's key stays in its table unless a statement removes it.
LEMMA HasApplied ==
  ASSUME NEW b, NEW rows, NEW t, NEW k, HasRow(t, k, rows),
         Changing(b), ~Removes(b, t) \/ (b.op = "delete" /\ b.a # k)
  PROVE  HasRow(t, k, Applied(b, rows))
<1>1. PICK y \in rows : y[1] = t /\ y[2] = k
  BY DEF HasRow
<1>2. CASE y \notin Touched(b, rows)
  BY <1>1, <1>2 DEF Applied, HasRow
<1>3. CASE y \in Touched(b, rows)
  <2> DEFINE z == <<b.t, b.a, b.b>>
  <2>1. b.t = t
    BY <1>1, <1>3 DEF Touched
  <2>2. CASE b.op \in {"insert", "update"}
    <3>1. b.a = k
      BY <1>1, <1>3, <2>2 DEF Touched
    <3>2. z \in Applied(b, rows)
      BY <1>3, <2>2 DEF Applied
    <3>3. z[1] = t /\ z[2] = k
      BY <2>1, <3>1
    <3>4. QED
      BY <3>2, <3>3 DEF HasRow
  <2>3. CASE b.op \notin {"insert", "update"}
    <3>1. b.op = "delete" /\ b.a # k
      BY <2>1, <2>3 DEF Removes, Changing, Writes
    <3>2. QED
      BY <1>1, <1>3, <3>1 DEF Touched
  <2>4. QED
    BY <2>2, <2>3
<1>4. QED
  BY <1>2, <1>3

\* Statement s = p[m] is next, b is what it asks, o how far p has come.
TidyStep(p, m, c, t, o, s, b) ==
  /\ p \in Seq(Statements) /\ m \in DOMAIN p /\ m \in Nat /\ m > 0 /\ c # t
  /\ Tidy(p, c, t) /\ Atomic(p) /\ s = p[m] /\ s \in Statements /\ b = Bound(s, o.id)
  /\ IsOutcome(o) /\ ~o.over /\ Keeping(p, m - 1, c, t, o)

\* A key that is filled in changes no other part of a statement.
LEMMA BoundAlike ==
  ASSUME NEW s \in Statements, NEW id
  PROVE  LET b == Bound(s, id) IN
    /\ b.op = s.op /\ b.t = s.t /\ b.b = s.b
    /\ s.a = Found => b.a = id
    /\ s.a # Found => b = s
  BY DEF Bound, Statements

\* A handler does not end between the two deletions.
LEMMA NotLoose ==
  ASSUME NEW p, NEW m, NEW c, NEW t, NEW o, NEW s, NEW b, TidyStep(p, m, c, t, o, s, b),
         NEW k, Dangling(p, m - 1, c, t, k)
  PROVE  /\ s.op \notin {"reply", "silent", "undefined"}
         /\ CanReject(s) => s.onerr = "go on"
<1>1. /\ p \in Seq(Statements) /\ m \in DOMAIN p /\ m \in Nat /\ m > 0
      /\ Tidy(p, c, t) /\ Atomic(p) /\ s = p[m] /\ DOMAIN p = 1..Len(p) /\ Len(p) \in Nat
  BY DEF TidyStep
<1>2. PICK j \in 1..(m - 1) : /\ DeletesAt(p[j], t, k)
                              /\ \A i \in 1..(m - 1) : j < i => ~DeletesAt(p[i], c, k)
  BY DEF Dangling
<1>3. j \in DOMAIN p /\ j < m /\ Removes(p[j], t) /\ Writes(p[j]) /\ Changing(p[j])
  BY <1>1, <1>2 DEF DeletesAt, Removes, Writes, Changing
<1>4. PICK i \in DOMAIN p : j < i /\ p[i] = [p[j] EXCEPT !.t = c]
  BY <1>1, <1>3 DEF Tidy
<1>5. p[j] \in Statements
  BY <1>1, <1>3
<1>6. DeletesAt(p[i], c, k) /\ Changing(p[i])
  BY <1>2, <1>4, <1>5 DEF DeletesAt, Statements, Changing, Writes
<1>7. i >= m
  BY <1>1, <1>2, <1>4, <1>6
<1>8. /\ s.op \notin {"silent", "undefined"}
      /\ CanReject(s) => s.onerr = "go on"
      /\ s.op = "reply" => \E l \in DOMAIN p : j < l /\ l < m /\ p[l].op = "commit"
  BY <1>1, <1>3 DEF Atomic
<1>9. \A l \in DOMAIN p : l < i => p[l].op # "commit"
  BY <1>1, <1>6 DEF Atomic, Committing
<1>10. s.op # "reply"
  <2> SUFFICES ASSUME s.op = "reply" PROVE FALSE
    OBVIOUS
  <2>1. PICK l \in DOMAIN p : j < l /\ l < m /\ p[l].op = "commit"
    BY <1>8
  <2>2. l < i
    BY <1>1, <1>7, <2>1
  <2>3. QED
    BY <1>9, <2>1, <2>2
<1>11. QED
  BY <1>8, <1>10

\* A tidy program does not end while rows are dangling.
LEMMA EndsLinked ==
  ASSUME NEW p, NEW m, NEW c, NEW t, NEW o, NEW s, NEW b, TidyStep(p, m, c, t, o, s, b),
         s.op \in {"reply", "silent", "undefined"} \/ (CanReject(s) /\ s.onerr # "go on")
  PROVE  Linked(c, t, o.rows)
<1>1. \A k : ~Dangling(p, m - 1, c, t, k)
  BY NotLoose
<1>2. Covered(p, m - 1, c, t, o)
  BY DEF TidyStep, Keeping
<1>3. QED
  BY <1>1, <1>2 DEF Covered, Linked

\* A key dangles until its rows are deleted.
LEMMA DanglesOn ==
  ASSUME NEW p, NEW m \in Nat, m > 0, NEW c, NEW t, NEW k,
         Dangling(p, m - 1, c, t, k), ~DeletesAt(p[m], c, k)
  PROVE  Dangling(p, m, c, t, k)
<1>1. PICK j \in 1..(m - 1) : /\ DeletesAt(p[j], t, k)
                              /\ \A i \in 1..(m - 1) : j < i => ~DeletesAt(p[i], c, k)
  BY DEF Dangling
<1>2. j \in 1..m /\ \A i \in 1..m : i \in 1..(m - 1) \/ i = m
  OBVIOUS
<1>3. QED
  BY <1>1, <1>2 DEF Dangling

\* A statement that changes nothing.
Stays(o, s, b, q) ==
  /\ q.rows = o.rows /\ ~q.over /\ s.op # "delete"
  /\ s.op = "find" => q.id = KeyFound(b, o.rows)
  /\ s.op # "find" => q.id = o.id
  /\ s.op = "update" => GoesOn(s)

\* A statement that changes no row keeps what was covered.
LEMMA RowsStay ==
  ASSUME NEW p, NEW m, NEW c, NEW t, NEW o, NEW s, NEW b, TidyStep(p, m, c, t, o, s, b),
         NEW q, Stays(o, s, b, q)
  PROVE  Keeping(p, m, c, t, q)
<1>0. /\ q.rows = o.rows /\ ~q.over /\ s.op # "delete"
      /\ s.op = "find" => q.id = KeyFound(b, o.rows)
      /\ s.op # "find" => q.id = o.id
      /\ s.op = "update" => GoesOn(s)
  BY DEF Stays
<1>1. /\ m \in Nat /\ m > 0 /\ s = p[m] /\ s \in Statements /\ b = Bound(s, o.id)
      /\ Covered(p, m - 1, c, t, o) /\ Ensured(p, m - 1, t, o)
  BY DEF TidyStep, Keeping
<1>2. Covered(p, m, c, t, q)
  <2>1. ASSUME NEW k, Dangling(p, m - 1, c, t, k) PROVE Dangling(p, m, c, t, k)
    BY <1>0, <1>1, <2>1, DanglesOn DEF DeletesAt
  <2>2. QED
    BY <1>0, <1>1, <2>1 DEF Covered
<1>3. m \in Nat /\ m > 0
  BY <1>1
<1>4. ASSUME NEW i \in 1..m, NEW a, Ensures(p[i], t, a),
             \A l \in 1..m : i < l => ~Removes(p[l], t) /\ p[l].op # "find"
      PROVE  LET k == IF a = Found THEN q.id ELSE a IN k = 0 \/ HasRow(t, k, q.rows)
  <2>1. CASE i < m
    <3>1. i \in 1..(m - 1) /\ m \in 1..m /\ \A l \in 1..(m - 1) : l \in 1..m
      BY <1>3, <1>4, <2>1
    <3>2. s.op # "find"
      BY <1>1, <1>4, <2>1, <3>1
    <3>3. q.id = o.id
      BY <1>0, <3>2
    <3>4. LET k == IF a = Found THEN o.id ELSE a IN k = 0 \/ HasRow(t, k, o.rows)
      BY <1>1, <1>4, <3>1 DEF Ensured
    <3>5. QED
      BY <1>0, <3>3, <3>4
  <2>2. CASE i = m
    <3>1. a = Found /\ s.op = "find" /\ s.t = t
      BY <1>0, <1>1, <1>4, <2>2 DEF Ensures
    <3>2. q.id = KeyFound(b, o.rows) /\ b.t = t
      BY <1>0, <1>1, <3>1, BoundAlike
    <3>3. CASE Cardinality(Touched(b, o.rows)) = 1
      <4>1. PICK x : x = (CHOOSE y \in Touched(b, o.rows) : TRUE)
        OBVIOUS
      <4>2. Touched(b, o.rows) # {}
        <5>1. Cardinality({}) = 0
          BY FS_EmptySet
        <5>2. \A h : Cardinality(h) = 1 => h # {}
          BY <5>1
        <5>3. QED
          BY <3>3, <5>2
      <4>3. x \in Touched(b, o.rows) /\ q.id = x[2]
        BY <3>2, <3>3, <4>1, <4>2 DEF KeyFound
      <4>4. x \in o.rows /\ x[1] = t
        BY <3>2, <4>3 DEF Touched
      <4>5. QED
        BY <1>0, <3>1, <4>3, <4>4 DEF HasRow
    <3>4. CASE Cardinality(Touched(b, o.rows)) # 1
      BY <3>1, <3>2, <3>4 DEF KeyFound
    <3>5. QED
      BY <3>3, <3>4
  <2>3. QED
    BY <1>3, <1>4, <2>1, <2>2
<1>5. QED
  BY <1>0, <1>2, <1>4 DEF Keeping, Ensured

\* A row after a statement was there before, or was inserted.
LEMMA AppliedRow ==
  ASSUME NEW b, NEW rows, NEW x, x \in Applied(b, rows)
  PROVE  \/ x \in rows /\ x \notin Touched(b, rows)
         \/ x = <<b.t, b.a, b.b>> /\ b.op = "insert"
         \/ x = <<b.t, b.a, b.b>> /\ b.op = "update" /\ Touched(b, rows) # {}
  BY DEF Applied

\* A statement that changes rows.
LEMMA StaysEnsured ==
  ASSUME NEW p, NEW m, NEW c, NEW t, NEW o, NEW s, NEW b, TidyStep(p, m, c, t, o, s, b),
         NEW q, q.rows = Applied(b, o.rows), q.id = o.id, Changing(s), ~Rejected(b, o.rows)
  PROVE  Ensured(p, m, t, q)
<1>1. /\ m \in Nat /\ m > 0 /\ s = p[m] /\ s \in Statements /\ b = Bound(s, o.id)
      /\ Ensured(p, m - 1, t, o)
  BY DEF TidyStep, Keeping
<1>2. b.op = s.op /\ b.t = s.t /\ Changing(b)
  BY <1>1, BoundAlike DEF Changing, Writes
<1>3. m \in Nat /\ m > 0
  BY <1>1
<1>4. ASSUME NEW i \in 1..m, NEW a, Ensures(p[i], t, a),
             \A l \in 1..m : i < l => ~Removes(p[l], t) /\ p[l].op # "find"
      PROVE  LET k == IF a = Found THEN q.id ELSE a IN k = 0 \/ HasRow(t, k, q.rows)
  <2>1. CASE i < m
    <3>1. i \in 1..(m - 1) /\ m \in 1..m /\ \A l \in 1..(m - 1) : l \in 1..m
      BY <1>3, <1>4, <2>1
    <3>2. ~Removes(b, t)
      BY <1>1, <1>2, <1>4, <2>1, <3>1 DEF Removes
    <3>3. LET k == IF a = Found THEN o.id ELSE a IN k = 0 \/ HasRow(t, k, o.rows)
      BY <1>1, <1>4, <3>1 DEF Ensured
    <3>4. QED
      BY <1>2, <3>2, <3>3, HasApplied
  <2>2. CASE i = m
    <3>1. a # Found /\ s.op = "update" /\ s.t = t /\ s.a = a
      BY <1>1, <1>4, <2>2 DEF Ensures, Changing, Writes
    <3>2. b.t = t /\ b.a = a /\ b.op = "update"
      BY <1>1, <1>2, <3>1, BoundAlike
    <3>3. Touched(b, o.rows) # {}
      BY <3>2 DEF Rejected
    <3>4. <<t, a, b.b>> \in q.rows
      BY <3>2, <3>3 DEF Applied
    <3>5. QED
      BY <3>1, <3>4 DEF HasRow
  <2>3. QED
    BY <1>3, <1>4, <2>1, <2>2
<1>5. QED
  BY <1>4 DEF Ensured

\* A change keeps all rows covered.
LEMMA StaysCovered ==
  ASSUME NEW p, NEW m, NEW c, NEW t, NEW o, NEW s, NEW b, TidyStep(p, m, c, t, o, s, b),
         NEW q, q.rows = Applied(b, o.rows), q.id = o.id, Changing(s), ~Rejected(b, o.rows)
  PROVE  Covered(p, m, c, t, q)
<1>1. /\ m \in Nat /\ m > 0 /\ m \in DOMAIN p /\ s = p[m] /\ s \in Statements
      /\ b = Bound(s, o.id) /\ p \in Seq(Statements) /\ c # t /\ Tidy(p, c, t)
      /\ Covered(p, m - 1, c, t, o) /\ Ensured(p, m - 1, t, o)
      /\ DOMAIN p = 1..Len(p) /\ Len(p) \in Nat
  BY DEF TidyStep, Keeping
<1>2. /\ b.op = s.op /\ b.t = s.t /\ Changing(b)
      /\ (s.a = Found => b.a = o.id) /\ (s.a # Found => b.a = s.a)
  BY <1>1, BoundAlike DEF Changing, Writes
<1>3. Removes(s, t) => s.op = "delete" /\ s.a # Found
  BY <1>1 DEF Tidy

\* A key that had a row in t, or that was dangling, and is still used.
<1>4. ASSUME NEW k, HasRow(t, k, o.rows) PROVE HasRow(t, k, q.rows) \/ Dangling(p, m, c, t, k)
  <2>1. CASE DeletesAt(s, t, k)
    <3>1. m \in 1..m /\ \A i \in 1..m : ~(m < i)
      BY <1>1
    <3>2. QED
      BY <1>1, <2>1, <3>1 DEF Dangling
  <2>2. CASE ~DeletesAt(s, t, k)
    <3>1. ~Removes(b, t) \/ (b.op = "delete" /\ b.a # k)
      BY <1>2, <1>3, <2>2 DEF Removes, DeletesAt
    <3>2. QED
      BY <1>2, <1>4, <3>1, HasApplied
  <2>3. QED
    BY <2>1, <2>2
<1>5. ASSUME NEW x \in o.rows, x[1] = c, x[2] # 0,
             s.t = c /\ s.op = "delete" => x \notin Touched(b, o.rows)
      PROVE  HasRow(t, x[2], q.rows) \/ Dangling(p, m, c, t, x[2])
  <2>1. CASE HasRow(t, x[2], o.rows)
    BY <1>4, <2>1
  <2>2. CASE Dangling(p, m - 1, c, t, x[2])
    <3>1. x[2] # Found
      <4>1. PICK j \in 1..(m - 1) : DeletesAt(p[j], t, x[2])
        BY <2>2 DEF Dangling
      <4>2. j \in DOMAIN p /\ Removes(p[j], t) /\ p[j].a = x[2]
        BY <1>1, <4>1 DEF DeletesAt, Removes
      <4>3. QED
        BY <1>1, <4>2 DEF Tidy
    <3>2. ~DeletesAt(s, c, x[2])
      <4> SUFFICES ASSUME DeletesAt(s, c, x[2]) PROVE FALSE
        OBVIOUS
      <4>1. s.t = c /\ s.op = "delete" /\ s.a = x[2]
        BY DEF DeletesAt
      <4>2. b.t = c /\ b.op = "delete" /\ b.a = x[2]
        BY <1>2, <3>1, <4>1
      <4>3. x \in Touched(b, o.rows)
        BY <1>5, <4>2 DEF Touched
      <4>4. QED
        BY <1>5, <4>1, <4>3
    <3>3. QED
      BY <1>1, <2>2, <3>2, DanglesOn
  <2>3. QED
    BY <1>1, <1>5, <2>1, <2>2 DEF Covered
<1>6. ASSUME NEW x \in q.rows, x[1] = c, x[2] # 0
      PROVE  HasRow(t, x[2], q.rows) \/ Dangling(p, m, c, t, x[2])
  <2> DEFINE y == <<b.t, b.a, b.b>>
  <2>1. CASE x \in o.rows /\ x \notin Touched(b, o.rows)
    BY <1>5, <1>6, <2>1
  <2>2. CASE x = y /\ b.op = "update" /\ Touched(b, o.rows) # {}
    <3>1. PICK z : z \in Touched(b, o.rows)
      BY <2>2
    <3>2. b.t = c /\ b.a = x[2]
      BY <1>6, <2>2
    <3>3. z \in o.rows /\ z[1] = c /\ z[2] = x[2]
      BY <2>2, <3>1, <3>2 DEF Touched
    <3>4. s.op # "delete"
      BY <1>2, <2>2
    <3>5. QED
      BY <1>5, <1>6, <3>3, <3>4
  <2>3. CASE x = y /\ b.op = "insert"
    <3>1. b.t = c /\ b.a = x[2]
      BY <1>6, <2>3
    <3>2. InsertsInto(s, c) /\ ~Removes(b, t)
      BY <1>1, <1>2, <2>3, <3>1 DEF InsertsInto, Removes
    <3>3. s.a # 0
      BY <1>2, <1>6, <3>1 DEF Found
    <3>4. PICK i \in DOMAIN p :
            /\ i < m /\ Ensures(p[i], t, s.a)
            /\ \A l \in DOMAIN p : i < l /\ l < m => ~Removes(p[l], t) /\ p[l].op # "find"
      BY <1>1, <3>2, <3>3 DEF Tidy
    <3>5. i \in 1..(m - 1) /\ \A l \in 1..(m - 1) : l \in DOMAIN p /\ l < m
      BY <1>1, <3>4
    <3>6. x[2] = 0 \/ HasRow(t, x[2], o.rows)
      <4>1. x[2] = IF s.a = Found THEN o.id ELSE s.a
        BY <1>2, <3>1
      <4>2. LET k == IF s.a = Found THEN o.id ELSE s.a IN k = 0 \/ HasRow(t, k, o.rows)
        BY <1>1, <3>4, <3>5 DEF Ensured
      <4>3. QED
        BY <4>1, <4>2
    <3>7. QED
      BY <1>4, <1>6, <3>6
  <2>4. QED
    BY <1>6, <2>1, <2>2, <2>3, AppliedRow
<1>7. QED
  BY <1>6 DEF Covered

\* Every statement of a tidy program keeps all rows covered.
LEMMA KeepingNext ==
  ASSUME NEW p, NEW m, NEW c, NEW t, NEW o, NEW s, NEW b, TidyStep(p, m, c, t, o, s, b)
  PROVE  Keeping(p, m, c, t, Perform(o, s))
<1>1. IsOutcome(o) /\ ~o.over /\ s \in Statements /\ b = Bound(s, o.id)
  BY DEF TidyStep
<1>2. b.op = s.op
  BY <1>1, BoundAlike
<1>3. s.op \in Ops /\ s.onerr \in {"abort", "refuse", "echo", "stray", "reuse", "go on"}
  BY <1>1 DEF Statements
<1>4. ASSUME NEW q, q.over, q.rows = o.rows,
             s.op \in {"reply", "silent", "undefined"} \/ (CanReject(s) /\ s.onerr # "go on")
      PROVE  Keeping(p, m, c, t, q)
  <2>1. Linked(c, t, o.rows)
    BY <1>4, EndsLinked
  <2>2. QED
    BY <1>4, <2>1 DEF Keeping, Linked
<1>5. CASE Rejected(b, o.rows)
  <2>1. Perform(o, s) = GaveUp(o, s)
    BY <1>1, <1>5 DEF Perform
  <2>2. CanReject(s)
    BY <1>2, <1>5 DEF Rejected, CanReject
  <2>3. CASE GoesOn(s)
    <3>1. GaveUp(o, s) = o
      BY <1>1, <2>3, GaveUpIs
    <3>2. s.op \notin {"find", "delete"}
      BY <2>2 DEF CanReject
    <3>3. Stays(o, s, b, o)
      BY <1>1, <2>3, <3>2 DEF Stays
    <3>4. QED
      BY <2>1, <3>1, <3>3, RowsStay
  <2>4. CASE ~GoesOn(s)
    <3>1. s.onerr \in {"refuse", "echo", "abort", "stray"} /\ s.onerr # "go on"
      BY <1>3, <2>4 DEF GoesOn
    <3>2. GaveUp(o, s).over /\ GaveUp(o, s).rows = o.rows
      BY ZenonT(60), <1>1, <3>1, GaveUpIs
    <3>3. QED
      BY <1>4, <2>1, <2>2, <3>1, <3>2
  <2>5. QED
    BY <2>3, <2>4
<1>6. CASE ~Rejected(b, o.rows)
  <2>1. PICK q : q = Done(o, s, b)
    OBVIOUS
  <2>2. Perform(o, s) = q
    BY <1>1, <1>6, <2>1 DEF Perform
  <2>3. CASE s.op \in {"reply", "silent", "undefined"}
    <3>1. q.over /\ q.rows = o.rows
      BY <1>1, <2>1, <2>3, DoneReply
    <3>2. QED
      BY <1>4, <2>2, <2>3, <3>1
  <2>4. CASE Reads(s)
    <3>1. /\ q.rows = o.rows /\ q.over = o.over
          /\ s.op = "find" => q.id = KeyFound(b, o.rows)
          /\ s.op # "find" => q.id = o.id
      BY <1>1, <2>1, <2>4, DoneRead
    <3>2. s.op \notin {"delete", "update"}
      BY <2>4 DEF Reads
    <3>3. Stays(o, s, b, q)
      BY <1>1, <3>1, <3>2 DEF Stays
    <3>4. QED
      BY <2>2, <3>3, RowsStay
  <2>5. CASE s.op = "commit"
    <3>1. q = o
      BY <2>1, <2>5, DoneCommit
    <3>2. Stays(o, s, b, q)
      BY <1>1, <2>5, <3>1 DEF Stays
    <3>3. QED
      BY <2>2, <3>2, RowsStay
  <2>6. CASE s.op \notin {"reply", "silent", "undefined", "commit"} /\ ~Reads(s)
    <3>1. q.rows = Applied(b, o.rows) /\ q.id = o.id /\ ~q.over
      <4>1. IsOutcome(o) /\ ~Reads(s) /\ s.op \notin {"reply", "silent", "undefined", "commit"}
        BY <1>1, <2>6
      <4>2. /\ q.rows = Applied(b, o.rows) /\ q.wrote = TRUE
            /\ q.id = o.id /\ q.saw = o.saw /\ q.over = o.over
        BY ZenonT(60), <2>1, <4>1, DoneOther
      <4>3. QED
        BY <1>1, <4>2
    <3>2. Changing(s)
      BY <1>3, <2>6 DEF Ops, Reads, Writes, Changing
    <3>3. Covered(p, m, c, t, q)
      BY <1>6, <3>1, <3>2, StaysCovered
    <3>4. Ensured(p, m, t, q)
      BY <1>6, <3>1, <3>2, StaysEnsured
    <3>5. QED
      BY <1>1, <2>2, <3>1, <3>3, <3>4 DEF Keeping
  <2>7. QED
    BY <2>3, <2>4, <2>5, <2>6
<1>7. QED
  BY <1>5, <1>6

\* A whole program of a handler leaves no row of c without its row of t.
LEMMA OutcomeLinked ==
  ASSUME NEW p \in Seq(Statements), NEW rows, NEW c, NEW t, c # t,
         Atomic(p), Tidy(p, c, t), Linked(c, t, rows)
  PROVE  Linked(c, t, Outcome(p, rows).rows)
<1> DEFINE O(n) == Outcome(SubSeq(p, 1, n), rows)
           S == {n \in Nat : n <= Len(p) => Keeping(p, n, c, t, O(n))}
<1>0. Len(p) \in Nat /\ DOMAIN p = 1..Len(p)
  OBVIOUS
<1>1. 0 \in S
  <2>1. PICK o : o = O(0)
    OBVIOUS
  <2>2. o.rows = rows /\ ~o.over
    BY <2>1, OutcomeNothing, StartedIs
  <2>3. Covered(p, 0, c, t, o)
    BY <2>2 DEF Covered, Linked
  <2>4. Ensured(p, 0, t, o)
    BY DEF Ensured
  <2>5. Keeping(p, 0, c, t, o)
    BY <2>2, <2>3, <2>4 DEF Keeping
  <2>6. QED
    BY <2>1, <2>5
<1>2. ASSUME NEW n \in S PROVE n + 1 \in S
  <2>1. ASSUME n + 1 <= Len(p) PROVE Keeping(p, n + 1, c, t, O(n + 1))
    <3>1. PICK m : m = n + 1
      OBVIOUS
    <3>2. m \in 1..Len(p) /\ m - 1 = n /\ m \in Nat /\ m > 0 /\ n \in 0..Len(p) /\ n <= Len(p)
      BY <1>0, <2>1, <3>1
    <3>3. PICK o : o = O(n)
      OBVIOUS
    <3>4. O(m) = Perform(o, p[m])
      BY <3>2, <3>3, OutcomeNext
    <3>5. IsOutcome(o)
      BY <3>2, <3>3, OutcomeShape
    <3>6. Keeping(p, n, c, t, o)
      BY <3>2, <3>3
    <3>7. Keeping(p, m, c, t, Perform(o, p[m]))
      <4>1. CASE o.over
        <5>1. Perform(o, p[m]) = o
          BY <3>5, <4>1, PerformKeeps
        <5>2. Keeping(p, m, c, t, o)
          BY <3>6, <4>1 DEF Keeping
        <5>3. QED
          BY <5>1, <5>2
      <4>2. CASE ~o.over
        <5>1. PICK s, b : s = p[m] /\ b = Bound(p[m], o.id)
          OBVIOUS
        <5>2. m \in DOMAIN p /\ s \in Statements
          BY <1>0, <3>2, <5>1
        <5>3. TidyStep(p, m, c, t, o, s, b)
          BY <3>2, <3>5, <3>6, <4>2, <5>1, <5>2 DEF TidyStep
        <5>4. QED
          BY <5>1, <5>3, KeepingNext
      <4>3. QED
        BY <4>1, <4>2
    <3> HIDE DEF O
    <3>8. QED
      BY <3>1, <3>4, <3>7
  <2>2. QED
    BY <2>1
<1> HIDE DEF S
<1>3. Nat \subseteq S
  BY <1>1, <1>2, Induct
<1>4. PICK n, o : n = Len(p) /\ o = O(n)
  OBVIOUS
<1>5. o = Outcome(p, rows)
  <2>1. SubSeq(p, 1, n) = p
    BY <1>4
  <2>2. QED
    BY <1>4, <2>1
<1>6. Keeping(p, n, c, t, o)
  <2>1. n \in S /\ n <= Len(p)
    BY <1>0, <1>3, <1>4
  <2> HIDE DEF O
  <2>2. Keeping(p, n, c, t, O(n))
    BY <2>1 DEF S
  <2>3. QED
    BY <1>4, <2>2
<1>7. ASSUME NEW k PROVE ~Dangling(p, n, c, t, k)
  <2> SUFFICES ASSUME Dangling(p, n, c, t, k) PROVE FALSE
    OBVIOUS
  <2>1. PICK j \in 1..n : DeletesAt(p[j], t, k) /\ \A i \in 1..n : j < i => ~DeletesAt(p[i], c, k)
    BY DEF Dangling
  <2>2. j \in DOMAIN p /\ Removes(p[j], t) /\ p[j] \in Statements
    BY <1>0, <1>4, <2>1 DEF DeletesAt, Removes
  <2>3. PICK i \in DOMAIN p : j < i /\ p[i] = [p[j] EXCEPT !.t = c]
    BY <2>2 DEF Tidy
  <2>4. DeletesAt(p[i], c, k)
    BY <2>1, <2>2, <2>3 DEF DeletesAt, Statements
  <2>5. QED
    BY <1>0, <1>4, <2>1, <2>3, <2>4
<1>8. Linked(c, t, o.rows)
  BY <1>6, <1>7 DEF Keeping, Covered, Linked
<1>9. QED
  BY <1>5, <1>8

----------------------------------------------------------------------------
(* What Store keeps, its workers keep. *)

Chosen(r) == prog[r] = <<>> \/ prog[r] \in Asks[r]
Belongs(c, t) == Linked(c, t, Current) /\ \A r \in Req : Chosen(r)

\* Every step of Store leaves each row of c with its row of t.
LEMMA StoreBelongs ==
  ASSUME NEW c, NEW t, c # t, Atomically, Tidily(c, t), Linked(c, t, InitRows)
  PROVE  /\ StoreMap!Init => Belongs(c, t)
         /\ Belongs(c, t) /\ [StoreMap!Next]_(StoreMap!vars) => Belongs(c, t)'
<1>1. StoreMap!Init => Belongs(c, t)
  BY DEF StoreMap!Init, Belongs, Chosen
<1>2. Belongs(c, t) /\ [StoreMap!Next]_(StoreMap!vars) => Belongs(c, t)'
  <2> SUFFICES ASSUME Belongs(c, t), [StoreMap!Next]_(StoreMap!vars) PROVE Belongs(c, t)'
    OBVIOUS
  <2>1. ASSUME NEW r \in Req, StoreMap!Accept(r) PROVE Belongs(c, t)'
    <3>1. PICK p \in Asks[r] : prog' = [prog EXCEPT ![r] = p]
      BY <2>1 DEF StoreMap!Accept
    <3>2. Current' = Current
      BY <2>1 DEF StoreMap!Accept
    <3>3. \A q \in Req : Chosen(q)'
      BY <3>1 DEF Belongs, Chosen
    <3>4. QED
      BY <3>2, <3>3 DEF Belongs, Linked, HasRow
  <2>2. ASSUME NEW r \in Req, StoreMap!Serve(r) PROVE Belongs(c, t)'
    <3>1. prog[r] # <<>> /\ prog' = prog
      BY <2>2 DEF StoreMap!Serve, StoreMap!Waits, StoreMap!Act, StoreMap!Tell
    <3>2. Current' = Outcome(prog[r], Current).rows \/ Current' = Current
      BY <2>2 DEF StoreMap!Serve, StoreMap!Act, StoreMap!Tell
    <3>3. PICK p, rows : p = prog[r] /\ rows = Current
      OBVIOUS
    <3>4. p \in Asks[r]
      BY <3>1, <3>3 DEF Belongs, Chosen
    <3>5. p \in Seq(Statements) /\ Atomic(p) /\ Tidy(p, c, t)
      BY <3>4, AsksAssumption DEF Atomically, Tidily
    <3>6. Linked(c, t, rows)
      BY <3>3 DEF Belongs
    <3>7. Linked(c, t, Outcome(p, rows).rows)
      BY <3>5, <3>6, OutcomeLinked
    <3>8. PICK n : n = Outcome(p, rows).rows
      OBVIOUS
    <3>9. Current' = n \/ Current' = rows
      BY <3>2, <3>3, <3>8
    <3>10. Linked(c, t, Current)'
      BY <3>6, <3>7, <3>8, <3>9 DEF Linked, HasRow
    <3>11. QED
      BY <3>1, <3>10 DEF Belongs, Chosen
  <2>3. ASSUME NEW r \in Req, StoreMap!Pay(r) PROVE Belongs(c, t)'
    BY <2>3 DEF StoreMap!Pay, Belongs, Linked, HasRow, Chosen
  <2>4. CASE UNCHANGED StoreMap!vars
    BY <2>4 DEF StoreMap!vars, Belongs, Linked, HasRow, Chosen
  <2>5. QED
    BY <2>1, <2>2, <2>3, <2>4 DEF StoreMap!Next
<1>3. QED
  BY <1>1, <1>2

\* However requests that create, change and delete roles and menus follow each
\* other: no menu stays granted to a role that is gone, and none is granted to
\* one that never was.
THEOREM RoleMenusHaveRoles ==
  ASSUME NEW w, Worker = {w}, MaxFaults = 0, Settling, Atomically,
         Tidily("sys_role_menu", "sys_role"), Linked("sys_role_menu", "sys_role", InitRows)
  PROVE  Spec => []RoleMenuHasRole
<1>1. Spec => StoreSpec
  BY ImplementsStore
<1> DEFINE B == Belongs("sys_role_menu", "sys_role")
<1>2. "sys_role_menu" # "sys_role"
  OBVIOUS
<1>3. /\ StoreMap!Init => B
      /\ B /\ [StoreMap!Next]_(StoreMap!vars) => B'
  BY <1>2, StoreBelongs
<1>4. B => RoleMenuHasRole
  BY DEF Belongs, Linked, HasRow, RoleMenuHasRole
<1> HIDE DEF B
<1>5. QED
  BY <1>1, <1>3, <1>4, PTL DEF StoreSpec, StoreMap!Spec

\* The same of users and their posts, if a body that changes a user's posts
\* has a column of the user too.
THEOREM UserPostsHaveUsers ==
  ASSUME NEW w, Worker = {w}, MaxFaults = 0, Settling, Atomically,
         Tidily("sys_user_post", "sys_user"), Linked("sys_user_post", "sys_user", InitRows)
  PROVE  Spec => []UserPostHasUser
<1>1. Spec => StoreSpec
  BY ImplementsStore
<1> DEFINE B == Belongs("sys_user_post", "sys_user")
<1>2. "sys_user_post" # "sys_user"
  OBVIOUS
<1>3. /\ StoreMap!Init => B
      /\ B /\ [StoreMap!Next]_(StoreMap!vars) => B'
  BY <1>2, StoreBelongs
<1>4. B => UserPostHasUser
  BY DEF Belongs, Linked, HasRow, UserPostHasUser
<1> HIDE DEF B
<1>5. QED
  BY <1>1, <1>3, <1>4, PTL DEF StoreSpec, StoreMap!Spec
=============================================================================
