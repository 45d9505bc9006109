---------------------------- MODULE RecordsProofs ----------------------------
(***************************************************************************)
(* What the functions of Records compute, for any map of columns, any      *)
(* documents, queries and tables: what is looked up in a message, the      *)
(* order of a list and the cutting of its pages, the rows that INSERT,     *)
(* UPDATE and DELETE write and remove; and from this the properties of     *)
(* Records.                                                                *)
(***************************************************************************)
EXTENDS Records, FiniteSetTheorems, SequenceTheorems, TLAPS

----------------------------------------------------------------------------
(* Induction.  The set of the numbers that have a property stands for the   *)
(* property; were n the first to lack it, adding one would map the members  *)
(* of S below n into themselves without 0.                                  *)

LEMMA Induct ==
  ASSUME NEW S, 0 \in S, \A n \in S : n \in Nat => n + 1 \in S
  PROVE  Nat \subseteq S
<1> SUFFICES ASSUME NEW n \in Nat, n \notin S PROVE FALSE
  OBVIOUS
<1> DEFINE A == S \cap 0..n
           f == [x \in A |-> x + 1]
<1>1. IsFiniteSet(0..n)
  BY FS_Interval
<1>2. IsFiniteSet(A) /\ IsFiniteSet(A \ {0})
  BY <1>1, FS_Subset
<1>3. 0 \in A
  OBVIOUS
<1>4. Cardinality(A \ {0}) = Cardinality(A) - 1 /\ Cardinality(A) \in Nat
  BY <1>2, <1>3, FS_RemoveElement, FS_CardinalityType
<1>5. f \in [A -> A \ {0}]
  <2>1. ASSUME NEW x \in A PROVE x + 1 \in A \ {0}
    BY <2>1
  <2>2. QED
    BY <2>1
<1>6. \A x, y \in A : x # y => f[x] # f[y]
  OBVIOUS
<1> HIDE DEF A, f
<1>7. Cardinality(A \ {0}) < Cardinality(A)
  BY <1>4
<1>8. \E x, y \in A : x # y /\ f[x] = f[y]
  BY <1>2, <1>4, <1>5, <1>7, FS_PigeonHole
<1>9. QED
  BY <1>6, <1>8

----------------------------------------------------------------------------
(* Message: a value is looked up as the first one that was given            *)

Methods == {"GET", "POST", "PUT", "DELETE"}
Word == STRING \cup Methods \cup PageNames \cup {"$METHOD", "1", "2"}
NameValue == Word \X Word
Pairs(method, query) ==
  <<<<"$METHOD", method>>>> \o (IF method = "POST" THEN <<>> ELSE query)

Fills(f, n, pairs) ==
  f = [i \in 0..n |-> IF i = 0 THEN <<>>
                      ELSE SetIpcValue(f[i - 1], pairs[i][1], pairs[i][2])]

\* The values of such a function, one by one.
LEMMA FillsAre ==
  ASSUME NEW f, NEW n \in Nat, NEW pairs, Fills(f, n, pairs)
  PROVE  /\ f[0] = <<>>
         /\ \A i \in 1..n : f[i] = SetIpcValue(f[i - 1], pairs[i][1], pairs[i][2])
<1>1. \A i \in 0..n : f[i] = IF i = 0 THEN <<>>
                             ELSE SetIpcValue(f[i - 1], pairs[i][1], pairs[i][2])
  BY DEF Fills
<1>2. 0 \in 0..n /\ \A i \in 1..n : i \in 0..n /\ i # 0
  OBVIOUS
<1>3. QED
  BY <1>1, <1>2

\* There is one for every number of pairs.
LEMMA FillsExist ==
  ASSUME NEW pairs
  PROVE  \A n \in Nat : \E f : Fills(f, n, pairs)
<1> DEFINE S == {n \in Nat : \E f : Fills(f, n, pairs)}
<1>1. 0 \in S
  <2> DEFINE f == [i \in 0..0 |-> <<>>]
  <2>1. Fills(f, 0, pairs)
    BY DEF Fills
  <2>2. QED
    BY <2>1
<1>2. ASSUME NEW n \in S PROVE n + 1 \in S
  <2>1. PICK f : Fills(f, n, pairs)
    OBVIOUS
  <2> DEFINE Step(i, before) == SetIpcValue(before, pairs[i][1], pairs[i][2])
             g == [i \in 0..(n + 1) |-> IF i = n + 1 THEN Step(i, f[i - 1]) ELSE f[i]]
  <2>2. f[0] = <<>> /\ \A i \in 1..n : f[i] = Step(i, f[i - 1])
    BY <2>1, FillsAre
  <2> HIDE DEF Step
  <2>3. g[0] = <<>>
    BY <2>2
  <2>4. ASSUME NEW i \in 1..(n + 1) PROVE g[i] = Step(i, g[i - 1])
    <3>1. g[i - 1] = f[i - 1]
      OBVIOUS
    <3>2. QED
      BY <2>2, <3>1
  <2>5. g = [i \in 0..(n + 1) |-> g[i]]
    OBVIOUS
  <2> HIDE DEF g
  <2>6. \A i \in 0..(n + 1) : g[i] = IF i = 0 THEN <<>> ELSE Step(i, g[i - 1])
    <3>1. \A i \in 0..(n + 1) : i = 0 \/ i \in 1..(n + 1)
      OBVIOUS
    <3>2. QED
      BY <2>3, <2>4, <3>1
  <2>7. Fills(g, n + 1, pairs)
    BY <2>5, <2>6, Zenon DEF Fills, Step
  <2>8. QED
    BY <2>7
<1> HIDE DEF S
<1>3. Nat \subseteq S
  BY <1>1, <1>2, Induct
<1>4. QED
  BY <1>3 DEF S

\* Message is the last value of one.
LEMMA MessageFills ==
  ASSUME NEW method, NEW query, Len(Pairs(method, query)) \in Nat
  PROVE  \E f : /\ Fills(f, Len(Pairs(method, query)), Pairs(method, query))
                /\ Message(method, query) = f[Len(Pairs(method, query))]
<1>1. \E f : Fills(f, Len(Pairs(method, query)), Pairs(method, query))
  BY FillsExist
<1>2. QED
  BY <1>1 DEF Fills, Message, Pairs

\* Of the first n pairs, v is the first value of name that is not empty; none is.
Told(pairs, n, name, v) ==
  /\ v # Empty
  /\ \E j \in 1..n : /\ pairs[j] = <<name, v>>
                     /\ \A k \in 1..(j - 1) : pairs[k][1] # name \/ pairs[k][2] = Empty
Untold(pairs, n, name) == \A k \in 1..n : pairs[k][1] # name \/ pairs[k][2] = Empty

\* In a message, v is the first value of name; there is none.
Leads(ipc, name, v) ==
  \E j \in 1..Len(ipc) : ipc[j] = <<name, v>> /\ \A k \in 1..(j - 1) : ipc[k][1] # name
Omits(ipc, name) == \A k \in 1..Len(ipc) : ipc[k][1] # name

Filled(ipc, pairs, n) ==
  /\ ipc \in Seq(NameValue)
  /\ \A name, v : Told(pairs, n, name, v) => Leads(ipc, name, v)
  /\ \A name : Untold(pairs, n, name) => Omits(ipc, name)

\* What one more value changes in a message.
LEMMA LeadsOn ==
  ASSUME NEW ipc \in Seq(NameValue), NEW p \in NameValue, NEW name, NEW v
  PROVE  /\ Leads(ipc, name, v) => Leads(Append(ipc, p), name, v)
         /\ Omits(ipc, name) /\ p = <<name, v>> => Leads(Append(ipc, p), name, v)
         /\ Omits(ipc, name) /\ p[1] # name => Omits(Append(ipc, p), name)
<1>1. PICK b, n : b = Append(ipc, p) /\ n = Len(ipc)
  OBVIOUS
<1>2. /\ n \in Nat /\ Len(b) = n + 1 /\ b[n + 1] = p
      /\ \A i \in 1..n : b[i] = ipc[i]
  BY <1>1
<1>3. ASSUME Leads(ipc, name, v) PROVE Leads(b, name, v)
  <2>1. PICK j \in 1..n : ipc[j] = <<name, v>> /\ \A k \in 1..(j - 1) : ipc[k][1] # name
    BY <1>1, <1>3 DEF Leads
  <2>2. j \in 1..Len(b) /\ \A k \in 1..(j - 1) : k \in 1..n
    BY <1>2
  <2>3. b[j] = <<name, v>> /\ \A k \in 1..(j - 1) : b[k][1] # name
    BY <1>2, <2>1, <2>2
  <2>4. QED
    BY <2>2, <2>3 DEF Leads
<1>4. ASSUME Omits(ipc, name) PROVE \A k \in 1..n : b[k][1] # name
  BY <1>1, <1>2, <1>4 DEF Omits
<1>5. ASSUME Omits(ipc, name), p = <<name, v>> PROVE Leads(b, name, v)
  <2>1. n + 1 \in 1..Len(b) /\ (n + 1) - 1 = n
    BY <1>2
  <2>2. b[n + 1] = <<name, v>> /\ \A k \in 1..((n + 1) - 1) : b[k][1] # name
    BY <1>2, <1>4, <1>5, <2>1
  <2>3. QED
    BY <2>1, <2>2 DEF Leads
<1>6. ASSUME Omits(ipc, name), p[1] # name PROVE Omits(b, name)
  <2>1. \A k \in 1..Len(b) : k \in 1..n \/ k = n + 1
    BY <1>2
  <2>2. QED
    BY <1>2, <1>4, <1>6, <2>1 DEF Omits
<1>7. QED
  BY <1>1, <1>3, <1>5, <1>6

\* What a message says of n pairs it says of n + 1 after one more value.
LEMMA FilledOn ==
  ASSUME NEW pairs \in Seq(NameValue), NEW n \in Nat, NEW m, m = n + 1, m <= Len(pairs),
         NEW ipc, Filled(ipc, pairs, n)
  PROVE  Filled(SetIpcValue(ipc, pairs[m][1], pairs[m][2]), pairs, m)
<1>1. PICK p : p = pairs[m]
  OBVIOUS
<1>2. m \in 1..Len(pairs) /\ m \in 1..m /\ m - 1 = n /\ n \in Nat /\ m \in Nat
  OBVIOUS
<1>3. p \in NameValue /\ p = <<p[1], p[2]>>
  BY <1>1, <1>2 DEF NameValue
<1>4. \A k \in 1..m : k \in 1..n \/ k = m
  BY <1>2
<1>5. \A k \in 1..n : k \in 1..m
  BY <1>2
<1>6. ipc \in Seq(NameValue)
  BY DEF Filled
<1>7. \A name : Untold(pairs, m, name) => Untold(pairs, n, name) /\ (p[1] # name \/ p[2] = Empty)
  BY <1>1, <1>2, <1>5 DEF Untold
<1>8. \A name, v : Told(pairs, m, name, v) =>
        Told(pairs, n, name, v) \/ (Untold(pairs, n, name) /\ p = <<name, v>> /\ v # Empty)
  <2> SUFFICES ASSUME NEW name, NEW v, Told(pairs, m, name, v)
               PROVE  Told(pairs, n, name, v)
                      \/ (Untold(pairs, n, name) /\ p = <<name, v>> /\ v # Empty)
    OBVIOUS
  <2>1. PICK j \in 1..m : /\ pairs[j] = <<name, v>>
                          /\ \A k \in 1..(j - 1) : pairs[k][1] # name \/ pairs[k][2] = Empty
    BY DEF Told
  <2>2. v # Empty
    BY DEF Told
  <2>3. CASE j = m
    <3>1. Untold(pairs, n, name)
      BY <1>2, <2>1, <2>3 DEF Untold
    <3>2. QED
      BY <1>1, <2>1, <2>2, <2>3, <3>1
  <2>4. CASE j \in 1..n
    BY <2>1, <2>2, <2>4 DEF Told
  <2>5. QED
    BY <1>4, <2>3, <2>4
<1>9. PICK b : b = SetIpcValue(ipc, p[1], p[2])
  OBVIOUS
<1>10. CASE p[2] = Empty
  <2>1. b = ipc
    BY <1>9, <1>10 DEF SetIpcValue
  <2>2. ASSUME NEW name, NEW v, Told(pairs, m, name, v) PROVE Leads(b, name, v)
    <3>1. Told(pairs, n, name, v) \/ (p = <<name, v>> /\ v # Empty)
      BY <1>8, <2>2
    <3>2. p = <<name, v>> => p[2] = v
      OBVIOUS
    <3>3. Told(pairs, n, name, v)
      BY <1>10, <3>1, <3>2
    <3>4. QED
      BY <2>1, <3>3 DEF Filled
  <2>3. ASSUME NEW name, Untold(pairs, m, name) PROVE Omits(b, name)
    BY <1>7, <2>1, <2>3 DEF Filled
  <2>4. QED
    BY <1>1, <1>6, <1>9, <2>1, <2>2, <2>3 DEF Filled
<1>11. CASE p[2] # Empty
  <2>1. b = Append(ipc, p)
    BY <1>3, <1>9, <1>11 DEF SetIpcValue
  <2>2. b \in Seq(NameValue)
    BY <1>3, <1>6, <2>1
  <2>3. ASSUME NEW name, NEW v, Told(pairs, m, name, v) PROVE Leads(b, name, v)
    <3>1. CASE Told(pairs, n, name, v)
      <4>1. Leads(ipc, name, v)
        BY <3>1 DEF Filled
      <4>2. QED
        BY <1>3, <1>6, <2>1, <4>1, LeadsOn
    <3>2. CASE Untold(pairs, n, name) /\ p = <<name, v>>
      <4>1. Omits(ipc, name)
        BY <3>2 DEF Filled
      <4>2. QED
        BY <1>3, <1>6, <2>1, <3>2, <4>1, LeadsOn
    <3>3. QED
      BY <1>8, <2>3, <3>1, <3>2
  <2>4. ASSUME NEW name, Untold(pairs, m, name) PROVE Omits(b, name)
    <3>1. Omits(ipc, name) /\ p[1] # name
      BY <1>7, <1>11, <2>4 DEF Filled
    <3>2. QED
      BY <1>3, <1>6, <2>1, <3>1, LeadsOn
  <2>5. QED
    BY <1>1, <1>9, <2>2, <2>3, <2>4 DEF Filled
<1>12. QED
  BY <1>10, <1>11

\* The message of a request says what its pairs told.
LEMMA MessageFilled ==
  ASSUME NEW method, NEW query, Pairs(method, query) \in Seq(NameValue)
  PROVE  Filled(Message(method, query), Pairs(method, query), Len(Pairs(method, query)))
<1>1. PICK pairs, l : pairs = Pairs(method, query) /\ l = Len(pairs)
  OBVIOUS
<1>2. l \in Nat /\ pairs \in Seq(NameValue)
  BY <1>1
<1>3. PICK f : Fills(f, l, pairs) /\ Message(method, query) = f[l]
  BY <1>1, <1>2, MessageFills
<1>4. /\ f[0] = <<>>
      /\ \A i \in 1..l : f[i] = SetIpcValue(f[i - 1], pairs[i][1], pairs[i][2])
  BY <1>2, <1>3, FillsAre
<1> DEFINE S == {n \in Nat : n <= l => Filled(f[n], pairs, n)}
<1>5. 0 \in S
  <2>1. f[0] \in Seq(NameValue) /\ Len(f[0]) = 0
    BY <1>4, EmptySeq
  <2>2. \A name : Omits(f[0], name)
    BY <2>1 DEF Omits
  <2>3. \A name, v : ~Told(pairs, 0, name, v)
    BY DEF Told
  <2>4. Filled(f[0], pairs, 0)
    BY <2>1, <2>2, <2>3 DEF Filled
  <2>5. QED
    BY <2>4
<1>6. ASSUME NEW n \in S PROVE n + 1 \in S
  <2>1. PICK m : m = n + 1
    OBVIOUS
  <2>2. ASSUME m <= l PROVE Filled(f[m], pairs, m)
    <3>1. n \in Nat /\ m \in 1..l /\ m - 1 = n /\ n <= l
      BY <1>2, <2>1, <2>2
    <3>2. Filled(f[n], pairs, n)
      BY <3>1
    <3>3. f[m] = SetIpcValue(f[n], pairs[m][1], pairs[m][2])
      BY <1>4, <3>1
    <3>4. m <= Len(pairs)
      BY <1>1, <2>2
    <3>5. QED
      BY <1>2, <2>1, <3>1, <3>2, <3>3, <3>4, FilledOn
  <2>3. QED
    BY <2>1, <2>2
<1> HIDE DEF S
<1>7. Nat \subseteq S
  BY <1>5, <1>6, Induct
<1>8. Filled(f[l], pairs, l)
  BY <1>2, <1>7 DEF S
<1>9. QED
  BY <1>1, <1>3, <1>8

\* The first value of a name is the one that is found.
LEMMA LeadsSays ==
  ASSUME NEW ipc \in Seq(NameValue), NEW name, NEW v, Leads(ipc, name, v)
  PROVE  GetIpcValueExt(ipc, name) = v
<1> DEFINE hits == {i \in DOMAIN ipc : ipc[i][1] = name}
<1>1. PICK j \in 1..Len(ipc) : ipc[j] = <<name, v>> /\ \A k \in 1..(j - 1) : ipc[k][1] # name
  BY DEF Leads
<1>2. DOMAIN ipc = 1..Len(ipc) /\ Len(ipc) \in Nat
  OBVIOUS
<1>3. j \in hits /\ hits \subseteq 1..Len(ipc)
  BY <1>1, <1>2
<1>4. \A k \in hits : j <= k
  <2> SUFFICES ASSUME NEW k \in hits PROVE j <= k
    OBVIOUS
  <2>1. k \in 1..Len(ipc) /\ ipc[k][1] = name
    BY <1>2
  <2>2. k \notin 1..(j - 1)
    BY <1>1, <2>1
  <2>3. QED
    BY <1>2, <2>1, <2>2
<1>5. GetIpcValueExt(ipc, name) = IF hits = {} THEN Empty ELSE ipc[Min(hits)][2]
  BY DEF GetIpcValueExt
<1> HIDE DEF hits
<1>6. Min(hits) = j
  <2>1. \A k \in hits : (\A y \in hits : k <= y) => k = j
    BY <1>2, <1>3, <1>4
  <2>2. QED
    BY <1>3, <1>4, <2>1 DEF Min
<1>7. hits # {}
  BY <1>3
<1>8. ipc[j][2] = v
  BY <1>1
<1>9. QED
  BY <1>5, <1>6, <1>7, <1>8

\* Of a name without a value nothing is found.
LEMMA OmitsSays ==
  ASSUME NEW ipc \in Seq(NameValue), NEW name, Omits(ipc, name)
  PROVE  GetIpcValueExt(ipc, name) = Empty
<1> DEFINE hits == {i \in DOMAIN ipc : ipc[i][1] = name}
<1>1. DOMAIN ipc = 1..Len(ipc)
  OBVIOUS
<1>2. hits = {}
  BY <1>1 DEF Omits
<1>3. GetIpcValueExt(ipc, name) = IF hits = {} THEN Empty ELSE ipc[Min(hits)][2]
  BY DEF GetIpcValueExt
<1> HIDE DEF hits
<1>4. QED
  BY <1>2, <1>3

\* What is looked up in a message.
LEMMA MessageSays ==
  ASSUME NEW method, NEW query, NEW pairs, pairs = Pairs(method, query),
         pairs \in Seq(NameValue), NEW name
  PROVE  /\ \A v : Told(pairs, Len(pairs), name, v) =>
                     GetIpcValueExt(Message(method, query), name) = v
         /\ Untold(pairs, Len(pairs), name) =>
              GetIpcValueExt(Message(method, query), name) = Empty
<1>1. Filled(Message(method, query), pairs, Len(pairs))
  BY MessageFilled
<1>2. Message(method, query) \in Seq(NameValue)
  BY <1>1 DEF Filled
<1>3. ASSUME NEW v, Told(pairs, Len(pairs), name, v)
      PROVE  GetIpcValueExt(Message(method, query), name) = v
  <2>1. Leads(Message(method, query), name, v)
    BY <1>1, <1>3 DEF Filled
  <2>2. QED
    BY <1>2, <2>1, LeadsSays
<1>4. ASSUME Untold(pairs, Len(pairs), name)
      PROVE  GetIpcValueExt(Message(method, query), name) = Empty
  <2>1. Omits(Message(method, query), name)
    BY <1>1, <1>4 DEF Filled
  <2>2. QED
    BY <1>2, <2>1, OmitsSays
<1>5. QED
  BY <1>3, <1>4

\* The pairs of a query come after the method.
LEMMA PairsAre ==
  ASSUME NEW method \in Methods, NEW query \in Seq(NameValue)
  PROVE  /\ Pairs(method, query) \in Seq(NameValue)
         /\ Len(Pairs(method, query)) \in Nat /\ Len(Pairs(method, query)) >= 1
         /\ Pairs(method, query)[1] = <<"$METHOD", method>>
         /\ method # "POST" =>
              /\ Len(Pairs(method, query)) = Len(query) + 1
              /\ \A i \in 1..Len(query) : Pairs(method, query)[i + 1] = query[i]
<1>1. PICK q, p : /\ q = (IF method = "POST" THEN <<>> ELSE query)
                  /\ p = <<<<"$METHOD", method>>>>
  OBVIOUS
<1>2. q \in Seq(NameValue) /\ p \in Seq(NameValue) /\ Len(p) = 1 /\ p[1] = <<"$METHOD", method>>
  <2>1. PICK e : e = <<"$METHOD", method>>
    OBVIOUS
  <2>2. e \in NameValue
    BY <2>1 DEF NameValue, Word
  <2>3. p = <<e>>
    BY <1>1, <2>1
  <2>4. p \in Seq(NameValue) /\ Len(p) = 1 /\ p[1] = e
    BY <2>2, <2>3
  <2>5. q \in Seq(NameValue)
    BY <1>1, EmptySeq
  <2>6. QED
    BY <2>1, <2>4, <2>5
<1>3. Pairs(method, query) = p \o q
  BY <1>1 DEF Pairs
<1>4. /\ p \o q \in Seq(NameValue) /\ Len(p \o q) = Len(q) + 1 /\ Len(q) \in Nat
      /\ (p \o q)[1] = p[1]
      /\ \A i \in 1..Len(q) : (p \o q)[i + 1] = q[i]
  <2>1. /\ p \o q \in Seq(NameValue) /\ Len(p \o q) = Len(p) + Len(q) /\ Len(q) \in Nat
        /\ \A i \in 1..(Len(p) + Len(q)) :
             (p \o q)[i] = IF i <= Len(p) THEN p[i] ELSE q[i - Len(p)]
    <3>1. p \in Seq(NameValue) /\ q \in Seq(NameValue)
      BY <1>2
    <3>2. p \o q \in Seq(NameValue) /\ Len(p \o q) = Len(p) + Len(q)
      BY <3>1, ConcatProperties
    <3>3. \A i \in 1..(Len(p) + Len(q)) :
            (p \o q)[i] = IF i <= Len(p) THEN p[i] ELSE q[i - Len(p)]
      BY <3>1, ConcatProperties
    <3>4. QED
      BY <3>1, <3>2, <3>3
  <2>2. ASSUME NEW i \in 1..Len(q) PROVE (p \o q)[i + 1] = q[i]
    <3>1. i + 1 \in 1..(Len(p) + Len(q)) /\ ~(i + 1 <= Len(p)) /\ (i + 1) - Len(p) = i
      BY <1>2, <2>1
    <3>2. QED
      BY <2>1, <3>1
  <2>3. (p \o q)[1] = p[1]
    BY <1>2, <2>1
  <2>4. QED
    BY <1>2, <2>1, <2>2, <2>3
<1>5. QED
  BY <1>1, <1>2, <1>3, <1>4

\* The method of a request is the one that the gateway has put in.
LEMMA MethodFirst ==
  ASSUME NEW method \in Methods, NEW query \in Seq(NameValue)
  PROVE  GetIpcValueExt(Message(method, query), "$METHOD") = method
<1>1. PICK pairs : pairs = Pairs(method, query)
  OBVIOUS
<1>2. /\ pairs \in Seq(NameValue) /\ Len(pairs) \in Nat /\ Len(pairs) >= 1
      /\ pairs[1] = <<"$METHOD", method>>
  BY <1>1, PairsAre
<1>3. Told(pairs, Len(pairs), "$METHOD", method)
  <2>1. 1 \in 1..Len(pairs)
    BY <1>2
  <2>2. 1..(1 - 1) = {}
    OBVIOUS
  <2>3. method # Empty
    BY Zenon DEF Methods, Empty
  <2>4. QED
    BY <1>2, <2>1, <2>2, <2>3 DEF Told
<1>4. QED
  BY <1>1, <1>2, <1>3, MessageSays

----------------------------------------------------------------------------
(* Sorted: the rows in the order of their keys                              *)

LEMMA Least ==
  ASSUME NEW S, S \subseteq Nat, S # {}
  PROVE  \E i \in S : \A j \in S : i <= j
<1> SUFFICES ASSUME \A i \in S : \E j \in S : ~(i <= j) PROVE FALSE
  OBVIOUS
<1> DEFINE T == {n \in Nat : \A j \in S : n <= j}
<1>1. 0 \in T
  OBVIOUS
<1>2. ASSUME NEW n \in T PROVE n + 1 \in T
  <2>1. n \notin S
    OBVIOUS
  <2>2. ASSUME NEW j \in S PROVE n + 1 <= j
    BY <2>1
  <2>3. QED
    BY <2>2
<1> HIDE DEF T
<1>3. Nat \subseteq T
  BY <1>1, <1>2, Induct
<1>4. PICK j \in S : TRUE
  OBVIOUS
<1>5. j + 1 \in T
  BY <1>3
<1>6. QED
  BY <1>4, <1>5 DEF T

\* The columns of the key are columns of both generations, and none is a time.
LEMMA Keys ==
  /\ \A i \in DOMAIN Key : Key[i] \in KeyColumn
  /\ \A c \in KeyColumn : \E i \in DOMAIN Key : c = Key[i]
  /\ DOMAIN Key = 1..Len(Key) /\ Len(Key) \in Nat /\ 1 \in DOMAIN Key
  /\ \A c \in KeyColumn : c \in DOMAIN Type /\ Type[c] \in {"C", "I"}
  /\ KeyColumn \subseteq Column /\ Column \subseteq DOMAIN Type
<1>1. PICK C : C = {c \in DOMAIN Type : Type[c] # "T"}
  OBVIOUS
<1>2. Key # <<>> /\ Key \in Seq(C)
  BY <1>1, RecordsAssumption DEF MapAssumption
<1>3. DOMAIN Key = 1..Len(Key) /\ Len(Key) \in Nat /\ \A i \in DOMAIN Key : Key[i] \in C
  BY <1>2
<1>4. 1 \in DOMAIN Key
  <2>1. Len(Key) # 0
    BY <1>2, <1>3
  <2>2. QED
    BY <1>3, <2>1
<1>5. KeyColumn = {Key[i] : i \in DOMAIN Key}
  BY DEF KeyColumn, ToSet
<1>6. KeyColumn \subseteq C
  BY <1>3, <1>5
<1>7. \A c \in DOMAIN Type : Type[c] \in {"C", "I", "T"}
  BY RecordsAssumption DEF MapAssumption
<1>8. C \subseteq Column /\ Column \subseteq DOMAIN Type
  BY <1>1 DEF Column
<1>9. QED
  BY <1>1, <1>3, <1>4, <1>5, <1>6, <1>7, <1>8

\* The values that the columns of a key have.
InKey(c, v) == IF Type[c] = "I" THEN v \in Nat ELSE v \in Texts
Keyed(r) == \A c \in KeyColumn : InKey(c, r[c])

\* The values of a column of the key are totally ordered.
LEMMA LessOrders ==
  ASSUME NEW c, NEW x, NEW y, InKey(c, x), InKey(c, y)
  PROVE  /\ ~Less(c, x, x)
         /\ x # y => Less(c, x, y) \/ Less(c, y, x)
         /\ \A z : InKey(c, z) /\ Less(c, x, y) /\ Less(c, y, z) => Less(c, x, z)
<1>1. CASE Type[c] = "I"
  BY <1>1 DEF InKey, Less
<1>2. CASE Type[c] # "I"
  <2>1. Texts = {Collation[i] : i \in DOMAIN Collation}
    BY DEF Texts, ToSet
  <2>2. DOMAIN Collation \subseteq Nat
    BY RecordsAssumption DEF TextAssumption
  <2>3. \A i, j \in DOMAIN Collation : Collation[i] = Collation[j] => i = j
    BY RecordsAssumption DEF TextAssumption
  <2>4. PICK i \in DOMAIN Collation, j \in DOMAIN Collation : x = Collation[i] /\ y = Collation[j]
    BY <1>2, <2>1 DEF InKey
  <2>5. ASSUME NEW k \in DOMAIN Collation, NEW l \in DOMAIN Collation
        PROVE  Less(c, Collation[k], Collation[l]) <=> k < l
    BY <1>2, <2>3 DEF Less
  <2>6. ~Less(c, x, x) /\ (x # y => Less(c, x, y) \/ Less(c, y, x))
    BY <2>2, <2>4, <2>5
  <2>7. ASSUME NEW z, InKey(c, z), Less(c, x, y), Less(c, y, z) PROVE Less(c, x, z)
    <3>1. PICK k \in DOMAIN Collation : z = Collation[k]
      BY <1>2, <2>1, <2>7 DEF InKey
    <3>2. i < j /\ j < k
      BY <2>4, <2>5, <2>7, <3>1
    <3>3. i < k
      BY <2>2, <3>2
    <3>4. QED
      BY <2>4, <2>5, <3>1, <3>3
  <2>8. QED
    BY <2>6, <2>7
<1>3. QED
  BY <1>1, <1>2

\* No row is before itself.
LEMMA BeforeStrict ==
  ASSUME NEW r, Keyed(r)
  PROVE  ~Before(r, r)
<1> SUFFICES ASSUME NEW i \in DOMAIN Key, Less(Key[i], r[Key[i]], r[Key[i]]) PROVE FALSE
  BY DEF Before
<1>1. InKey(Key[i], r[Key[i]])
  BY Keys DEF Keyed
<1>2. QED
  BY <1>1, LessOrders

\* Before is transitive.
LEMMA BeforeTrans ==
  ASSUME NEW r, NEW s, NEW t, Keyed(r), Keyed(s), Keyed(t), Before(r, s), Before(s, t)
  PROVE  Before(r, t)
<1>1. PICK i \in DOMAIN Key : /\ Less(Key[i], r[Key[i]], s[Key[i]])
                              /\ \A j \in 1..(i - 1) : r[Key[j]] = s[Key[j]]
  BY DEF Before
<1>2. PICK k \in DOMAIN Key : /\ Less(Key[k], s[Key[k]], t[Key[k]])
                              /\ \A j \in 1..(k - 1) : s[Key[j]] = t[Key[j]]
  BY DEF Before
<1>3. i \in Nat /\ k \in Nat /\ i >= 1 /\ k >= 1
  BY Keys
<1>4. CASE i < k
  <2>1. i \in 1..(k - 1) /\ \A j \in 1..(i - 1) : j \in 1..(k - 1)
    BY <1>3, <1>4
  <2>2. Less(Key[i], r[Key[i]], t[Key[i]]) /\ \A j \in 1..(i - 1) : r[Key[j]] = t[Key[j]]
    BY <1>1, <1>2, <2>1
  <2>3. QED
    BY <2>2 DEF Before
<1>5. CASE k < i
  <2>1. k \in 1..(i - 1) /\ \A j \in 1..(k - 1) : j \in 1..(i - 1)
    BY <1>3, <1>5
  <2>2. Less(Key[k], r[Key[k]], t[Key[k]]) /\ \A j \in 1..(k - 1) : r[Key[j]] = t[Key[j]]
    BY <1>1, <1>2, <2>1
  <2>3. QED
    BY <2>2 DEF Before
<1>6. CASE i = k
  <2>1. InKey(Key[i], r[Key[i]]) /\ InKey(Key[i], s[Key[i]]) /\ InKey(Key[i], t[Key[i]])
    BY Keys DEF Keyed
  <2>2. Less(Key[i], r[Key[i]], t[Key[i]])
    BY <1>1, <1>2, <1>6, <2>1, LessOrders
  <2>3. \A j \in 1..(i - 1) : r[Key[j]] = t[Key[j]]
    BY <1>1, <1>2, <1>6
  <2>4. QED
    BY <2>2, <2>3 DEF Before
<1>7. QED
  BY <1>3, <1>4, <1>5, <1>6

\* Of two rows with different keys one is before the other.
LEMMA BeforeTotal ==
  ASSUME NEW r, NEW s, Keyed(r), Keyed(s), KeyOf(r) # KeyOf(s)
  PROVE  Before(r, s) \/ Before(s, r)
<1> DEFINE D == {i \in DOMAIN Key : r[Key[i]] # s[Key[i]]}
<1>1. \E c \in KeyColumn : r[c] # s[c]
  BY DEF KeyOf
<1>2. D # {} /\ D \subseteq Nat /\ D \subseteq DOMAIN Key
  BY <1>1, Keys
<1>3. PICK i \in D : \A j \in D : i <= j
  BY <1>2, Least
<1>4. r[Key[i]] # s[Key[i]] /\ i \in DOMAIN Key
  OBVIOUS
<1>5. ASSUME NEW j \in 1..(i - 1) PROVE r[Key[j]] = s[Key[j]]
  <2>1. j \in DOMAIN Key /\ ~(i <= j)
    BY <1>4, Keys
  <2>2. j \notin D
    BY <1>3, <2>1
  <2>3. QED
    BY <2>1, <2>2
<1>6. InKey(Key[i], r[Key[i]]) /\ InKey(Key[i], s[Key[i]])
  BY <1>4, Keys DEF Keyed
<1>7. Less(Key[i], r[Key[i]], s[Key[i]]) \/ Less(Key[i], s[Key[i]], r[Key[i]])
  BY <1>4, <1>6, LessOrders
<1>8. QED
  BY <1>4, <1>5, <1>7 DEF Before
Orderable(rows) == IsFiniteSet(rows) /\ OneOfEachKey(rows) /\ \A r \in rows : Keyed(r)
Rank(rows, r) == Cardinality({s \in rows : Before(s, r)})

\* The number of rows before it tells a row from the others, in their order.
LEMMA Ranks ==
  ASSUME NEW rows, Orderable(rows)
  PROVE  /\ Cardinality(rows) \in Nat
         /\ \A r \in rows : Rank(rows, r) \in 0..(Cardinality(rows) - 1)
         /\ \A r, s \in rows : Before(r, s) <=> Rank(rows, r) < Rank(rows, s)
         /\ \A r, s \in rows : Rank(rows, r) = Rank(rows, s) => r = s
<1>1. IsFiniteSet(rows) /\ \A r \in rows : Keyed(r)
  BY DEF Orderable
<1>2. \A r, s \in rows : KeyOf(r) = KeyOf(s) => r = s
  BY DEF Orderable, OneOfEachKey
<1> DEFINE Below(r) == {s \in rows : Before(s, r)}
<1>3. \A r \in rows : IsFiniteSet(Below(r)) /\ Rank(rows, r) \in Nat /\ Rank(rows, r) = Cardinality(Below(r))
  <2> SUFFICES ASSUME NEW r \in rows
               PROVE  IsFiniteSet(Below(r)) /\ Rank(rows, r) \in Nat /\ Rank(rows, r) = Cardinality(Below(r))
    OBVIOUS
  <2>1. Below(r) \in SUBSET rows
    OBVIOUS
  <2>2. IsFiniteSet(Below(r))
    BY <1>1, <2>1, FS_Subset
  <2>3. Rank(rows, r) = Cardinality(Below(r))
    BY DEF Rank
  <2>4. QED
    BY <2>2, <2>3, FS_CardinalityType
<1>4. Cardinality(rows) \in Nat
  BY <1>1, FS_CardinalityType
<1>5. \A r \in rows : Rank(rows, r) \in 0..(Cardinality(rows) - 1)
  <2> SUFFICES ASSUME NEW r \in rows PROVE Rank(rows, r) \in 0..(Cardinality(rows) - 1)
    OBVIOUS
  <2>1. r \notin Below(r)
    BY <1>1, BeforeStrict
  <2>2. Below(r) \in SUBSET (rows \ {r})
    BY <2>1
  <2>3. IsFiniteSet(rows \ {r}) /\ Cardinality(rows \ {r}) = Cardinality(rows) - 1
    BY <1>1, FS_RemoveElement
  <2>4. Cardinality(Below(r)) <= Cardinality(rows) - 1
    BY <2>2, <2>3, FS_Subset
  <2>5. Rank(rows, r) \in Nat /\ Rank(rows, r) <= Cardinality(rows) - 1
    BY <1>3, <2>4
  <2>6. QED
    BY <1>4, <2>5
<1>6. ASSUME NEW r \in rows, NEW s \in rows, Before(r, s) PROVE Rank(rows, r) < Rank(rows, s)
  <2>1. ASSUME NEW x \in Below(r) PROVE x \in Below(s)
    <3>1. x \in rows /\ Before(x, r) /\ Keyed(x) /\ Keyed(r) /\ Keyed(s)
      BY <1>1
    <3>2. Before(x, s)
      BY <1>6, <3>1, BeforeTrans
    <3>3. QED
      BY <3>1, <3>2
  <2>2. r \in Below(s) /\ r \notin Below(r)
    BY <1>1, <1>6, BeforeStrict
  <2>3. Below(r) \in SUBSET Below(s) /\ Below(r) # Below(s)
    BY <2>1, <2>2
  <2>4. IsFiniteSet(Below(s))
    BY <1>3
  <2> HIDE DEF Below
  <2>5. Cardinality(Below(r)) <= Cardinality(Below(s)) /\ Cardinality(Below(r)) # Cardinality(Below(s))
    BY <2>3, <2>4, FS_Subset
  <2>6. Rank(rows, r) = Cardinality(Below(r)) /\ Rank(rows, r) \in Nat
    BY <1>3
  <2>7. Rank(rows, s) = Cardinality(Below(s)) /\ Rank(rows, s) \in Nat
    BY <1>3
  <2>8. QED
    BY <2>5, <2>6, <2>7
<1> HIDE DEF Below
<1>7. ASSUME NEW r \in rows, NEW s \in rows PROVE r = s \/ Before(r, s) \/ Before(s, r)
  <2>1. CASE KeyOf(r) = KeyOf(s)
    BY <1>2, <2>1
  <2>2. CASE KeyOf(r) # KeyOf(s)
    BY <1>1, <2>2, BeforeTotal
  <2>3. QED
    BY <2>1, <2>2
<1>8. ASSUME NEW r \in rows, NEW s \in rows, Rank(rows, r) < Rank(rows, s) PROVE Before(r, s)
  <2>1. Rank(rows, r) \in Nat /\ Rank(rows, s) \in Nat
    BY <1>3
  <2>2. r # s
    BY <1>8, <2>1
  <2>3. ~Before(s, r)
    <3>1. Before(s, r) => Rank(rows, s) < Rank(rows, r)
      BY <1>6
    <3>2. QED
      BY <1>8, <2>1, <3>1
  <2>4. QED
    BY <1>7, <2>2, <2>3
<1>9. ASSUME NEW r \in rows, NEW s \in rows, Rank(rows, r) = Rank(rows, s) PROVE r = s
  <2>1. Rank(rows, r) \in Nat /\ Rank(rows, s) \in Nat
    BY <1>3
  <2>2. ~Before(r, s) /\ ~Before(s, r)
    <3>1. Before(r, s) => Rank(rows, r) < Rank(rows, s)
      BY <1>6
    <3>2. Before(s, r) => Rank(rows, s) < Rank(rows, r)
      BY <1>6
    <3>3. QED
      BY <1>9, <2>1, <3>1, <3>2
  <2>3. QED
    BY <1>7, <2>2
<1>10. QED
  BY <1>4, <1>5, <1>6, <1>8, <1>9

\* Each row has a place of its own, and the order of the places is that of the keys.
Arranges(t, rows) ==
  /\ t \in Seq(rows) /\ Len(t) = Cardinality(rows) /\ Len(t) \in Nat
  /\ \A r \in rows : \E i \in 1..Len(t) : t[i] = r
  /\ \A i, j \in 1..Len(t) : i < j => Before(t[i], t[j])

\* Sorted gives each row one place, in the order of the keys.
LEMMA SortedArranges ==
  ASSUME NEW rows, Orderable(rows)
  PROVE  Arranges(Sorted(rows), rows)
<1>1. PICK n : n = Cardinality(rows)
  OBVIOUS
<1> DEFINE f == [r \in rows |-> Rank(rows, r)]
           T == 0..(n - 1)
<1>2. /\ n \in Nat /\ IsFiniteSet(rows)
      /\ \A r \in rows : Rank(rows, r) \in T
      /\ \A r, s \in rows : Before(r, s) <=> Rank(rows, r) < Rank(rows, s)
      /\ \A r, s \in rows : Rank(rows, r) = Rank(rows, s) => r = s
  BY <1>1, Ranks DEF Orderable
<1>3. f \in Injection(rows, T)
  <2>1. f \in [rows -> T]
    BY <1>2
  <2>2. \A r, s \in rows : f[r] = f[s] => r = s
    BY <1>2
  <2>3. QED
    BY <2>1, <2>2 DEF Injection, IsInjective
<1>4. IsFiniteSet(T) /\ Cardinality(T) = n
  BY <1>2, FS_Interval
<1>5. f \in Surjection(rows, T)
  BY <1>1, <1>3, <1>4, FS_Injection
<1>6. \A k \in T : \E r \in rows : Rank(rows, r) = k
  BY <1>5 DEF Surjection
<1>7. PICK t : t = Sorted(rows)
  OBVIOUS
<1>8. t = [i \in 1..n |-> CHOOSE r \in rows : Rank(rows, r) = i - 1]
  BY <1>1, <1>7 DEF Sorted, Rank
<1>9. ASSUME NEW i \in 1..n PROVE t[i] \in rows /\ Rank(rows, t[i]) = i - 1
  <2>1. i - 1 \in T
    BY <1>2
  <2>2. \E r \in rows : Rank(rows, r) = i - 1
    BY <1>6, <2>1
  <2>3. t[i] = CHOOSE r \in rows : Rank(rows, r) = i - 1
    BY <1>8
  <2>4. QED
    BY <2>2, <2>3
<1>10. t \in Seq(rows) /\ Len(t) = n
  <2>1. t \in [1..n -> rows]
    BY <1>8, <1>9
  <2>2. QED
    BY <1>2, <2>1, SeqDef
<1>11. ASSUME NEW r \in rows PROVE \E i \in 1..n : t[i] = r
  <2>1. Rank(rows, r) \in T
    BY <1>2
  <2>2. PICK i : i = Rank(rows, r) + 1
    OBVIOUS
  <2>3. i \in 1..n /\ i - 1 = Rank(rows, r)
    BY <1>2, <2>1, <2>2
  <2>4. t[i] \in rows /\ Rank(rows, t[i]) = Rank(rows, r)
    BY <1>9, <2>3
  <2>5. t[i] = r
    BY <1>2, <2>4
  <2>6. QED
    BY <2>3, <2>5
<1>12. ASSUME NEW i \in 1..n, NEW j \in 1..n, i < j PROVE Before(t[i], t[j])
  <2>1. t[i] \in rows /\ Rank(rows, t[i]) = i - 1 /\ t[j] \in rows /\ Rank(rows, t[j]) = j - 1
    BY <1>9
  <2>2. i - 1 < j - 1
    BY <1>2, <1>12
  <2>3. QED
    BY <1>2, <2>1, <2>2
<1>13. QED
  BY <1>1, <1>2, <1>7, <1>10, <1>11, <1>12 DEF Arranges

----------------------------------------------------------------------------
(* Rows, what is shown of them, and documents                               *)

RowOK(r) == DOMAIN r = Column /\ \A c \in Column : Holds(c, r[c])
SeenRow(row) == row = [c \in Column |-> row[c]] /\ \A c \in Column : Shows(c, row[c])
DocOK(doc) == \A c \in Column : Says(c, doc[c])

\* The texts that the code itself writes, and NULL, which is none.
LEMMA TextsAre ==
  /\ Empty \in Texts /\ "(null)" \in Texts /\ Null \notin Texts /\ Null \notin Nat
  /\ Empty # Null /\ 0 # Null
<1>1. Empty \in Texts /\ "(null)" \in Texts /\ Null \notin Texts /\ Null \notin Nat
  BY RecordsAssumption DEF TextAssumption
<1>2. QED
  BY <1>1

\* The numbers of the texts.
LEMMA AtoiIs == Atoi(Empty) = 0 /\ Atoi("1") = 1 /\ Atoi("2") = 2 /\ \A s : Atoi(s) \in {0, 1, 2}
<1>1. Empty # "1" /\ Empty # "2"
  BY Zenon DEF Empty
<1>2. QED
  BY <1>1 DEF Atoi

\* Each column has one of the three types.
LEMMA ColumnTypes == \A c \in Column : Type[c] \in {"C", "I", "T"}
  BY Keys, RecordsAssumption DEF MapAssumption

\* A row has a value in each column of the key.
LEMMA RowKeyed ==
  ASSUME NEW r, RowOK(r)
  PROVE  Keyed(r)
<1> SUFFICES ASSUME NEW c \in KeyColumn PROVE InKey(c, r[c])
  BY DEF Keyed
<1>1. c \in Column /\ Type[c] \in {"C", "I"}
  BY Keys
<1>2. Holds(c, r[c])
  BY <1>1 DEF RowOK
<1>3. QED
  BY <1>1, <1>2 DEF Holds, InKey

\* What is shown of a row has the types, and the key of the row.
LEMMA ShownRow ==
  ASSUME NEW r, RowOK(r)
  PROVE  SeenRow(Shown(r)) /\ \A c \in KeyColumn : Shown(r)[c] = r[c]
<1>1. PICK row : row = Shown(r)
  OBVIOUS
<1>2. row = [c \in Column |-> IF r[c] # Null THEN r[c] ELSE IF Type[c] = "I" THEN 0 ELSE Empty]
  BY <1>1 DEF Shown
<1>3. ASSUME NEW c \in Column PROVE Shows(c, row[c])
  <2>1. Holds(c, r[c]) /\ Type[c] \in {"C", "I", "T"}
    BY ColumnTypes DEF RowOK
  <2>2. row[c] = IF r[c] # Null THEN r[c] ELSE IF Type[c] = "I" THEN 0 ELSE Empty
    BY <1>2
  <2>3. CASE Type[c] = "I"
    BY <2>1, <2>2, <2>3, TextsAre DEF Holds, Shows
  <2>4. CASE Type[c] = "C"
    BY <2>1, <2>2, <2>4, TextsAre DEF Holds, Shows
  <2>5. CASE Type[c] = "T"
    BY <2>1, <2>2, <2>5, TextsAre DEF Holds, Shows
  <2>6. QED
    BY <2>1, <2>3, <2>4, <2>5
<1>4. row = [c \in Column |-> row[c]]
  BY <1>2
<1>5. ASSUME NEW c \in KeyColumn PROVE row[c] = r[c]
  <2>1. c \in Column
    BY Keys
  <2>2. InKey(c, r[c])
    BY RowKeyed DEF Keyed
  <2>3. r[c] # Null
    BY <2>2, TextsAre DEF InKey
  <2>4. QED
    BY <1>2, <2>1, <2>3
<1>6. SeenRow(row)
  BY <1>3, <1>4 DEF SeenRow
<1>7. QED
  BY <1>1, <1>5, <1>6

\* The document of a row that was shown says what its columns may say.
LEMMA DocumentSays ==
  ASSUME NEW row, SeenRow(row)
  PROVE  DocOK(Document(row))
<1> SUFFICES ASSUME NEW c \in Column PROVE Says(c, Document(row)[c])
  BY DEF DocOK
<1>1. Shows(c, row[c]) /\ Type[c] \in {"C", "I", "T"}
  BY ColumnTypes DEF SeenRow
<1>2. Document(row)[c] = IF Type[c] = "I" THEN Num(row[c]) ELSE Str(row[c])
  BY DEF Document
<1>3. QED
  BY <1>1, <1>2 DEF Shows, Says, Num, Str

\* POST makes a row of any document.
LEMMA RowOfHolds ==
  ASSUME NEW doc, DocOK(doc)
  PROVE  RowOK(RowOf(doc))
<1>1. PICK r : r = RowOf(doc)
  OBVIOUS
<1>2. DOMAIN r = Column
  BY <1>1 DEF RowOf
<1>3. ASSUME NEW c \in Column PROVE Holds(c, r[c])
  <2>1. PICK text : text = IF doc[c][1] = "str" THEN doc[c][2] ELSE Empty
    OBVIOUS
  <2>2. r[c] = CASE Type[c] = "I" -> IF doc[c][1] = "num" THEN doc[c][2] ELSE Atoi(text)
                 [] Type[c] = "T" -> IF text = Empty THEN Null ELSE text
                 [] Type[c] = "C" -> text
    BY <1>1, <2>1 DEF RowOf
  <2>3. Says(c, doc[c]) /\ Type[c] \in {"C", "I", "T"}
    BY ColumnTypes DEF DocOK
  <2>4. text \in Texts
    BY <2>1, <2>3, TextsAre DEF Says, Absent, Nothing
  <2>5. CASE Type[c] = "I"
    <3>1. Atoi(text) \in Nat
      BY AtoiIs
    <3>2. doc[c][1] = "num" => doc[c][2] \in Nat
      BY <2>3 DEF Says, Absent, Nothing
    <3>3. r[c] = IF doc[c][1] = "num" THEN doc[c][2] ELSE Atoi(text)
      BY <2>2, <2>5
    <3>4. QED
      BY <2>5, <3>1, <3>2, <3>3 DEF Holds
  <2>6. CASE Type[c] = "T"
    BY <2>2, <2>4, <2>6, TextsAre DEF Holds
  <2>7. CASE Type[c] = "C"
    BY <2>2, <2>4, <2>7 DEF Holds
  <2>8. QED
    BY <2>3, <2>5, <2>6, <2>7
<1>4. QED
  BY <1>1, <1>2, <1>3 DEF RowOK

\* Row r after an UPDATE with the values of doc.
Renewed(doc, r) ==
  [c \in Column |-> IF c \in DOMAIN UpdateSet(doc) THEN UpdateSet(doc)[c] ELSE r[c]]

\* What an UPDATE writes into one column.
LEMMA RenewedIs ==
  ASSUME NEW doc, NEW r, NEW c \in Column
  PROVE  /\ c \in Given(doc, Column) =>
              Renewed(doc, r)[c] = IF Type[c] = "T" /\ SqlValue(c, doc[c]) = Empty THEN Null
                                   ELSE SqlValue(c, doc[c])
         /\ c \notin Given(doc, Column) => Renewed(doc, r)[c] = r[c]
         /\ c \in Given(doc, Column) <=> doc[c] \notin {Absent, Nothing}
<1>1. PICK u : u = UpdateSet(doc)
  OBVIOUS
<1>2. u = [d \in Given(doc, Column) |->
             IF Type[d] = "T" /\ SqlValue(d, doc[d]) = Empty THEN Null ELSE SqlValue(d, doc[d])]
  BY <1>1 DEF UpdateSet
<1>3. Renewed(doc, r)[c] = IF c \in DOMAIN u THEN u[c] ELSE r[c]
  BY <1>1 DEF Renewed
<1>4. QED
  BY <1>2, <1>3 DEF Given

\* A row is one after an UPDATE too.
LEMMA RenewedHolds ==
  ASSUME NEW doc, DocOK(doc), NEW r, RowOK(r)
  PROVE  RowOK(Renewed(doc, r))
<1>1. PICK n : n = Renewed(doc, r)
  OBVIOUS
<1>2. DOMAIN n = Column
  BY <1>1 DEF Renewed
<1>3. ASSUME NEW c \in Column PROVE Holds(c, n[c])
  <2>1. CASE c \notin Given(doc, Column)
    BY <1>1, <2>1, RenewedIs DEF RowOK
  <2>2. CASE c \in Given(doc, Column)
    <3>1. PICK v : v = doc[c]
      OBVIOUS
    <3>2. n[c] = IF Type[c] = "T" /\ SqlValue(c, v) = Empty THEN Null ELSE SqlValue(c, v)
      BY <1>1, <2>2, <3>1, RenewedIs
    <3>3. Says(c, v) /\ v \notin {Absent, Nothing} /\ Type[c] \in {"C", "I", "T"}
      BY <2>2, <3>1, RenewedIs, ColumnTypes DEF DocOK
    <3>4. (v[1] = "str" /\ v[2] \in Texts) \/ (v[1] = "num" /\ v[2] \in Nat /\ Type[c] # "T")
      BY <3>3 DEF Says
    <3>5. CASE Type[c] = "I"
      <4>1. SqlValue(c, v) = CASE v[1] = "num" -> v[2] [] v[1] = "str" -> Atoi(v[2]) [] OTHER -> 0
        BY <3>5 DEF SqlValue
      <4>2. SqlValue(c, v) \in Nat
        BY <3>4, <4>1, AtoiIs
      <4>3. QED
        BY <3>2, <3>5, <4>2 DEF Holds
    <3>6. CASE Type[c] # "I"
      <4>1. SqlValue(c, v) = IF v[1] = "str" THEN v[2] ELSE "(null)"
        BY <3>6 DEF SqlValue
      <4>2. SqlValue(c, v) \in Texts
        BY <3>4, <4>1, TextsAre
      <4>3. QED
        BY <3>2, <3>3, <3>6, <4>2, TextsAre DEF Holds
    <3>7. QED
      BY <3>5, <3>6
  <2>3. QED
    BY <2>1, <2>2
<1>4. QED
  BY <1>1, <1>2, <1>3 DEF RowOK

\* A row that is replaced by one of the same key.
LEMMA SameKeys ==
  ASSUME NEW S, IsFiniteSet(S), OneOfEachKey(S), NEW g, NEW T, T = {g[r] : r \in S},
         \A r \in S : KeyOf(g[r]) = KeyOf(r)
  PROVE  /\ IsFiniteSet(T) /\ Cardinality(T) = Cardinality(S)
         /\ KeysOf(T) = KeysOf(S) /\ OneOfEachKey(T)
<1> DEFINE f == [r \in S |-> g[r]]
<1>1. \A r, s \in S : KeyOf(r) = KeyOf(s) => r = s
  BY DEF OneOfEachKey
<1>2. f \in Surjection(S, T)
  BY DEF Surjection
<1>3. \A r, s \in S : g[r] = g[s] => r = s
  BY <1>1
<1>4. f \in Injection(S, T)
  BY <1>3 DEF Injection, IsInjective
<1> HIDE DEF f
<1>5. IsFiniteSet(T) /\ Cardinality(T) = Cardinality(S)
  BY <1>2, <1>4, FS_Surjection
<1>6. KeysOf(T) = KeysOf(S)
  BY DEF KeysOf
<1>7. OneOfEachKey(T)
  BY <1>1 DEF OneOfEachKey
<1>8. QED
  BY <1>5, <1>6, <1>7

----------------------------------------------------------------------------
(* The handlers and the table                                               *)

Codes == {Silence, Echo, 200, 500}
Stored(rows) == IsFiniteSet(rows) /\ OneOfEachKey(rows) /\ \A r \in rows : RowOK(r)

\* POST adds the row of its document or nothing; keys stay unique.
LEMMA Inserted ==
  ASSUME Stored(table), NEW doc, DocOK(doc), Insert(doc)
  PROVE  /\ code' \in Codes
         /\ table' = table \/ table' = table \cup {RowOf(doc)}
         /\ IsFiniteSet(table') /\ OneOfEachKey(table') /\ \A r \in table' : RowOK(r)
<1>1. PICK row : row = RowOf(doc)
  OBVIOUS
<1>2. CASE KeyOf(row) \in KeysOf(table)
  <2>1. table' = table /\ code' \in Codes
    BY <1>1, <1>2 DEF Insert, Codes
  <2>2. QED
    BY <2>1 DEF Stored
<1>3. CASE KeyOf(row) \notin KeysOf(table)
  <2>1. table' = table \cup {row} /\ code' \in Codes
    BY <1>1, <1>3 DEF Insert, Codes
  <2>2. IsFiniteSet(table) /\ \A r \in table : RowOK(r)
    BY DEF Stored
  <2>3. \A r, s \in table : KeyOf(r) = KeyOf(s) => r = s
    BY DEF Stored, OneOfEachKey
  <2>4. RowOK(row)
    BY <1>1, RowOfHolds
  <2>5. IsFiniteSet(table')
    BY <2>1, <2>2, FS_AddElement
  <2>6. \A r \in table : KeyOf(r) # KeyOf(row)
    BY <1>3 DEF KeysOf
  <2>7. OneOfEachKey(table')
    BY <2>1, <2>3, <2>6 DEF OneOfEachKey
  <2>8. QED
    BY <1>1, <2>1, <2>2, <2>4, <2>5, <2>7
<1>4. QED
  BY <1>2, <1>3

\* Rows are replaced one for one, each by one of the same key.
Replaced(g, rows, new) ==
  /\ new = {g[r] : r \in rows}
  /\ \A r \in rows : RowOK(g[r]) /\ KeyOf(g[r]) = KeyOf(r)

\* SET writes into the key of a row only what WHERE has found in it.
LEMMA HitKeepsKey ==
  ASSUME NEW doc, NEW r, Where(doc, UpdateColumns(doc), r)
  PROVE  KeyOf(Renewed(doc, r)) = KeyOf(r)
<1>1. PICK n : n = Renewed(doc, r)
  OBVIOUS
<1>2. ASSUME NEW c \in KeyColumn PROVE n[c] = r[c]
  <2>1. c \in Column /\ Type[c] # "T"
    BY Keys
  <2>2. CASE c \notin Given(doc, Column)
    BY <1>1, <2>1, <2>2, RenewedIs
  <2>3. CASE c \in Given(doc, Column)
    <3>1. doc[c] \notin {Absent, Nothing}
      BY <2>1, <2>3, RenewedIs
    <3>2. c \in UpdateColumns(doc)
      BY <3>1 DEF UpdateColumns, Given
    <3>3. r[c] = SqlValue(c, doc[c])
      BY <3>2 DEF Where
    <3>4. n[c] = SqlValue(c, doc[c])
      BY <1>1, <2>1, <2>3, RenewedIs
    <3>5. QED
      BY <3>3, <3>4
  <2>4. QED
    BY <2>2, <2>3
<1>3. KeyOf(n) = KeyOf(r)
  BY <1>2 DEF KeyOf
<1>4. QED
  BY <1>1, <1>3

\* PUT leaves the table alone or replaces its rows one for one.
LEMMA Updated ==
  ASSUME Stored(table), NEW doc, DocOK(doc), Update(doc)
  PROVE  code' \in Codes /\ (table' = table \/ \E g : Replaced(g, table, table'))
<1>1. PICK set, hits : /\ set = UpdateSet(doc)
                       /\ hits = {r \in table : Where(doc, UpdateColumns(doc), r)}
  OBVIOUS
<1>2. \A r : [c \in Column |-> IF c \in DOMAIN set THEN set[c] ELSE r[c]] = Renewed(doc, r)
  BY <1>1 DEF Renewed
<1>3. \/ table' = table /\ code' \in Codes
      \/ code' \in Codes /\ table' = (table \ hits) \cup {Renewed(doc, r) : r \in hits}
  <2>1. \/ table' = table /\ code' \in Codes
        \/ /\ code' \in Codes
           /\ table' = (table \ hits) \cup
                {[c \in Column |-> IF c \in DOMAIN set THEN set[c] ELSE r[c]] : r \in hits}
    BY <1>1 DEF Update, Codes
  <2>2. QED
    BY <1>2, <2>1
<1>4. CASE table' = (table \ hits) \cup {Renewed(doc, r) : r \in hits}
  <2>1. PICK g : g = [r \in table |-> IF r \in hits THEN Renewed(doc, r) ELSE r]
    OBVIOUS
  <2>2. hits \subseteq table
    BY <1>1
  <2>3. table' = {g[r] : r \in table}
    BY <1>4, <2>1, <2>2
  <2>4. ASSUME NEW r \in table PROVE RowOK(g[r]) /\ KeyOf(g[r]) = KeyOf(r)
    <3>1. RowOK(r)
      BY DEF Stored
    <3>2. CASE r \in hits
      <4>1. g[r] = Renewed(doc, r)
        BY <2>1, <3>2
      <4>2. RowOK(Renewed(doc, r))
        BY <3>1, RenewedHolds
      <4>3. Where(doc, UpdateColumns(doc), r)
        BY <1>1, <3>2
      <4>4. QED
        BY <4>1, <4>2, <4>3, HitKeepsKey
    <3>3. CASE r \notin hits
      BY <2>1, <3>1, <3>3
    <3>4. QED
      BY <3>2, <3>3
  <2>5. Replaced(g, table, table')
    BY <2>3, <2>4 DEF Replaced
  <2>6. QED
    BY <1>3, <2>5
<1>5. QED
  BY <1>3, <1>4

\* Rows that are replaced so keep their keys and their number.
LEMMA ReplacedKeeps ==
  ASSUME NEW rows, Stored(rows), NEW g, NEW new, Replaced(g, rows, new)
  PROVE  /\ IsFiniteSet(new) /\ OneOfEachKey(new) /\ \A r \in new : RowOK(r)
         /\ KeysOf(new) = KeysOf(rows) /\ Cardinality(new) = Cardinality(rows)
<1>1. IsFiniteSet(rows) /\ OneOfEachKey(rows)
  BY DEF Stored
<1>2. new = {g[r] : r \in rows} /\ \A r \in rows : KeyOf(g[r]) = KeyOf(r)
  BY DEF Replaced
<1>3. /\ IsFiniteSet(new) /\ Cardinality(new) = Cardinality(rows)
      /\ KeysOf(new) = KeysOf(rows) /\ OneOfEachKey(new)
  BY <1>1, <1>2, SameKeys
<1>4. \A r \in new : RowOK(r)
  BY DEF Replaced
<1>5. QED
  BY <1>3, <1>4

\* A part of a table is a table.
LEMMA SubsetStored ==
  ASSUME NEW rows, Stored(rows), NEW new, new \subseteq rows
  PROVE  IsFiniteSet(new) /\ OneOfEachKey(new) /\ \A r \in new : RowOK(r)
<1>1. IsFiniteSet(rows) /\ OneOfEachKey(rows) /\ \A r \in rows : RowOK(r)
  BY DEF Stored
<1>2. IsFiniteSet(new)
  BY <1>1, FS_Subset
<1>3. OneOfEachKey(new)
  BY <1>1 DEF OneOfEachKey
<1>4. QED
  BY <1>1, <1>2, <1>3

----------------------------------------------------------------------------
(* Requests                                                                 *)

\* The method that is looked up is that of the request; what an INSERT and an
\* UPDATE are made of are documents of the column's types, and with a copy the
\* document is that of a row as it may be shown.
WellSent(q) ==
  /\ q.method \in Methods /\ GetIpcValueExt(q.ipc, "$METHOD") = q.method
  /\ DOMAIN q.docs = 1..Len(q.docs) /\ Len(q.docs) \in Nat
  /\ q.method = "POST" => q.docs[1] \in Documents
  /\ q.method = "PUT" => DocOK(q.docs[1])
  /\ \A copy \in q.copy : SeenRow(copy) /\ q.docs[1] = Document(copy)

\* The documents of the clients say what their columns may say.
LEMMA DocumentsSay ==
  ASSUME NEW doc \in Documents
  PROVE  DocOK(doc)
  BY Keys, RecordsAssumption DEF ClientAssumption, DocOK

----------------------------------------------------------------------------
(* Lists: what a page of a list shows                                       *)

LEMMA WordsAre ==
  /\ \A query \in Queries :
       /\ query \in Seq(NameValue)
       /\ \A i \in DOMAIN query : query[i][1] \notin PageNames
  /\ \A size \in Sizes : size \in Word /\ size # Empty /\ Atoi(size) \in Nat /\ Atoi(size) >= 1
<1>1. ASSUME NEW query \in Queries
      PROVE  query \in Seq(NameValue) /\ \A i \in DOMAIN query : query[i][1] \notin PageNames
  <2>1. PICK S : S = STRING
    OBVIOUS
  <2>2. query \in Seq(S \X S) /\ \A i \in DOMAIN query : query[i][1] \notin PageNames
    BY <2>1, RecordsAssumption DEF ClientAssumption
  <2>3. S \subseteq Word
    BY <2>1 DEF Word
  <2>4. S \X S \subseteq NameValue
    BY <2>3 DEF NameValue
  <2>5. QED
    BY <2>2, <2>4, SeqMonotonic
<1>2. ASSUME NEW size \in Sizes
      PROVE  size \in Word /\ size # Empty /\ Atoi(size) \in Nat /\ Atoi(size) >= 1
  <2>1. size # Empty /\ Atoi(size) >= 1 /\ size \in STRING
    BY RecordsAssumption DEF ClientAssumption
  <2>2. Atoi(size) \in Nat
    BY AtoiIs
  <2>3. QED
    BY <2>1, <2>2 DEF Word
<1>3. QED
  BY <1>1, <1>2

\* The names of the page and of its size are different, and no columns.
LEMMA PageNamesAre ==
  /\ PageName \in PageNames /\ SizeName \in PageNames /\ PageName # SizeName
  /\ "$METHOD" \notin PageNames /\ PageName \in Word /\ SizeName \in Word
  /\ \A c \in Column : c \notin PageNames /\ c # "$METHOD"
<1>1. /\ PageName \in PageNames /\ SizeName \in PageNames /\ PageName # SizeName
      /\ "$METHOD" \notin PageNames
  BY DEF PageName, SizeName, PageNames
<1>2. \A c \in DOMAIN Type : c \notin PageNames \cup {"$METHOD"}
  BY RecordsAssumption DEF MapAssumption
<1>3. QED
  BY <1>1, <1>2, Keys DEF Word

\* The pairs behind the message that asks for a page.
ForPage(pairs, l, query, page, size) ==
  /\ pairs \in Seq(NameValue) /\ l \in Nat /\ Len(pairs) = l + 3 /\ DOMAIN query = 1..l
  /\ pairs[1][1] = "$METHOD"
  /\ \A i \in 1..l : pairs[i + 1] = query[i]
  /\ \A i \in 2..(l + 1) : pairs[i] = query[i - 1]
  /\ pairs[l + 2] = <<PageName, page>> /\ pairs[l + 3] = <<SizeName, size>>
  /\ \A i \in DOMAIN query : query[i][1] \notin PageNames /\ query[i] = <<query[i][1], query[i][2]>>

\* The pairs of a list are the method, the query, the page and its size.
LEMMA PagePairs ==
  ASSUME NEW query \in Queries, NEW page \in {"1", "2"}, NEW size \in Sizes
  PROVE  \E pairs, l, asked :
           /\ asked = query \o <<<<PageName, page>>, <<SizeName, size>>>>
           /\ asked \in Seq(NameValue) /\ pairs = Pairs("GET", asked)
           /\ ForPage(pairs, l, query, page, size)
<1>1. /\ query \in Seq(NameValue) /\ \A i \in DOMAIN query : query[i][1] \notin PageNames
      /\ size \in Word
  BY WordsAre
<1>2. PICK e, d : e = <<PageName, page>> /\ d = <<SizeName, size>>
  OBVIOUS
<1>3. e \in NameValue /\ d \in NameValue
  BY <1>1, <1>2, PageNamesAre DEF NameValue, Word
<1>4. PICK ed : ed = <<e, d>>
  OBVIOUS
<1>5. ed \in Seq(NameValue) /\ Len(ed) = 2 /\ ed[1] = e /\ ed[2] = d
  BY <1>3, <1>4
<1>6. PICK asked, l : asked = query \o ed /\ l = Len(query)
  OBVIOUS
<1>7. l \in Nat /\ DOMAIN query = 1..l
  BY <1>1, <1>6
<1>8. /\ asked \in Seq(NameValue) /\ Len(asked) = l + 2
      /\ \A i \in 1..(l + 2) : asked[i] = IF i <= l THEN query[i] ELSE ed[i - l]
  <2>1. query \in Seq(NameValue) /\ ed \in Seq(NameValue)
    BY <1>1, <1>5
  <2>2. query \o ed \in Seq(NameValue) /\ Len(query \o ed) = Len(query) + Len(ed)
    BY <2>1, ConcatProperties
  <2>3. \A i \in 1..(Len(query) + Len(ed)) :
          (query \o ed)[i] = IF i <= Len(query) THEN query[i] ELSE ed[i - Len(query)]
    BY <2>1, ConcatProperties
  <2>4. QED
    BY <1>5, <1>6, <2>2, <2>3
<1>9. (\A i \in 1..l : asked[i] = query[i]) /\ asked[l + 1] = e /\ asked[l + 2] = d
  <2>1. /\ \A i \in 1..l : i \in 1..(l + 2) /\ i <= l
        /\ l + 1 \in 1..(l + 2) /\ ~(l + 1 <= l) /\ (l + 1) - l = 1
        /\ l + 2 \in 1..(l + 2) /\ ~(l + 2 <= l) /\ (l + 2) - l = 2
    BY <1>7
  <2>2. asked[l + 1] = ed[1] /\ asked[l + 2] = ed[2]
    BY <1>8, <2>1
  <2>3. \A i \in 1..l : asked[i] = query[i]
    BY <1>8, <2>1
  <2>4. QED
    BY <1>5, <2>2, <2>3
<1>10. PICK pairs : pairs = Pairs("GET", asked)
  OBVIOUS
<1>11. /\ pairs \in Seq(NameValue) /\ Len(pairs) = Len(asked) + 1
       /\ pairs[1] = <<"$METHOD", "GET">>
       /\ \A i \in 1..Len(asked) : pairs[i + 1] = asked[i]
  BY <1>8, <1>10, PairsAre DEF Methods
<1>12. Len(pairs) = l + 3 /\ pairs[1][1] = "$METHOD"
  BY <1>7, <1>8, <1>11
<1>13. \A i \in 1..l : pairs[i + 1] = query[i]
  <2>1. \A i \in 1..l : i \in 1..Len(asked)
    BY <1>7, <1>8
  <2>2. QED
    BY <1>9, <1>11, <2>1
<1>14. pairs[l + 2] = e /\ pairs[l + 3] = d
  <2>1. l + 1 \in 1..Len(asked) /\ l + 2 \in 1..Len(asked) /\ (l + 1) + 1 = l + 2 /\ (l + 2) + 1 = l + 3
    BY <1>7, <1>8
  <2>2. pairs[(l + 1) + 1] = asked[l + 1] /\ pairs[(l + 2) + 1] = asked[l + 2]
    BY <1>11, <2>1
  <2>3. QED
    BY <1>9, <2>1, <2>2
<1>15. \A i \in 2..(l + 1) : pairs[i] = query[i - 1]
  <2> SUFFICES ASSUME NEW i \in 2..(l + 1) PROVE pairs[i] = query[i - 1]
    OBVIOUS
  <2>1. PICK j : j = i - 1
    OBVIOUS
  <2>2. j \in 1..l /\ j + 1 = i
    BY <1>7, <2>1
  <2>3. QED
    BY <1>13, <2>1, <2>2
<1>16. \A i \in DOMAIN query : query[i] = <<query[i][1], query[i][2]>>
  <2>1. \A i \in DOMAIN query : query[i] \in NameValue
    BY <1>1
  <2>2. QED
    BY <2>1 DEF NameValue
<1>17. ForPage(pairs, l, query, page, size)
  BY <1>1, <1>2, <1>7, <1>11, <1>12, <1>13, <1>14, <1>15, <1>16 DEF ForPage
<1>18. QED
  BY <1>2, <1>4, <1>6, <1>8, <1>10, <1>17

\* Number and size of a page are what the list has asked for.
LEMMA PageTold ==
  ASSUME NEW pairs, NEW l, NEW query, NEW page \in {"1", "2"}, NEW size \in Sizes,
         ForPage(pairs, l, query, page, size)
  PROVE  Told(pairs, Len(pairs), PageName, page) /\ Told(pairs, Len(pairs), SizeName, size)
<1>1. l \in Nat /\ Len(pairs) = l + 3 /\ DOMAIN query = 1..l
  BY DEF ForPage
<1>2. \A i \in 1..(l + 1) : pairs[i][1] \notin PageNames
  <2>1. \A i \in 1..(l + 1) : i = 1 \/ (i \in 2..(l + 1) /\ i - 1 \in DOMAIN query)
    BY <1>1
  <2>2. pairs[1][1] \notin PageNames
    BY PageNamesAre DEF ForPage
  <2>3. \A i \in 2..(l + 1) : pairs[i] = query[i - 1]
    BY DEF ForPage
  <2>4. \A i \in DOMAIN query : query[i][1] \notin PageNames
    BY DEF ForPage
  <2>5. QED
    BY <2>1, <2>2, <2>3, <2>4
<1>3. pairs[l + 2] = <<PageName, page>> /\ pairs[l + 3] = <<SizeName, size>>
  BY DEF ForPage
<1>4. page # Empty /\ size # Empty
  <2>1. "1" # Empty /\ "2" # Empty
    BY Zenon DEF Empty
  <2>2. QED
    BY <2>1, WordsAre
<1>5. /\ l + 2 \in 1..Len(pairs) /\ l + 3 \in 1..Len(pairs)
      /\ (l + 2) - 1 = l + 1 /\ \A i \in 1..((l + 3) - 1) : i \in 1..(l + 1) \/ i = l + 2
  BY <1>1
<1>6. Told(pairs, Len(pairs), PageName, page)
  <2>1. \A k \in 1..((l + 2) - 1) : pairs[k][1] # PageName
    BY <1>2, <1>5, PageNamesAre
  <2>2. QED
    BY <1>3, <1>4, <1>5, <2>1 DEF Told
<1>7. Told(pairs, Len(pairs), SizeName, size)
  <2>1. pairs[l + 2][1] # SizeName
    BY <1>3, PageNamesAre
  <2>2. \A k \in 1..((l + 3) - 1) : pairs[k][1] # SizeName
    BY <1>2, <1>5, <2>1, PageNamesAre
  <2>3. QED
    BY <1>3, <1>4, <1>5, <2>2 DEF Told
<1>8. QED
  BY <1>6, <1>7

\* A column is asked for by the first value of the query that is not empty.
LEMMA ColumnTold ==
  ASSUME NEW pairs, NEW l, NEW query, NEW page \in {"1", "2"}, NEW size \in Sizes,
         ForPage(pairs, l, query, page, size), NEW c \in Column
  PROVE  /\ \A i \in 1..l :
              /\ query[i][1] = c /\ query[i][2] # Empty
              /\ \A j \in 1..(i - 1) : query[j][1] # c \/ query[j][2] = Empty
              => Told(pairs, Len(pairs), c, query[i][2])
         /\ (\A i \in 1..l : query[i][1] # c \/ query[i][2] = Empty) =>
              Untold(pairs, Len(pairs), c)
<1>1. l \in Nat /\ Len(pairs) = l + 3 /\ DOMAIN query = 1..l
  BY DEF ForPage
<1>2. /\ pairs[1][1] # c /\ \A i \in 2..(l + 1) : pairs[i] = query[i - 1]
      /\ pairs[l + 2][1] # c /\ pairs[l + 3][1] # c
  BY PageNamesAre DEF ForPage
<1>3. ASSUME NEW i \in 1..l, query[i][1] = c, query[i][2] # Empty,
             \A j \in 1..(i - 1) : query[j][1] # c \/ query[j][2] = Empty
      PROVE  Told(pairs, Len(pairs), c, query[i][2])
  <2>1. PICK m : m = i + 1
    OBVIOUS
  <2>2. m \in 1..Len(pairs) /\ m \in 2..(l + 1) /\ m - 1 = i
    BY <1>1, <2>1
  <2>3. query[i] = <<query[i][1], query[i][2]>>
    BY <1>1 DEF ForPage
  <2>4. pairs[m] = <<c, query[i][2]>>
    BY <1>2, <1>3, <2>2, <2>3
  <2>5. ASSUME NEW k \in 1..(m - 1) PROVE pairs[k][1] # c \/ pairs[k][2] = Empty
    <3>1. k = 1 \/ (k \in 2..(l + 1) /\ k - 1 \in 1..(i - 1))
      BY <1>1, <2>2
    <3>2. QED
      BY <1>2, <1>3, <3>1
  <2>6. QED
    BY <1>3, <2>2, <2>4, <2>5 DEF Told
<1>4. ASSUME \A i \in 1..l : query[i][1] # c \/ query[i][2] = Empty
      PROVE  Untold(pairs, Len(pairs), c)
  <2>1. \A k \in 1..Len(pairs) : \/ k = 1 \/ k = l + 2 \/ k = l + 3
                                 \/ (k \in 2..(l + 1) /\ k - 1 \in 1..l)
    BY <1>1
  <2>2. \A k \in 1..Len(pairs) : pairs[k][1] # c \/ pairs[k][2] = Empty
    BY <1>2, <1>4, <2>1
  <2>3. QED
    BY <2>2 DEF Untold
<1>5. QED
  BY <1>3, <1>4

\* The message of a list, read by the handler.
Listing(ipc, query, page, size) ==
  /\ GetIpcValueExt(ipc, PageName) = page /\ GetIpcValueExt(ipc, SizeName) = size
  /\ DOMAIN query \subseteq Nat
  /\ \A c \in Column : \A i \in DOMAIN query :
       /\ query[i][1] = c /\ query[i][2] # Empty
       /\ \A j \in 1..(i - 1) : query[j][1] # c \/ query[j][2] = Empty
       => GetIpcValueExt(ipc, c) = query[i][2]
  /\ \A c \in Column :
       \/ GetIpcValueExt(ipc, c) = Empty
       \/ \E i \in DOMAIN query :
            /\ query[i][1] = c /\ query[i][2] # Empty /\ GetIpcValueExt(ipc, c) = query[i][2]
            /\ \A j \in 1..(i - 1) : query[j][1] # c \/ query[j][2] = Empty

\* The handler finds in the message of a list the page, its size and, of each
\* column, the first value that is not empty.
LEMMA RequestLists ==
  ASSUME NEW query \in Queries, NEW page \in {"1", "2"}, NEW size \in Sizes
  PROVE  Listing(ListRequest(query, page, size), query, page, size)
<1>1. PICK pairs, l, asked :
        /\ asked = query \o <<<<PageName, page>>, <<SizeName, size>>>>
        /\ asked \in Seq(NameValue) /\ pairs = Pairs("GET", asked)
        /\ ForPage(pairs, l, query, page, size)
  BY PagePairs
<1>2. PICK ipc : ipc = Message("GET", asked)
  OBVIOUS
<1>3. ListRequest(query, page, size) = ipc
  BY <1>1, <1>2 DEF ListRequest
<1>4. pairs \in Seq(NameValue)
  BY <1>1, PairsAre DEF Methods
<1>5. ASSUME NEW name, NEW v, Told(pairs, Len(pairs), name, v) PROVE GetIpcValueExt(ipc, name) = v
  BY <1>1, <1>2, <1>4, <1>5, MessageSays
<1>6. ASSUME NEW name, Untold(pairs, Len(pairs), name) PROVE GetIpcValueExt(ipc, name) = Empty
  BY <1>1, <1>2, <1>4, <1>6, MessageSays
<1>7. DOMAIN query = 1..l /\ l \in Nat
  BY <1>1 DEF ForPage
<1>8. GetIpcValueExt(ipc, PageName) = page /\ GetIpcValueExt(ipc, SizeName) = size
  <2>1. Told(pairs, Len(pairs), PageName, page) /\ Told(pairs, Len(pairs), SizeName, size)
    BY <1>1, PageTold
  <2>2. QED
    BY <1>5, <2>1
<1>9. ASSUME NEW c \in Column, NEW i \in DOMAIN query, query[i][1] = c, query[i][2] # Empty,
             \A j \in 1..(i - 1) : query[j][1] # c \/ query[j][2] = Empty
      PROVE  GetIpcValueExt(ipc, c) = query[i][2]
  <2>1. i \in 1..l
    BY <1>7
  <2>2. Told(pairs, Len(pairs), c, query[i][2])
    BY <1>1, <1>9, <2>1, ColumnTold
  <2>3. QED
    BY <1>5, <2>2
<1>10. ASSUME NEW c \in Column, GetIpcValueExt(ipc, c) # Empty
       PROVE  \E i \in DOMAIN query :
                /\ query[i][1] = c /\ query[i][2] # Empty /\ GetIpcValueExt(ipc, c) = query[i][2]
                /\ \A j \in 1..(i - 1) : query[j][1] # c \/ query[j][2] = Empty
  <2>1. PICK D : D = {i \in 1..l : query[i][1] = c /\ query[i][2] # Empty}
    OBVIOUS
  <2>2. D # {}
    <3>1. ~Untold(pairs, Len(pairs), c)
      BY <1>6, <1>10
    <3>2. ForPage(pairs, l, query, page, size)
      BY <1>1
    <3>3. (\A i \in 1..l : query[i][1] # c \/ query[i][2] = Empty) => Untold(pairs, Len(pairs), c)
      BY <3>2, ColumnTold
    <3>4. QED
      BY <2>1, <3>1, <3>3
  <2>3. D \subseteq Nat
    BY <1>7, <2>1
  <2>4. PICK i \in D : \A j \in D : i <= j
    BY <2>2, <2>3, Least
  <2>5. i \in DOMAIN query /\ i \in 1..l /\ query[i][1] = c /\ query[i][2] # Empty
    BY <1>7, <2>1
  <2>6. ASSUME NEW j \in 1..(i - 1) PROVE query[j][1] # c \/ query[j][2] = Empty
    <3>1. j \in 1..l /\ ~(i <= j)
      BY <1>7, <2>5
    <3>2. j \notin D
      BY <2>4, <3>1
    <3>3. QED
      BY <2>1, <3>1, <3>2
  <2>7. GetIpcValueExt(ipc, c) = query[i][2]
    BY <1>9, <2>5, <2>6
  <2>8. QED
    BY <2>5, <2>6, <2>7
<1>11. DOMAIN query \subseteq Nat
  BY <1>7
<1>12. Listing(ipc, query, page, size)
  BY <1>8, <1>9, <1>10, <1>11 DEF Listing
<1>13. QED
  BY <1>3, <1>12

\* A list selects the rows that its query means.
LEMMA SelectedMeant ==
  ASSUME NEW ipc, NEW query, NEW page, NEW size, Listing(ipc, query, page, size)
  PROVE  Selected(ipc) = Meant(query)
<1> DEFINE Said(c, v, r) == r[c] = IF Type[c] = "I" THEN Atoi(v) ELSE v
<1>1. ASSUME NEW r \in table, QueryWhere(ipc, r), NEW i \in DOMAIN query,
             query[i][1] \in Column, query[i][2] \notin {Empty, "undefined"},
             ~\E j \in 1..(i - 1) : query[j][1] = query[i][1] /\ query[j][2] # Empty
      PROVE  Said(query[i][1], query[i][2], r)
  <2>1. PICK c, v : c = query[i][1] /\ v = query[i][2]
    OBVIOUS
  <2>2. GetIpcValueExt(ipc, c) = v
    BY <1>1, <2>1 DEF Listing
  <2>3. v \in {Empty, "undefined"} \/ Said(c, v, r)
    BY <1>1, <2>1, <2>2 DEF QueryWhere
  <2>4. QED
    BY <1>1, <2>1, <2>3
<1>2. ASSUME NEW r \in Meant(query), NEW c \in Column PROVE
        GetIpcValueExt(ipc, c) \in {Empty, "undefined"} \/ Said(c, GetIpcValueExt(ipc, c), r)
  <2>1. CASE GetIpcValueExt(ipc, c) = Empty
    BY <2>1
  <2>2. CASE GetIpcValueExt(ipc, c) # Empty
    <3>1. PICK i \in DOMAIN query :
            /\ query[i][1] = c /\ query[i][2] # Empty /\ GetIpcValueExt(ipc, c) = query[i][2]
            /\ \A j \in 1..(i - 1) : query[j][1] # c \/ query[j][2] = Empty
      BY <2>2 DEF Listing
    <3>2. \/ c \notin Column \/ query[i][2] \in {Empty, "undefined"}
          \/ \E j \in 1..(i - 1) : query[j][1] = c /\ query[j][2] # Empty
          \/ Said(c, query[i][2], r)
      BY <3>1 DEF Meant
    <3>3. QED
      BY <3>1, <3>2
  <2>3. QED
    BY <2>1, <2>2
<1>3. Selected(ipc) \subseteq Meant(query)
  BY <1>1 DEF Selected, Meant
<1>4. Meant(query) \subseteq Selected(ipc)
  <2>1. ASSUME NEW r \in Meant(query) PROVE r \in table /\ QueryWhere(ipc, r)
    BY <1>2 DEF QueryWhere, Meant
  <2>2. QED
    BY <2>1 DEF Selected
<1>5. QED
  BY <1>3, <1>4
SeenRows == {row \in [Column -> Nat \cup Texts] : \A c \in Column : Shows(c, row[c])}

\* The rows that may be shown are a set.
LEMMA SeenRowsAre == \A row : row \in SeenRows <=> SeenRow(row)
<1> SUFFICES ASSUME NEW row PROVE row \in SeenRows <=> SeenRow(row)
  OBVIOUS
<1>1. row \in SeenRows => SeenRow(row)
  BY DEF SeenRows, SeenRow
<1>2. ASSUME SeenRow(row) PROVE row \in SeenRows
  <2>1. row = [c \in Column |-> row[c]] /\ \A c \in Column : Shows(c, row[c])
    BY <1>2 DEF SeenRow
  <2>2. \A c \in Column : row[c] \in Nat \cup Texts
    BY <2>1 DEF Shows
  <2>3. row \in [Column -> Nat \cup Texts]
    BY <2>1, <2>2
  <2>4. QED
    BY <2>1, <2>3 DEF SeenRows
<1>3. QED
  BY <1>1, <1>2

\* The rows that a query means can be put in order.
LEMMA MeantOrderable ==
  ASSUME Stored(table), NEW query
  PROVE  /\ Orderable(Meant(query)) /\ \A r \in Meant(query) : RowOK(r)
         /\ Arranges(Sorted(Meant(query)), Meant(query))
<1>1. PICK rows : rows = Meant(query)
  OBVIOUS
<1>2. rows \subseteq table
  BY <1>1 DEF Meant
<1>3. IsFiniteSet(rows) /\ OneOfEachKey(rows) /\ \A r \in rows : RowOK(r)
  BY <1>2, SubsetStored
<1>4. \A r \in rows : Keyed(r)
  BY <1>3, RowKeyed
<1>5. Orderable(rows)
  BY <1>3, <1>4 DEF Orderable
<1>6. Arranges(Sorted(rows), rows)
  BY <1>5, SortedArranges
<1>7. QED
  BY <1>1, <1>3, <1>5, <1>6

Lesser(m, n) == IF m < n THEN m ELSE n
First(page, k, n) == IF page = "1" THEN 0 ELSE Lesser(k, n)
Final(page, k, n) == IF page = "1" THEN Lesser(k, n) ELSE Lesser(k + k, n)

\* What is between two places of a list.
Piece(s, R, t, n, a, b) ==
  /\ s \in Seq(R) /\ a \in 0..n /\ b \in a..n
  /\ Len(s) = b - a /\ \A i \in 1..(b - a) : s[i] = t[a + i]

\* A page is cut out of the list between its first and its final place.
LEMMA Cut ==
  ASSUME NEW R, NEW t \in Seq(R), NEW n \in Nat, n = Len(t), NEW size, NEW k \in Nat,
         k = Atoi(size), k >= 1, size # Empty,
         NEW page \in {"1", "2"}, NEW ipc,
         GetIpcValueExt(ipc, PageName) = page, GetIpcValueExt(ipc, SizeName) = size
  PROVE  Piece(Limit(ipc, t), R, t, n, First(page, k, n), Final(page, k, n))
<1>1. page # Empty
  BY Zenon DEF Empty
<1>2. PICK skip : skip = (Atoi(page) - 1) * k
  OBVIOUS
<1>3. PICK to : to = IF skip + k < n THEN skip + k ELSE n
  OBVIOUS
<1>4. Limit(ipc, t) = SubSeq(t, skip + 1, to)
  BY <1>1, <1>2, <1>3 DEF Limit
<1>5. skip = IF page = "1" THEN 0 ELSE k
  <2>1. CASE page = "1"
    <3>1. skip = (1 - 1) * k
      BY <1>2, <2>1, AtoiIs
    <3>2. QED
      BY <2>1, <3>1
  <2>2. CASE page = "2"
    <3>1. skip = (2 - 1) * k
      BY <1>2, <2>2, AtoiIs
    <3>2. QED
      BY <2>2, <3>1
  <2>3. QED
    BY <2>1, <2>2
<1>6. PICK a, b, d : a = First(page, k, n) /\ b = Final(page, k, n) /\ d = b - a
  OBVIOUS
<1>7. a = (IF skip < n THEN skip ELSE n) /\ b = to
  <2>1. a = (IF page = "1" THEN 0 ELSE IF k < n THEN k ELSE n)
    BY <1>6 DEF First, Lesser
  <2>2. b = (IF page = "1" THEN (IF k < n THEN k ELSE n) ELSE (IF k + k < n THEN k + k ELSE n))
    BY <1>6 DEF Final, Lesser
  <2>3. QED
    BY <1>3, <1>5, <2>1, <2>2
<1>8. skip \in Nat /\ a \in 0..n /\ b \in a..n /\ to \in Nat /\ to <= n /\ d \in Nat
  <2>1. skip \in Nat
    BY <1>5
  <2>2. to \in Nat /\ to <= n
    BY <1>3, <2>1
  <2>3. a \in Nat /\ a <= n /\ a <= to
    BY <1>3, <1>7, <2>1
  <2>4. QED
    BY <1>6, <1>7, <2>1, <2>2, <2>3
<1>9. PICK m : m = skip + 1
  OBVIOUS
<1>10. m \in Int /\ to \in Int /\ \A i \in m..to : i \in 1..n
  BY <1>8, <1>9
<1>11. \A i \in m..to : t[i] \in R
  BY <1>10
<1>12. PICK s : s = SubSeq(t, m, to)
  OBVIOUS
<1>13. /\ s \in Seq(R) /\ Len(s) = (IF m <= to THEN to - m + 1 ELSE 0)
       /\ \A i \in 1..(to - m + 1) : s[i] = t[m + i - 1]
  <2>1. SubSeq(t, m, to) \in Seq(R)
    BY <1>10, <1>11, SubSeqProperties
  <2>2. Len(SubSeq(t, m, to)) = (IF m <= to THEN to - m + 1 ELSE 0)
    BY <1>10, <1>11, SubSeqProperties
  <2>3. \A i \in 1..(to - m + 1) : SubSeq(t, m, to)[i] = t[m + i - 1]
    BY <1>10, <1>11, SubSeqProperties
  <2>4. QED
    BY <1>12, <2>1, <2>2, <2>3
<1>14. Len(s) = d
  <2>1. Len(s) = (IF m <= to THEN to - m + 1 ELSE 0)
    BY <1>13
  <2>2. CASE m <= to
    <3>1. a = skip
      BY <1>7, <1>8, <1>9, <2>2
    <3>2. to - m + 1 = d
      BY <1>6, <1>7, <1>8, <1>9, <3>1
    <3>3. QED
      BY <2>1, <2>2, <3>2
  <2>3. CASE ~(m <= to)
    <3>1. to <= skip
      BY <1>8, <1>9, <2>3
    <3>2. a = to
      BY <1>7, <1>8, <3>1
    <3>3. d = 0
      BY <1>6, <1>7, <1>8, <3>2
    <3>4. QED
      BY <2>1, <2>3, <3>3
  <2>4. QED
    BY <2>2, <2>3
<1>15. ASSUME NEW i \in 1..d PROVE s[i] = t[a + i]
  <2>1. a = skip /\ i \in 1..(to - m + 1) /\ m + i - 1 = a + i
    BY <1>3, <1>6, <1>7, <1>8, <1>9
  <2>2. s[i] = t[m + i - 1]
    BY <1>13, <2>1
  <2>3. QED
    BY <2>1, <2>2
<1>16. Limit(ipc, t) = s
  BY <1>4, <1>9, <1>12
<1>17. Piece(s, R, t, n, a, b)
  BY <1>6, <1>8, <1>13, <1>14, <1>15 DEF Piece
<1>18. QED
  BY <1>6, <1>16, <1>17

\* Rows that show the places a + 1 to b of t.
Showing(rows, t, a, b) ==
  /\ rows \in Seq(SeenRows) /\ a \in Nat /\ b \in Nat /\ a <= b /\ b <= Len(t)
  /\ Len(rows) = b - a /\ \A i \in 1..(b - a) : rows[i] = Shown(t[a + i])

\* A page shows the rows between its places in the ordered list.
LEMMA ListedShows ==
  ASSUME Stored(table), NEW query \in Queries, NEW page \in {"1", "2"}, NEW size \in Sizes,
         NEW t, t = Sorted(Meant(query)), NEW k, k = Atoi(size), NEW n, n = Cardinality(Meant(query))
  PROVE  Showing(Listed(ListRequest(query, page, size)), t, First(page, k, n), Final(page, k, n))
<1>1. PICK ipc : ipc = ListRequest(query, page, size)
  OBVIOUS
<1>2. Listing(ipc, query, page, size)
  BY <1>1, RequestLists
<1>3. PICK R : R = Meant(query)
  OBVIOUS
<1>4. Selected(ipc) = R
  BY <1>2, <1>3, SelectedMeant
<1>5. Arranges(t, R) /\ \A r \in R : RowOK(r)
  BY <1>3, MeantOrderable
<1>6. t \in Seq(R) /\ n = Len(t) /\ n \in Nat
  BY <1>3, <1>5 DEF Arranges
<1>7. k \in Nat /\ k >= 1 /\ size # Empty
  BY WordsAre
<1>8. GetIpcValueExt(ipc, PageName) = page /\ GetIpcValueExt(ipc, SizeName) = size
  BY <1>2 DEF Listing
<1>9. PICK a, b, d, s : /\ a = First(page, k, n) /\ b = Final(page, k, n) /\ d = b - a
                        /\ s = Limit(ipc, t)
  OBVIOUS
<1>10. s \in Seq(R) /\ a \in 0..n /\ b \in a..n /\ Len(s) = d /\ \A i \in 1..d : s[i] = t[a + i]
  <2>1. Piece(Limit(ipc, t), R, t, n, First(page, k, n), Final(page, k, n))
    BY <1>6, <1>7, <1>8, Cut
  <2>2. Piece(s, R, t, n, a, b)
    BY <1>9, <2>1
  <2>3. QED
    BY <1>9, <2>2 DEF Piece
<1>11. d \in Nat /\ a \in Nat /\ b \in Nat /\ a <= b /\ b <= Len(t) /\ DOMAIN s = 1..d
  BY <1>6, <1>9, <1>10
<1>12. PICK rows : rows = Listed(ipc)
  OBVIOUS
<1>13. rows = [i \in 1..d |-> Shown(s[i])]
  BY <1>3, <1>4, <1>9, <1>11, <1>12 DEF Listed
<1>14. \A i \in 1..d : rows[i] = Shown(t[a + i])
  BY <1>10, <1>13
<1>15. ASSUME NEW i \in 1..d PROVE rows[i] \in SeenRows
  <2>1. s[i] \in R
    BY <1>10, <1>11
  <2>2. SeenRow(Shown(s[i]))
    BY <1>5, <2>1, ShownRow
  <2>3. QED
    BY <1>13, <2>2, SeenRowsAre
<1>16. rows \in Seq(SeenRows) /\ Len(rows) = d
  <2>1. rows \in [1..d -> SeenRows]
    BY <1>13, <1>15
  <2>2. QED
    BY <1>11, <1>13, <2>1, SeqDef
<1>17. Showing(rows, t, a, b)
  BY <1>9, <1>11, <1>14, <1>16 DEF Showing
<1>18. QED
  BY <1>1, <1>9, <1>12, <1>17

\* The pages of a list follow one another.
LEMMA ShowingOn ==
  ASSUME NEW x, NEW y, NEW t, NEW a, NEW b, Showing(x, t, 0, a), Showing(y, t, a, b)
  PROVE  Showing(x \o y, t, 0, b)
<1>1. /\ x \in Seq(SeenRows) /\ y \in Seq(SeenRows)
      /\ a \in Nat /\ b \in Nat /\ a <= b /\ b <= Len(t)
      /\ Len(x) = a /\ Len(y) = b - a
  BY DEF Showing
<1>2. \A i \in 1..a : x[i] = Shown(t[i])
  <2>1. \A i \in 1..(a - 0) : x[i] = Shown(t[0 + i])
    BY DEF Showing
  <2>2. \A i \in 1..a : i \in 1..(a - 0) /\ 0 + i = i
    BY <1>1
  <2>3. QED
    BY <2>1, <2>2
<1>3. \A i \in 1..(b - a) : y[i] = Shown(t[a + i])
  BY DEF Showing
<1>4. PICK z : z = x \o y
  OBVIOUS
<1>5. z \in Seq(SeenRows) /\ Len(z) = b
  <2>1. x \o y \in Seq(SeenRows) /\ Len(x \o y) = Len(x) + Len(y)
    BY <1>1, ConcatProperties
  <2>2. QED
    BY <1>1, <1>4, <2>1
<1>6. \A i \in 1..b : z[i] = IF i <= a THEN x[i] ELSE y[i - a]
  <2>1. \A i \in 1..(Len(x) + Len(y)) : (x \o y)[i] = IF i <= Len(x) THEN x[i] ELSE y[i - Len(x)]
    BY <1>1, ConcatProperties
  <2>2. Len(x) + Len(y) = b
    BY <1>1
  <2>3. QED
    BY <1>1, <1>4, <2>1, <2>2
<1>7. ASSUME NEW i \in 1..(b - 0) PROVE z[i] = Shown(t[0 + i])
  <2>1. i \in 1..b /\ 0 + i = i /\ i \in Nat
    BY <1>1
  <2>2. CASE i <= a
    <3>1. i \in 1..a
      BY <1>1, <2>1, <2>2
    <3>2. QED
      BY <1>2, <1>6, <2>1, <2>2, <3>1
  <2>3. CASE ~(i <= a)
    <3>1. PICK j : j = i - a
      OBVIOUS
    <3>2. j \in 1..(b - a) /\ a + j = i
      BY <1>1, <2>1, <2>3, <3>1
    <3>3. z[i] = y[j]
      BY <1>6, <2>1, <2>3, <3>1
    <3>4. QED
      BY <1>3, <2>1, <3>2, <3>3
  <2>4. QED
    BY <2>2, <2>3
<1>8. Len(z) = b - 0 /\ 0 \in Nat /\ 0 <= b
  BY <1>1, <1>5
<1>9. QED
  BY <1>1, <1>4, <1>5, <1>7, <1>8 DEF Showing

----------------------------------------------------------------------------
(* The invariant                                                            *)

Basics ==
  /\ gen \in Generations /\ Stored(table) /\ code \in Codes /\ changes \in 0..MaxChanges
  /\ request = NoRequest \/ WellSent(request)

WalkOK(w) ==
  /\ {"on", "clean"} \subseteq DOMAIN w
  /\ w.on => /\ {"query", "size", "page", "seen", "last", "total"} \subseteq DOMAIN w
             /\ w.query \in Queries /\ w.size \in Sizes /\ w.page \in {"1", "2"}
             /\ w.seen \in Seq(SeenRows)

\* As long as nobody changes the table, what has been seen of a list is a
\* beginning of it, as it would be listed now.
Begun(w) ==
  \E t, k, n :
    /\ t = Sorted(Meant(w.query)) /\ n = Cardinality(Meant(w.query)) /\ k = Atoi(w.size)
    /\ Showing(w.seen, t, 0, Final(w.page, k, n))
    /\ w.last = Final(w.page, k, n) - First(w.page, k, n) /\ w.total = n
    /\ w.page = "2" => k <= n
Paged(w) == w.on /\ w.clean => Begun(w)

IInv == Basics /\ WalkOK(walk) /\ Paged(walk)

\* What depends on the generation alone.
LEMMA SameColumns ==
  ASSUME gen' = gen
  PROVE  /\ Column' = Column /\ SeenRows' = SeenRows
         /\ \A r : Shown(r)' = Shown(r) /\ (RowOK(r) => RowOK(r)')
         /\ \A q : WellSent(q) => WellSent(q)'
<1>1. Column' = Column
  BY DEF Column
<1>2. SeenRows' = SeenRows
  BY <1>1 DEF SeenRows
<1>3. ASSUME NEW r PROVE Shown(r)' = Shown(r) /\ (RowOK(r) => RowOK(r)')
  BY <1>1 DEF Shown, RowOK
<1>4. ASSUME NEW row, SeenRow(row) PROVE SeenRow(row)'
  BY <1>1, <1>4 DEF SeenRow
<1>5. ASSUME NEW doc, DocOK(doc) PROVE DocOK(doc)'
  BY <1>1, <1>5 DEF DocOK
<1>6. ASSUME NEW row PROVE Document(row)' = Document(row)
  BY <1>1 DEF Document
<1>7. ASSUME NEW q, WellSent(q) PROVE WellSent(q)'
  <2>1. \A copy \in q.copy : SeenRow(copy)' /\ q.docs[1] = Document(copy)'
    BY <1>4, <1>6, <1>7 DEF WellSent
  <2>2. q.method = "PUT" => DocOK(q.docs[1])'
    BY <1>5, <1>7 DEF WellSent
  <2>3. QED
    BY <1>7, <2>1, <2>2 DEF WellSent
<1>8. QED
  BY <1>1, <1>2, <1>3, <1>7

\* What does not change with the table.
LEMMA SamePages ==
  ASSUME gen' = gen, table' = table
  PROVE  \A w : Begun(w) => Begun(w)'
<1> SUFFICES ASSUME NEW w, Begun(w) PROVE Begun(w)'
  OBVIOUS
<1>1. \A q : Meant(q)' = Meant(q)
  BY SameColumns DEF Meant
<1>2. \A x, t, a, b : Showing(x, t, a, b) => Showing(x, t, a, b)'
  BY SameColumns DEF Showing
<1>3. PICK t, k, n :
    /\ t = Sorted(Meant(w.query)) /\ n = Cardinality(Meant(w.query)) /\ k = Atoi(w.size)
    /\ Showing(w.seen, t, 0, Final(w.page, k, n))
    /\ w.last = Final(w.page, k, n) - First(w.page, k, n) /\ w.total = n
    /\ w.page = "2" => k <= n
  BY DEF Begun
<1>4. t = Sorted(Meant(w.query)') /\ n = Cardinality(Meant(w.query)')
  BY <1>1, <1>3
<1>5. Showing(w.seen, t, 0, Final(w.page, k, n))'
  BY <1>2, <1>3
<1>6. QED
  BY <1>3, <1>4, <1>5 DEF Begun

\* Basics only depends on what it names.
LEMMA SameBasics ==
  ASSUME Basics, UNCHANGED <<gen, table, request, code, changes>>
  PROVE  Basics'
<1>1. Stored(table)'
  BY SameColumns DEF Basics, Stored, OneOfEachKey
<1>2. (request = NoRequest \/ WellSent(request))'
  <2>1. CASE request = NoRequest
    BY <2>1
  <2>2. CASE WellSent(request)
    <3>1. PICK q : q = request
      OBVIOUS
    <3>2. WellSent(q)'
      BY <2>2, <3>1, SameColumns
    <3>3. QED
      BY <3>1, <3>2
  <2>3. QED
    BY <2>1, <2>2 DEF Basics
<1>3. QED
  BY <1>1, <1>2 DEF Basics

\* The invariant holds at the start.
LEMMA Begins ==
  ASSUME Init
  PROVE  IInv
<1>1. PICK rows \in InitTables : table = {Restrict(r, Column) : r \in rows}
  BY DEF Init
<1>2. /\ IsFiniteSet(rows) /\ OneOfEachKey(rows)
      /\ \A r \in rows : DOMAIN r = DOMAIN Type /\ \A c \in DOMAIN Type : Holds(c, r[c])
  BY RecordsAssumption DEF TableAssumption
<1>3. PICK g : g = [r \in rows |-> Restrict(r, Column)]
  OBVIOUS
<1>4. table = {g[r] : r \in rows}
  BY <1>1, <1>3
<1>5. ASSUME NEW r \in rows PROVE RowOK(g[r]) /\ KeyOf(g[r]) = KeyOf(r)
  <2>1. g[r] = [c \in Column |-> r[c]]
    BY <1>3 DEF Restrict
  <2>2. KeyOf(g[r]) = KeyOf(r)
    BY <2>1, Keys DEF KeyOf
  <2>3. DOMAIN g[r] = Column /\ \A c \in Column : Holds(c, g[r][c])
    BY <1>2, <2>1, Keys
  <2>4. QED
    BY <2>2, <2>3 DEF RowOK
<1>6. IsFiniteSet(table) /\ OneOfEachKey(table)
  BY <1>2, <1>4, <1>5, SameKeys
<1>7. Stored(table)
  BY <1>4, <1>5, <1>6 DEF Stored
<1>8. Basics
  BY <1>7, RecordsAssumption DEF Init, Basics, Codes, ClientAssumption
<1>9. walk = NoWalk /\ ~walk.on /\ {"on", "clean"} \subseteq DOMAIN walk
  BY DEF Init, NoWalk
<1>10. QED
  BY <1>8, <1>9 DEF IInv, WalkOK, Paged

----------------------------------------------------------------------------
(* The steps                                                                *)

\* The branch that serves a request is that of its method.
LEMMA Served ==
  ASSUME Basics, Handle
  PROVE  /\ WellSent(request)
         /\ request.method = "GET" => code' = 200 /\ UNCHANGED table
         /\ request.method = "POST" => Insert(request.docs[1])
         /\ request.method = "PUT" => Update(request.docs[1])
         /\ request.method = "DELETE" =>
              \/ Len(request.docs) = 1 /\ DeleteOne(request.docs[1])
              \/ Len(request.docs) > 1 /\ DeleteMany(request.docs)
<1>1. request # NoRequest
  BY DEF Handle
<1>2. WellSent(request)
  BY <1>1 DEF Basics
<1>3. GetIpcValueExt(request.ipc, "$METHOD") = request.method
  BY <1>2 DEF WellSent
<1>4. \/ request.method = "GET" /\ code' = 200 /\ UNCHANGED table
      \/ request.method = "POST" /\ Insert(request.docs[1])
      \/ request.method = "PUT" /\ Update(request.docs[1])
      \/ request.method = "DELETE" /\
           \/ Len(request.docs) = 1 /\ DeleteOne(request.docs[1])
           \/ Len(request.docs) > 1 /\ DeleteMany(request.docs)
  BY <1>3 DEF Handle
<1>5. QED
  BY <1>2, <1>4

\* A request that is handled only touches whether the pages are still clean.
LEMMA WalkServed ==
  ASSUME Handle, WalkOK(walk)
  PROVE  /\ DOMAIN walk' = DOMAIN walk
         /\ \A f \in DOMAIN walk : f # "clean" => walk'[f] = walk[f]
         /\ walk'.clean => walk.clean /\ (walk.on => table' = table)
<1>1. walk' = [walk EXCEPT !.clean = @ /\ (walk.on => table' = table)]
  BY DEF Handle
<1>2. {"on", "clean"} \subseteq DOMAIN walk
  BY DEF WalkOK
<1>3. QED
  BY <1>1, <1>2, Zenon

\* A DELETE only removes.
LEMMA DeletedLess ==
  ASSUME gen \in Generations, NEW docs, DeleteOne(docs[1]) \/ DeleteMany(docs)
  PROVE  table' \subseteq table /\ code' \in Codes
<1>1. gen \in {"old", "new"}
  BY RecordsAssumption DEF MapAssumption
<1>2. CASE DeleteOne(docs[1])
  BY <1>1, <1>2 DEF DeleteOne, Harmed, Codes
<1>3. CASE DeleteMany(docs)
  BY <1>3 DEF DeleteMany, Codes
<1>4. QED
  BY <1>2, <1>3

\* The table after a request.
LEMMA HandledStored ==
  ASSUME Basics, Handle
  PROVE  Basics'
<1>1. WellSent(request) /\ Stored(table)
  BY Served DEF Basics
<1>2. gen' = gen /\ request' = NoRequest /\ changes' = changes
  BY DEF Handle
<1>3. /\ code' \in Codes
      /\ IsFiniteSet(table') /\ OneOfEachKey(table') /\ \A r \in table' : RowOK(r)
  <2>1. CASE request.method = "GET"
    <3>1. code' = 200 /\ table' = table
      BY <2>1, Served
    <3>2. QED
      BY <1>1, <3>1 DEF Stored, Codes
  <2>2. CASE request.method = "POST"
    <3>1. DocOK(request.docs[1])
      BY <1>1, <2>2, DocumentsSay DEF WellSent
    <3>2. Insert(request.docs[1])
      BY <2>2, Served
    <3>3. QED
      BY <1>1, <3>1, <3>2, Inserted
  <2>3. CASE request.method = "PUT"
    <3>1. DocOK(request.docs[1])
      BY <1>1, <2>3 DEF WellSent
    <3>2. Update(request.docs[1])
      BY <2>3, Served
    <3>3. code' \in Codes /\ (table' = table \/ \E g : Replaced(g, table, table'))
      BY <1>1, <3>1, <3>2, Updated
    <3>4. CASE table' = table
      BY <1>1, <3>3, <3>4 DEF Stored
    <3>5. CASE \E g : Replaced(g, table, table')
      BY <1>1, <3>3, <3>5, ReplacedKeeps
    <3>6. QED
      BY <3>3, <3>4, <3>5
  <2>4. CASE request.method = "DELETE"
    <3>1. table' \subseteq table /\ code' \in Codes
      <4>1. DeleteOne(request.docs[1]) \/ DeleteMany(request.docs)
        BY <2>4, Served
      <4>2. gen \in Generations
        BY DEF Basics
      <4>3. QED
        BY <4>1, <4>2, DeletedLess
    <3>2. QED
      BY <1>1, <3>1, SubsetStored
  <2>5. QED
    BY <1>1, <2>1, <2>2, <2>3, <2>4 DEF WellSent, Methods
<1>4. Stored(table)'
  <2>1. \A r \in table' : RowOK(r)'
    BY <1>2, <1>3, SameColumns
  <2>2. QED
    BY <1>3, <2>1 DEF Stored, OneOfEachKey
<1>5. QED
  BY <1>2, <1>3, <1>4 DEF Basics

\* A request that is handled keeps the invariant.
LEMMA HandleKeeps ==
  ASSUME IInv, Handle
  PROVE  IInv'
<1>1. Basics /\ WalkOK(walk) /\ Paged(walk)
  BY DEF IInv
<1>2. Basics' /\ gen' = gen
  BY <1>1, HandledStored DEF Handle
<1>3. PICK w, x : w = walk /\ x = walk'
  OBVIOUS
<1>4. /\ DOMAIN x = DOMAIN w /\ \A f \in DOMAIN w : f # "clean" => x[f] = w[f]
      /\ x.clean => w.clean /\ (w.on => table' = table)
  BY <1>1, <1>3, WalkServed
<1>5. {"on", "clean"} \subseteq DOMAIN x /\ (x.on => w.on)
  BY <1>1, <1>3, <1>4 DEF WalkOK
<1>6. ASSUME w.on
      PROVE  /\ {"query", "size", "page", "seen", "last", "total"} \subseteq DOMAIN x
             /\ x.query = w.query /\ x.size = w.size /\ x.page = w.page
             /\ x.seen = w.seen /\ x.last = w.last /\ x.total = w.total
  <2>1. {"query", "size", "page", "seen", "last", "total"} \subseteq DOMAIN w
    BY <1>1, <1>3, <1>6 DEF WalkOK
  <2>2. QED
    BY <1>4, <2>1
<1>7. WalkOK(x)'
  <2>1. w.on => w.query \in Queries /\ w.size \in Sizes /\ w.page \in {"1", "2"} /\ w.seen \in Seq(SeenRows')
    BY <1>1, <1>2, <1>3, SameColumns DEF WalkOK
  <2>2. QED
    BY <1>5, <1>6, <2>1 DEF WalkOK
<1>8. ASSUME x.on, x.clean PROVE Begun(x)'
  <2>1. w.on /\ w.clean /\ table' = table
    BY <1>4, <1>5, <1>8
  <2>2. Begun(w)
    BY <1>1, <1>3, <2>1 DEF Paged
  <2>3. Begun(w)'
    BY <1>2, <2>1, <2>2, SamePages
  <2>4. QED
    BY <1>6, <2>1, <2>3 DEF Begun
<1>9. Paged(x)'
  BY <1>8 DEF Paged
<1>10. WalkOK(walk)' /\ Paged(walk)'
  BY <1>3, <1>7, <1>9
<1>11. QED
  BY <1>2, <1>10 DEF IInv

\* A step of the client that leaves the lists alone.
LEMMA OnlyBasics ==
  ASSUME IInv, Basics', UNCHANGED <<gen, table, walk>>
  PROVE  IInv'
<1>1. WalkOK(walk) /\ Paged(walk)
  BY DEF IInv
<1>2. PICK w : w = walk /\ walk' = w
  OBVIOUS
<1>3. WalkOK(w)'
  BY <1>1, <1>2, SameColumns DEF WalkOK
<1>4. w.on /\ w.clean => Begun(w)'
  BY <1>1, <1>2, SamePages DEF Paged
<1>5. Paged(w)'
  BY <1>4 DEF Paged
<1>6. WalkOK(walk)' /\ Paged(walk)'
  BY <1>2, <1>3, <1>5
<1>7. QED
  BY <1>6 DEF IInv

\* A request that is sent keeps the invariant.
LEMMA SentKeeps ==
  ASSUME IInv, NEW method \in Methods, NEW query \in Seq(NameValue), NEW docs, NEW copies,
         Send(method, query, docs, copies),
         DOMAIN docs = 1..Len(docs), Len(docs) \in Nat,
         method = "POST" => docs[1] \in Documents,
         method = "PUT" => DocOK(docs[1]),
         \A copy \in copies : SeenRow(copy) /\ docs[1] = Document(copy)
  PROVE  IInv'
<1>1. PICK q : q = [method |-> method, ipc |-> Message(method, query), docs |-> docs, copy |-> copies]
  OBVIOUS
<1>2. /\ request' = q /\ code' = Silence /\ UNCHANGED <<gen, table, walk>>
      /\ changes < MaxChanges /\ changes' = changes + 1
  BY <1>1 DEF Send
<1>3. WellSent(q)
  <2>1. q.method = method /\ q.ipc = Message(method, query) /\ q.docs = docs /\ q.copy = copies
    BY <1>1
  <2>2. GetIpcValueExt(q.ipc, "$METHOD") = q.method
    BY <2>1, MethodFirst
  <2>3. QED
    BY <2>1, <2>2 DEF WellSent
<1>4. WellSent(q)'
  BY <1>2, <1>3, SameColumns
<1>5. Basics
  BY DEF IInv
<1>6. Stored(table)'
  BY <1>2, <1>5, SameColumns DEF Basics, Stored, OneOfEachKey
<1>7. changes' \in 0..MaxChanges
  BY <1>2, <1>5, RecordsAssumption DEF Basics, ClientAssumption
<1>8. WellSent(request)'
  BY <1>2, <1>4
<1>9. Basics'
  BY <1>2, <1>5, <1>6, <1>7, <1>8 DEF Basics, Codes
<1>10. QED
  BY <1>2, <1>9, OnlyBasics

\* A request without a query.
LEMMA NoQuery == <<>> \in Seq(NameValue)
  BY EmptySeq

\* A row that was seen may be sent back, with one column edited.
LEMMA SeenAgain ==
  ASSUME WalkOK(walk), walk.on, NEW row \in ToSet(walk.seen)
  PROVE  /\ SeenRow(row)
         /\ \A c \in Column : \A v \in Edits[Type[c]] : SeenRow([row EXCEPT ![c] = v])
<1>1. walk.seen \in Seq(SeenRows)
  BY DEF WalkOK
<1>2. row \in SeenRows
  BY <1>1 DEF ToSet
<1>3. SeenRow(row)
  BY <1>2, SeenRowsAre
<1>4. ASSUME NEW c \in Column, NEW v \in Edits[Type[c]] PROVE SeenRow([row EXCEPT ![c] = v])
  <2>1. PICK new : new = [row EXCEPT ![c] = v]
    OBVIOUS
  <2>2. row = [d \in Column |-> row[d]]
    BY <1>3 DEF SeenRow
  <2>3. new = [d \in Column |-> IF d = c THEN v ELSE row[d]]
    BY <2>1, <2>2
  <2>4. Type[c] \in {"C", "I", "T"}
    BY ColumnTypes
  <2>5. Edits["I"] \subseteq Nat /\ Edits["C"] \subseteq Texts /\ Edits["T"] \subseteq Texts
    BY RecordsAssumption DEF ClientAssumption
  <2>6. Shows(c, v)
    BY <2>4, <2>5 DEF Shows
  <2>7. \A d \in Column : Shows(d, new[d])
    BY <1>3, <2>3, <2>6 DEF SeenRow
  <2>8. QED
    BY <2>1, <2>3, <2>7 DEF SeenRow
<1>5. QED
  BY <1>3, <1>4

\* Each of the clients' requests is such a request.
LEMMA SendKeeps ==
  ASSUME IInv, SendAny \/ SendGet \/ SendMany \/ SendEdit \/ SendDelete
  PROVE  IInv'
<1>1. CASE SendAny
  <2>1. PICK method \in {"POST", "PUT", "DELETE"}, doc \in Documents : Send(method, <<>>, <<doc>>, {})
    BY <1>1 DEF SendAny
  <2>2. method \in Methods /\ DocOK(doc)
    BY DocumentsSay DEF Methods
  <2>3. PICK docs, none : docs = <<doc>> /\ none = <<>>
    OBVIOUS
  <2>4. DOMAIN docs = 1..Len(docs) /\ Len(docs) \in Nat /\ docs[1] = doc
    BY <2>3
  <2>5. Send(method, none, docs, {}) /\ none \in Seq(NameValue)
    BY <2>1, <2>3, NoQuery
  <2>6. docs[1] \in Documents /\ DocOK(docs[1])
    BY <2>2, <2>4
  <2>7. QED
    BY <2>2, <2>4, <2>5, <2>6, SentKeeps
<1>2. CASE SendGet
  <2>1. PICK query \in Queries, row \in table : Send("GET", query, <<Document(Shown(row))>>, {})
    BY <1>2 DEF SendGet
  <2>2. PICK doc : doc = Document(Shown(row))
    OBVIOUS
  <2>3. Send("GET", query, <<doc>>, {})
    BY <2>1, <2>2
  <2>4. query \in Seq(NameValue) /\ "GET" \in Methods /\ "GET" # "POST" /\ "GET" # "PUT"
    BY WordsAre DEF Methods
  <2>5. DOMAIN <<doc>> = 1..Len(<<doc>>) /\ Len(<<doc>>) \in Nat
    OBVIOUS
  <2>6. \A copy \in {} : SeenRow(copy) /\ <<doc>>[1] = Document(copy)
    OBVIOUS
  <2>7. QED
    BY <2>3, <2>4, <2>5, <2>6, SentKeeps
<1>3. CASE SendMany
  <2>1. PICK d, e : Send("DELETE", <<>>, <<d, e>>, {})
    BY <1>3 DEF SendMany
  <2>2. "DELETE" \in Methods /\ "DELETE" # "POST" /\ "DELETE" # "PUT"
    BY DEF Methods
  <2>3. PICK docs, none : docs = <<d, e>> /\ none = <<>>
    OBVIOUS
  <2>4. DOMAIN docs = 1..Len(docs) /\ Len(docs) \in Nat
    BY <2>3
  <2>5. Send("DELETE", none, docs, {}) /\ none \in Seq(NameValue)
    BY <2>1, <2>3, NoQuery
  <2>6. QED
    BY <2>2, <2>4, <2>5, SentKeeps
<1>4. CASE SendEdit
  <2>1. PICK row \in ToSet(walk.seen), c \in Column \ KeyColumn : \E v \in Edits[Type[c]] :
          LET copy == [row EXCEPT ![c] = v] IN Send("PUT", <<>>, <<Document(copy)>>, {copy})
    BY <1>4 DEF SendEdit
  <2>2. PICK v \in Edits[Type[c]] :
          Send("PUT", <<>>, <<Document([row EXCEPT ![c] = v])>>, {[row EXCEPT ![c] = v]})
    BY <2>1
  <2>3. PICK copy, doc : copy = [row EXCEPT ![c] = v] /\ doc = Document(copy)
    OBVIOUS
  <2>4. Send("PUT", <<>>, <<doc>>, {copy})
    BY <2>2, <2>3
  <2>5. SeenRow(copy)
    BY <1>4, <2>3, SeenAgain DEF IInv, SendEdit
  <2>6. DocOK(doc)
    BY <2>3, <2>5, DocumentSays
  <2>7. "PUT" \in Methods /\ "PUT" # "POST"
    BY DEF Methods
  <2>8. DOMAIN <<doc>> = 1..Len(<<doc>>) /\ Len(<<doc>>) \in Nat /\ <<doc>>[1] = doc
    OBVIOUS
  <2>9. \A x \in {copy} : SeenRow(x) /\ <<doc>>[1] = Document(x)
    BY <2>3, <2>5, <2>8
  <2>10. QED
    BY <2>4, <2>6, <2>7, <2>8, <2>9, NoQuery, SentKeeps
<1>5. CASE SendDelete
  <2>1. PICK row \in ToSet(walk.seen) : Send("DELETE", <<>>, <<Document(row)>>, {row})
    BY <1>5 DEF SendDelete
  <2>2. PICK doc : doc = Document(row)
    OBVIOUS
  <2>3. Send("DELETE", <<>>, <<doc>>, {row})
    BY <2>1, <2>2
  <2>4. SeenRow(row)
    BY <1>5, SeenAgain DEF IInv, SendDelete
  <2>5. "DELETE" \in Methods /\ "DELETE" # "POST" /\ "DELETE" # "PUT"
    BY DEF Methods
  <2>6. DOMAIN <<doc>> = 1..Len(<<doc>>) /\ Len(<<doc>>) \in Nat /\ <<doc>>[1] = doc
    OBVIOUS
  <2>7. \A x \in {row} : SeenRow(x) /\ <<doc>>[1] = Document(x)
    BY <2>2, <2>4, <2>6
  <2>8. QED
    BY <2>3, <2>5, <2>6, <2>7, NoQuery, SentKeeps
<1>6. QED
  BY <1>1, <1>2, <1>3, <1>4, <1>5

\* The first page is a beginning of the list.
LEMMA OpenKeeps ==
  ASSUME IInv, OpenList
  PROVE  IInv'
<1>0. PICK query \in Queries, size \in Sizes : \E ipc, rows :
        /\ ipc = ListRequest(query, "1", size) /\ rows = Listed(ipc)
        /\ walk' = [on |-> TRUE, clean |-> TRUE, query |-> query, size |-> size, page |-> "1",
                    seen |-> rows, last |-> Len(rows), total |-> Cardinality(Selected(ipc))]
  BY DEF OpenList
<1>1. PICK ipc, rows :
        /\ ipc = ListRequest(query, "1", size) /\ rows = Listed(ipc)
        /\ walk' = [on |-> TRUE, clean |-> TRUE, query |-> query, size |-> size, page |-> "1",
                    seen |-> rows, last |-> Len(rows), total |-> Cardinality(Selected(ipc))]
  BY <1>0
<1>2. UNCHANGED <<gen, table, request, code, changes>>
  BY DEF OpenList
<1>3. Basics /\ Basics' /\ Stored(table)
  BY <1>2, SameBasics DEF IInv, Basics
<1>4. PICK t, k, n : t = Sorted(Meant(query)) /\ k = Atoi(size) /\ n = Cardinality(Meant(query))
  OBVIOUS
<1>5. Showing(rows, t, First("1", k, n), Final("1", k, n))
  BY <1>1, <1>3, <1>4, ListedShows
<1>6. First("1", k, n) = 0
  BY DEF First
<1>7. Selected(ipc) = Meant(query)
  BY <1>1, RequestLists, SelectedMeant
<1>8. PICK w : w = walk'
  OBVIOUS
<1>9. /\ DOMAIN w = {"on", "clean", "query", "size", "page", "seen", "last", "total"}
      /\ w.query = query /\ w.size = size /\ w.page = "1" /\ w.seen = rows
      /\ w.last = Len(rows) /\ w.total = n
  BY <1>1, <1>4, <1>7, <1>8
<1>10. rows \in Seq(SeenRows) /\ Len(rows) = Final("1", k, n) - First("1", k, n)
  BY <1>5 DEF Showing
<1>11. Begun(w)
  BY <1>4, <1>5, <1>6, <1>9, <1>10 DEF Begun
<1>12. Begun(w)'
  BY <1>2, <1>11, SamePages
<1>13. WalkOK(w)'
  BY <1>2, <1>9, <1>10, SameColumns DEF WalkOK
<1>14. WalkOK(walk)' /\ Paged(walk)'
  BY <1>8, <1>12, <1>13 DEF Paged
<1>15. QED
  BY <1>3, <1>14 DEF IInv

\* Closing the list keeps the invariant.
LEMMA CloseKeeps ==
  ASSUME IInv, CloseList
  PROVE  IInv'
<1>1. Basics'
  BY SameBasics DEF IInv, CloseList
<1>2. ~walk'.on /\ {"on", "clean"} \subseteq DOMAIN walk'
  BY DEF CloseList, NoWalk
<1>3. QED
  BY <1>1, <1>2 DEF IInv, WalkOK, Paged

\* There is a second page when the first one is full and not known to be all.
LEMMA MoreToSee ==
  ASSUME gen \in Generations, NEW b \in Nat, NEW k \in Nat, NEW n \in Nat,
         b = Lesser(k, n), Len(walk.seen) = b, walk.last = b, walk.total = n,
         Atoi(walk.size) = k, ~AllSeen
  PROVE  k <= n
<1>1. CASE gen = "new"
  BY <1>1 DEF AllSeen, Lesser
<1>2. CASE gen # "new"
  BY <1>2 DEF AllSeen, Lesser
<1>3. QED
  BY <1>1, <1>2

\* The second page continues the first one.
LEMMA NextKeeps ==
  ASSUME IInv, NextPage
  PROVE  IInv'
<1>1. Basics /\ WalkOK(walk) /\ Paged(walk) /\ walk.on /\ ~AllSeen /\ walk.page = "1"
  BY DEF IInv, NextPage
<1>2. UNCHANGED <<gen, table, request, code, changes>>
  BY DEF NextPage
<1>3. Basics' /\ Stored(table)
  BY <1>1, <1>2, SameBasics DEF Basics
<1>4. PICK w, x : w = walk /\ x = walk'
  OBVIOUS
<1>5. PICK query, size, rows : /\ query = w.query /\ size = w.size
                               /\ rows = Listed(ListRequest(query, "2", size))
  OBVIOUS
<1>6. /\ {"on", "clean", "query", "size", "page", "seen", "last", "total"} \subseteq DOMAIN w
      /\ query \in Queries /\ size \in Sizes /\ w.seen \in Seq(SeenRows)
  BY <1>1, <1>4, <1>5 DEF WalkOK
<1>7. x = [w EXCEPT !.page = "2", !.seen = @ \o rows, !.last = Len(rows)]
  BY <1>4, <1>5 DEF NextPage
<1>8. /\ DOMAIN x = DOMAIN w /\ x.query = query /\ x.size = size /\ x.page = "2"
      /\ x.seen = w.seen \o rows /\ x.last = Len(rows) /\ x.total = w.total
      /\ (x.clean <=> w.clean)
  <2>1. /\ DOMAIN x = DOMAIN w /\ x.query = query /\ x.size = size /\ x.page = "2"
        /\ x.seen = w.seen \o rows /\ x.last = Len(rows) /\ x.total = w.total
    BY <1>5, <1>6, <1>7
  <2>2. x.clean = w.clean
    BY <1>6, <1>7
  <2>3. QED
    BY <2>1, <2>2
<1>9. PICK t, k, n : t = Sorted(Meant(query)) /\ k = Atoi(size) /\ n = Cardinality(Meant(query))
  OBVIOUS
<1>10. Showing(rows, t, First("2", k, n), Final("2", k, n))
  BY <1>3, <1>5, <1>6, <1>9, ListedShows
<1>11. x.seen \in Seq(SeenRows)
  <2>1. rows \in Seq(SeenRows)
    BY <1>10 DEF Showing
  <2>2. w.seen \o rows \in Seq(SeenRows)
    BY <1>6, <2>1, ConcatProperties
  <2>3. QED
    BY <1>8, <2>2
<1>12. ASSUME x.clean PROVE Begun(x)
  <2>1. Begun(w)
    BY <1>1, <1>4, <1>8, <1>12 DEF Paged
  <2>2. /\ Showing(w.seen, t, 0, Final("1", k, n))
        /\ w.last = Final("1", k, n) - First("1", k, n) /\ w.total = n
    BY <1>1, <1>4, <1>5, <1>9, <2>1 DEF Begun
  <2>3. PICK b : b = Lesser(k, n)
    OBVIOUS
  <2>4. Final("1", k, n) = b /\ First("2", k, n) = b /\ First("1", k, n) = 0
    BY <2>3 DEF Final, First
  <2>5. Showing(w.seen, t, 0, b) /\ Showing(rows, t, b, Final("2", k, n))
    BY <1>10, <2>2, <2>4
  <2>6. Showing(w.seen \o rows, t, 0, Final("2", k, n))
    BY <2>5, ShowingOn
  <2>7. /\ b \in Nat /\ Len(w.seen) = b - 0 /\ w.last = b - 0
        /\ Len(rows) = Final("2", k, n) - First("2", k, n)
    BY <1>10, <2>2, <2>4, <2>5 DEF Showing
  <2>8. k <= n
    <3>1. k \in Nat
      BY <1>6, <1>9, WordsAre
    <3>2. n \in Nat
      BY <1>3, <1>9, MeantOrderable, Ranks
    <3>3. Len(w.seen) = b /\ w.last = b
      BY <2>7
    <3>4. gen \in Generations
      BY <1>1 DEF Basics
    <3>5. QED
      BY <1>1, <1>4, <1>5, <1>9, <2>2, <2>3, <2>7, <3>1, <3>2, <3>3, <3>4, MoreToSee
  <2>9. QED
    BY <1>8, <1>9, <2>2, <2>6, <2>7, <2>8 DEF Begun
<1>13. WalkOK(x)'
  BY <1>2, <1>6, <1>8, <1>11, SameColumns DEF WalkOK
<1>14. Paged(x)'
  <2>1. x.clean => Begun(x)'
    BY <1>2, <1>12, SamePages
  <2>2. QED
    BY <2>1 DEF Paged
<1>15. WalkOK(walk)' /\ Paged(walk)'
  BY <1>4, <1>13, <1>14
<1>16. QED
  BY <1>3, <1>15 DEF IInv

\* Each step keeps the invariant.
LEMMA StepKeeps ==
  ASSUME IInv, [Next]_vars
  PROVE  IInv'
<1>1. CASE UNCHANGED vars
  <2>1. UNCHANGED <<gen, table, request, code, changes, walk>>
    BY <1>1 DEF vars
  <2>2. Basics'
    BY <2>1, SameBasics DEF IInv
  <2>3. QED
    BY <2>1, <2>2, OnlyBasics
<1>2. CASE Handle
  BY <1>2, HandleKeeps
<1>3. CASE SendAny \/ SendGet \/ SendMany \/ SendEdit \/ SendDelete
  BY <1>3, SendKeeps
<1>4. CASE OpenList
  BY <1>4, OpenKeeps
<1>5. CASE NextPage
  BY <1>5, NextKeeps
<1>6. CASE CloseList
  BY <1>6, CloseKeeps
<1>7. QED
  BY <1>1, <1>2, <1>3, <1>4, <1>5, <1>6 DEF Next

\* The invariant holds in every state.
LEMMA Invariant == Spec => []IInv
<1>1. Init => IInv
  BY Begins
<1>2. IInv /\ [Next]_vars => IInv'
  BY StepKeeps
<1>3. QED
  BY <1>1, <1>2, PTL DEF Spec

\* A row has the type of each column, a time is never an empty text, and no two
\* rows have the same key, whatever the documents of the clients hold.
THEOREM Typed == Spec => []TypeOK
<1>1. IInv => TypeOK
  BY DEF IInv, Basics, Stored, RowOK, TypeOK, Codes
<1>2. QED
  BY <1>1, Invariant, PTL

\* A row and what is shown of it are in the same place.
LEMMA ShownBefore ==
  ASSUME NEW r, NEW s, RowOK(r), RowOK(s), Before(r, s)
  PROVE  Before(Shown(r), Shown(s))
<1>1. PICK x, y : x = Shown(r) /\ y = Shown(s)
  OBVIOUS
<1>2. (\A c \in KeyColumn : x[c] = r[c]) /\ (\A c \in KeyColumn : y[c] = s[c])
  BY <1>1, ShownRow
<1>3. PICK i \in DOMAIN Key : /\ Less(Key[i], r[Key[i]], s[Key[i]])
                              /\ \A j \in 1..(i - 1) : r[Key[j]] = s[Key[j]]
  BY DEF Before
<1>4. Less(Key[i], x[Key[i]], y[Key[i]])
  BY <1>2, <1>3, Keys
<1>5. \A j \in 1..(i - 1) : x[Key[j]] = y[Key[j]]
  <2>1. \A j \in 1..(i - 1) : j \in DOMAIN Key
    BY Keys
  <2>2. QED
    BY <1>2, <1>3, <2>1, Keys
<1>6. Before(x, y)
  BY <1>4, <1>5 DEF Before
<1>7. QED
  BY <1>1, <1>6

\* When all is seen, what is seen shows the whole list.
LEMMA AllIsSeen ==
  ASSUME IInv, walk.on, walk.clean, AllSeen,
         NEW t, t = Sorted(Meant(walk.query)), NEW n, n = Cardinality(Meant(walk.query)), n \in Nat
  PROVE  Showing(walk.seen, t, 0, n)
<1>1. PICK w : w = walk
  OBVIOUS
<1>2. PICK k : k = Atoi(w.size)
  OBVIOUS
<1>3. /\ Showing(w.seen, t, 0, Final(w.page, k, n))
      /\ w.last = Final(w.page, k, n) - First(w.page, k, n) /\ w.total = n
      /\ w.page = "2" => k <= n
  BY <1>1, <1>2 DEF IInv, Paged, Begun
<1>4. w.page \in {"1", "2"} /\ w.size \in Sizes
  BY <1>1 DEF IInv, WalkOK
<1>5. k \in Nat /\ k >= 1
  BY <1>2, <1>4, WordsAre
<1>6. PICK b : b = Final(w.page, k, n)
  OBVIOUS
<1>7. Len(w.seen) = b - 0 /\ b \in Nat
  BY <1>3, <1>6 DEF Showing
<1>8. gen = "new" => Len(w.seen) >= n
  BY <1>1, <1>3 DEF AllSeen
<1>9. gen # "new" => w.last < k
  BY <1>1, <1>2 DEF AllSeen
<1>10. CASE w.page = "1"
  <2>1. b = (IF k < n THEN k ELSE n) /\ w.last = b - 0
    BY <1>3, <1>6, <1>10 DEF Final, First, Lesser
  <2>2. b = n
    BY <1>5, <1>7, <1>8, <1>9, <2>1
  <2>3. QED
    BY <1>1, <1>3, <1>6, <2>2
<1>11. CASE w.page = "2"
  <2>1. /\ b = (IF k + k < n THEN k + k ELSE n) /\ k <= n
        /\ w.last = b - (IF k < n THEN k ELSE n)
    BY <1>3, <1>6, <1>11 DEF Final, First, Lesser
  <2>2. b = n
    BY <1>5, <1>7, <1>8, <1>9, <2>1
  <2>3. QED
    BY <1>1, <1>3, <1>6, <2>2
<1>12. QED
  BY <1>4, <1>10, <1>11

\* PagesCover follows from the invariant.
LEMMA Covers ==
  ASSUME IInv
  PROVE  PagesCover
<1> SUFFICES ASSUME walk.on, walk.clean, AllSeen
             PROVE  /\ ToSet(walk.seen) = {Shown(r) : r \in Meant(walk.query)}
                    /\ Len(walk.seen) = Cardinality(Meant(walk.query))
                    /\ \A i \in 1..(Len(walk.seen) - 1) : Before(walk.seen[i], walk.seen[i + 1])
  BY DEF PagesCover
<1>1. PICK seen, R, t, n : /\ seen = walk.seen /\ R = Meant(walk.query)
                           /\ t = Sorted(R) /\ n = Cardinality(R)
  OBVIOUS
<1>2. Arranges(t, R) /\ \A r \in R : RowOK(r)
  BY <1>1, MeantOrderable DEF IInv, Basics
<1>3. /\ t \in Seq(R) /\ Len(t) = n /\ n \in Nat
      /\ \A r \in R : \E i \in 1..n : t[i] = r
      /\ \A i, j \in 1..n : i < j => Before(t[i], t[j])
  BY <1>1, <1>2 DEF Arranges
<1>4. Showing(seen, t, 0, n)
  BY <1>1, <1>3, AllIsSeen
<1>5. seen \in Seq(SeenRows) /\ Len(seen) = n /\ DOMAIN seen = 1..n
  <2>1. seen \in Seq(SeenRows) /\ Len(seen) = n - 0
    BY <1>4 DEF Showing
  <2>2. QED
    BY <1>3, <2>1
<1>6. \A i \in 1..n : seen[i] = Shown(t[i])
  <2>1. \A i \in 1..(n - 0) : seen[i] = Shown(t[0 + i])
    BY <1>4 DEF Showing
  <2>2. \A i \in 1..n : i \in 1..(n - 0) /\ 0 + i = i
    BY <1>3
  <2>3. QED
    BY <2>1, <2>2
<1>7. \A i \in 1..n : t[i] \in R
  BY <1>3
<1>8. ToSet(seen) = {Shown(r) : r \in R}
  <2>1. ToSet(seen) = {seen[i] : i \in 1..n}
    BY <1>5 DEF ToSet
  <2>2. QED
    BY <1>3, <1>6, <1>7, <2>1
<1>9. ASSUME NEW i \in 1..(n - 1) PROVE Before(seen[i], seen[i + 1])
  <2>1. PICK j : j = i + 1
    OBVIOUS
  <2>2. i \in 1..n /\ j \in 1..n /\ i < j
    BY <1>3, <2>1
  <2>3. Before(t[i], t[j]) /\ RowOK(t[i]) /\ RowOK(t[j])
    BY <1>2, <1>3, <1>7, <2>2
  <2>4. Before(Shown(t[i]), Shown(t[j]))
    BY <2>3, ShownBefore
  <2>5. QED
    BY <1>6, <2>1, <2>2, <2>4
<1>10. QED
  BY <1>1, <1>5, <1>8, <1>9

\* PagesCover: when nobody changes the table in between, the pages of a list show
\* each row that the query means once and in the order of the keys, however
\* many rows and columns there are and however large the pages.
THEOREM PagesAreWhole == Spec => []PagesCover
<1>1. IInv => PagesCover
  BY Covers
<1>2. QED
  BY <1>1, Invariant, PTL

\* A request that is handled.
LEMMA HandledIs ==
  ASSUME IInv, [Next]_vars, NEW method, Handled(method)
  PROVE  Handle /\ Basics /\ WellSent(request) /\ request.method = method
<1>1. request # NoRequest /\ request' = NoRequest /\ request.method = method
  BY DEF Handled
<1>2. ~UNCHANGED vars
  BY <1>1 DEF vars
<1>3. ~(OpenList \/ NextPage \/ CloseList)
  BY <1>1 DEF OpenList, NextPage, CloseList
<1>4. ~(SendAny \/ SendGet \/ SendMany \/ SendEdit \/ SendDelete)
  BY <1>1 DEF SendAny, SendGet, SendMany, SendEdit, SendDelete, Send
<1>5. Handle
  BY <1>2, <1>3, <1>4 DEF Next
<1>6. QED
  BY <1>1, <1>5 DEF IInv, Basics

\* ReadsDontWrite: a GET changes nothing, whatever names its query uses: the
\* method that the gateway has put into the message comes before them.
THEOREM GetsDontWrite == Spec => ReadsDontWrite
<1>1. IInv /\ [Next]_vars => [Handled("GET") => table' = table]_vars
  <2> SUFFICES ASSUME IInv, [Next]_vars, Handled("GET") PROVE table' = table
    OBVIOUS
  <2>1. Handle /\ Basics /\ request.method = "GET"
    BY HandledIs
  <2>2. QED
    BY <2>1, Served
<1>2. QED
  BY <1>1, Invariant, PTL DEF Spec, ReadsDontWrite

\* What a PUT that is handled keeps.
LEMMA PutKeeps ==
  ASSUME IInv, [Next]_vars, Handled("PUT")
  PROVE  KeysOf(table') = KeysOf(table) /\ Cardinality(table') = Cardinality(table)
<1>1. Handle /\ Basics /\ WellSent(request) /\ request.method = "PUT"
  BY HandledIs
<1>2. Update(request.docs[1]) /\ DocOK(request.docs[1]) /\ Stored(table)
  BY <1>1, Served DEF WellSent, Basics
<1>3. table' = table \/ \E g : Replaced(g, table, table')
  BY <1>2, Updated
<1>4. CASE table' = table
  BY <1>4
<1>5. CASE \E g : Replaced(g, table, table')
  BY <1>2, <1>5, ReplacedKeeps
<1>6. QED
  BY <1>3, <1>4, <1>5

\* KeysKept: a PUT neither renames a row nor merges or splits rows, although it
\* writes the columns of the key and may hit several rows.
THEOREM PutsKeepKeys == Spec => KeysKept
<1>1. IInv /\ [Next]_vars =>
        [Handled("PUT") => /\ KeysOf(table') = KeysOf(table)
                           /\ Cardinality(table') = Cardinality(table)]_vars
  BY PutKeeps
<1>2. QED
  BY <1>1, Invariant, PTL DEF Spec, KeysKept

----------------------------------------------------------------------------
(* A row that is sent back                                                  *)

\* The row that a document of a row as it was shown makes of row r.
LEMMA RenewedShown ==
  ASSUME NEW copy, SeenRow(copy), NEW doc, doc = Document(copy), NEW r
  PROVE  /\ Shown(Renewed(doc, r)) = copy
         /\ Given(doc, Column) = Column /\ Given(doc, KeyColumn) = KeyColumn
         /\ \A c \in Column : doc[c] # Absent
         /\ \A c \in KeyColumn : SqlValue(c, doc[c]) = copy[c]
<1>1. /\ copy = [c \in Column |-> copy[c]] /\ \A c \in Column : Shows(c, copy[c])
  BY DEF SeenRow
<1>2. ASSUME NEW c \in Column
      PROVE  /\ doc[c] = IF Type[c] = "I" THEN <<"num", copy[c]>> ELSE <<"str", copy[c]>>
             /\ doc[c] \notin {Absent, Nothing}
  <2>1. doc[c] = IF Type[c] = "I" THEN <<"num", copy[c]>> ELSE <<"str", copy[c]>>
    BY DEF Document, Str, Num
  <2>2. doc[c] \notin {Absent, Nothing}
    BY <2>1 DEF Absent, Nothing
  <2>3. QED
    BY <2>1, <2>2
<1>3. Given(doc, Column) = Column /\ Given(doc, KeyColumn) = KeyColumn
  BY <1>2, Keys DEF Given
<1>4. ASSUME NEW c \in Column PROVE SqlValue(c, doc[c]) = copy[c]
  <2>1. CASE Type[c] = "I"
    <3>1. doc[c] = <<"num", copy[c]>>
      BY <1>2, <2>1
    <3>2. doc[c][1] = "num" /\ doc[c][2] = copy[c]
      BY <3>1
    <3>3. QED
      BY <2>1, <3>2 DEF SqlValue
  <2>2. CASE Type[c] # "I"
    <3>1. doc[c] = <<"str", copy[c]>>
      BY <1>2, <2>2
    <3>2. doc[c][1] = "str" /\ doc[c][2] = copy[c]
      BY <3>1
    <3>3. QED
      BY <2>2, <3>2 DEF SqlValue
  <2>3. QED
    BY <2>1, <2>2
<1>5. PICK new : new = Renewed(doc, r)
  OBVIOUS
<1>6. \A c \in Column : new[c] = IF Type[c] = "T" /\ copy[c] = Empty THEN Null ELSE copy[c]
  BY <1>3, <1>4, <1>5, RenewedIs
<1>7. ASSUME NEW c \in Column
      PROVE  (IF new[c] # Null THEN new[c] ELSE IF Type[c] = "I" THEN 0 ELSE Empty) = copy[c]
  <2>1. Shows(c, copy[c]) /\ Type[c] \in {"C", "I", "T"}
    BY <1>1, ColumnTypes
  <2>2. copy[c] # Null
    BY <2>1, TextsAre DEF Shows
  <2>3. QED
    BY <1>6, <2>1, <2>2
<1>8. Shown(new) = [c \in Column |-> copy[c]]
  BY <1>7 DEF Shown
<1>9. Shown(new) = copy
  BY <1>1, <1>8
<1>10. QED
  BY <1>2, <1>3, <1>4, <1>5, <1>9, Keys

Others(rows, copy) == {r \in rows : KeyOf(r) # KeyOf(copy)}
Landed(copy) ==
  /\ Others(table', copy) = Others(table, copy)
  /\ {Shown(r) : r \in table' \ Others(table, copy)} = {copy : r \in table \ Others(table, copy)}
  /\ code' = Silence <=> Others(table, copy) = table

\* The update of a row that was shown does what EditLands says.
LEMMA CopyLands ==
  ASSUME NEW copy, SeenRow(copy), NEW doc, doc = Document(copy), Update(doc)
  PROVE  Landed(copy)
<1>1. /\ Given(doc, Column) = Column /\ Given(doc, KeyColumn) = KeyColumn
      /\ \A c \in Column : doc[c] # Absent
      /\ \A c \in KeyColumn : SqlValue(c, doc[c]) = copy[c]
      /\ \A r : Shown(Renewed(doc, r)) = copy
  BY RenewedShown
<1>2. UpdateColumns(doc) = KeyColumn
  BY <1>1 DEF UpdateColumns
<1>3. PICK set, hits : /\ set = UpdateSet(doc)
                       /\ hits = {r \in table : Where(doc, UpdateColumns(doc), r)}
  OBVIOUS
<1>4. PICK others : others = Others(table, copy)
  OBVIOUS
<1>5. hits = table \ others
  <2>1. ASSUME NEW r PROVE Where(doc, UpdateColumns(doc), r) <=> KeyOf(r) = KeyOf(copy)
    <3>1. Where(doc, UpdateColumns(doc), r) <=> \A c \in KeyColumn : r[c] = copy[c]
      BY <1>1, <1>2 DEF Where
    <3>2. KeyOf(r) = KeyOf(copy) <=> \A c \in KeyColumn : r[c] = copy[c]
      BY DEF KeyOf
    <3>3. QED
      BY <3>1, <3>2
  <2>2. QED
    BY <1>3, <1>4, <2>1 DEF Others
<1>6. DOMAIN set = Column
  BY <1>1, <1>3 DEF UpdateSet
<1>7. KeyColumn # {} /\ KeyColumn \subseteq Column /\ Key[1] \in Column
  BY Keys
<1>8. ~Lacks(doc)
  BY <1>1, <1>7 DEF Lacks
<1>9. DOMAIN set # {} /\ UpdateColumns(doc) # {} /\ doc[Key[1]] # Absent
  BY <1>1, <1>2, <1>6, <1>7
<1>10. \A r : [c \in Column |-> IF c \in DOMAIN set THEN set[c] ELSE r[c]] = Renewed(doc, r)
  BY <1>3 DEF Renewed
<1>11. IF hits = {} THEN code' = Silence /\ table' = table
       ELSE /\ code' # Silence
            /\ table' = (table \ hits) \cup {Renewed(doc, r) : r \in hits}
  <2>1. CASE hits = {}
    BY <1>3, <1>9, <2>1 DEF Update
  <2>2. CASE hits # {}
    <3>1. /\ code' = Echo
          /\ table' = (table \ hits) \cup
               {[c \in Column |-> IF c \in DOMAIN set THEN set[c] ELSE r[c]] : r \in hits}
      BY <1>3, <1>8, <1>9, <2>2 DEF Update
    <3>2. QED
      BY <1>10, <2>2, <3>1 DEF Echo, Silence
  <2>3. QED
    BY <2>1, <2>2
<1>12. others \subseteq table /\ \A r \in others : KeyOf(r) # KeyOf(copy)
  BY <1>4 DEF Others
<1>13. \A r \in table \ others : KeyOf(r) = KeyOf(copy)
  BY <1>4 DEF Others
<1>14. CASE hits = {}
  <2>1. others = table /\ table' = table /\ code' = Silence
    BY <1>5, <1>11, <1>12, <1>14
  <2>2. QED
    BY <1>4, <2>1 DEF Landed
<1>15. CASE hits # {}
  <2>1. code' # Silence /\ table' = others \cup {Renewed(doc, r) : r \in hits} /\ others # table
    BY <1>5, <1>11, <1>12, <1>15
  <2>2. \A r \in hits : KeyOf(Renewed(doc, r)) = KeyOf(copy)
    <3>1. \A r \in hits : KeyOf(Renewed(doc, r)) = KeyOf(r)
      BY <1>3, HitKeepsKey
    <3>2. QED
      BY <1>5, <1>13, <3>1
  <2>3. Others(table', copy) = others
    BY <1>12, <2>1, <2>2 DEF Others
  <2>4. table' \ others = {Renewed(doc, r) : r \in hits}
    BY <1>12, <2>1, <2>2
  <2>5. {Shown(r) : r \in table' \ others} = {copy : r \in hits}
    BY <1>1, <2>4
  <2>6. QED
    BY <1>4, <1>5, <2>1, <2>3, <2>5 DEF Landed
<1>16. QED
  BY <1>14, <1>15

\* EditLands: a row that is sent back as it was shown, with one column edited, is
\* shown like that from then on, NULLs included, and no other row changes; a row
\* that has been deleted in the meantime stays so and the client gets no answer.
THEOREM EditsLand == Spec => EditLands
<1>1. IInv /\ [Next]_vars =>
        [\A copy \in IF Handled("PUT") THEN request.copy ELSE {} : Landed(copy)]_vars
  <2> SUFFICES ASSUME IInv, [Next]_vars, Handled("PUT"), NEW copy \in request.copy
               PROVE  Landed(copy)
    OBVIOUS
  <2>1. Handle /\ Basics /\ WellSent(request) /\ request.method = "PUT"
    BY HandledIs
  <2>2. SeenRow(copy) /\ request.docs[1] = Document(copy)
    BY <2>1 DEF WellSent
  <2>3. Update(request.docs[1])
    BY <2>1, Served
  <2>4. QED
    BY <2>2, <2>3, CopyLands
<1>2. QED
  BY <1>1, Invariant, PTL DEF Spec, EditLands, Landed, Others

----------------------------------------------------------------------------
(* What a DELETE removes                                                    *)

TextKeys == {c \in KeyColumn : Type[c] = "C"}
NoNullKey(rows) == \A r \in rows, c \in TextKeys : r[c] # "(null)"

\* A column of the key is a number or a text.
LEMMA KeyTypes == \A c \in KeyColumn : Type[c] = "I" \/ c \in TextKeys
  BY Keys DEF TextKeys

\* The request that waits does not bring a row with such a key.
LEMMA NamesKept ==
  ASSUME KeysAreNames, IInv, NoNullKey(table), [Next]_vars
  PROVE  NoNullKey(table')
<1>1. CASE table' = table
  BY <1>1
<1>2. CASE table' # table
  <2>1. Handle
    <3>1. ~(OpenList \/ NextPage \/ CloseList)
      BY <1>2 DEF OpenList, NextPage, CloseList
    <3>2. ~(SendAny \/ SendGet \/ SendMany \/ SendEdit \/ SendDelete)
      BY <1>2 DEF SendAny, SendGet, SendMany, SendEdit, SendDelete, Send
    <3>3. QED
      BY <1>2, <3>1, <3>2 DEF Next, vars
  <2>2. Basics /\ Stored(table) /\ gen \in Generations
    BY DEF IInv, Basics
  <2>3. WellSent(request)
    BY <2>1, <2>2, Served
  <2>4. CASE request.method = "GET"
    BY <1>2, <2>1, <2>2, <2>4, Served
  <2>5. CASE request.method = "POST"
    <3>1. PICK doc \in Documents : doc = request.docs[1] /\ Insert(doc)
      BY <2>1, <2>2, <2>3, <2>5, Served DEF WellSent
    <3>2. DocOK(doc)
      BY DocumentsSay
    <3>3. table' = table \cup {RowOf(doc)}
      BY <1>2, <2>2, <3>1, <3>2, Inserted
    <3>4. ASSUME NEW c \in TextKeys PROVE RowOf(doc)[c] # "(null)"
      <4>1. doc[c][1] = "str" => doc[c][2] # "(null)"
        BY DEF KeysAreNames, TextKeys
      <4>2. c \in Column /\ Type[c] = "C"
        BY Keys DEF TextKeys
      <4>3. RowOf(doc)[c] = IF doc[c][1] = "str" THEN doc[c][2] ELSE Empty
        BY <4>2 DEF RowOf
      <4>4. Empty # "(null)"
        BY Zenon DEF Empty
      <4>5. QED
        BY <4>1, <4>3, <4>4
    <3>5. QED
      BY <3>3, <3>4 DEF NoNullKey
  <2>6. CASE request.method = "PUT"
    <3>1. DocOK(request.docs[1]) /\ Update(request.docs[1])
      BY <2>1, <2>2, <2>3, <2>6, Served DEF WellSent
    <3>2. PICK g : Replaced(g, table, table')
      BY <1>2, <2>2, <3>1, Updated
    <3>3. ASSUME NEW r \in table, NEW c \in TextKeys PROVE g[r][c] # "(null)"
      <4>1. KeyOf(g[r]) = KeyOf(r)
        BY <3>2 DEF Replaced
      <4>2. g[r][c] = r[c]
        BY <4>1 DEF KeyOf, TextKeys
      <4>3. QED
        BY <4>2 DEF NoNullKey
    <3>4. QED
      BY <3>2, <3>3 DEF Replaced, NoNullKey
  <2>7. CASE request.method = "DELETE"
    <3>1. DeleteOne(request.docs[1]) \/ DeleteMany(request.docs)
      BY <2>1, <2>2, <2>7, Served
    <3>2. table' \subseteq table
      BY <2>2, <3>1, DeletedLess
    <3>3. QED
      BY <3>2 DEF NoNullKey
  <2>8. QED
    BY <2>3, <2>4, <2>5, <2>6, <2>7 DEF WellSent, Methods
<1>3. QED
  BY <1>1, <1>2

\* What DeleteExact calls named and plain.
Named(d) == \A c \in KeyColumn : d[c] # Absent /\ (gen = "new" => d[c] # Nothing)
Plain(d) == Named(d) /\ \A c \in KeyColumn : d[c][1] = "str" \/ Type[c] = "I"

\* A document removes the row whose key it names as POST would write it.
LEMMA DeletedIs ==
  ASSUME NoNullKey(table), NEW d
  PROVE  Deleted(d) = {r \in table : Plain(d) /\ KeyOf(r) = KeyOf(RowOf(d))}
<1>1. Refuses(d) <=> ~Named(d)
  BY DEF Refuses, DeleteColumns, Named
<1>2. CASE ~Named(d)
  BY <1>1, <1>2 DEF Deleted, Plain
<1>3. CASE Named(d) /\ ~Plain(d)
  <2>1. PICK c \in KeyColumn : d[c][1] # "str" /\ Type[c] # "I"
    BY <1>3 DEF Plain
  <2>2. c \in TextKeys /\ SqlValue(c, d[c]) = "(null)"
    BY <2>1, KeyTypes DEF SqlValue
  <2>3. \A r \in table : r[c] # SqlValue(c, d[c])
    BY <2>2 DEF NoNullKey
  <2>4. \A r \in table : ~Where(d, DeleteColumns(d), r)
    BY <2>3 DEF Where, DeleteColumns
  <2>5. QED
    BY <1>3, <2>4 DEF Deleted
<1>4. CASE Plain(d)
  <2>1. ASSUME NEW c \in KeyColumn PROVE SqlValue(c, d[c]) = RowOf(d)[c]
    <3>1. PICK v : v = d[c]
      OBVIOUS
    <3>2. c \in Column /\ Type[c] \in {"C", "I"} /\ (v[1] = "str" \/ Type[c] = "I")
      BY <1>4, <3>1, Keys DEF Plain
    <3>3. PICK text : text = IF v[1] = "str" THEN v[2] ELSE Empty
      OBVIOUS
    <3>4. RowOf(d)[c] = CASE Type[c] = "I" -> IF v[1] = "num" THEN v[2] ELSE Atoi(text)
                          [] Type[c] = "T" -> IF text = Empty THEN Null ELSE text
                          [] Type[c] = "C" -> text
      BY <3>1, <3>2, <3>3 DEF RowOf
    <3>5. CASE Type[c] = "I"
      <4>1. SqlValue(c, v) = CASE v[1] = "num" -> v[2] [] v[1] = "str" -> Atoi(v[2]) [] OTHER -> 0
        BY <3>5 DEF SqlValue
      <4>2. RowOf(d)[c] = IF v[1] = "num" THEN v[2] ELSE Atoi(text)
        BY <3>4, <3>5
      <4>3. QED
        BY <3>1, <3>3, <4>1, <4>2, AtoiIs
    <3>6. CASE Type[c] = "C"
      <4>1. SqlValue(c, v) = v[2] /\ text = v[2]
        BY <3>2, <3>3, <3>6 DEF SqlValue
      <4>2. QED
        BY <3>1, <3>4, <3>6, <4>1
    <3>7. QED
      BY <3>2, <3>5, <3>6
  <2>2. ASSUME NEW r PROVE Where(d, DeleteColumns(d), r) <=> KeyOf(r) = KeyOf(RowOf(d))
    <3>1. Where(d, DeleteColumns(d), r) <=> \A c \in KeyColumn : r[c] = RowOf(d)[c]
      BY <2>1 DEF Where, DeleteColumns
    <3>2. KeyOf(r) = KeyOf(RowOf(d)) <=> \A c \in KeyColumn : r[c] = RowOf(d)[c]
      BY DEF KeyOf
    <3>3. QED
      BY <3>1, <3>2
  <2>3. Named(d)
    BY <1>4 DEF Plain
  <2>4. QED
    BY <1>1, <1>4, <2>2, <2>3 DEF Deleted
<1>5. QED
  BY <1>2, <1>3, <1>4 DEF Plain

Exact(docs) == table' = {r \in table : KeyOf(r) \notin {KeyOf(RowOf(d)) : d \in {e \in ToSet(docs) : Plain(e)}}}

\* The buffer of an old handler was overrun.
Spared == gen = "old" /\ code' = Silence /\ table' = table

\* A DELETE removes the rows that its documents name.
LEMMA DeletesExactly ==
  ASSUME gen \in Generations, NoNullKey(table), NEW docs,
         DOMAIN docs = 1..Len(docs), Len(docs) \in Nat,
         (Len(docs) = 1 /\ DeleteOne(docs[1])) \/ (Len(docs) > 1 /\ DeleteMany(docs))
  PROVE  Exact(docs) \/ Spared
<1>1. Spared \/ table' = table \ UNION {Deleted(docs[i]) : i \in DOMAIN docs}
  <2>1. CASE Len(docs) = 1 /\ DeleteOne(docs[1])
    <3>1. DOMAIN docs = {1}
      BY <2>1
    <3>2. Spared \/ table' = table \ Deleted(docs[1])
      BY <2>1 DEF DeleteOne, Harmed, Spared
    <3>3. QED
      BY <3>1, <3>2
  <2>2. CASE DeleteMany(docs)
    BY <2>2 DEF DeleteMany
  <2>3. QED
    BY <2>1, <2>2
<1>2. SUFFICES ASSUME table' = table \ UNION {Deleted(docs[i]) : i \in DOMAIN docs}
               PROVE  Exact(docs)
  BY <1>1
<1>3. ToSet(docs) = {docs[i] : i \in DOMAIN docs}
  BY DEF ToSet
<1>4. ASSUME NEW r \in table
      PROVE  r \in table' <=> \A d \in ToSet(docs) : r \notin Deleted(d)
  BY <1>2, <1>3
<1>5. ASSUME NEW r \in table, NEW d PROVE r \in Deleted(d) <=> Plain(d) /\ KeyOf(r) = KeyOf(RowOf(d))
  BY DeletedIs
<1>6. ASSUME NEW r \in table
      PROVE  r \in table' <=> KeyOf(r) \notin {KeyOf(RowOf(d)) : d \in {e \in ToSet(docs) : Plain(e)}}
  BY <1>4, <1>5
<1>7. table' \subseteq table
  BY <1>2
<1>8. QED
  BY <1>6, <1>7 DEF Exact

\* DeleteExact, when no key has the text that is written for a null pointer: a
\* DELETE removes the rows whose whole key one of its documents names and no
\* other row, or none at all where an old handler overruns its buffer.
THEOREM DeletesAreExact ==
  ASSUME KeysAreNames
  PROVE  Spec => DeleteExact
<1>1. Init => NoNullKey(table)
  <2> SUFFICES ASSUME Init, NEW r \in table, NEW c \in TextKeys PROVE r[c] # "(null)"
    BY DEF NoNullKey
  <2>1. PICK rows \in InitTables : table = {Restrict(s, Column) : s \in rows}
    BY DEF Init
  <2>2. PICK s \in rows : r = Restrict(s, Column)
    BY <2>1
  <2>3. c \in Column /\ r[c] = s[c]
    BY <2>2, Keys DEF TextKeys, Restrict
  <2>4. s[c] # "(null)"
    BY DEF KeysAreNames, TextKeys
  <2>5. QED
    BY <2>3, <2>4
<1>2. IInv /\ NoNullKey(table) /\ [Next]_vars => NoNullKey(table)'
  <2> SUFFICES ASSUME IInv, NoNullKey(table), [Next]_vars PROVE NoNullKey(table)'
    OBVIOUS
  <2>1. NoNullKey(table')
    BY NamesKept
  <2>2. QED
    BY <2>1 DEF NoNullKey
<1>3. IInv /\ NoNullKey(table) /\ [Next]_vars =>
        [Handled("DELETE") =>
           LET named == {d \in ToSet(request.docs) : \A c \in KeyColumn :
                           d[c] # Absent /\ (gen = "new" => d[c] # Nothing)}
               plain == {d \in named : \A c \in KeyColumn : d[c][1] = "str" \/ Type[c] = "I"}
           IN \/ table' = {r \in table : KeyOf(r) \notin {KeyOf(RowOf(d)) : d \in plain}}
              \/ gen = "old" /\ code' = Silence /\ table' = table]_vars
  <2> SUFFICES ASSUME IInv, NoNullKey(table), [Next]_vars, Handled("DELETE")
               PROVE  LET named == {d \in ToSet(request.docs) : \A c \in KeyColumn :
                                      d[c] # Absent /\ (gen = "new" => d[c] # Nothing)}
                          plain == {d \in named : \A c \in KeyColumn : d[c][1] = "str" \/ Type[c] = "I"}
                      IN \/ table' = {r \in table : KeyOf(r) \notin {KeyOf(RowOf(d)) : d \in plain}}
                         \/ gen = "old" /\ code' = Silence /\ table' = table
    OBVIOUS
  <2>1. Handle /\ Basics /\ WellSent(request) /\ request.method = "DELETE"
    BY HandledIs
  <2>2. PICK docs : docs = request.docs
    OBVIOUS
  <2>3. (Len(docs) = 1 /\ DeleteOne(docs[1])) \/ (Len(docs) > 1 /\ DeleteMany(docs))
    BY <2>1, <2>2, Served
  <2>4. DOMAIN docs = 1..Len(docs) /\ Len(docs) \in Nat /\ gen \in Generations
    BY <2>1, <2>2 DEF WellSent, Basics
  <2>5. Exact(docs) \/ Spared
    BY <2>3, <2>4, DeletesExactly
  <2>6. {e \in ToSet(docs) : Plain(e)} =
          {d \in {x \in ToSet(docs) : \A c \in KeyColumn :
                    x[c] # Absent /\ (gen = "new" => x[c] # Nothing)} :
             \A c \in KeyColumn : d[c][1] = "str" \/ Type[c] = "I"}
    BY DEF Plain, Named
  <2>7. QED
    BY <2>2, <2>5, <2>6 DEF Exact, Spared
<1>4. QED
  BY <1>1, <1>2, <1>3, Invariant, PTL DEF Spec, DeleteExact
=============================================================================
