---------------------------- MODULE SessionProofs ----------------------------
(***************************************************************************)
(* Proofs about the sessions, for any number of workers, logins and keys,  *)
(* any life of a session, and whatever fails.  The inductive invariant     *)
(* says of each worker how far its request has come (Working), of each     *)
(* token whether its SET is still to come (Tokens), and of each session    *)
(* that its age and the rest of its time make up its life (Ages).          *)
(***************************************************************************)
EXTENDS Session, TLAPS

Cur ==
  [pc : {"idle", "set", "get", "expire", "scan", "more", "fetch", "del", "reply"},
   op : Op, tok : Key, arg : Key \cup User \cup {Nobody}, keys : Seq(Token),
   got : Nat, rows : SUBSET Token, through : SUBSET Token, erred : BOOLEAN]

Types ==
  /\ redis \in [Key -> Nat]
  /\ redis[Bare] = 0
  /\ work \in [Worker -> Cur]
  /\ linked \in [Worker -> BOOLEAN]
  /\ issued \in 0..Len(Logins)
  /\ known \subseteq 1..issued
  /\ fate \in [Token -> {"none", "live", "unsaved", "ended"}]
  /\ age \in [Token -> Nat]
  /\ faults \in 0..MaxFaults
  /\ Live = {t \in Token : fate[t] = "live"}

\* The keys found are those counted, until the values are read.
Early(cur) == cur.keys = <<>> /\ cur.got = 0 /\ cur.rows = {} /\ ~cur.erred

\* A list that is not cut has, or has still to read, what it has to show.
Covers(cur) ==
  ~cur.erred /\ cur.got <= MaxRows
    => {t \in cur.through : Matches(t, cur.arg)} \subseteq cur.rows \cup ToSet(cur.keys)

Working(cur, live) ==
  /\ cur.through \subseteq live
  /\ cur.got <= MaxKeys
  /\ Len(cur.keys) <= cur.got
  /\ cur.pc \in {"idle", "set", "get", "expire", "scan", "del"} => Early(cur)
  /\ cur.pc = "more" => cur.got = Len(cur.keys) /\ cur.got < MaxKeys /\ ~cur.erred
  /\ cur.pc \in {"get", "expire", "scan", "more", "fetch", "del"} => cur.op # "login"
  /\ cur.pc \in {"fetch", "reply"} /\ cur.op # "login" => Covers(cur)
  /\ cur.pc = "reply" => cur.keys = <<>>

Tokens ==
  /\ \A t \in Token : t > issued => fate[t] = "none"
  /\ \A w \in Worker :
       At(w, "set") => work[w].tok \in 1..issued /\ fate[work[w].tok] = "none"
  /\ \A v, w \in Worker :
       At(v, "set") /\ At(w, "set") /\ work[v].tok = work[w].tok => v = w
  /\ \A w \in Worker :
       At(w, "reply") /\ work[w].op = "login" =>
         work[w].tok \in 1..issued /\ fate[work[w].tok] # "none"
  /\ TokenBacked

Ages ==
  \A t \in Token : /\ redis[t] > 0 => age[t] + redis[t] = Life
                   /\ redis[t] = 0 => age[t] = 0

IInv ==
  /\ Types
  /\ \A w \in Worker : Working(work[w], Live)
  /\ Tokens
  /\ Ages

----------------------------------------------------------------------------
(* Constants and records *)

LEMMA Constants ==
  /\ Len(Logins) \in Nat /\ Token = 1..Len(Logins)
  /\ Bare \notin Token /\ Key = Token \cup {Bare}
  /\ Life \in Nat \ {0} /\ MaxFaults \in Nat
  /\ MaxRows \in Nat \ {0} /\ MaxKeys \in Nat /\ MaxRows < MaxKeys
<1>1. Logins \in Seq(User)
  BY SessionAssumption
<1>2. Len(Logins) \in Nat /\ Token = 1..Len(Logins)
  BY <1>1 DEF Token
<1>3. QED
  BY <1>2, SessionAssumption DEF Key, Bare

\* A worker without a request.
LEMMA NoWorkIs ==
  /\ NoWork \in Cur
  /\ NoWork.pc = "idle" /\ NoWork.op = "other" /\ NoWork.through = {}
  /\ Early(NoWork)
<1>1. Bare \in Key /\ Nobody \in Key \cup User \cup {Nobody} /\ <<>> \in Seq(Token)
  BY Constants
<1>2. QED
  BY <1>1 DEF NoWork, Cur, Op, Early

\* Nothing is asked of a worker without a request.
LEMMA NoWorkWorks == ASSUME NEW live PROVE Working(NoWork, live)
<1>1. Len(NoWork.keys) = 0
  BY NoWorkIs DEF Early
<1>2. QED
  BY <1>1, NoWorkIs, Constants DEF Working, Early

\* What a worker knows stays true when sessions begin.
LEMMA Grows ==
  ASSUME NEW cur, NEW live, NEW more, live \subseteq more, Working(cur, live)
  PROVE  Working(cur, more)
BY DEF Working

\* It stays true when sessions end: a list owes them no more.
LEMMA Shrinks ==
  ASSUME NEW cur \in Cur, NEW live, NEW gone, Working(cur, live)
  PROVE  /\ Without(cur, gone) \in Cur
         /\ Without(cur, gone).pc = cur.pc /\ Without(cur, gone).op = cur.op
         /\ Without(cur, gone).tok = cur.tok
         /\ Working(Without(cur, gone), live \ gone)
<1> DEFINE c == Without(cur, gone)
<1>1. /\ c \in Cur /\ c.pc = cur.pc /\ c.op = cur.op /\ c.tok = cur.tok /\ c.arg = cur.arg
      /\ c.keys = cur.keys /\ c.got = cur.got /\ c.rows = cur.rows /\ c.erred = cur.erred
      /\ c.through = cur.through \ gone
  BY DEF Without, Cur
<1> HIDE DEF c
<1>2. Early(cur) => Early(c)
  BY <1>1 DEF Early
<1>3. Covers(cur) => Covers(c)
  <2>1. {t \in c.through : Matches(t, c.arg)} \subseteq {t \in cur.through : Matches(t, cur.arg)}
    BY <1>1
  <2>2. QED
    BY <1>1, <2>1 DEF Covers
<1>4. Working(c, live \ gone)
  BY <1>1, <1>2, <1>3 DEF Working
<1>5. QED
  BY <1>1, <1>4 DEF c

----------------------------------------------------------------------------
(* Steps of one worker that touch no session *)

\* Such a step keeps the invariant when it leaves the worker with what it knows,
\* neither about to store a session nor to report one.
LEMMA Quiet ==
  ASSUME IInv, NEW w \in Worker, NEW c \in Cur,
         work' = [work EXCEPT ![w] = c], Working(c, Live),
         c.pc # "set", c.pc = "reply" => c.op # "login",
         UNCHANGED <<redis, issued, known, fate, age>>,
         linked' \in [Worker -> BOOLEAN], faults' \in 0..MaxFaults
  PROVE  IInv'
<1>1. Live' = Live
  BY DEF Live
<1>2. \A v \in Worker : work'[v] = IF v = w THEN c ELSE work[v]
  BY DEF IInv, Types
<1>3. Types'
  BY <1>1 DEF IInv, Types
<1>4. \A v \in Worker : Working(work[v], Live)'
  <2> SUFFICES ASSUME NEW v \in Worker PROVE Working(work'[v], Live')
    OBVIOUS
  <2>1. Working(work[v], Live)
    BY DEF IInv
  <2>2. CASE v = w
    BY <1>1, <1>2, <2>2
  <2>3. CASE v # w
    BY <1>1, <1>2, <2>1, <2>3
  <2>4. QED
    BY <2>2, <2>3
<1>5. Tokens'
  BY <1>2 DEF IInv, Tokens, TokenBacked, At
<1>6. Ages'
  BY DEF IInv, Ages
<1>7. QED
  BY <1>3, <1>4, <1>5, <1>6 DEF IInv

\* A request that is done with its token, accepted or not.
LEMMA Goes ==
  ASSUME NEW cur \in Cur, NEW live, Working(cur, live), cur.pc \in {"get", "expire"},
         NEW c, c = Accepted(cur) \/ c = Refused(cur)
  PROVE  c \in Cur /\ Working(c, live) /\ c.pc \in {"idle", "scan", "del"}
<1>1. Early(cur) /\ cur.op # "login" /\ cur.through \subseteq live
  BY DEF Working
<1>2. Bare \in Key
  BY Constants
<1>3. CASE c = NoWork
  BY <1>3, NoWorkIs, NoWorkWorks
<1>4. CASE c \in {[cur EXCEPT !.pc = "scan", !.tok = Bare], [cur EXCEPT !.pc = "del", !.tok = Bare]}
  <2>1. PICK p \in {"scan", "del"} : c = [cur EXCEPT !.pc = p, !.tok = Bare]
    BY <1>4
  <2>2. c \in Cur
    BY <1>2, <2>1 DEF Cur
  <2>3. /\ c.pc = p /\ c.op = cur.op /\ c.keys = cur.keys
        /\ c.got = cur.got /\ c.rows = cur.rows /\ c.erred = cur.erred /\ c.through = cur.through
    BY <2>1 DEF Cur
  <2>4. QED
    BY <1>1, <2>2, <2>3 DEF Working, Early
<1>5. QED
  BY <1>3, <1>4 DEF Accepted, Refused

\* A worker takes a request.
LEMMA BeginKeeps ==
  ASSUME IInv, NEW w \in Worker, Ask(w)
  PROVE  IInv'
<1>1. PICK op \in {"other", "keys", "online", "kick"}, t \in known, arg \in Key \cup User \cup {Nobody} :
        Begin(w, op, t, arg)
  <2>1. 1..issued \subseteq Key
    BY Constants DEF IInv, Types
  <2>2. PICK t \in known : \/ \E op \in {"other", "keys"} : Begin(w, op, t, Nobody)
                          \/ \E u \in User \cup {Nobody} : Begin(w, "online", t, u)
                          \/ \E k \in 1..issued : Begin(w, "kick", t, k)
    BY Zenon DEF Ask
  <2>3. CASE \E op \in {"other", "keys"} : Begin(w, op, t, Nobody)
    BY <2>3, Zenon
  <2>4. CASE \E u \in User \cup {Nobody} : Begin(w, "online", t, u)
    BY <2>4, Zenon
  <2>5. CASE \E k \in 1..issued : Begin(w, "kick", t, k)
    BY <2>1, <2>5, Zenon
  <2>6. QED
    BY <2>2, <2>3, <2>4, <2>5
<1> DEFINE c == [NoWork EXCEPT !.pc = "get", !.op = op, !.tok = t, !.arg = arg]
<1>2. t \in Key
  BY Constants DEF IInv, Types
<1>3. /\ c \in Cur /\ c.pc = "get" /\ c.op # "login"
      /\ c.keys = <<>> /\ c.got = 0 /\ c.rows = {} /\ ~c.erred /\ c.through = {}
  BY <1>2, NoWorkIs DEF NoWork, Cur, Early, Op
<1>4. work' = [work EXCEPT ![w] = c] /\ UNCHANGED <<redis, linked, issued, known, fate, age, faults>>
  BY <1>1 DEF Begin, Becomes
<1> HIDE DEF c
<1>5. Working(c, Live)
  <2>1. Len(c.keys) = 0
    BY <1>3
  <2>2. QED
    BY <1>3, <2>1, Constants DEF Working, Early
<1>6. QED
  BY <1>3, <1>4, <1>5, Quiet DEF IInv, Types

\* The answer to GET decides whether the session is valid.
LEMMA ValidateGetKeeps ==
  ASSUME IInv, NEW w \in Worker, ValidateGet(w)
  PROVE  IInv'
<1> DEFINE cur == work[w]
<1>1. cur \in Cur /\ Working(cur, Live) /\ cur.pc = "get"
  BY DEF IInv, Types, ValidateGet, At
<1>2. PICK c : /\ work' = [work EXCEPT ![w] = c]
               /\ c = [cur EXCEPT !.pc = "expire"] \/ c = Refused(cur) \/ c = Accepted(cur)
               /\ UNCHANGED <<redis, linked, issued, known, fate, age>>
               /\ faults' = faults \/ Fault
  BY DEF ValidateGet, Becomes
<1>3. c \in Cur /\ Working(c, Live) /\ c.pc \notin {"set", "reply"}
  <2>1. CASE c = [cur EXCEPT !.pc = "expire"]
    <3>1. /\ c \in Cur /\ c.pc = "expire" /\ c.op = cur.op /\ c.keys = cur.keys
          /\ c.got = cur.got /\ c.rows = cur.rows /\ c.erred = cur.erred /\ c.through = cur.through
      BY <1>1, <2>1 DEF Cur
    <3>2. QED
      BY <1>1, <3>1 DEF Working, Early
  <2>2. CASE c = Refused(cur) \/ c = Accepted(cur)
    BY <1>1, <2>2, Goes
  <2>3. QED
    BY <1>2, <2>1, <2>2
<1>4. faults' \in 0..MaxFaults
  BY <1>2, Constants DEF Fault, IInv, Types
<1>5. QED
  BY <1>2, <1>3, <1>4, Quiet DEF IInv, Types

\* EXPIRE prolongs the bare key, never a session.
LEMMA ValidateExpireKeeps ==
  ASSUME IInv, NEW w \in Worker, ValidateExpire(w)
  PROVE  IInv'
<1> DEFINE cur == work[w]
           c == Accepted(cur)
<1>1. cur \in Cur /\ Working(cur, Live) /\ cur.pc = "expire"
  BY DEF IInv, Types, ValidateExpire, At
<1>2. c \in Cur /\ Working(c, Live) /\ c.pc \notin {"set", "reply"}
  BY <1>1, Goes

\* The key without a uuid names no session.
<1>3. redis' = redis
  BY DEF ValidateExpire, Refreshed, RefreshedKey, IInv, Types
<1>4. work' = [work EXCEPT ![w] = c] /\ UNCHANGED <<linked, issued, known, fate, age, faults>>
  BY DEF ValidateExpire, Becomes
<1>5. QED
  BY <1>2, <1>3, <1>4, Quiet DEF IInv, Types

----------------------------------------------------------------------------
(* The list *)

LEMMA ScanFirstKeeps ==
  ASSUME IInv, NEW w \in Worker, ScanFirst(w)
  PROVE  IInv'
<1> DEFINE cur == work[w]
           c == [cur EXCEPT !.pc = "more", !.through = Live]
<1>1. cur \in Cur /\ Working(cur, Live) /\ cur.pc = "scan"
  BY DEF IInv, Types, ScanFirst, At
<1>2. Live \subseteq Token
  BY DEF Live
<1>3. /\ c \in Cur /\ c.pc = "more" /\ c.op = cur.op /\ c.keys = cur.keys
      /\ c.got = cur.got /\ c.rows = cur.rows /\ c.erred = cur.erred /\ c.through = Live
  BY <1>1, <1>2 DEF Cur
<1>4. work' = [work EXCEPT ![w] = c] /\ UNCHANGED <<redis, linked, issued, known, fate, age, faults>>
  BY DEF ScanFirst, Becomes
<1> HIDE DEF c
<1>5. Working(c, Live)
  <2>1. Len(cur.keys) = 0 /\ cur.got = 0 /\ ~cur.erred
    BY <1>1 DEF Working, Early
  <2>2. QED
    BY <1>1, <1>3, <2>1, Constants DEF Working
<1>6. QED
  BY <1>3, <1>4, <1>5, Quiet DEF IInv, Types

\* SCAN returns a key, which is owed no longer.
LEMMA ScanKeyKeeps ==
  ASSUME IInv, NEW w \in Worker, NEW t \in Token, ScanKey(w, t)
  PROVE  IInv'
<1> DEFINE cur == work[w]
           more == [cur EXCEPT !.keys = Append(@, t), !.got = @ + 1]
           c == IF HasRoom(more) THEN more ELSE [more EXCEPT !.pc = "fetch"]
<1>1. cur \in Cur /\ Working(cur, Live) /\ cur.pc = "more"
  BY DEF IInv, Types, ScanKey, At
<1>2. /\ more \in Cur /\ more.pc = "more" /\ more.op = cur.op /\ more.keys = Append(cur.keys, t)
      /\ more.got = cur.got + 1 /\ more.erred = cur.erred /\ more.through = cur.through
  <2>1. cur.keys \in Seq(Token) /\ cur.got \in Nat
    BY <1>1 DEF Cur
  <2>2. Append(cur.keys, t) \in Seq(Token) /\ cur.got + 1 \in Nat
    BY <2>1
  <2>3. QED
    BY <1>1, <2>2 DEF Cur
<1>3. work' = [work EXCEPT ![w] = c] /\ UNCHANGED <<redis, linked, issued, known, fate, age, faults>>
  BY DEF ScanKey, Becomes
<1>4. Len(more.keys) = Len(cur.keys) + 1 /\ Len(cur.keys) \in Nat /\ cur.got \in Nat
  BY <1>1, <1>2 DEF Cur
<1> HIDE DEF more
<1>5. c \in Cur /\ Working(c, Live) /\ c.pc \in {"more", "fetch"}
  <2>1. CASE HasRoom(more)
    <3>1. c = more
      BY <2>1
    <3> HIDE DEF c
    <3>2. more.got < MaxKeys
      BY <2>1 DEF HasRoom
    <3>3. Len(more.keys) = more.got /\ more.got <= MaxKeys /\ ~more.erred /\ more.op # "login"
      BY <1>1, <1>2, <1>4, <3>2, Constants DEF Working
    <3>4. more.through \subseteq Live
      BY <1>1, <1>2 DEF Working
    <3>5. Working(more, Live)
      BY <1>2, <1>4, <3>2, <3>3, <3>4 DEF Working
    <3>6. QED
      BY <1>2, <3>1, <3>5

\* The list is full: it is cut, and nothing is promised of it.
  <2>2. CASE ~HasRoom(more)
    <3>1. /\ c \in Cur /\ c.pc = "fetch" /\ c.op = more.op /\ c.keys = more.keys
          /\ c.got = more.got /\ c.erred = more.erred /\ c.through = more.through
      BY <1>2, <2>2 DEF Cur
    <3> HIDE DEF c
    <3>2. ~(more.got < MaxKeys) /\ cur.got < MaxKeys
      BY <1>1, <2>2 DEF Working, HasRoom
    <3>3. c.got = MaxKeys
      BY <1>2, <1>4, <3>1, <3>2, Constants
    <3>4. Covers(c)
      BY <3>3, Constants DEF Covers
    <3>5. QED
      BY <1>1, <1>2, <1>4, <3>1, <3>3, <3>4, Constants DEF Working
  <2>3. QED
    BY <2>1, <2>2
<1> HIDE DEF c
<1>6. QED
  BY <1>3, <1>5, Quiet DEF IInv, Types

\* SCAN has returned all it owes.
LEMMA ScanEndKeeps ==
  ASSUME IInv, NEW w \in Worker, ScanEnd(w)
  PROVE  IInv'
<1> DEFINE cur == work[w]
           fetch == [cur EXCEPT !.pc = "fetch"]
<1>1. cur \in Cur /\ Working(cur, Live) /\ cur.pc \in {"scan", "more"}
  BY DEF IInv, Types, ScanEnd, At
<1>2. PICK c : /\ work' = [work EXCEPT ![w] = c]
               /\ (c = fetch /\ Exhausted(fetch)) \/ c = [fetch EXCEPT !.erred = TRUE]
               /\ UNCHANGED <<redis, linked, issued, known, fate, age>>
               /\ faults' = faults \/ Fault
  BY DEF ScanEnd, Becomes, Done, NotDone
<1>3. /\ c \in Cur /\ c.pc = "fetch" /\ c.op = cur.op /\ c.keys = cur.keys /\ c.got = cur.got
      /\ c.rows = cur.rows /\ c.through = cur.through
      /\ c.through \subseteq ToSet(c.keys) \/ c.erred
  <2>0. /\ fetch \in Cur /\ fetch.pc = "fetch" /\ fetch.op = cur.op /\ fetch.keys = cur.keys
        /\ fetch.got = cur.got /\ fetch.rows = cur.rows /\ fetch.through = cur.through
    BY <1>1 DEF Cur
  <2> HIDE DEF fetch
  <2>1. CASE c = fetch /\ Exhausted(fetch)
    BY <2>0, <2>1 DEF Exhausted
  <2>2. CASE c = [fetch EXCEPT !.erred = TRUE]
    BY <2>0, <2>2 DEF Cur
  <2>3. QED
    BY <1>2, <2>1, <2>2
<1>4. Covers(c)
  BY <1>3 DEF Covers
<1>5. Working(c, Live)
  BY <1>1, <1>3, <1>4 DEF Working
<1>6. faults' \in 0..MaxFaults
  BY <1>2, Constants DEF Fault, IInv, Types
<1>7. QED
  BY <1>2, <1>3, <1>5, <1>6, Quiet DEF IInv, Types

\* What is in a sequence is its head or in its tail.
LEMMA HeadAndTail ==
  ASSUME NEW s \in Seq(Token), s # <<>>
  PROVE  /\ Head(s) \in Token /\ Tail(s) \in Seq(Token) /\ Len(Tail(s)) = Len(s) - 1
         /\ ToSet(s) \subseteq {Head(s)} \cup ToSet(Tail(s))
<1>1. Head(s) \in Token /\ Tail(s) \in Seq(Token) /\ Len(Tail(s)) = Len(s) - 1
  OBVIOUS
<1>2. ASSUME NEW i \in DOMAIN s PROVE s[i] \in {Head(s)} \cup ToSet(Tail(s))
  <2>1. CASE i = 1
    BY <2>1
  <2>2. CASE i # 1
    <3>1. i - 1 \in DOMAIN Tail(s) /\ Tail(s)[i - 1] = s[i]
      BY <2>2
    <3>2. QED
      BY <3>1 DEF ToSet
  <2>3. QED
    BY <2>1, <2>2
<1>3. QED
  BY <1>1, <1>2 DEF ToSet

\* One of the keys found is read.
LEMMA FetchKeeps ==
  ASSUME IInv, NEW w \in Worker, Fetch(w)
  PROVE  IInv'
<1> DEFINE cur == work[w]
<1>1. cur \in Cur /\ Working(cur, Live) /\ cur.pc = "fetch"
  BY DEF IInv, Types, Fetch, At
<1>2. PICK c : /\ work' = [work EXCEPT ![w] = c]
               /\ \/ HasNext(cur) /\ c = Fetched(cur, Head(cur.keys))
                  \/ HasNext(cur) /\ c = [cur EXCEPT !.keys = Tail(@), !.erred = TRUE]
                  \/ ~HasNext(cur) /\ c = [cur EXCEPT !.pc = "reply", !.keys = <<>>]
               /\ UNCHANGED <<redis, linked, issued, known, fate, age>>
               /\ faults' = faults \/ Fault
  BY DEF Fetch, Becomes, Done, NotDone
<1>3. c \in Cur /\ Working(c, Live) /\ c.pc # "set" /\ c.op # "login"
  <2>1. Covers(cur) /\ cur.op # "login" /\ cur.got <= MaxKeys /\ Len(cur.keys) <= cur.got
        /\ cur.through \subseteq Live
    BY <1>1 DEF Working
  <2>2. cur.keys \in Seq(Token) /\ cur.got \in Nat /\ Len(cur.keys) \in Nat
    BY <1>1 DEF Cur
  <2>3. CASE HasNext(cur) /\ c = Fetched(cur, Head(cur.keys))
    <3> DEFINE t == Head(cur.keys)
    <3>1. /\ t \in Token /\ Tail(cur.keys) \in Seq(Token) /\ Len(Tail(cur.keys)) = Len(cur.keys) - 1
          /\ ToSet(cur.keys) \subseteq {t} \cup ToSet(Tail(cur.keys))
      BY <2>2, <2>3, HeadAndTail DEF HasNext
    <3>2. Row(cur, t) \subseteq Token
      BY <3>1 DEF Row
    <3>3. /\ c \in Cur /\ c.pc = "fetch" /\ c.op = cur.op /\ c.arg = cur.arg /\ c.got = cur.got
          /\ c.keys = Tail(cur.keys) /\ c.rows = cur.rows \cup Row(cur, t)
          /\ c.through = cur.through /\ c.erred = cur.erred
      BY <1>1, <2>3, <3>1, <3>2 DEF Cur, Fetched
    <3>4. ASSUME NEW k \in c.through, Matches(k, c.arg), k \in ToSet(cur.keys)
          PROVE  k \in c.rows \cup ToSet(c.keys)
      BY <2>1, <3>1, <3>3, <3>4 DEF Row
    <3>5. Covers(c)
      BY <2>1, <3>3, <3>4 DEF Covers
    <3>6. QED
      BY <2>1, <2>2, <3>1, <3>3, <3>5 DEF Working
  <2>4. CASE HasNext(cur) /\ c = [cur EXCEPT !.keys = Tail(@), !.erred = TRUE]
    <3>1. Tail(cur.keys) \in Seq(Token) /\ Len(Tail(cur.keys)) = Len(cur.keys) - 1
      BY <2>2, <2>4, HeadAndTail DEF HasNext
    <3>2. /\ c \in Cur /\ c.pc = "fetch" /\ c.op = cur.op /\ c.got = cur.got
          /\ c.keys = Tail(cur.keys) /\ c.through = cur.through /\ c.erred
      BY <1>1, <2>4, <3>1 DEF Cur
    <3>3. QED
      BY <2>1, <2>2, <3>1, <3>2 DEF Working, Covers

\* With at most MaxRows keys the loop has read the value of each.
  <2>5. CASE ~HasNext(cur) /\ c = [cur EXCEPT !.pc = "reply", !.keys = <<>>]
    <3>1. /\ c \in Cur /\ c.pc = "reply" /\ c.op = cur.op /\ c.arg = cur.arg /\ c.got = cur.got
          /\ c.keys = <<>> /\ c.rows = cur.rows /\ c.through = cur.through /\ c.erred = cur.erred
      <4>1. <<>> \in Seq(Token)
        OBVIOUS
      <4>2. QED
        BY <1>1, <2>5, <4>1 DEF Cur
    <3>2. cur.got <= MaxRows => cur.keys = <<>>
      <4>1. cur.keys # <<>> => Len(cur.keys) >= 1
        BY <2>2
      <4>2. QED
        BY <2>1, <2>2, <2>5, <4>1, Constants DEF HasNext
    <3>3. Covers(c)
      BY <2>1, <3>1, <3>2 DEF Covers
    <3>4. Len(c.keys) = 0
      BY <3>1
    <3>5. QED
      BY <2>1, <2>2, <3>1, <3>3, <3>4 DEF Working
  <2>6. QED
    BY <1>2, <2>3, <2>4, <2>5
<1>4. faults' \in 0..MaxFaults
  BY <1>2, Constants DEF Fault, IInv, Types
<1>5. QED
  BY <1>2, <1>3, <1>4, Quiet DEF IInv, Types

----------------------------------------------------------------------------
(* Login *)

LEMMA BeginLoginKeeps ==
  ASSUME IInv, NEW w \in Worker, BeginLogin(w)
  PROVE  IInv'
<1> DEFINE t == issued + 1
           c == [NoWork EXCEPT !.pc = "set", !.op = "login", !.tok = t]
<1>1. t \in Token /\ t \in Key /\ issued \in Nat /\ issued' = t
  BY Constants DEF BeginLogin, IInv, Types
<1>2. /\ c \in Cur /\ c.pc = "set" /\ c.op = "login" /\ c.tok = t
      /\ c.keys = <<>> /\ c.got = 0 /\ c.rows = {} /\ ~c.erred /\ c.through = {}
  BY <1>1, NoWorkIs DEF NoWork, Cur, Early, Op
<1>3. /\ work' = [work EXCEPT ![w] = c]
      /\ UNCHANGED <<redis, linked, known, fate, age, faults>>
  BY DEF BeginLogin, Becomes
<1>4. At(w, "idle")
  BY DEF BeginLogin, Ready
<1> HIDE DEF c
<1>5. \A v \in Worker : work'[v] = IF v = w THEN c ELSE work[v]
  BY <1>3 DEF IInv, Types
<1>6. Live' = Live
  BY <1>3 DEF Live
<1>7. Types'
  BY <1>1, <1>2, <1>3, <1>6, Constants DEF IInv, Types
<1>8. \A v \in Worker : Working(work[v], Live)'
  <2>1. Len(c.keys) = 0
    BY <1>2
  <2>2. Working(c, Live)
    BY <1>2, <2>1, Constants DEF Working, Early
  <2>3. \A v \in Worker : Working(work[v], Live)
    BY DEF IInv
  <2>4. QED
    BY <1>5, <1>6, <2>2, <2>3
<1>9. Tokens'
  <2>1. /\ fate[t] = "none"
        /\ \A v \in Worker : At(v, "set") => work[v].tok \in 1..issued
    BY <1>1 DEF IInv, Tokens
  <2>2. \A k \in Token : k > t => fate[k] = "none"
    BY <1>1, Constants DEF IInv, Tokens
  <2>3. /\ t \in 1..t /\ t \notin 1..issued /\ 1..issued \subseteq 1..t
    BY <1>1
  <2>4. \A v \in Worker : At(v, "set")' => work'[v].tok \in 1..t /\ fate[work'[v].tok] = "none"
    BY <1>2, <1>5, <2>1, <2>3 DEF IInv, Tokens, At
  <2>5. \A u, v \in Worker : At(u, "set")' /\ At(v, "set")' /\ work'[u].tok = work'[v].tok => u = v
    BY <1>2, <1>5, <2>1, <2>3 DEF IInv, Tokens, At
  <2>6. \A v \in Worker : At(v, "reply")' /\ work'[v].op = "login" =>
          work'[v].tok \in 1..t /\ fate[work'[v].tok] # "none"
    BY <1>2, <1>5, <2>3 DEF IInv, Tokens, At
  <2>7. TokenBacked'
    BY <1>3 DEF IInv, Tokens, TokenBacked
  <2>8. QED
    BY <1>1, <1>3, <2>2, <2>4, <2>5, <2>6, <2>7 DEF Tokens
<1>10. Ages'
  BY <1>3 DEF IInv, Ages
<1>11. QED
  BY <1>7, <1>8, <1>9, <1>10 DEF IInv

\* SET makes the new session live for Life; nobody has seen its token yet.
LEMMA StoreSessionKeeps ==
  ASSUME IInv, NEW w \in Worker, StoreSession(w)
  PROVE  IInv'
<1> DEFINE t == work[w].tok
           c == [NoWork EXCEPT !.pc = "reply", !.op = "login", !.tok = t]
<1>1. t \in 1..issued /\ t \in Token /\ t \in Key /\ fate[t] = "none"
  BY Constants DEF StoreSession, IInv, Tokens, Types
<1>2. redis[t] = 0 /\ age[t] = 0
  <2>1. t \notin Live
    BY <1>1 DEF IInv, Types
  <2>2. QED
    BY <1>1, <2>1 DEF Live, IInv, Types, Ages
<1>3. /\ c \in Cur /\ c.pc = "reply" /\ c.op = "login" /\ c.tok = t
      /\ c.keys = <<>> /\ c.got = 0 /\ c.through = {}
  BY <1>1, NoWorkIs DEF NoWork, Cur, Early, Op
<1>4. work' = [work EXCEPT ![w] = c] /\ UNCHANGED <<linked, issued, known, age>>
  BY DEF StoreSession, Becomes
<1>5. \/ /\ redis' = [redis EXCEPT ![t] = Life] /\ fate' = [fate EXCEPT ![t] = "live"]
         /\ UNCHANGED faults
      \/ /\ fate' = [fate EXCEPT ![t] = "unsaved"] /\ UNCHANGED redis
         /\ faults' = faults \/ Fault
  BY DEF StoreSession, Done, NotDone, SetTo
<1> HIDE DEF c, t
<1>6. \A v \in Worker : work'[v] = IF v = w THEN c ELSE work[v]
  BY <1>4 DEF IInv, Types
<1>7. /\ fate' \in [Token -> {"none", "live", "unsaved", "ended"}]
      /\ fate'[t] \in {"live", "unsaved"}
      /\ \A k \in Token : k # t => fate'[k] = fate[k]
  BY <1>1, <1>5 DEF IInv, Types
<1>8. /\ redis' \in [Key -> Nat] /\ redis'[Bare] = 0
      /\ \A k \in Token : k # t => redis'[k] = redis[k]
      /\ redis'[t] = IF fate'[t] = "live" THEN Life ELSE 0
  <2>1. redis \in [Key -> Nat] /\ redis[Bare] = 0 /\ Life \in Nat
        /\ t # Bare /\ Token \subseteq Key
    BY <1>1, Constants DEF IInv, Types
  <2>2. CASE redis' = [redis EXCEPT ![t] = Life] /\ fate' = [fate EXCEPT ![t] = "live"]
    <3>1. fate'[t] = "live"
      BY <1>1, <2>2 DEF IInv, Types
    <3>2. redis' \in [Key -> Nat] /\ redis'[t] = Life
          /\ \A k \in Key : k # t => redis'[k] = redis[k]
      BY <1>1, <2>1, <2>2
    <3>3. QED
      BY <2>1, <3>1, <3>2, Constants
  <2>3. CASE fate' = [fate EXCEPT ![t] = "unsaved"] /\ UNCHANGED redis
    <3>1. fate'[t] = "unsaved"
      BY <1>1, <2>3 DEF IInv, Types
    <3>2. QED
      BY <1>2, <2>1, <2>3, <3>1
  <2>4. QED
    BY <1>5, <2>2, <2>3
<1>9. Live' = {k \in Token : fate'[k] = "live"} /\ Live \subseteq Live'
  <2>1. Live = {k \in Token : fate[k] = "live"} /\ t \notin Live
    BY <1>1 DEF IInv, Types
  <2>2. \A k \in Token : redis'[k] > 0 <=> fate'[k] = "live"
    BY <1>7, <1>8, <2>1, Constants DEF Live
  <2>3. QED
    BY <1>7, <2>1, <2>2 DEF Live
<1>10. faults' \in 0..MaxFaults
  BY <1>5, Constants DEF Fault, IInv, Types
<1>11. Types'
  BY <1>3, <1>4, <1>7, <1>8, <1>9, <1>10 DEF IInv, Types
<1>12. \A v \in Worker : Working(work[v], Live)'
  <2>1. Len(c.keys) = 0
    BY <1>3
  <2>2. Working(c, Live')
    BY <1>3, <2>1, Constants DEF Working
  <2>3. \A v \in Worker : Working(work[v], Live')
    BY <1>9, Grows DEF IInv
  <2>4. QED
    BY <1>6, <2>2, <2>3
<1>13. Tokens'
  <2>1. \A v \in Worker : v # w /\ At(v, "set") => work[v].tok # t
    BY DEF IInv, Tokens, StoreSession, t
  <2>2. 1..issued \subseteq Token
    BY Constants DEF IInv, Types
  <2>3. \A v \in Worker : At(v, "set")' => work'[v].tok \in 1..issued /\ fate'[work'[v].tok] = "none"
    BY <1>3, <1>6, <1>7, <2>1, <2>2 DEF IInv, Tokens, At
  <2>4. \A u, v \in Worker : At(u, "set")' /\ At(v, "set")' /\ work'[u].tok = work'[v].tok => u = v
    BY <1>3, <1>6 DEF IInv, Tokens, At
  <2>5. \A v \in Worker : At(v, "reply")' /\ work'[v].op = "login" =>
          work'[v].tok \in 1..issued /\ fate'[work'[v].tok] # "none"
    BY <1>1, <1>3, <1>6, <1>7, <2>2 DEF IInv, Tokens, At
  <2>6. \A k \in Token : k > issued => fate'[k] = "none"
    <3>1. ~(t > issued)
      BY <1>1 DEF IInv, Types
    <3>2. QED
      BY <1>7, <3>1 DEF IInv, Tokens
  <2>7. \A k \in known : fate'[k] # "none"
    BY <1>7, <2>2 DEF IInv, Tokens, TokenBacked, Types
  <2>8. QED
    BY <1>4, <2>3, <2>4, <2>5, <2>6, <2>7 DEF Tokens, TokenBacked
<1>14. Ages'
  <2>1. \A k \in Token : redis'[k] > 0 => age[k] + redis'[k] = Life
    BY <1>2, <1>8, Constants DEF IInv, Ages
  <2>2. \A k \in Token : redis'[k] = 0 => age[k] = 0
    BY <1>2, <1>8 DEF IInv, Ages
  <2>3. QED
    BY <1>4, <2>1, <2>2 DEF Ages
<1>15. QED
  BY <1>11, <1>12, <1>13, <1>14 DEF IInv

\* A client learns a token, or a list that is complete.
LEMMA ReplyKeeps ==
  ASSUME IInv, NEW w \in Worker, Reply(w)
  PROVE  IInv'
<1>1. /\ work' = [work EXCEPT ![w] = NoWork]
      /\ UNCHANGED <<redis, linked, issued, fate, age, faults>>
      /\ known' = known \/ (work[w].op = "login" /\ known' = known \cup {work[w].tok})
  BY DEF Reply, Becomes
<1>2. \A v \in Worker : work'[v] = IF v = w THEN NoWork ELSE work[v]
  BY <1>1 DEF IInv, Types
<1>3. work[w].op = "login" => work[w].tok \in 1..issued /\ fate[work[w].tok] # "none"
  BY DEF IInv, Tokens, Reply, At
<1>4. Live' = Live
  BY <1>1 DEF Live
<1>5. known' \subseteq 1..issued
  BY <1>1, <1>3 DEF IInv, Types
<1>6. Types'
  BY <1>1, <1>4, <1>5, NoWorkIs DEF IInv, Types
<1>7. \A v \in Worker : Working(work[v], Live)'
  BY <1>2, <1>4, NoWorkWorks DEF IInv
<1>8. Tokens'
  <2>1. TokenBacked'
    BY <1>1, <1>3 DEF IInv, Tokens, TokenBacked
  <2>2. QED
    BY <1>1, <1>2, <2>1, NoWorkIs DEF IInv, Tokens, At
<1>9. Ages'
  BY <1>1 DEF IInv, Ages
<1>10. QED
  BY <1>6, <1>7, <1>8, <1>9 DEF IInv

\* A worker that dies owes nothing.
LEMMA RestartedKeeps ==
  ASSUME IInv, NEW w \in Worker, Dies(w) \/ UsesNull(w)
  PROVE  IInv'
<1>1. /\ work' = [work EXCEPT ![w] = NoWork] /\ linked' = [linked EXCEPT ![w] = TRUE]
      /\ UNCHANGED <<redis, issued, known, fate, age>>
  BY DEF Dies, UsesNull, Restarted
<1>2. faults' \in 0..MaxFaults
  BY Constants DEF Dies, UsesNull, Fault, IInv, Types
<1>3. linked' \in [Worker -> BOOLEAN]
  BY <1>1 DEF IInv, Types
<1>4. QED
  BY <1>1, <1>2, <1>3, NoWorkIs, NoWorkWorks, Quiet

----------------------------------------------------------------------------
(* The end of sessions *)

\* However sessions end, by DEL, by time or with Redis itself: when what was
\* stored becomes "ended" and the lists under way no longer count on it, the
\* invariant is kept.
LEMMA EndingKeeps ==
  ASSUME IInv, NEW gone \in SUBSET Live,
         redis' \in [Key -> Nat], redis'[Bare] = 0, Live' = Live \ gone,
         fate' = [t \in Token |-> IF t \in gone THEN "ended" ELSE fate[t]],
         age' \in [Token -> Nat], Ages',
         work' \in [Worker -> Cur],
         \A w \in Worker : work'[w] = NoWork \/ work'[w] = Without(work[w], gone),
         linked' \in [Worker -> BOOLEAN], faults' \in 0..MaxFaults,
         UNCHANGED <<issued, known>>
  PROVE  IInv'
<1>1. /\ \A t \in Token : fate'[t] = IF t \in gone THEN "ended" ELSE fate[t]
      /\ fate' \in [Token -> {"none", "live", "unsaved", "ended"}]
  BY DEF IInv, Types
<1>2. \A t \in gone : t \in Token /\ fate[t] = "live"
  BY DEF IInv, Types
<1>3. Types'
  <2>1. Live' = {t \in Token : fate'[t] = "live"}
    BY <1>1 DEF IInv, Types
  <2>2. QED
    BY <1>1, <2>1 DEF IInv, Types
<1>4. ASSUME NEW w \in Worker
      PROVE  /\ Working(work'[w], Live')
             /\ \/ work'[w].pc = "idle"
                \/ /\ work'[w].pc = work[w].pc /\ work'[w].op = work[w].op
                   /\ work'[w].tok = work[w].tok
  <2>1. work[w] \in Cur /\ Working(work[w], Live)
    BY DEF IInv, Types
  <2>2. CASE work'[w] = NoWork
    BY <2>2, NoWorkIs, NoWorkWorks
  <2>3. CASE work'[w] = Without(work[w], gone)
    BY <2>1, <2>3, Shrinks
  <2>4. QED
    BY <2>2, <2>3
<1>5. Tokens'
  <2>1. \A t \in Token : t > issued => fate'[t] = "none"
    BY <1>1, <1>2 DEF IInv, Tokens
  <2>2. 1..issued \subseteq Token
    BY Constants DEF IInv, Types
  <2>3. \A w \in Worker : At(w, "set")' => work'[w].tok \in 1..issued /\ fate'[work'[w].tok] = "none"
    <3> SUFFICES ASSUME NEW w \in Worker, At(w, "set")'
                 PROVE  work'[w].tok \in 1..issued /\ fate'[work'[w].tok] = "none"
      OBVIOUS
    <3>1. At(w, "set") /\ work'[w].tok = work[w].tok
      BY <1>4 DEF At
    <3>2. work[w].tok \in 1..issued /\ fate[work[w].tok] = "none"
      BY <3>1 DEF IInv, Tokens
    <3>3. QED
      BY <1>1, <1>2, <2>2, <3>1, <3>2
  <2>4. \A v, w \in Worker : At(v, "set")' /\ At(w, "set")' /\ work'[v].tok = work'[w].tok => v = w
    BY <1>4 DEF IInv, Tokens, At
  <2>5. \A w \in Worker : At(w, "reply")' /\ work'[w].op = "login" =>
          work'[w].tok \in 1..issued /\ fate'[work'[w].tok] # "none"
    <3> SUFFICES ASSUME NEW w \in Worker, At(w, "reply")', work'[w].op = "login"
                 PROVE  work'[w].tok \in 1..issued /\ fate'[work'[w].tok] # "none"
      OBVIOUS
    <3>1. At(w, "reply") /\ work[w].op = "login" /\ work'[w].tok = work[w].tok
      BY <1>4 DEF At
    <3>2. work[w].tok \in 1..issued /\ fate[work[w].tok] # "none"
      BY <3>1 DEF IInv, Tokens
    <3>3. QED
      BY <1>1, <2>2, <3>1, <3>2
  <2>6. TokenBacked'
    BY <1>1, <2>2 DEF IInv, Tokens, TokenBacked, Types
  <2>7. QED
    BY <2>1, <2>3, <2>4, <2>5, <2>6 DEF Tokens
<1>6. QED
  BY <1>3, <1>4, <1>5 DEF IInv

\* A session that ended is taken out of what a list owes.
LEMMA WithoutTyped ==
  ASSUME IInv, NEW gone, NEW w \in Worker
  PROVE  Without(work[w], gone) \in Cur
BY Shrinks DEF IInv, Types

\* Sessions that are removed: nothing is stored of them, the others are as old
\* as they were.
LEMMA RemovedIs ==
  ASSUME IInv, NEW gone \in SUBSET Live, redis' = Removed(redis, gone), Forget(gone)
  PROVE  /\ redis' \in [Key -> Nat] /\ redis'[Bare] = 0 /\ Live' = Live \ gone
         /\ age' \in [Token -> Nat] /\ Ages'
<1>1. gone \subseteq Token /\ Token \subseteq Key /\ Bare \in Key /\ Bare \notin Token
  BY Constants DEF Live
<1>2. /\ redis' \in [Key -> Nat] /\ redis'[Bare] = 0
      /\ \A t \in Token : redis'[t] = IF t \in gone THEN 0 ELSE redis[t]
  BY <1>1 DEF Removed, IInv, Types
<1>3. /\ age' \in [Token -> Nat]
      /\ \A t \in Token : age'[t] = IF t \in gone THEN 0 ELSE age[t]
  BY <1>1 DEF Forget, IInv, Types
<1>4. Live' = Live \ gone
  BY <1>2 DEF Live
<1>5. Ages'
  BY <1>2, <1>3 DEF IInv, Ages
<1>6. QED
  BY <1>2, <1>3, <1>4, <1>5

\* DEL ends a session and takes it out of what the lists owe.
LEMMA DeleteSessionKeeps ==
  ASSUME IInv, NEW w \in Worker, DeleteSession(w)
  PROVE  IInv'
<1>1. /\ UNCHANGED <<issued, known>> /\ linked' \in [Worker -> BOOLEAN]
      /\ faults' \in 0..MaxFaults
  BY Constants DEF DeleteSession, Done, NotDone, Fault, IInv, Types
<1>2. CASE NotDone(w) /\ Becomes(w, NoWork) /\ UNCHANGED <<redis, fate, age>>
  BY <1>1, <1>2, NoWorkIs, NoWorkWorks, Quiet DEF Becomes
<1> DEFINE gone == Live \cap {work[w].arg}
<1>3. CASE /\ redis' = Removed(redis, gone) /\ Forget(gone)
           /\ work' = [v \in Worker |-> IF v = w THEN NoWork ELSE Without(work[v], gone)]
  <2>1. gone \in SUBSET Live
    OBVIOUS
  <2> HIDE DEF gone
  <2>2. work' \in [Worker -> Cur]
    BY <1>3, NoWorkIs, WithoutTyped
  <2>3. \A v \in Worker : work'[v] = NoWork \/ work'[v] = Without(work[v], gone)
    BY <1>3
  <2>4. /\ redis' \in [Key -> Nat] /\ redis'[Bare] = 0 /\ Live' = Live \ gone
        /\ age' \in [Token -> Nat] /\ Ages'
    BY <1>3, <2>1, RemovedIs
  <2>5. fate' = [t \in Token |-> IF t \in gone THEN "ended" ELSE fate[t]]
    BY <1>3 DEF Forget
  <2>6. QED
    BY <1>1, <2>1, <2>2, <2>3, <2>4, <2>5, EndingKeeps
<1>4. QED
  BY <1>2, <1>3 DEF DeleteSession

\* Redis forgets all sessions.
LEMMA RedisRestartsKeeps ==
  ASSUME IInv, RedisRestarts
  PROVE  IInv'
<1>1. /\ UNCHANGED <<issued, known>> /\ linked' \in [Worker -> BOOLEAN]
      /\ faults' \in 0..MaxFaults
  BY Constants DEF RedisRestarts, Fault, IInv, Types
<1>2. work' \in [Worker -> Cur]
  BY WithoutTyped DEF RedisRestarts
<1>3. \A v \in Worker : work'[v] = Without(work[v], Live)
  BY DEF RedisRestarts
<1>4. /\ redis' \in [Key -> Nat] /\ redis'[Bare] = 0 /\ Live' = Live \ Live
      /\ age' \in [Token -> Nat] /\ Ages'
  BY RemovedIs DEF RedisRestarts
<1>5. fate' = [t \in Token |-> IF t \in Live THEN "ended" ELSE fate[t]]
  BY DEF RedisRestarts, Forget
<1>6. QED
  BY <1>1, <1>2, <1>3, <1>4, <1>5, EndingKeeps

\* A tick takes one from the time of each session and adds one to its age.
LEMMA TickKeeps ==
  ASSUME IInv, Tick
  PROVE  IInv'
<1> DEFINE gone == {t \in Live : redis[t] = 1}
<1>1. gone \in SUBSET Live /\ Live \subseteq Token /\ Token \subseteq Key /\ Bare \notin Live
  BY Constants DEF Live
<1>2. /\ redis' = [k \in Key |-> IF k \in Live THEN redis[k] - 1 ELSE 0]
      /\ fate' = [t \in Token |-> IF t \in gone THEN "ended" ELSE fate[t]]
      /\ age' = [t \in Token |-> IF t \in gone THEN 0
                                 ELSE IF t \in Live /\ age[t] < Life + Refresh THEN age[t] + 1
                                 ELSE age[t]]
      /\ work' = [w \in Worker |-> Without(work[w], gone)]
      /\ UNCHANGED <<linked, issued, known, faults>>
  BY DEF Tick
<1> HIDE DEF gone
<1>3. work' \in [Worker -> Cur] /\ \A w \in Worker : work'[w] = Without(work[w], gone)
  BY <1>2, WithoutTyped
<1>4. redis' \in [Key -> Nat] /\ redis'[Bare] = 0
  BY <1>1, <1>2, Constants DEF Live, IInv, Types
<1>5. \A t \in Token : redis'[t] = IF t \in Live THEN redis[t] - 1 ELSE 0
  BY <1>1, <1>2
<1>6. \A t \in Live : redis[t] \in Nat /\ redis[t] > 0 /\ (t \in gone <=> redis[t] = 1)
  BY <1>1 DEF Live, IInv, Types, gone
<1>7. Live' = Live \ gone
  BY <1>1, <1>5, <1>6 DEF Live
<1>8. \A t \in Live : age[t] + redis[t] = Life /\ age[t] \in Nat /\ age[t] < Life + Refresh
  BY <1>1, <1>6, SessionAssumption DEF IInv, Ages, Types
<1>9. age' \in [Token -> Nat]
  BY <1>1, <1>2 DEF IInv, Types
<1>10. Ages'
  <2> SUFFICES ASSUME NEW t \in Token
               PROVE  /\ redis'[t] > 0 => age'[t] + redis'[t] = Life
                      /\ redis'[t] = 0 => age'[t] = 0
    BY DEF Ages
  <2>1. CASE t \in gone
    BY <1>1, <1>2, <1>5, <1>6, <2>1
  <2>2. CASE t \in Live \ gone
    BY <1>1, <1>2, <1>5, <1>6, <1>8, <2>2, Constants
  <2>3. CASE t \notin Live
    <3>1. redis[t] = 0 /\ t \notin gone
      BY <1>1, <2>3 DEF Live, IInv, Types
    <3>2. QED
      BY <1>2, <1>5, <2>3, <3>1 DEF IInv, Ages
  <2>4. QED
    BY <2>1, <2>2, <2>3
<1>11. QED
  BY <1>1, <1>2, <1>3, <1>4, <1>7, <1>9, <1>10, EndingKeeps DEF IInv, Types

----------------------------------------------------------------------------
(* The theorems *)

LEMMA InitHolds == Init => IInv
<1> SUFFICES ASSUME Init PROVE IInv
  OBVIOUS
<1>1. Live = {} /\ \A t \in Token : fate[t] = "none"
  BY Constants DEF Init, Live
<1>2. Types
  BY <1>1, Constants, NoWorkIs DEF Init, Types
<1>3. \A w \in Worker : work[w] = NoWork
  BY DEF Init
<1>4. \A w \in Worker : Working(work[w], Live)
  BY <1>3, NoWorkWorks
<1>5. Tokens
  BY <1>1, <1>3, NoWorkIs DEF Init, Tokens, TokenBacked, At
<1>6. Ages
  BY Constants DEF Init, Ages
<1>7. QED
  BY <1>2, <1>4, <1>5, <1>6 DEF IInv

\* Every step keeps the invariant.
LEMMA NextKeeps == IInv /\ [Next]_vars => IInv'
<1> SUFFICES ASSUME IInv, [Next]_vars PROVE IInv'
  OBVIOUS
<1>1. CASE UNCHANGED vars
  BY <1>1 DEF vars, IInv, Types, Tokens, TokenBacked, Ages, At, Live
<1>2. ASSUME NEW w \in Worker, BeginLogin(w) \/ Ask(w) \/ Handle(w) \/ Dies(w)
      PROVE  IInv'
  <2>1. CASE BeginLogin(w)
    BY <2>1, BeginLoginKeeps
  <2>2. CASE Ask(w)
    BY <2>2, BeginKeeps
  <2>3. CASE StoreSession(w)
    BY <2>3, StoreSessionKeeps
  <2>4. CASE Validate(w)
    BY <2>4, ValidateGetKeeps, ValidateExpireKeeps DEF Validate
  <2>5. CASE List(w)
    BY <2>5, ScanFirstKeeps, ScanKeyKeeps, ScanEndKeeps, FetchKeeps DEF List
  <2>6. CASE DeleteSession(w)
    BY <2>6, DeleteSessionKeeps
  <2>7. CASE Reply(w)
    BY <2>7, ReplyKeeps
  <2>8. CASE Dies(w) \/ UsesNull(w)
    BY <2>8, RestartedKeeps
  <2>9. QED
    BY <1>2, <2>1, <2>2, <2>3, <2>4, <2>5, <2>6, <2>7, <2>8 DEF Handle
<1>3. CASE RedisRestarts
  BY <1>3, RedisRestartsKeeps
<1>4. CASE Tick
  BY <1>4, TickKeeps
<1>5. QED
  BY <1>1, <1>2, <1>3, <1>4 DEF Next

\* The inductive invariant.
THEOREM Inductive == Spec => []IInv
BY InitHolds, NextKeeps, PTL DEF Spec

\* No client holds a token whose session is still to be stored (login.c:258).
THEOREM TokensAreBacked == Spec => []TokenBacked
<1>1. IInv => TokenBacked
  BY DEF IInv, Tokens
<1>2. QED
  BY <1>1, Inductive, PTL

\* Every session ends Life after its login (login.c:258, SwtCommon.c:1048).
THEOREM SessionsEndInTime == Spec => []WithinLife
<1>1. IInv => WithinLife
  <2> SUFFICES ASSUME IInv, NEW t \in Live PROVE age[t] < Life
    BY DEF WithinLife
  <2>1. t \in Token /\ redis[t] > 0 /\ redis[t] \in Nat /\ age[t] \in Nat
    BY Constants DEF Live, IInv, Types
  <2>2. age[t] + redis[t] = Life
    BY <2>1 DEF IInv, Ages
  <2>3. QED
    BY <2>1, <2>2
<1>2. QED
  BY <1>1, Inductive, PTL

\* A list that is not cut misses no session that was there all the time
\* (SwtCommon.c:1314, monitor_online.c:116).
THEOREM ListsAreComplete == Spec => []ListComplete
<1>1. IInv => ListComplete
  <2> SUFFICES ASSUME IInv, NEW w \in Worker, At(w, "reply"), work[w].op # "login",
                      ~work[w].erred, work[w].got <= MaxRows
               PROVE  {t \in work[w].through : Matches(t, work[w].arg)} \subseteq work[w].rows
    BY DEF ListComplete, At
  <2>1. Covers(work[w]) /\ work[w].keys = <<>>
    BY DEF IInv, Working, At
  <2>2. ToSet(work[w].keys) = {}
    BY <2>1 DEF ToSet
  <2>3. QED
    BY <2>1, <2>2 DEF Covers
<1>2. QED
  BY <1>1, Inductive, PTL

\* The variables keep their types and bounds, the counters of a list its array
\* (SwtCommon.c:1330).
THEOREM Typed == Spec => []TypeOK
<1>1. IInv => TypeOK
  <2> SUFFICES ASSUME IInv PROVE TypeOK
    OBVIOUS
  <2>1. redis \in [Key -> 0..(Life + Refresh)]
    <3>1. \A t \in Token : redis[t] \in 0..(Life + Refresh)
      BY Constants, SessionAssumption DEF IInv, Types, Ages
    <3>2. QED
      BY <3>1, Constants, SessionAssumption DEF IInv, Types
  <2>2. age \in [Token -> 0..(Life + Refresh)]
    <3>1. \A t \in Token : age[t] \in 0..(Life + Refresh)
      BY Constants, SessionAssumption DEF IInv, Types, Ages
    <3>2. QED
      BY <3>1 DEF IInv, Types
  <2>3. ASSUME NEW w \in Worker
        PROVE  /\ work[w] \in
                    [pc : {"idle", "set", "get", "expire", "scan", "more", "fetch", "del", "reply"},
                     op : Op, tok : Key, arg : Key \cup User \cup {Nobody}, keys : Seq(Token),
                     got : 0..MaxKeys, rows : SUBSET Token, through : SUBSET Token,
                     erred : BOOLEAN]
               /\ Len(work[w].keys) <= work[w].got
    BY Constants DEF IInv, Types, Cur, Working
  <2>4. QED
    BY <2>1, <2>2, <2>3 DEF TypeOK, IInv, Types
<1>2. QED
  BY <1>1, Inductive, PTL
=============================================================================
