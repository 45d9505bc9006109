------------------------------- MODULE Session -------------------------------
(***************************************************************************)
(* Sessions: login (src/RY/src/SwtRY/login.c) stores one in Redis and      *)
(* gives the client a token that names it, validate_jwt_token              *)
(* (SwtCommon.c) looks it up at the beginning of every other request,      *)
(* monitor_online.c lists and deletes sessions, and monitor_cache.c lists  *)
(* their keys.                                                             *)
(*                                                                         *)
(* The workers share one Redis.  Each command is one action, so that the   *)
(* commands of several workers, and the passing of time, come in between.  *)
(* A token is valid by its signature and stands for the uuid in it; its    *)
(* exp, milliseconds cut to INT_MAX by cJSON's valueint and compared with  *)
(* seconds, does not end before 2038 and is left out.                      *)
(***************************************************************************)
EXTENDS Integers, SequencesExt

CONSTANTS
  Worker,      \* the workers
  Logins,      \* the users who log in, in this order: login t makes token t
  Nobody,      \* no user: a list without a filter
  Life,        \* EX of the SET at login (3600 s), in ticks
  Refresh,     \* seconds of the EXPIRE in validate_jwt_token (600), in ticks
  MaxKeys,     \* keys get_keys_by_pattern collects (100)
  MaxRows,     \* keys of which the value is read (10)
  MaxFaults    \* bound on the failures

User == ToSet(Logins)

ASSUME SessionAssumption ==
  /\ Logins \in Seq(User) /\ Nobody \notin User
  /\ Life \in Nat \ {0} /\ Refresh \in Nat \ {0}
  /\ MaxRows \in Nat \ {0} /\ MaxKeys \in Nat /\ MaxRows < MaxKeys
  /\ MaxFaults \in Nat

VARIABLES
  redis,    \* key -> ticks until the session stored under it ends, 0: no such key
  work,     \* worker -> the request it is executing
  linked,   \* worker -> does its connection to Redis work?
  issued,   \* uuids generated so far
  known,    \* tokens that were sent to a client
  fate,     \* token -> what became of its session (history)
  age,      \* token -> ticks since its SET, while it is stored (history)
  faults    \* failures so far

vars == <<redis, work, linked, issued, known, fate, age, faults>>

Token == DOMAIN Logins
Bare == 0                       \* the key "login_tokens", without a uuid
Key == Token \cup {Bare}
Live == {t \in Token : redis[t] > 0}

\* "other" is every handler that only validates the token: the handlers of the
\* tables, and monitor_cache's getValue, whose one GET changes nothing.
Op == {"login", "other", "online", "keys", "kick"}
NoWork == [pc |-> "idle", op |-> "other", tok |-> Bare, arg |-> Nobody,
           keys |-> <<>>, got |-> 0, rows |-> {}, through |-> {}, erred |-> FALSE]

TypeOK ==
  /\ redis \in [Key -> 0..(Life + Refresh)]
  /\ redis[Bare] = 0
  /\ \A w \in Worker :
       /\ work[w] \in
            [pc : {"idle", "set", "get", "expire", "scan", "more", "fetch", "del", "reply"},
             op : Op, tok : Key, arg : Key \cup User \cup {Nobody}, keys : Seq(Token),
             got : 0..MaxKeys, rows : SUBSET Token, through : SUBSET Token,
             erred : BOOLEAN]
       /\ Len(work[w].keys) <= work[w].got
  /\ linked \in [Worker -> BOOLEAN]
  /\ issued \in 0..Len(Logins)
  /\ known \subseteq 1..issued
  /\ fate \in [Token -> {"none", "live", "unsaved", "ended"}]
  /\ Live = {t \in Token : fate[t] = "live"}
  /\ age \in [Token -> 0..(Life + Refresh)]
  /\ faults \in 0..MaxFaults

Init ==
  /\ redis = [k \in Key |-> 0]
  /\ work = [w \in Worker |-> NoWork]
  /\ linked = [w \in Worker |-> TRUE]
  /\ issued = 0
  /\ known = {}
  /\ fate = [t \in Token |-> "none"]
  /\ age = [t \in Token |-> 0]
  /\ faults = 0

At(w, pc) == work[w].pc = pc
Becomes(w, cur) == work' = [work EXCEPT ![w] = cur]

\* The sessions of gone are removed from r; a list under way has not had them
\* all the time.
Removed(r, gone) == [k \in Key |-> IF k \in gone THEN 0 ELSE r[k]]
Forget(gone) ==
  /\ fate' = [t \in Token |-> IF t \in gone THEN "ended" ELSE fate[t]]
  /\ age' = [t \in Token |-> IF t \in gone THEN 0 ELSE age[t]]
Without(cur, gone) == [cur EXCEPT !.through = @ \ gone]

Fault == faults < MaxFaults /\ faults' = faults + 1

\* A command takes effect, or it does not: the answer is of type ERROR, or the
\* connection is broken and it is null.
Done(w) == linked[w] /\ UNCHANGED faults
NotDone(w) == (linked[w] /\ Fault) \/ (~linked[w] /\ UNCHANGED faults)

\* The PING before a request was answered.
Ready(w) == At(w, "idle") /\ linked[w]

----------------------------------------------------------------------------
(* login *)

\* Mutant: the answer is sent before the session is stored.
BeginLoginAnswers(w) ==
  /\ Ready(w)
  /\ issued < Len(Logins)
  /\ issued' = issued + 1
  /\ Becomes(w, [NoWork EXCEPT !.pc = "set", !.op = "login", !.tok = issued + 1])
  /\ known' = known \cup {issued + 1}
  /\ UNCHANGED <<redis, linked, fate, age, faults>>

\* bcrypt_checkpw succeeds and generate_jwt_token makes a token; otherwise the
\* answer is an error and nothing changes.
BeginLogin(w) ==
  /\ Ready(w)
  /\ issued < Len(Logins)
  /\ issued' = issued + 1
  /\ Becomes(w, [NoWork EXCEPT !.pc = "set", !.op = "login", !.tok = issued + 1])
  /\ UNCHANGED <<redis, linked, known, fate, age, faults>>

\* SET login_tokens:<uuid> <json> EX 3600
SetTo == Life

\* The answer to the SET is not looked at.
StoreSession(w) ==
  /\ At(w, "set")
  /\ LET t == work[w].tok
     IN /\ \/ /\ Done(w)
              /\ redis' = [redis EXCEPT ![t] = SetTo]
              /\ fate' = [fate EXCEPT ![t] = "live"]
           \/ /\ NotDone(w)
              /\ fate' = [fate EXCEPT ![t] = "unsaved"]
              /\ UNCHANGED redis
        /\ Becomes(w, [NoWork EXCEPT !.pc = "reply", !.op = "login", !.tok = t])
  /\ UNCHANGED <<linked, issued, known, age>>

----------------------------------------------------------------------------
(* The other requests: validate_jwt_token or validate_token *)

\* Lists only read: two of them at a time find what each finds alone.
OneListBound(op) ==
  op \in {"online", "keys"} => \A v \in Worker : work[v].op \notin {"online", "keys"}

Begin(w, op, t, arg) ==
  /\ Ready(w)
  /\ OneListBound(op)
  /\ Becomes(w, [NoWork EXCEPT !.pc = "get", !.op = op, !.tok = t, !.arg = arg])
  /\ UNCHANGED <<redis, linked, issued, known, fate, age, faults>>

\* What is left to do once the token is accepted: another handler's statements
\* do not concern Redis, and a deletion has one target.
Accepted(cur) ==
  CASE cur.op \in {"online", "keys"} -> [cur EXCEPT !.pc = "scan", !.tok = Bare]
    [] cur.op = "kick" -> [cur EXCEPT !.pc = "del", !.tok = Bare]
    [] OTHER -> NoWork

\* The answer 401; monitor_online goes on whatever validate_token returns.
Refused(cur) == IF cur.op \in {"online", "kick"} THEN Accepted(cur) ELSE NoWork

\* GET login_tokens:<uuid>; an answer of type ERROR counts as success (a null
\* one is used: UsesNull).
ValidateGet(w) ==
  /\ At(w, "get")
  /\ linked[w]
  /\ LET cur == work[w]
     IN \/ /\ cur.tok \in Live
           /\ Becomes(w, [cur EXCEPT !.pc = "expire"])
           /\ UNCHANGED faults
        \/ /\ cur.tok \notin Live
           /\ Becomes(w, Refused(cur))
           /\ UNCHANGED faults
        \/ /\ Fault
           /\ Becomes(w, Accepted(cur))
  /\ UNCHANGED <<redis, linked, issued, known, fate, age>>

\* Mutant: the session's own key.
RefreshedKeyOwn(t) == t

\* EXPIRE login_tokens 600: the key has no uuid, so it names no session.
RefreshedKey(t) == Bare

Refreshed(k) == IF redis[k] = 0 THEN redis ELSE [redis EXCEPT ![k] = Refresh]

ValidateExpire(w) ==
  /\ At(w, "expire")
  /\ redis' = IF linked[w] THEN Refreshed(RefreshedKey(work[w].tok))
              ELSE redis
  /\ Becomes(w, Accepted(work[w]))
  /\ UNCHANGED <<linked, issued, known, fate, age, faults>>

----------------------------------------------------------------------------
(* get_keys_by_pattern and get_key_value, in monitor_online's list and in  *)
(* monitor_cache's getKeys.  SCAN returns every key that is there from its *)
(* first call to its last at least once, the others perhaps, and any of    *)
(* them more than once; one call with several keys is several steps.       *)

\* SCAN owes no key any more: the cursor is 0.
Exhausted(cur) == cur.through \subseteq ToSet(cur.keys)

\* The list begins: what is there now is through, as long as it stays.
ScanFirst(w) ==
  /\ At(w, "scan")
  /\ linked[w]
  /\ Becomes(w, [work[w] EXCEPT !.pc = "more", !.through = Live])
  /\ UNCHANGED <<redis, linked, issued, known, fate, age, faults>>

\* Mutant: one key more than keys has places.
HasRoomLate(cur) == cur.got <= MaxKeys

HasRoom(cur) == cur.got < MaxKeys

ScanKey(w, t) ==
  /\ At(w, "more")
  /\ linked[w]
  /\ t \in Live
  /\ LET cur == [work[w] EXCEPT !.keys = Append(@, t), !.got = @ + 1]
     IN Becomes(w, IF HasRoom(cur) THEN cur ELSE [cur EXCEPT !.pc = "fetch"])
  /\ UNCHANGED <<redis, linked, issued, known, fate, age, faults>>

\* The last call, or one that fails: the keys so far are used.
ScanEnd(w) ==
  /\ LET cur == [work[w] EXCEPT !.pc = "fetch"]
     IN \/ At(w, "more") /\ Exhausted(cur) /\ Done(w) /\ Becomes(w, cur)
        \/ /\ At(w, "scan") \/ At(w, "more")
           /\ NotDone(w)
           /\ Becomes(w, [cur EXCEPT !.erred = TRUE])
  /\ UNCHANGED <<redis, linked, issued, known, fate, age>>

\* Without a filter, or the user of the session is the one asked for.
Matches(t, arg) == arg = Nobody \/ Logins[t] = arg

Row(cur, t) == IF t \in Live /\ Matches(t, cur.arg) THEN {t} ELSE {}

\* Mutant: a key that is gone ends the list.
FetchedUntilGone(cur, t) ==
  [cur EXCEPT !.keys = IF t \in Live THEN Tail(@) ELSE <<>>, !.rows = @ \cup Row(cur, t)]

Fetched(cur, t) == [cur EXCEPT !.keys = Tail(@), !.rows = @ \cup Row(cur, t)]

HasNext(cur) == cur.keys # <<>> /\ cur.got - Len(cur.keys) < MaxRows

\* GET of the next key; without an answer the key has no value.
Fetch(w) ==
  /\ At(w, "fetch")
  /\ LET cur == work[w]
     IN \/ /\ HasNext(cur)
           /\ Done(w)
           /\ Becomes(w, Fetched(cur, Head(cur.keys)))
        \/ /\ HasNext(cur)
           /\ NotDone(w)
           /\ Becomes(w, [cur EXCEPT !.keys = Tail(@), !.erred = TRUE])
        \/ /\ ~HasNext(cur)
           /\ Becomes(w, [cur EXCEPT !.pc = "reply", !.keys = <<>>])
           /\ UNCHANGED faults
  /\ UNCHANGED <<redis, linked, issued, known, fate, age>>

----------------------------------------------------------------------------
(* monitor_online's DELETE, and the end of a login or of a list *)

\* DEL login_tokens:<uuid of the request>
DeleteSession(w) ==
  /\ At(w, "del")
  /\ \/ /\ Done(w)
        /\ LET gone == Live \cap {work[w].arg}
           IN /\ redis' = Removed(redis, gone)
              /\ Forget(gone)
              /\ work' = [v \in Worker |-> IF v = w THEN NoWork ELSE Without(work[v], gone)]
     \/ /\ NotDone(w)
        /\ Becomes(w, NoWork)
        /\ UNCHANGED <<redis, fate, age>>
  /\ UNCHANGED <<linked, issued, known>>

\* MsqSnd; it needs no Redis.
Reply(w) ==
  /\ work[w].pc = "reply"
  /\ known' = IF work[w].op = "login" THEN known \cup {work[w].tok} ELSE known
  /\ Becomes(w, NoWork)
  /\ UNCHANGED <<redis, linked, issued, fate, age, faults>>

----------------------------------------------------------------------------
(* Failures and time *)

\* A worker ends wherever it is, and the daemon starts another one.
Restarted(w) ==
  /\ work' = [work EXCEPT ![w] = NoWork]
  /\ linked' = [linked EXCEPT ![w] = TRUE]
  /\ UNCHANGED <<redis, issued, known, fate, age>>

Dies(w) == work[w].pc # "idle" /\ Fault /\ Restarted(w)

\* The null reply to the PING before a request, or to the GET that validates
\* a token, is used.
UsesNull(w) ==
  /\ At(w, "idle") \/ At(w, "get")
  /\ ~linked[w]
  /\ Restarted(w)
  /\ UNCHANGED faults

\* Redis ends and comes back empty.
RedisRestarts ==
  /\ Fault
  /\ redis' = Removed(redis, Live)
  /\ Forget(Live)
  /\ linked' = [w \in Worker |-> FALSE]
  /\ work' = [w \in Worker |-> Without(work[w], Live)]
  /\ UNCHANGED <<issued, known>>

\* A key is gone when its time is over.
Tick ==
  LET gone == {t \in Live : redis[t] = 1}
  IN /\ Live # {}
     /\ redis' = [k \in Key |-> IF k \in Live THEN redis[k] - 1 ELSE 0]
     /\ fate' = [t \in Token |-> IF t \in gone THEN "ended" ELSE fate[t]]
     /\ age' = [t \in Token |-> IF t \in gone THEN 0
                                ELSE IF t \in Live /\ age[t] < Life + Refresh THEN age[t] + 1
                                ELSE age[t]]
     /\ work' = [w \in Worker |-> Without(work[w], gone)]
     /\ UNCHANGED <<linked, issued, known, faults>>

----------------------------------------------------------------------------
\* A request with the token of a session: any handler, the list of a user or
\* of all, the deletion of a session, the keys of the cache.
Ask(w) ==
  \E t \in known :
    \/ \E op \in {"other", "keys"} : Begin(w, op, t, Nobody)
    \/ \E u \in User \cup {Nobody} : Begin(w, "online", t, u)
    \/ \E k \in 1..issued : Begin(w, "kick", t, k)

Validate(w) == ValidateGet(w) \/ ValidateExpire(w)
List(w) == ScanFirst(w) \/ (\E t \in Token : ScanKey(w, t)) \/ ScanEnd(w) \/ Fetch(w)

Handle(w) ==
  StoreSession(w) \/ Validate(w) \/ List(w) \/ DeleteSession(w) \/ Reply(w) \/ UsesNull(w)

Next ==
  \/ \E w \in Worker : BeginLogin(w) \/ Ask(w) \/ Handle(w) \/ Dies(w)
  \/ RedisRestarts
  \/ Tick

Spec == Init /\ [][Next]_vars

----------------------------------------------------------------------------
(* Properties *)

\* A client that was told its login succeeded has a token whose session was
\* stored before (or Redis refused to, which login does not look at): no other
\* worker can find the token unknown because the SET is still to come.
TokenBacked == \A t \in known : fate[t] # "none"

\* However often it is used, a session ends Life after its login ("expires
\* after one hour", login.c and SwtCommon.c).
WithinLife == \A t \in Live : age[t] < Life

\* A list that is not cut (at most MaxRows keys were found) and met no error
\* has every session asked for that was there from the first SCAN to the
\* answer, although others begin, end and are removed meanwhile.
ListComplete ==
  \A w \in Worker :
    LET cur == work[w]
    IN cur.pc = "reply" /\ cur.op # "login" /\ ~cur.erred /\ cur.got <= MaxRows
       => {t \in cur.through : Matches(t, cur.arg)} \subseteq cur.rows
=============================================================================
