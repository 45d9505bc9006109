--------------------------- MODULE SwitchRefines ----------------------------
(***************************************************************************)
(* One worker whose connection holds implements Store.                     *)
(***************************************************************************)
EXTENDS Switch

Changing(s) == Writes(s) \/ s.op = "truncate"
Committing(s) == s.op \in {"commit", "truncate"}
CanReject(s) == s.op \in {"need", "needBy", "refs", "insert", "update", "malformed"}

\* Once a handler has changed something it goes on to its reply, which it sends
\* after the commit, and once it has committed it changes nothing more.
Atomic(p) ==
  \A j \in DOMAIN p :
    /\ \A i \in DOMAIN p : i < j /\ Changing(p[i]) =>
         /\ p[j].op \notin {"silent", "undefined"}
         /\ CanReject(p[j]) => p[j].onerr = "go on"
         /\ p[j].op = "reply" /\ Writes(p[i]) =>
              \E k \in DOMAIN p : i < k /\ k < j /\ p[k].op = "commit"
    /\ Changing(p[j]) => \A k \in DOMAIN p : k < j => ~Committing(p[k])

\* Not assumed of the runs; MCStore shows it for the handlers there.
Atomically == \A r \in Req : \A p \in Asks[r] : Atomic(p)

\* Rows of table c belong to the row of table t with their key.  A handler
\* inserts into c under 0, under the key that it has just found in t, or under
\* one whose row it has just updated; when it removes a row of t it goes on to
\* delete those of c.  (UserPut of a body with no column of sys_user is not.)
Removes(s, t) == s.t = t /\ s.op \in {"delete", "deleteBy", "deletePair", "truncate"}
InsertsInto(s, c) == s.t = c /\ s.op = "insert"
Ensures(s, t, a) ==
  /\ s.t = t
  /\ \/ a = Found /\ s.op = "find"
     \/ a # Found /\ s.op = "update" /\ s.a = a /\ ~GoesOn(s)

Tidy(p, c, t) ==
  \A j \in DOMAIN p :
    /\ InsertsInto(p[j], c) /\ p[j].a # 0 =>
         \E i \in DOMAIN p :
           /\ i < j /\ Ensures(p[i], t, p[j].a)
           /\ \A l \in DOMAIN p : i < l /\ l < j => ~Removes(p[l], t) /\ p[l].op # "find"
    /\ Removes(p[j], t) =>
         /\ p[j].op = "delete" /\ p[j].a # Found
         /\ \E i \in DOMAIN p : j < i /\ p[i] = [p[j] EXCEPT !.t = c]
         /\ \A l \in DOMAIN p : j < l => ~InsertsInto(p[l], c)

\* Not assumed of the runs either.
Tidily(c, t) == \A r \in Req : \A p \in Asks[r] : Tidy(p, c, t)

\* The entries of the log that hold a change of r.
Acted(r) == {k \in DOMAIN log : \E e \in log[k].by : e[1] = r}

\* The answer that a request has earned by its commit but not got yet.
Owed(r) ==
  IF answer[r] # NoAnswer \/ Acted(r) = {} THEN NoAnswer
  ELSE LET k == CHOOSE k \in Acted(r) : TRUE
           o == Outcome(prog[r], log[k - 1].rows)
       IN [code |-> o.code, saw |-> o.saw]

\* What a handler sends once it has gone astray is no answer.
Given(r) == IF answer[r].code = Garbage THEN NoAnswer ELSE answer[r]

StoreMap == INSTANCE Store WITH
  rows <- Current, asked <- prog, owed <- [r \in Req |-> Owed(r)],
  given <- [r \in Req |-> Given(r)]

\* Without faults a worker executes its requests one at a time, each on the
\* database that the one before has left, however many statements,
\* snapshots and commits that takes.
StoreSpec == StoreMap!Spec
=============================================================================
