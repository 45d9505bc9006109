-------------------------------- MODULE Dbs --------------------------------
(***************************************************************************)
(* The data access of the handlers (src/RY/src/MyDbs/DBS_COMMON.c): what   *)
(* each call of the mysql_... family asks of MySQL and when it reports an  *)
(* error.                                                                  *)
(*                                                                         *)
(* A row is <<table, key, value>>.  In a table of Relation both columns    *)
(* are the key; in the others the value stands for the remaining columns,  *)
(* the name or code of the row where a handler searches for one, and Off   *)
(* for a row whose status is not '0'.  Keys and values are numbers.        *)
(*                                                                         *)
(* A statement is a record: the call, its table, its operands, and what    *)
(* the handler does when the call returns an error.                        *)
(***************************************************************************)
EXTENDS Integers, Sequences, FiniteSets, SequencesExt

Relation == {"sys_user_role", "sys_user_post", "sys_role_menu", "sys_role_dept"}

\* The table that the value of a relation's row refers to.
Referred == [sys_user_role |-> "sys_role", sys_user_post |-> "sys_post",
             sys_role_menu |-> "sys_menu", sys_role_dept |-> "sys_dept"]

Row == STRING \X Int \X Int

Off == 0
Found == -1    \* stands for the key that the last Find has read

Statement(op, t, a, b) == [op |-> op, t |-> t, a |-> a, b |-> b, onerr |-> "go on"]

Query(t)        == Statement("select", t, 0, 0)
Need(t, a)      == Statement("need", t, a, 0)
NeedAll(t, a)   == Statement("refs", t, a, 0)
Find(t, b)      == Statement("find", t, 0, b)
Insert(t, a, b) == Statement("insert", t, a, b)
Update(t, a, b) == Statement("update", t, a, b)
Delete(t, a)    == Statement("delete", t, a, 0)
DeleteBy(t, b)  == Statement("deleteBy", t, 0, b)
DeletePair(t, a, b) == Statement("deletePair", t, a, b)
Truncate(t)     == Statement("truncate", t, 0, 0)
NeedBy(t, b)    == Statement("needBy", t, 0, b)
Malformed(t)    == Statement("malformed", t, 0, 0)
Commit          == Statement("commit", "", 0, 0)
Reply(code)     == Statement("reply", "", code, 0)
Silent          == Statement("silent", "", 0, 0)
Undefined       == Statement("undefined", "", 0, 0)

\* What a handler does with an error, if it does not just go on: return -1;
\* reply with code 500; send the reply of a success; go on with a null or
\* foreign pointer; go on with a result that has been freed.
Must(s)     == [s EXCEPT !.onerr = "abort"]
OrRefuse(s) == [s EXCEPT !.onerr = "refuse"]
OrEcho(s)   == [s EXCEPT !.onerr = "echo"]
OrStray(s)  == [s EXCEPT !.onerr = "stray"]
OrReuse(s)  == [s EXCEPT !.onerr = "reuse"]

GoesOn(s) == s.onerr \in {"reuse", "go on"}

\* ONE_SELECT into a struct of zeros, its error ignored; a cursor: when its
\* query fails, OPEN, FETCH and CLOSE take the result of the last one, which
\* that one's CLOSE has freed.
Peek(t)   == Query(t)
Select(t) == OrReuse(Query(t))

Reads(s)  == s.op \in {"select", "need", "needBy", "refs", "find", "malformed"}
Writes(s) == s.op \in {"insert", "update", "delete", "deleteBy", "deletePair"}

Ops == {"select", "need", "needBy", "refs", "find", "malformed",
        "insert", "update", "delete", "deleteBy", "deletePair", "truncate",
        "commit", "reply", "silent", "undefined"}
Statements == [op : Ops, t : STRING, a : Int, b : Int,
               onerr : {"abort", "refuse", "echo", "stray", "reuse", "go on"}]

\* A change the handler insists on: it gives up when the call fails.
Insisted(s) == s.onerr = "abort" /\ (Writes(s) \/ s.op = "truncate")

ReadOnly(p) == \A i \in DOMAIN p : ~Writes(p[i]) /\ p[i].op # "truncate"

Bound(s, id) == IF s.a = Found THEN [s EXCEPT !.a = id] ELSE s

----------------------------------------------------------------------------
(* What a statement does to a set of rows *)

Touched(s, rows) ==
  {x \in rows : x[1] = s.t /\
    \/ s.op \in {"update", "delete", "need", "refs"} /\ x[2] = s.a
    \/ s.op \in {"deleteBy", "find", "needBy"} /\ x[3] = s.b
    \/ s.op = "deletePair" /\ x[2] = s.a /\ x[3] = s.b
    \/ s.op = "insert" /\ x[2] = s.a /\ (s.t \in Relation => x[3] = s.b)
    \/ s.op \in {"truncate", "select"}}

Applied(s, rows) ==
  (rows \ Touched(s, rows)) \cup
  {x \in {<<s.t, s.a, s.b>>} :
     s.op = "insert" \/ (s.op = "update" /\ Touched(s, rows) # {})}

\* The singleton makes TLC evaluate the rows before ss[n] once.
AppliedAll(ss, rows) ==
  LET after[n \in 0..Len(ss)] ==
        IF n = 0 THEN rows
        ELSE UNION {Applied(ss[n], before) : before \in {after[n - 1]}}
  IN after[Len(ss)]

\* Mutant: an UPDATE that matches no row is taken for done.
RejectedUnlessMatched(s, rows) ==
  CASE s.op \in {"need", "needBy"} -> Cardinality(Touched(s, rows)) # 1
    [] s.op = "refs"     -> \E x \in Touched(s, rows) :
                              ~ \E y \in rows : y[1] = Referred[s.t] /\ y[2] = x[3] /\ y[3] # Off
    [] s.op = "insert"   -> Touched(s, rows) # {}
    [] s.op = "malformed" -> TRUE
    [] OTHER             -> FALSE

\* The calls that return an error although MySQL works: ONE_SELECT of none or
\* of several rows, the loop of ONE_SELECTs over a relation, an INSERT of a
\* key that exists, an UPDATE with "matched: 0", a column that does not exist.
Rejected(s, rows) ==
  CASE s.op \in {"need", "needBy"} -> Cardinality(Touched(s, rows)) # 1
    [] s.op = "refs"     -> \E x \in Touched(s, rows) :
                              ~ \E y \in rows : y[1] = Referred[s.t] /\ y[2] = x[3] /\ y[3] # Off
    [] s.op = "insert"   -> Touched(s, rows) # {}
    [] s.op = "update"   -> Touched(s, rows) = {}
    [] s.op = "malformed" -> TRUE
    [] OTHER             -> FALSE

\* The key the handler goes on with: that of the row, or the 0 of the JSON
\* document when there is not exactly one such row.
KeyFound(s, rows) ==
  LET hits == Touched(s, rows) IN
    IF Cardinality(hits) = 1 THEN (CHOOSE x \in hits : TRUE)[2] ELSE 0

----------------------------------------------------------------------------
(* A whole program on a set of rows, with nobody else at work *)

Started(rows) == [rows |-> rows, id |-> 0, saw |-> {}, wrote |-> FALSE, code |-> 0, over |-> FALSE]

\* The handler meets an error, or its statement does what it says.
GaveUp(st, s) ==
  CASE s.onerr = "refuse" -> [st EXCEPT !.over = TRUE, !.code = 500]
    [] s.onerr = "echo" -> [st EXCEPT !.over = TRUE, !.code = 200]
    [] s.onerr \in {"abort", "stray"} -> [st EXCEPT !.over = TRUE]
    [] OTHER -> st

Done(st, s, b) ==
  CASE s.op = "reply"  -> [st EXCEPT !.over = TRUE, !.code = s.a]
    [] s.op \in {"silent", "undefined"} -> [st EXCEPT !.over = TRUE]
    [] s.op = "find"   -> [st EXCEPT !.id = KeyFound(b, st.rows)]
    [] Reads(s) /\ s.op # "find" -> [st EXCEPT !.saw = @ \cup Touched(b, st.rows)]
    [] s.op = "commit" -> st
    [] OTHER -> [st EXCEPT !.rows = Applied(b, @), !.wrote = TRUE]

Perform(st, s) ==
  LET b == Bound(s, st.id)
  IN IF st.over THEN st
     ELSE IF Rejected(b, st.rows) THEN GaveUp(st, s) ELSE Done(st, s, b)

Outcome(p, rows) ==
  LET after[n \in 0..Len(p)] ==
        IF n = 0 THEN Started(rows)
        ELSE CHOOSE st \in {Perform(before, p[n]) : before \in {after[n - 1]}} : TRUE
  IN after[Len(p)]
=============================================================================
