------------------------------- MODULE Records -------------------------------
(***************************************************************************)
(* What is in a request and in a row, and how one becomes the other: the   *)
(* named values of a message (Common.c), and the functions of SwtCommon.c  *)
(* that build the SQL of the table handlers from these values and from the *)
(* JSON document of a request by a map of the table's columns.             *)
(*                                                                         *)
(* There are two generations of the functions.  The new one (NGet..., NJ2S,*)
(* NS2J) is modelled with the branches of tbl_srv_param, whose key has     *)
(* several columns, the old one with those of tbl_fld_tsf and its like.    *)
(* A statement is executed at once here; transactions are in Switch.       *)
(*                                                                         *)
(* An administrator pages through the table and sends back rows as seen,   *)
(* with one column edited; another sends any document.  A number for a     *)
(* column of type 'T' is left out: the handler calls strlen(NULL).         *)
(***************************************************************************)
EXTENDS Integers, SequencesExt

CONSTANTS
  Generations, \* subset of {"old", "new"}
  Key,         \* sequence of the key's columns, as in the INDMAP
  Type,        \* 'C', 'I' or 'T' of each column of the COLMAP
  Collation,   \* the texts in the order of MySQL
  InitTables,  \* tables at the start
  Documents,   \* JSON documents: a value or Absent for each column
  Queries,     \* query strings: sequences of pairs of name and value
  Sizes,       \* page sizes, as text
  Edits,       \* for each type the values an administrator enters into a column
  MaxChanges,  \* bound on the requests that may change the table
  Null         \* NULL of SQL and of JSON

VARIABLES
  gen,      \* the generation of the functions
  table,    \* the rows: functions from the columns
  request,  \* the request for a change that waits for a worker
  code,     \* its answer
  walk,     \* the administrator's way through the pages
  changes

vars == <<gen, table, request, code, walk, changes>>

\* The maps of the old functions have no times.
Column == IF gen = "new" THEN DOMAIN Type ELSE {c \in DOMAIN Type : Type[c] # "T"}
KeyColumn == ToSet(Key)
Empty == ""
Absent == <<"absent">>
Nothing == <<"null">>
Str(v) == <<"str", v>>
Num(n) == <<"num", n>>

Atoi(s) == CASE s = "1" -> 1 [] s = "2" -> 2 [] OTHER -> 0

KeyOf(r) == [c \in KeyColumn |-> r[c]]
KeysOf(rows) == {KeyOf(r) : r \in rows}

\* What a column holds (a time is never an empty text, which MySQL refuses),
\* what is shown of it and what a document says of it.
Texts == ToSet(Collation)
Holds(c, v) ==
  CASE Type[c] = "I" -> v \in Nat
    [] Type[c] = "T" -> v \in ({Null} \cup Texts) \ {Empty}
    [] Type[c] = "C" -> v \in Texts \/ (v = Null /\ c \notin KeyColumn)
Shows(c, v) == IF Type[c] = "I" THEN v \in Nat ELSE v \in Texts
Says(c, v) ==
  \/ v \in {Absent, Nothing}
  \/ v[1] = "str" /\ v[2] \in Texts
  \/ v[1] = "num" /\ v[2] \in Nat /\ Type[c] # "T"

OneOfEachKey(rows) == \A r, s \in rows : KeyOf(r) = KeyOf(s) => r = s
PageNames == {"pageNum", "pageSize", "_page", "_limit"}

MapAssumption ==
  /\ Generations \subseteq {"old", "new"}
  /\ \A c \in DOMAIN Type : Type[c] \in {"C", "I", "T"}
  /\ Key # <<>> /\ Key \in Seq({c \in DOMAIN Type : Type[c] # "T"})
  /\ DOMAIN Type \cap (PageNames \cup {"$METHOD"}) = {}
TextAssumption ==
  /\ Collation \in Seq(STRING) /\ {Empty, "(null)"} \subseteq Texts
  /\ \A i, j \in DOMAIN Collation : Collation[i] = Collation[j] => i = j
  /\ Null \notin Texts /\ Null \notin Nat
TableAssumption ==
  \A rows \in InitTables :
    /\ IsFiniteSet(rows) /\ OneOfEachKey(rows)
    /\ \A r \in rows : DOMAIN r = DOMAIN Type /\ \A c \in DOMAIN Type : Holds(c, r[c])
ClientAssumption ==
  /\ \A doc \in Documents : DOMAIN doc = DOMAIN Type /\ \A c \in DOMAIN Type : Says(c, doc[c])
  /\ \A query \in Queries :
       /\ query \in Seq(STRING \X STRING)
       /\ \A i \in DOMAIN query : query[i][1] \notin PageNames
  /\ \A size \in Sizes : size \in STRING /\ size # Empty /\ Atoi(size) >= 1
  /\ Edits["I"] \subseteq Nat /\ Edits["C"] \subseteq Texts /\ Edits["T"] \subseteq Texts
  /\ MaxChanges \in Nat

ASSUME RecordsAssumption ==
  MapAssumption /\ TextAssumption /\ TableAssumption /\ ClientAssumption

NoRequest == [method |-> "none"]
Silence == 0   \* the handler returned -1: nobody answers
Echo == 1      \* the document is sent back
NoWalk == [on |-> FALSE, clean |-> TRUE]

----------------------------------------------------------------------------
(* The named values of a message *)

\* An empty value is not stored; a name may occur again.
SetIpcValue(ipc, name, value) ==
  IF value = Empty THEN ipc ELSE Append(ipc, <<name, value>>)

\* Mutant: a value that is set again hides the one before it.
GetIpcValueLast(ipc, name) ==
  LET hits == {i \in DOMAIN ipc : ipc[i][1] = name}
  IN IF hits = {} THEN Empty ELSE ipc[Max(hits)][2]

GetIpcValueExt(ipc, name) ==
  LET hits == {i \in DOMAIN ipc : ipc[i][1] = name}
  IN IF hits = {} THEN Empty ELSE ipc[Min(hits)][2]

\* request_cb: the method, then the query, which POST only logs.
Message(method, query) ==
  LET pairs == <<<<"$METHOD", method>>>> \o (IF method = "POST" THEN <<>> ELSE query)
      after[n \in 0..Len(pairs)] ==
        IF n = 0 THEN <<>> ELSE SetIpcValue(after[n - 1], pairs[n][1], pairs[n][2])
  IN after[Len(pairs)]

----------------------------------------------------------------------------
(* From a message to SELECT *)

\* The value of a column that is NULL cannot equal anything.
QueryWhere(ipc, r) ==
  \A c \in Column :
    LET v == GetIpcValueExt(ipc, c)
    IN v \in {Empty, "undefined"} \/ r[c] = IF Type[c] = "I" THEN Atoi(v) ELSE v

Less(c, a, b) ==
  IF Type[c] = "I" THEN a < b
  ELSE \E i, j \in DOMAIN Collation : i < j /\ Collation[i] = a /\ Collation[j] = b

\* "order by" the key: in the statement of tbl_srv_param, asked for by the
\* client ("sort") in the old handlers.  A row comes after all before it.
Before(r, s) ==
  \E i \in DOMAIN Key :
    /\ Less(Key[i], r[Key[i]], s[Key[i]])
    /\ \A j \in 1..(i - 1) : r[Key[j]] = s[Key[j]]
Sorted(rows) ==
  [n \in 1..Cardinality(rows) |->
     CHOOSE r \in rows : Cardinality({s \in rows : Before(s, r)}) = n - 1]

PageName == IF gen = "new" THEN "pageNum" ELSE "_page"
SizeName == IF gen = "new" THEN "pageSize" ELSE "_limit"

\* Mutant: the first page is number 0.
LimitFromZero(ipc, rows) ==
  LET page == GetIpcValueExt(ipc, PageName)
      size == GetIpcValueExt(ipc, SizeName)
      skip == Atoi(page) * Atoi(size)
  IN IF page = Empty \/ size = Empty THEN rows
     ELSE SubSeq(rows, skip + 1, IF skip + Atoi(size) < Len(rows) THEN skip + Atoi(size) ELSE Len(rows))

Limit(ipc, rows) ==
  LET page == GetIpcValueExt(ipc, PageName)
      size == GetIpcValueExt(ipc, SizeName)
      skip == (Atoi(page) - 1) * Atoi(size)
  IN IF page = Empty \/ size = Empty THEN rows
     ELSE SubSeq(rows, skip + 1, IF skip + Atoi(size) < Len(rows) THEN skip + Atoi(size) ELSE Len(rows))

\* mysql_TBL_FETCH skips NULL, so the struct keeps its zeros; (N)S2J.
Shown(r) == [c \in Column |-> IF r[c] # Null THEN r[c] ELSE IF Type[c] = "I" THEN 0 ELSE Empty]

Selected(ipc) == {r \in table : QueryWhere(ipc, r)}
Listed(ipc) ==
  LET rows == Limit(ipc, Sorted(Selected(ipc)))
  IN [i \in DOMAIN rows |-> Shown(rows[i])]

----------------------------------------------------------------------------
(* From a document to INSERT, UPDATE and DELETE *)

\* (N)J2S into a struct of zeros, then mysql_TBL_INSERT, for which an empty
\* time is NULL.
RowOf(doc) ==
  [c \in Column |->
     LET text == IF doc[c][1] = "str" THEN doc[c][2] ELSE Empty
     IN CASE Type[c] = "I" -> IF doc[c][1] = "num" THEN doc[c][2] ELSE Atoi(text)
          [] Type[c] = "T" -> IF text = Empty THEN Null ELSE text
          [] Type[c] = "C" -> text]

\* valuestring of a number or of null is a null pointer, which sprintf prints
\* as "(null)"; valueint of null is 0.
SqlValue(c, v) ==
  IF Type[c] = "I" THEN (CASE v[1] = "num" -> v[2] [] v[1] = "str" -> Atoi(v[2]) [] OTHER -> 0)
  ELSE IF v[1] = "str" THEN v[2] ELSE "(null)"

Given(doc, C) == {c \in C : doc[c] \notin {Absent, Nothing}}

\* Mutant: what is empty is not written.
UpdateSetSkipsEmpty(doc) ==
  [c \in {d \in Given(doc, Column) : doc[d] # Str(Empty)} |-> SqlValue(c, doc[c])]

\* Mutant: an empty time is written as it is.
UpdateSetKeepsEmpty(doc) == [c \in Given(doc, Column) |-> SqlValue(c, doc[c])]

\* (N)GetUpdateSetSql.
UpdateSet(doc) ==
  [c \in Given(doc, Column) |->
     IF Type[c] = "T" /\ SqlValue(c, doc[c]) = Empty THEN Null ELSE SqlValue(c, doc[c])]

\* Mutant: a part of the key that is missing is left out of DELETE as well.
DeleteColumnsGiven(doc) == Given(doc, KeyColumn)

\* The columns a WHERE clause ends up with when its function does not give up.
DeleteColumns(doc) == KeyColumn

\* Mutant: the last column of the key is forgotten.
UpdateColumnsButLast(doc) ==
  IF gen = "new" THEN Given(doc, ToSet(Front(Key))) ELSE KeyColumn

UpdateColumns(doc) == IF gen = "new" THEN Given(doc, KeyColumn) ELSE KeyColumn

Where(doc, C, r) == \A c \in C : r[c] = SqlValue(c, doc[c])

\* The old functions give up at a column that is not there; what they have
\* written ends in "and ", unless it was the first column.
Lacks(doc) == \E c \in KeyColumn : doc[c] = Absent

\* NGetDeleteWhereSql insists on every column.
Refuses(doc) == \E c \in DeleteColumns(doc) :
                  doc[c] = Absent \/ (gen = "new" /\ doc[c] = Nothing)

Deleted(doc) == {r \in table : ~Refuses(doc) /\ Where(doc, DeleteColumns(doc), r)}

----------------------------------------------------------------------------
(* The handlers *)

\* The new functions print the answer before they look at the result: a key
\* that exists is answered like a row that has been stored.
Insert(doc) ==
  LET row == RowOf(doc)
  IN IF KeyOf(row) \in KeysOf(table)
     THEN /\ code' = IF gen = "new" THEN Echo ELSE Silence
          /\ UNCHANGED table
     ELSE /\ code' = Echo
          /\ table' = table \cup {row}

\* Without a SET or a WHERE clause there is no statement; one that matches
\* nothing is an error, and one that is malformed too.
Update(doc) ==
  LET set == UpdateSet(doc)
      hits == {r \in table : Where(doc, UpdateColumns(doc), r)}
      clauses == /\ DOMAIN set # {}
                 /\ IF gen = "new" THEN UpdateColumns(doc) # {} ELSE doc[Key[1]] # Absent
  IN IF ~clauses
     THEN code' = Echo /\ UNCHANGED table
     ELSE IF hits = {} \/ (gen = "old" /\ Lacks(doc))
     THEN code' = Silence /\ UNCHANGED table
     ELSE /\ code' = Echo
          /\ table' = (table \ hits) \cup
                      {[c \in Column |-> IF c \in DOMAIN set THEN set[c] ELSE r[c]] : r \in hits}

\* The old handlers clear 2048 bytes of where[256]: when what lies behind it
\* matters, there is no answer, and the row may or may not be gone.
Harmed(doc) ==
  gen = "old" /\ code' = Silence /\ table' \in {table, table \ Deleted(doc)}

DeleteOne(doc) ==
  \/ Harmed(doc)
  \/ /\ code' = CASE gen = "new" -> IF Refuses(doc) THEN 500 ELSE 200
                  [] gen = "old" -> IF Refuses(doc) THEN Silence ELSE Echo
     /\ table' = table \ Deleted(doc)

\* A statement for each element; one that breaks off ends in "where" or "and",
\* which MySQL refuses, and the loop goes on.
DeleteMany(docs) ==
  /\ gen = "new"
  /\ code' = 200
  /\ table' = table \ UNION {Deleted(docs[i]) : i \in DOMAIN docs}

\* The worker takes the request; the branch is that of the value $METHOD.
Handle ==
  /\ request # NoRequest
  /\ LET method == GetIpcValueExt(request.ipc, "$METHOD")
     IN \/ method = "GET" /\ code' = 200 /\ UNCHANGED table
        \/ method = "POST" /\ Insert(request.docs[1])
        \/ method = "PUT" /\ Update(request.docs[1])
        \/ method = "DELETE" /\ \/ Len(request.docs) = 1 /\ DeleteOne(request.docs[1])
                                \/ Len(request.docs) > 1 /\ DeleteMany(request.docs)
  /\ request' = NoRequest
  /\ walk' = [walk EXCEPT !.clean = @ /\ (walk.on => table' = table)]
  /\ UNCHANGED <<gen, changes>>

----------------------------------------------------------------------------
(* The administrators *)

Init ==
  /\ gen \in Generations
  /\ \E rows \in InitTables : table = {Restrict(r, Column) : r \in rows}
  /\ request = NoRequest
  /\ code = Silence
  /\ walk = NoWalk
  /\ changes = 0

Send(method, query, docs, copy) ==
  /\ request = NoRequest
  /\ changes < MaxChanges
  /\ changes' = changes + 1
  /\ request' = [method |-> method, ipc |-> Message(method, query), docs |-> docs, copy |-> copy]
  /\ code' = Silence
  /\ UNCHANGED <<gen, table, walk>>

Document(row) == [c \in Column |-> IF Type[c] = "I" THEN Num(row[c]) ELSE Str(row[c])]

\* Anything, as long as nobody pages through the table.
SendAny ==
  /\ ~walk.on
  /\ \E method \in {"POST", "PUT", "DELETE"}, doc \in Documents : Send(method, <<>>, <<doc>>, {})

\* A document that a GET carries is not read.
SendGet ==
  /\ ~walk.on
  /\ \E query \in Queries, row \in table : Send("GET", query, <<Document(Shown(row))>>, {})

SendMany ==
  /\ ~walk.on /\ gen = "new"
  /\ \E d, e \in {doc \in Documents : \A c \in Column \ KeyColumn : doc[c] = Absent} :
       Send("DELETE", <<>>, <<d, e>>, {})

\* A row as it was shown, with one column edited that is not of the key.
SendEdit ==
  /\ walk.on
  /\ \E row \in ToSet(walk.seen), c \in Column \ KeyColumn :
       \E v \in Edits[Type[c]] :
         LET copy == [row EXCEPT ![c] = v]
         IN Send("PUT", <<>>, <<Document(copy)>>, {copy})

SendDelete ==
  /\ walk.on
  /\ \E row \in ToSet(walk.seen) : Send("DELETE", <<>>, <<Document(row)>>, {row})

ListRequest(query, page, size) ==
  Message("GET", query \o <<<<PageName, page>>, <<SizeName, size>>>>)

\* The GET branch for page 1, then for the following ones.
OpenList ==
  /\ ~walk.on
  /\ \E query \in Queries, size \in Sizes :
       LET ipc == ListRequest(query, "1", size)
           rows == Listed(ipc)
       IN walk' = [on |-> TRUE, clean |-> TRUE, query |-> query, size |-> size, page |-> "1",
                   seen |-> rows, last |-> Len(rows), total |-> Cardinality(Selected(ipc))]
  /\ UNCHANGED <<gen, table, request, code, changes>>

\* The new lists tell the number of rows, the old ones end with a short page.
AllSeen == IF gen = "new" THEN Len(walk.seen) >= walk.total ELSE walk.last < Atoi(walk.size)

NextPage ==
  /\ walk.on /\ ~AllSeen /\ walk.page = "1"
  /\ LET rows == Listed(ListRequest(walk.query, "2", walk.size))
     IN walk' = [walk EXCEPT !.page = "2", !.seen = @ \o rows, !.last = Len(rows)]
  /\ UNCHANGED <<gen, table, request, code, changes>>

CloseList ==
  /\ walk.on /\ request = NoRequest
  /\ walk' = NoWalk
  /\ UNCHANGED <<gen, table, request, code, changes>>

Next ==
  \/ Handle
  \/ SendAny \/ SendGet \/ SendMany \/ SendEdit \/ SendDelete
  \/ OpenList \/ NextPage \/ CloseList

Spec == Init /\ [][Next]_vars

----------------------------------------------------------------------------
(* Properties *)

\* The rows have the columns' types, a time is never an empty text, which
\* MySQL refuses, and no two rows have the same key.
TypeOK ==
  /\ gen \in Generations
  /\ \A r \in table : DOMAIN r = Column /\ \A c \in Column : Holds(c, r[c])
  /\ OneOfEachKey(table)
  /\ code \in {Silence, Echo, 200, 500}
  /\ changes \in 0..MaxChanges

\* The rows a query means: each column it names with a value, the first time
\* it does so, has this value.
Meant(query) ==
  {r \in table : \A i \in DOMAIN query :
     LET c == query[i][1]
         v == query[i][2]
     IN \/ c \notin Column \/ v \in {Empty, "undefined"}
        \/ \E j \in 1..(i - 1) : query[j][1] = c /\ query[j][2] # Empty
        \/ r[c] = IF Type[c] = "I" THEN Atoi(v) ELSE v}

\* When nobody changes the table in between, the pages of a list show each row
\* that the query means exactly once and in the order of the keys, and the
\* total told with them, or the first short page, is where they end.
PagesCover ==
  walk.on /\ walk.clean /\ AllSeen =>
    /\ ToSet(walk.seen) = {Shown(r) : r \in Meant(walk.query)}
    /\ Len(walk.seen) = Cardinality(Meant(walk.query))
    /\ \A i \in 1..(Len(walk.seen) - 1) : Before(walk.seen[i], walk.seen[i + 1])

Handled(method) ==
  request # NoRequest /\ request' = NoRequest /\ request.method = method

\* A GET changes nothing, whatever names its query string uses: what the
\* gateway has put into the message comes before it.
ReadsDontWrite == [][Handled("GET") => table' = table]_vars

\* A row that is sent back as it was shown, with one column edited, is shown
\* like that from then on, and nothing else changes, NULLs included; when it has
\* been deleted in the meantime it stays so and the client gets no answer.
EditLands ==
  [][\A copy \in IF Handled("PUT") THEN request.copy ELSE {} :
       LET others(rows) == {r \in rows : KeyOf(r) # KeyOf(copy)}
       IN /\ others(table') = others(table)
          /\ {Shown(r) : r \in table' \ others(table)} =
               {copy : r \in table \ others(table)}
          /\ code' = Silence <=> others(table) = table]_vars

\* A DELETE removes the rows whose whole key one of its documents names, in the
\* sense in which POST would have written it, and no other row: a key of which
\* a column is missing (or null, for the new functions) removes nothing.  It
\* may remove nothing also where an old handler overruns its buffer, and only
\* without an answer.
DeleteExact ==
  [][Handled("DELETE") =>
       LET named == {d \in ToSet(request.docs) : \A c \in KeyColumn :
                       d[c] # Absent /\ (gen = "new" => d[c] # Nothing)}
           plain == {d \in named : \A c \in KeyColumn : d[c][1] = "str" \/ Type[c] = "I"}
       IN \/ table' = {r \in table : KeyOf(r) \notin {KeyOf(RowOf(d)) : d \in plain}}
          \/ gen = "old" /\ code' = Silence /\ table' = table]_vars

\* No key has the text that sprintf writes for a null pointer: a DELETE whose
\* document holds a number or null for a text of the key would remove its row.
KeysAreNames ==
  LET texts == {c \in KeyColumn : Type[c] = "C"}
  IN /\ \A rows \in InitTables : \A r \in rows, c \in texts : r[c] # "(null)"
     /\ \A doc \in Documents, c \in texts : doc[c][1] = "str" => doc[c][2] # "(null)"

\* A PUT neither renames a row nor merges or splits rows, although it writes the
\* columns of the key and may hit several rows: SET and WHERE are made of the
\* same document and have to read it in the same way.
KeysKept ==
  [][Handled("PUT") =>
       /\ KeysOf(table') = KeysOf(table)
       /\ Cardinality(table') = Cardinality(table)]_vars
=============================================================================
