----------------------------- MODULE MCRecords -----------------------------
(* An instance of Records for TLC: a key of a number and a text, one more   *)
(* text and a time.                                                         *)
EXTENDS Records

TwoKeys == <<"k", "c">>
Types == [k |-> "I", c |-> "C", d |-> "C", t |-> "T"]
Order == <<"", "(null)", "1", "a", "b", "x">>

Row(k, c, d, t) == [k |-> k, c |-> c, d |-> d, t |-> t]
Tables == {{Row(0, "a", Null, "x"), Row(0, "b", "x", Null), Row(1, "a", "", Null)}}

Docs == [k : {Absent, Nothing, Num(0), Str("1")},
         c : {Absent, Nothing, Num(1), Str("a")},
         d : {Absent, Num(1), Str("x")},
         t : {Absent, Str("")}]

Entered == [I |-> {2}, C |-> {"", "b"}, T |-> {"", "b"}]

Asked == {<<>>, <<<<"k", "0">>>>, <<<<"c", "a">>, <<"d", "undefined">>>>,
          <<<<"c", "">>, <<"c", "b">>, <<"c", "a">>>>, <<<<"$METHOD", "DELETE">>>>}

\* What DeleteExact is proved from.
ASSUME KeysNamed == KeysAreNames
=============================================================================
