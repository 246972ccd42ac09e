------------------------------ MODULE MCExpect ------------------------------
(* Scalars at the boundaries of truth and equality, and tables of them.    *)
EXTENDS LuaValues

Scalars == {Nil, Boolean("false"), Boolean("true"), Number("0"), Number("1"), Number("nan"),
            Text(""), Text("1")}

\* Texts that contain, start and end with one another.
Texts == {Text(""), Text("1"), Text("10"), Text("01"), Text("101")}
Spelling == [t \in {"", "10", "01", "101"} |->
    CASE t = "" -> <<>> [] t = "10" -> <<"1", "0">> [] t = "01" -> <<"0", "1">>
      [] t = "101" -> <<"1", "0", "1">>]

Leaves == {Boolean("false"), Number("1"), Number("nan")}
Inner == {Table("t1", [k \in {} |-> Nil]), Table("t2", [k \in {"a"} |-> Boolean("false")]),
          Table("t3", [k \in {"a"} |-> Boolean("false")])}

\* Tables with one or two of the keys, flat or with a table inside.
SomeValues ==
    Scalars \cup Texts \cup Inner
    \cup {Table("l", [k \in {"1", "2"} |-> Number(k)])}
    \cup {Table("u", [k \in {"a"} |-> x]) : x \in Leaves \cup Inner}
    \cup {Table("w", [a |-> x, b |-> y]) : x, y \in Leaves \cup Inner}

\* All the fields of a result have one value: none of the assertions looks at
\* two.
SomeResults ==
    {Table("none", [k \in {} |-> Nil])}
    \cup {Table("r", [k \in {"exit_code", "status", "line_rate", "threshold_passed", "stdout"} |-> x]) :
             x \in {Number("0"), Number("1"), Boolean("true"), Boolean("false"), Text(""), Text("10")}}

SomePaths == {<<"a">>, <<"b">>, <<"a", "a">>, <<"b", "a">>}

Args == {<<>>, <<"x">>, <<"x", "y">>, <<"y">>}
SomeMocks == {<<>>} \cup {<<c>> : c \in Args} \cup {<<c, d>> : c, d \in Args}
============================================================================
