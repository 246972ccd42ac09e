------------------------------- MODULE Expect -------------------------------
(***************************************************************************)
(* What expect(actual).matcher(args), as runtime/expect.lua computes it,   *)
(* and the assertions of src/runner.cpp decide about values: how an        *)
(* expectation is made and negated, and when matchers and assertions       *)
(* return.  Lua patterns, and assertions that call functions of the test   *)
(* (module Assertions) or touch files (module Files), are left out.        *)
(***************************************************************************)
EXTENDS LuaValues, Naturals, Sequences, SequencesExt

CONSTANTS
    Values,     \* the values a test may compare
    Results,    \* what process.run, http and coverage functions return: tables
    Paths,      \* the paths toHaveProperty may be asked for
    Mocks,      \* what get_calls of a mock returns: a sequence of calls
    CallArgs,   \* the arguments toHaveBeenCalledWith may be asked for
    Spell,      \* [text -> its letters], for texts of more or less than one
    MaxNots     \* bound on the nots of one expectation

VARIABLES
    pc,         \* "start", "made" or "done"
    made,       \* "expect", "expect.not", or "assert" for an assertion
    given,      \* the value the test wrote
    actual,     \* the value the expectation holds
    negated,
    nots,       \* the nots the test wrote
    asked,      \* the matcher or assertion, and its arguments
    result      \* "pass" or "raise"

vars == <<pc, made, given, actual, negated, nots, asked, result>>
----------------------------------------------------------------------------
(* Lua.                                                                    *)

IsTable(a) == a.type = "table"
IsNumber(a) == a.type = "number"
IsText(a) == a.type = "string"

\* a == b: tables by identity.
Same(a, b) ==
    /\ a.type = b.type
    /\ IF IsTable(a) THEN a.id = b.id ELSE a.v = b.v /\ a # Number("nan")

Field(t, k) == IF IsTable(t) /\ k \in DOMAIN t.at THEN t.at[k] ELSE Nil

Numbers == <<"0", "1", "2">>
Less(a, b) == \E i \in 1..3 : \E j \in (i + 1)..3 : a.v = Numbers[i] /\ b.v = Numbers[j]

Letters(text) == IF text \in DOMAIN Spell THEN Spell[text] ELSE <<text>>

\* #a, of texts and of lists of up to two items.
Length(a) ==
    IF IsText(a) THEN Len(Letters(a.v))
    ELSE IF Field(a, "1") = Nil THEN 0 ELSE IF Field(a, "2") = Nil THEN 1 ELSE 2

(* The matchers.                                                           *)

\* Mutant: the keys that only the expected table has are not looked at.
RECURSIVE strict_equal_one_way(_, _)
strict_equal_one_way(a, b) ==
    /\ a.type = b.type
    /\ IF ~IsTable(a) THEN Same(a, b)
       ELSE \A k \in DOMAIN a.at : strict_equal_one_way(a.at[k], Field(b, k))

RECURSIVE strict_equal(_, _)
strict_equal(a, b) ==
    /\ a.type = b.type
    /\ IF ~IsTable(a) THEN Same(a, b)
       ELSE /\ \A k \in DOMAIN a.at : strict_equal(a.at[k], Field(b, k))
            /\ \A k \in DOMAIN b.at : k \in DOMAIN a.at

is_vitest_falsy(a) ==
    \/ a = Nil \/ a = Boolean("false")
    \/ a = Number("0") \/ a = Number("nan")
    \/ a = Text("")

\* Mutant: a value that is false ends the path.
RECURSIVE get_path_value_truthy(_, _)
get_path_value_truthy(root, path) ==
    IF path = <<>> THEN root
    ELSE IF ~IsTable(root) \/ Field(root, Head(path)) = Boolean("false") THEN Nil
    ELSE get_path_value_truthy(Field(root, Head(path)), Tail(path))

RECURSIVE get_path_value(_, _)
get_path_value(root, path) ==
    IF path = <<>> THEN root
    ELSE IF ~IsTable(root) THEN Nil
    ELSE get_path_value(Field(root, Head(path)), Tail(path))

\* A call may have more arguments than are expected.
call_args_match(call, expected) ==
    /\ Len(call) >= Len(expected)
    /\ \A i \in 1..Len(expected) : call[i] = expected[i]

mock_was_called_with(calls, expected) ==
    \E i \in 1..Len(calls) : call_args_match(calls[i], expected)

(* The assertions.                                                         *)

lua_truthy(a) == a # Nil /\ a # Boolean("false")

assert_empty(v) ==
    \/ v = Nil
    \/ IsText(v) /\ v.v = ""
    \/ IsTable(v) /\ DOMAIN v.at = {}

\* Mutant: only texts and tables can have something in them.
assert_not_empty_typed(v) ==
    \/ IsText(v) /\ v.v # ""
    \/ IsTable(v) /\ DOMAIN v.at # {}

assert_not_empty(v) ==
    /\ v # Nil
    /\ IsText(v) => v.v # ""
    /\ IsTable(v) => DOMAIN v.at # {}

starts_with(a, b) == IsPrefix(Letters(b.v), Letters(a.v))
ends_with(a, b) == IsSuffix(Letters(b.v), Letters(a.v))
contains(a, b) ==
    \E n \in 0..Len(Letters(a.v)) : IsPrefix(Letters(b.v), SubSeq(Letters(a.v), n + 1, Len(Letters(a.v))))

is_in(list, value) == \E k \in DOMAIN list.at : Same(list.at[k], value)
table_has(t, k, expected) ==
    /\ Field(t, k) # Nil
    /\ expected # Nil => Same(Field(t, k), expected)

\* What process_exit_code and process_stream return, and the like for other
\* fields of a table of results: one value, or none when they raise.
code(r, field) == IF IsNumber(Field(r, field)) THEN {Field(r, field).v} ELSE {}
stream(r) == IF IsText(Field(r, "stdout")) THEN {Field(r, "stdout")} ELSE {}
----------------------------------------------------------------------------
(* Whether a matcher or an assertion returns: anything else is an error.   *)

UnaryReturns(a, name) ==
    CASE name = "toBeTruthy"       -> ~is_vitest_falsy(a)
      [] name = "toBeFalsy"        -> is_vitest_falsy(a)
      [] name = "toBeNull"         -> a = Nil
      [] name = "toBeDefined"      -> a # Nil
      [] name = "assert_true"      -> lua_truthy(a)
      [] name = "assert_false"     -> ~lua_truthy(a)
      [] name = "assert_empty"     -> assert_empty(a)
      [] name = "assert_not_empty" -> assert_not_empty(a)
      [] name \in {"toHaveReturnedWith", "toMatchInlineSnapshot"} -> FALSE

BinaryReturns(a, name, b) ==
    CASE name = "toBe"             -> Same(a, b)
      [] name \in {"toEqual", "toStrictEqual"} -> strict_equal(a, b)
      [] name = "toContain"        -> \/ IsText(a) /\ contains(a, Text(b.v))
                                      \/ IsTable(a) /\ is_in(a, b)
      [] name = "toHaveLength"     -> /\ IsText(a) \/ IsTable(a)
                                      /\ Same(Number(ToString(Length(a))), b)
      [] name = "toBeGreaterThan"  -> IsNumber(a) /\ IsNumber(b) /\ Less(b, a)
      [] name = "toBeLessThan"     -> IsNumber(a) /\ IsNumber(b) /\ Less(a, b)
      [] name \in {"toBeCloseTo", "assert_near"} -> IsNumber(a) /\ Same(a, b)
      [] name = "assert_eq"        -> Same(a, b)
      [] name = "assert_not_eq"    -> ~Same(a, b)
      [] name = "assert_type"      -> a.type = b.v
      [] name = "assert_in"        -> is_in(a, b)
      [] name = "assert_contains"  -> contains(a, b)
      [] name = "assert_starts_with" -> starts_with(a, b)
      [] name = "assert_ends_with" -> ends_with(a, b)

\* Assertions about a result: of a process, a request or a coverage report.
ResultReturns(r, name, b) ==
    CASE name = "assert_exit_code"    -> b.v \in code(r, "exit_code")
      [] name = "assert_exit_not"     -> code(r, "exit_code") \ {b.v} # {}
      [] name = "assert_exit_success" -> "0" \in code(r, "exit_code")
      [] name = "assert_http_status"  -> b.v \in code(r, "status")
      [] name = "assert_coverage_rate" -> \E v \in code(r, "line_rate") : ~Less(Number(v), b)
      [] name = "assert_coverage_threshold" -> Field(r, "threshold_passed") = Boolean("true")
      [] name = "assert_stdout_contains" -> \E t \in stream(r) : contains(t, b)
      [] name = "assert_stdout_empty" -> Text("") \in stream(r)

MockReturns(m, q) == m.type = "mock" /\
    CASE q.name \in {"toHaveBeenCalled", "assert_called"} -> m.calls # <<>>
      [] q.name \in {"toHaveBeenCalledTimes", "assert_called_times"} -> Len(m.calls) = q.times
      [] q.name = "toHaveBeenCalledWith" -> mock_was_called_with(m.calls, q.args)
      [] q.name = "assert_called_with" ->
            q.times \in 1..Len(m.calls) /\ m.calls[q.times] = q.args

Unary == {"toBeTruthy", "toBeFalsy", "toBeNull", "toBeDefined", "toHaveReturnedWith",
          "toMatchInlineSnapshot", "assert_true", "assert_false", "assert_empty",
          "assert_not_empty"}
OfTexts == {"assert_contains", "assert_starts_with", "assert_ends_with"}
OfNumbers == {"toHaveLength", "assert_near"}
Binary == {"toBe", "toEqual", "toStrictEqual", "toContain", "toBeGreaterThan", "toBeLessThan",
           "toBeCloseTo", "assert_eq", "assert_not_eq", "assert_type", "assert_in"}
          \cup OfTexts \cup OfNumbers
OfProperties == {"toHaveProperty", "assert_table_has"}
OfResults == {"assert_exit_code", "assert_exit_not", "assert_exit_success", "assert_http_status",
              "assert_coverage_rate", "assert_coverage_threshold", "assert_stdout_contains",
              "assert_stdout_empty"}
OfMocks == {"toHaveBeenCalled", "toHaveBeenCalledTimes", "toHaveBeenCalledWith",
            "assert_called", "assert_called_times", "assert_called_with"}
Matchers == {"toBe", "toEqual", "toStrictEqual", "toBeTruthy", "toBeFalsy", "toBeNull",
             "toBeDefined", "toContain", "toHaveLength", "toHaveProperty", "toBeGreaterThan",
             "toBeLessThan", "toBeCloseTo", "toHaveBeenCalled", "toHaveBeenCalledTimes",
             "toHaveBeenCalledWith", "toHaveReturnedWith", "toMatchInlineSnapshot"}

Returns(a, q) ==
    CASE q.name \in Unary     -> UnaryReturns(a, q.name)
      [] q.name \in Binary    -> BinaryReturns(a, q.name, q.expected)
      [] q.name \in OfResults -> ResultReturns(a, q.name, q.expected)
      [] q.name \in OfMocks   -> MockReturns(a, q)
      [] q.name \in OfProperties ->
            IF Len(q.path) = 1 THEN IsTable(a) /\ table_has(a, q.path[1], q.expected)
            ELSE /\ IsTable(a) /\ get_path_value(a, q.path) # Nil
                 /\ q.expected # Nil => Same(get_path_value(a, q.path), q.expected)

TypeNames == {Text("nil"), Text("number"), Text("table")}

Questions ==
    [name : Unary]
    \cup [name : (Binary \cup OfResults) \ {"assert_type"}, expected : Values]
    \cup [name : {"assert_type"}, expected : TypeNames]
    \cup [name : OfProperties, path : Paths, expected : Values \cup {Nil}]
    \cup [name : OfMocks, times : 0..2, args : CallArgs]

Subjects == Values \cup Results \cup {[type |-> "mock", v |-> "mock", calls |-> m] : m \in Mocks}

\* What the functions can be given: C++ refuses other types of arguments.
Fits(a, q) ==
    /\ (q.name \in OfMocks) = (a.type = "mock")
    /\ q.name \in OfResults <=> a \in Results
    /\ q.name \in OfResults =>
          IF q.name = "assert_stdout_contains" THEN IsText(q.expected) ELSE IsNumber(q.expected)
    /\ q.name \in OfTexts => IsText(a) /\ IsText(q.expected)
    /\ q.name \in OfNumbers => IsNumber(q.expected)
    /\ q.name = "toContain" /\ IsText(a) => IsText(q.expected) \/ IsNumber(q.expected)
    /\ q.name \in {"assert_in", "assert_table_has"} => IsTable(a)
    /\ q.name = "assert_table_has" => Len(q.path) = 1
----------------------------------------------------------------------------
Init ==
    /\ pc = "start" /\ made = "expect" /\ negated = FALSE /\ nots = 0
    /\ given = Nil /\ actual = Nil
    /\ asked = [name |-> "none"] /\ result = "none"

\* expect(given)
Expect ==
    /\ pc = "start"
    /\ pc' = "made"
    /\ given' \in Subjects /\ actual' = given'
    /\ UNCHANGED <<made, negated, nots, asked, result>>

\* expect["not"](given): the function takes the value as its first parameter
\* and looks at its second.
ExpectNot ==
    /\ pc = "start"
    /\ pc' = "made" /\ made' = "expect.not"
    /\ given' \in Subjects /\ actual' = Nil
    /\ negated' = TRUE /\ nots' = 1
    /\ UNCHANGED <<asked, result>>

Not ==
    /\ pc = "made" /\ nots < MaxNots
    /\ negated' = ~negated /\ nots' = nots + 1
    /\ UNCHANGED <<pc, made, given, actual, asked, result>>

\* run_matcher: what a negative expectation wants is any error.
Ask ==
    /\ pc = "made"
    /\ pc' = "done"
    /\ asked' \in {q \in Questions : q.name \in Matchers /\ Fits(given, q)}
    /\ result' = IF Returns(actual, asked') # negated THEN "pass" ELSE "raise"
    /\ UNCHANGED <<made, given, actual, negated, nots>>

\* A name that is no matcher is nil, and calling it is an error.
AskUnknown ==
    /\ pc = "made"
    /\ pc' = "done"
    /\ asked' = [name |-> "unknown"] /\ result' = "raise"
    /\ UNCHANGED <<made, given, actual, negated, nots>>

\* t.assert_...(given, ...)
AskAssertion ==
    /\ pc = "start"
    /\ pc' = "done" /\ made' = "assert"
    /\ given' \in Subjects
    /\ asked' \in {q \in Questions : q.name \notin Matchers /\ Fits(given', q)}
    /\ result' = IF Returns(given', asked') THEN "pass" ELSE "raise"
    /\ UNCHANGED <<actual, negated, nots>>

Next == Expect \/ ExpectNot \/ Not \/ Ask \/ AskUnknown \/ AskAssertion

Spec == Init /\ [][Next]_vars
----------------------------------------------------------------------------
(* Properties.                                                             *)

\* What is asked of the matcher itself: the outcome without the nots.
Holds(name) == /\ pc = "done" /\ made = "expect" /\ asked.name = name
                  /\ (result = "pass") = (nots % 2 = 0)
Fails(name) == /\ pc = "done" /\ made = "expect" /\ asked.name = name
                  /\ (result = "pass") = (nots % 2 = 1)

\* The reference for deep equality: the set of the paths of a value, each
\* with the scalar, or the fact that there is a table, at its end.
RECURSIVE Contents(_)
Contents(a) ==
    IF ~IsTable(a) THEN {[path |-> <<>>, leaf |-> a]}
    ELSE {[path |-> <<>>, leaf |-> [type |-> "table", v |-> ""]]}
         \cup UNION {{[c EXCEPT !.path = <<k>> \o @] : c \in Contents(a.at[k])} : k \in DOMAIN a.at}

\* toEqual, under any number of nots, decides whether two values have the
\* same contents, whichever side has more keys and whatever is shared; a
\* value that contains NaN equals none.
EqualIsDeep ==
    LET same == Contents(given) = Contents(asked.expected)
                /\ \A c \in Contents(given) : c.leaf # Number("nan")
    IN  (Holds("toEqual") => same) /\ (Fails("toEqual") => ~same)

TruthIsJavaScripts ==
    LET false == {Nil, Boolean("false"), Number("0"), Number("nan"), Text("")}
    IN  /\ Holds("toBeTruthy") \/ Fails("toBeFalsy") => given \notin false
        /\ Holds("toBeFalsy") \/ Fails("toBeTruthy") => given \in false

PropertyIsContent ==
    LET found == IF IsTable(given)
                 THEN {c \in Contents(given) : c.path = asked.path /\ c.leaf # Nil}
                 ELSE {}
    IN  (Holds("toHaveProperty") => found # {})
        /\ (Fails("toHaveProperty") /\ asked.expected = Nil => found = {})

ExactCallAccepted ==
    Fails("toHaveBeenCalledWith") =>
        \A i \in 1..Len(given.calls) : given.calls[i] # asked.args

\* The other matchers, under any number of nots: truth is JavaScript's (0, NaN
\* and the empty string are false, an empty table is true), toHaveProperty
\* finds what the contents have at a path and nothing else, and a mock that
\* was called with exactly the expected arguments is accepted.
MatchersAgree == TruthIsJavaScripts /\ PropertyIsContent /\ ExactCallAccepted

Opposite ==
    [assert_empty |-> "assert_not_empty", assert_not_empty |-> "assert_empty",
     assert_exit_code |-> "assert_exit_not", assert_exit_not |-> "assert_exit_code"]

Passes(name) == Returns(given, [asked EXCEPT !.name = name])

\* Assertions that do not share their code agree.  Of assert_empty and
\* assert_not_empty exactly one returns, for every value of every type; of
\* assert_exit_code and assert_exit_not exactly one returns for a result that
\* has an exit code, and none for a result that has none.  A text that starts
\* or ends with another contains it, and what assert_false accepts is false in
\* JavaScript too.
AssertionsAgree ==
    made = "assert" =>
        /\ asked.name \in {"assert_empty", "assert_not_empty"}
             => (result = "pass") # Passes(Opposite[asked.name])
        /\ asked.name \in {"assert_exit_code", "assert_exit_not"}
             => IF IsNumber(Field(given, "exit_code"))
                THEN (result = "pass") # Passes(Opposite[asked.name])
                ELSE result = "raise"
        /\ asked.name \in {"assert_starts_with", "assert_ends_with"} /\ result = "pass"
             => Passes("assert_contains")
        /\ asked.name = "assert_false" /\ result = "pass" => Passes("toBeFalsy")
============================================================================
