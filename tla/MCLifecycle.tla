---------------------------- MODULE MCLifecycle ----------------------------
(* Small files and callbacks for the runs of Lifecycle.                    *)
EXTENDS Lifecycle

CONSTANTS A, B      \* two suites, B nested in A in the tests below

Test(stack, mode, retry) ==
    [stack |-> stack, mode |-> mode, retry |-> retry, in_only_block |-> FALSE,
     selected |-> TRUE, utf8 |-> TRUE]
Unselected(tc) == [tc EXCEPT !.selected = FALSE]
NotUtf8(tc)    == [tc EXCEPT !.utf8 = FALSE]
InOnly(tc)     == [tc EXCEPT !.in_only_block = TRUE]

\* The same number n of hooks of every kind in every suite.
Everywhere(n) == [k \in Key |-> [h \in HookKind |-> n]]
OnlyIn(suites, kinds, n) ==
    [k \in Key |-> [h \in HookKind |-> IF k \in suites /\ h \in kinds THEN n ELSE 0]]

File(tests, table) == [tests |-> tests, hooks |-> table, defers |-> 0, error |-> "none"]
Broken(message) == [File(<<>>, Everywhere(0)) EXCEPT !.error = message]

Effect(error, defers, adds) == [error |-> error, defers |-> defers, adds |-> adds]
Quiet == Effect("none", 0, <<>>)
Fails == Effect("text", 0, <<>>)
----------------------------------------------------------------------------
\* Safety: nested suites, in one of which the first test may be skipped,
\* retries, expected failures, marks and filters, titles and errors that JSON
\* cannot hold; callbacks may only raise, but raise anything.
HookTests == {Test(<<A>>, "normal", 2), Test(<<A, B>>, "normal", 1), Test(<<A, B>>, "fails", 2),
              Test(<<B>>, "skip", 1), Test(<<A, B>>, "todo", 1), Test(<<>>, "normal", 2)}
HookFiles ==
    {File(<<t, u>>, Everywhere(1)) : t, u \in HookTests}
    \cup {File(<<t, u, Test(<<A>>, "normal", 1)>>, OnlyIn({A}, {"beforeAll", "afterAll"}, 1)) :
            t, u \in HookTests}
    \cup {File(<<InOnly(Test(<<A>>, "normal", 1)), Test(<<A, B>>, "only", 1),
                 Test(<<B>>, "normal", 1), Unselected(Test(<<A>>, "only", 1))>>, Everywhere(1)),
          File(<<Test(<<A, B>>, "normal", 1), NotUtf8(Test(<<A>>, "skip", 1))>>,
               OnlyIn({A}, HookKind, 1)),
          File(<<NotUtf8(Test(<<A>>, "normal", 1))>>, Everywhere(0)),
          Broken("text"), Broken("bytes")}
HookEffects == {Effect(e, 0, <<>>) : e \in Errors}

\* Running on: every callback may fail, defer up to two functions, or register
\* a test while the file runs.
DeferFiles ==
    {[File(<<Test(<<A>>, "normal", 2), Test(<<A>>, "normal", 1)>>, table) EXCEPT !.defers = 1] :
        table \in {OnlyIn({A}, HookKind, 1), OnlyIn({A}, {"beforeEach"}, 2)}}
LateTests == {Test(<<A>>, "normal", 1), Test(<<>>, "only", 1), Test(<<A, B>>, "skip", 1)}
LateFiles == {File(<<t>>, OnlyIn({A}, HookKind, 1)) :
                t \in {Test(<<A>>, "normal", 2), Test(<<A>>, "only", 1), Test(<<A, B>>, "skip", 1)}}
LongFiles == DeferFiles \cup LateFiles
LongEffects ==
    {Quiet, Fails, Effect("none", 1, <<>>), Effect("none", 2, <<>>), Effect("raises text", 1, <<>>)}
    \cup {Effect("none", 0, <<t>>) : t \in LateTests}
============================================================================
