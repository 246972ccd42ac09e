----------------------------- MODULE Lifecycle -----------------------------
(***************************************************************************)
(* One test file, from loading it to the last event it writes: the Lua     *)
(* runtime (runtime/teez-worker.lua) walks the registered tests, runs hook *)
(* lists, deferred functions and bodies, and the C++ runner                *)
(* (src/runner.cpp) drives the attempts and writes the event stream.       *)
(*                                                                         *)
(* Every function a test file hands over (a body, a hook, a deferred       *)
(* function, the file itself) is a callback: what it can do to the worker  *)
(* is raise an error, register deferred functions and register tests, and  *)
(* Effects says which combinations of these the callbacks of an instance   *)
(* may have.  A suite is known by its key: two describe blocks whose paths *)
(* print alike share their hooks, in the code and here.                    *)
(***************************************************************************)
EXTENDS Naturals, Sequences

CONSTANTS
    Key,        \* suite keys
    Limits,     \* the attempts a test may ask for with { retry = n }
    Files,      \* the files that may be loaded, see IsFile
    Effects,    \* what one call of a callback may do, see IsEffect
    MaxTests,   \* bound on the tests registered in one file
    MaxDefers   \* bound on the deferred functions waiting at one time

(***************************************************************************)
(* An error object is printable text, text that is not UTF-8 ("bytes": it  *)
(* is kept in Lua and C++ strings, but writing it as JSON raises), or an   *)
(* object on which tostring itself raises: printable text or bytes again.  *)
(***************************************************************************)
Message == {"none", "text", "bytes"}
Unprintable == {"raises text", "raises bytes"}
Errors == Message \cup Unprintable

\* What an error says that raising about an unprintable object left behind.
Says(error) == IF error = "raises bytes" THEN "bytes" ELSE "text"
Modes == {"normal", "only", "fails", "skip", "todo"}
AllKind == {"beforeAll", "afterAll"}
HookKind == AllKind \cup {"beforeEach", "afterEach"}

\* The suites of a test from the outermost in: the key of a nested suite is
\* longer than its parent's, so no key comes twice.
Stack == {s \in Seq(Key) : \A i, j \in 1..Len(s) : s[i] = s[j] => i = j}

\* A registered test: its suites, what should_run_test answers for it
\* (selected), and whether its name can be written as JSON.
TestCase == [stack : Stack, mode : Modes, retry : Limits, in_only_block : BOOLEAN,
             selected : BOOLEAN, utf8 : BOOLEAN]

\* A file: what loading it registers, or the error that loading raises.
IsFile(f) ==
    /\ f.tests \in Seq(TestCase)
    /\ f.hooks \in [Key -> [HookKind -> Nat]]
    /\ f.defers \in 0..MaxDefers
    /\ f.error \in Message

IsEffect(e) == /\ e.error \in Errors
               /\ e.defers \in Nat
               /\ e.adds \in Seq(TestCase)

ASSUME LifecycleAssumption ==
    /\ Limits \subseteq Nat \ {0}
    /\ MaxTests \in Nat /\ MaxDefers \in Nat
    /\ \A f \in Files : IsFile(f)
    /\ \A e \in Effects : IsEffect(e)
    /\ Key \cap Nat = {}

VARIABLES
    pending_tests,  \* the tests in the order they were registered
    hooks,          \* how many hooks of each kind each suite has
    has_only,       \* some test, when the run began, was marked only
    idx,            \* position of the current test in pending_tests
    pc,             \* where the runtime is
    level,          \* the suite of the current test whose turn it is
    pos,            \* the hook, or the deferred function, about to run
    attempt,        \* the attempt at the current test
    registered, completed,          \* tests counted per suite
    beforeAll_done, afterAll_done,  \* the All hooks already run, per suite
    defer_stack,    \* the deferred functions, latest last
    body_error,     \* what run_attempt returned
    cleanup_errors, \* the latest entry of the Lua list of that name
    escape,         \* what an error object said whose tostring left the file's run
    out,            \* the events written to standard output
    saw_failure,    \* makes the worker exit with 1
    owed, ran,      \* history: functions deferred up to the end of the body, and those run
    dirty,          \* history: some callback of this attempt raised
    announced,      \* history: the latest test that was announced, 0 before the first
    raised,         \* history: some callback of some attempt raised
    hook_calls      \* history: the calls of beforeAll and afterAll functions

list == <<pending_tests, hooks, has_only>>
counters == <<registered, completed, beforeAll_done, afterAll_done>>
errors == <<body_error, cleanup_errors, escape>>
history == <<announced, owed, ran, dirty, raised, hook_calls>>
vars == <<list, idx, pc, level, pos, attempt, counters, defer_stack, errors, out,
          saw_failure, history>>

Event(name, id)       == [event |-> name, id |-> id]
Phase(id, phase, st)  == [event |-> "phase", id |-> id, phase |-> phase, state |-> st]
Retry(id, n, max)     == [event |-> "retry", id |-> id, attempt |-> n, max |-> max]

\* Mutant: the file's failure is written as an event of its own.
FileFailed_error      == Event("error", 0)
FileFailed            == Event("fail", 0)           \* 0 stands for the file

None == [id |-> 0, phase |-> "none"]

Init ==
    /\ pending_tests = <<>> /\ hooks = [k \in Key |-> [h \in HookKind |-> 0]]
    /\ has_only = FALSE
    /\ idx = 0 /\ pc = "load" /\ level = 0 /\ pos = 0 /\ attempt = 0
    /\ registered = [k \in Key |-> 0] /\ completed = [k \in Key |-> 0]
    /\ beforeAll_done = [k \in Key |-> FALSE] /\ afterAll_done = [k \in Key |-> FALSE]
    /\ defer_stack = <<>> /\ body_error = "none" /\ cleanup_errors = "none"
    /\ escape = "none" /\ out = <<>> /\ saw_failure = FALSE
    /\ announced = 0 /\ owed = <<>> /\ ran = <<>> /\ dirty = FALSE /\ raised = FALSE
    /\ hook_calls = <<>>
----------------------------------------------------------------------------
(* The file.                                                               *)

\* n functions deferred at a point of the run, told apart by that point and
\* by their place in the stack they are pushed on.
Deferred(where, n, stack) == [i \in 1..n |-> [where |-> where, n |-> Len(stack) + i]]

\* Lua runs the file, which registers tests, hooks and perhaps deferred
\* functions; __teez_run_all_tests then looks for only marks once.
LoadFile ==
    /\ pc = "load"
    /\ \E f \in Files :
         /\ f.error = "none"
         /\ pending_tests' = f.tests /\ hooks' = f.hooks
         /\ defer_stack' = Deferred("load", f.defers, <<>>)
         /\ has_only' = \E i \in 1..Len(f.tests) :
                            f.tests[i].mode = "only" \/ f.tests[i].in_only_block
    /\ idx' = 1 /\ pc' = "next"
    /\ UNCHANGED <<level, pos, attempt, counters, errors, out, saw_failure, history>>

\* Mutant: the failure of the file is written and not noted.
FailFile_unnoted(msg) ==
    IF msg = "bytes" THEN pc' = "crashed" /\ UNCHANGED <<out, saw_failure>>
                     ELSE pc' = "done" /\ out' = Append(out, FileFailed) /\ UNCHANGED saw_failure

\* The failure is noted before the event is written; a message that is not
\* UTF-8 makes writing it raise, and the exception leaves the worker.
FailFile(msg) ==
    /\ saw_failure' = TRUE
    /\ IF msg = "bytes" THEN pc' = "crashed" /\ UNCHANGED out
                        ELSE pc' = "done" /\ out' = Append(out, FileFailed)

LoadFails ==
    /\ pc = "load"
    /\ \E f \in Files : f.error # "none" /\ FailFile(f.error)
    /\ UNCHANGED <<list, idx, level, pos, attempt, counters, defer_stack, errors, history>>

\* An error that left __teez_run_all_tests: it says what the error object it
\* came from raised, or in ASCII what could not be written as JSON.
ReportEscape ==
    /\ pc = "escaped"
    /\ FailFile(escape)
    /\ UNCHANGED <<list, idx, level, pos, attempt, counters, defer_stack, errors, history>>

\* Mutant: the loop over the tests stops one too early.
Finish_early ==
    /\ pc = "next" /\ idx = Len(pending_tests)
    /\ pc' = "done"
    /\ UNCHANGED <<list, idx, level, pos, attempt, counters, defer_stack, errors, out,
                   saw_failure, history>>

Finish ==
    /\ pc = "next" /\ idx > Len(pending_tests)
    /\ pc' = "done"
    /\ UNCHANGED <<list, idx, level, pos, attempt, counters, defer_stack, errors, out,
                   saw_failure, history>>
----------------------------------------------------------------------------
(* The list of tests.                                                      *)

current == pending_tests[idx]
Suite == current.stack[level]
Depth == Len(current.stack)

InSuite(tc, k) == \E i \in 1..Len(tc.stack) : tc.stack[i] = k

\* The only marks and the filters.
Runs(tc) == /\ has_only => tc.mode = "only" \/ tc.in_only_block
            /\ tc.selected

PassOver ==
    /\ pc = "next" /\ idx <= Len(pending_tests) /\ ~Runs(current)
    /\ idx' = idx + 1
    /\ UNCHANGED <<list, pc, level, pos, attempt, counters, defer_stack, errors, out,
                   saw_failure, history>>

\* Mutant: a test counts for its innermost suite only.
register_test_counts_innermost(tc) ==
    registered' = [k \in Key |-> IF tc.stack # <<>> /\ tc.stack[Len(tc.stack)] = k
                                 THEN registered[k] + 1 ELSE registered[k]]

register_test_counts(tc) ==
    registered' = [k \in Key |-> IF InSuite(tc, k) THEN registered[k] + 1 ELSE registered[k]]

\* Writing the start event raises when the test's name is not UTF-8.
StartTest ==
    /\ pc = "next" /\ idx <= Len(pending_tests) /\ Runs(current)
    /\ current.mode \notin {"skip", "todo"}
    /\ register_test_counts(current)
    /\ IF current.utf8 THEN /\ out' = Append(out, Event("start", idx))
                            /\ pc' = "before" /\ attempt' = 1 /\ announced' = idx
                       ELSE pc' = "escaped" /\ UNCHANGED <<out, attempt, announced>>
    /\ UNCHANGED <<list, idx, level, pos, completed, beforeAll_done, afterAll_done,
                   defer_stack, errors, saw_failure, owed, ran, dirty, raised,
                   hook_calls>>

SkipTest ==
    /\ pc = "next" /\ idx <= Len(pending_tests) /\ Runs(current)
    /\ current.mode \in {"skip", "todo"}
    /\ register_test_counts(current)
    /\ IF current.utf8
       THEN /\ out' = Append(Append(out, Event("start", idx)), Event(current.mode, idx))
            /\ pc' = "skipped" /\ level' = Depth /\ announced' = idx
       ELSE pc' = "escaped" /\ UNCHANGED <<out, level, announced>>
    /\ UNCHANGED <<list, idx, pos, attempt, completed, beforeAll_done, afterAll_done,
                   defer_stack, errors, saw_failure, owed, ran, dirty, raised,
                   hook_calls>>
----------------------------------------------------------------------------
(* Callbacks and hook lists.                                               *)

\* What a callback registers, and that it raised.
Callback(e, where) ==
    LET pushed == Deferred(where, e.defers, defer_stack)
    IN  /\ Len(defer_stack) + e.defers <= MaxDefers
        /\ Len(pending_tests) + Len(e.adds) <= MaxTests
        /\ pending_tests' = pending_tests \o e.adds
        /\ defer_stack' = defer_stack \o pushed
        /\ owed' = IF where = "setup" THEN owed \o pushed ELSE owed
        /\ dirty' = (dirty \/ e.error # "none")
        /\ raised' = (raised \/ (where # "skipped" /\ e.error # "none"))
        /\ UNCHANGED <<hooks, has_only, announced>>

SetupPcs == {"before", "beforeAll", "beforeEach"}
HookPcs == {"beforeAll", "beforeEach", "afterEach", "complete", "skipped"}

Kind == IF pc \in {"complete", "skipped"} THEN "afterAll" ELSE pc
Functions == hooks[Suite][Kind]
ThisPhase == [id |-> IF Kind \in AllKind THEN Suite ELSE idx,
              phase |-> Kind]
NextLevel == IF pc \in SetupPcs THEN level + 1 ELSE level - 1

\* Mutant: complete_skipped_test writes phase events as after_test does.
EmitPhase_always(state) ==
    out' = Append(out, Phase(ThisPhase.id, ThisPhase.phase, state))

\* complete_skipped_test runs afterAll hooks without phase events.
EmitPhase(state) ==
    out' = IF pc = "skipped" THEN out
           ELSE Append(out, Phase(ThisPhase.id, ThisPhase.phase, state))

\* Nothing is written for an empty list.
OpenHooks ==
    IF Functions = 0 THEN level' = NextLevel /\ UNCHANGED <<pos, out>>
                     ELSE pos' = 1 /\ EmitPhase("start") /\ UNCHANGED level

\* A hook's error is kept and the next hook runs; one that tostring cannot
\* print leaves the list.  after_test then returns no errors at all, and the
\* runner takes the attempt as failed; everywhere else the run is over.
CallHook ==
    /\ pc \in HookPcs /\ pos > 0 /\ pos <= Functions
    /\ \E e \in Effects :
         /\ Callback(e, IF pc \in SetupPcs THEN "setup"
                        ELSE IF pc = "skipped" THEN "skipped" ELSE "late")
         /\ IF e.error \in Unprintable
            THEN /\ pos' = 0
                 /\ IF pc \in {"afterEach", "complete"}
                    THEN pc' = "judge" /\ cleanup_errors' = Says(e.error) /\ UNCHANGED escape
                    ELSE pc' = "escaped" /\ escape' = Says(e.error) /\ UNCHANGED cleanup_errors
            ELSE /\ pos' = pos + 1 /\ UNCHANGED <<pc, escape>>
                 /\ cleanup_errors' = IF e.error = "none" THEN cleanup_errors ELSE e.error
    /\ hook_calls' = IF Kind \in AllKind
                     THEN Append(hook_calls, [suite |-> Suite, kind |-> Kind, hook |-> pos])
                     ELSE hook_calls
    /\ UNCHANGED <<idx, level, attempt, counters, body_error, out, saw_failure, ran>>

CloseHooks ==
    /\ pc \in HookPcs /\ pos > 0 /\ pos > Functions
    /\ pos' = 0 /\ level' = NextLevel
    /\ EmitPhase("end")
    /\ UNCHANGED <<list, idx, pc, attempt, counters, defer_stack, errors, saw_failure,
                   history>>
----------------------------------------------------------------------------
(* __teez_before_test and the body.                                        *)

BeforeTest ==
    /\ pc = "before"
    /\ defer_stack' = <<>> /\ cleanup_errors' = "none"
    /\ owed' = <<>> /\ ran' = <<>> /\ dirty' = FALSE
    /\ pc' = "beforeAll" /\ level' = 1
    /\ UNCHANGED <<list, idx, pos, attempt, counters, body_error, escape, out, saw_failure,
                   announced, raised, hook_calls>>

\* Mutant: the first test of a suite is recognized by the count of its tests.
SetUp_by_count == beforeAll_done[Suite] \/ registered[Suite] > 1

SetUp == beforeAll_done[Suite]

BeforeAll ==
    /\ pc = "beforeAll" /\ pos = 0 /\ level <= Depth
    /\ IF SetUp
       THEN level' = level + 1 /\ UNCHANGED <<pos, out, beforeAll_done>>
       ELSE beforeAll_done' = [beforeAll_done EXCEPT ![Suite] = TRUE] /\ OpenHooks
    /\ UNCHANGED <<list, idx, pc, attempt, registered, completed, afterAll_done,
                   defer_stack, errors, saw_failure, history>>

\* Mutant: the stack of deferred functions is cleared after the beforeAll
\* hooks and not before them.
BeforeAllOver_clears ==
    /\ pc = "beforeAll" /\ pos = 0 /\ level > Depth
    /\ pc' = "beforeEach" /\ level' = 1 /\ defer_stack' = <<>>
    /\ UNCHANGED <<list, idx, pos, attempt, counters, errors, out, saw_failure, history>>

BeforeAllOver ==
    /\ pc = "beforeAll" /\ pos = 0 /\ level > Depth
    /\ pc' = "beforeEach" /\ level' = 1
    /\ UNCHANGED <<list, idx, pos, attempt, counters, defer_stack, errors, out,
                   saw_failure, history>>

BeforeEach ==
    /\ pc = "beforeEach" /\ pos = 0 /\ level <= Depth
    /\ OpenHooks
    /\ UNCHANGED <<list, idx, pc, attempt, counters, defer_stack, errors, saw_failure,
                   history>>

\* The body runs whatever the hooks before it did.  Whatever it raises ends
\* up as a string.
RunBody ==
    /\ pc = "beforeEach" /\ pos = 0 /\ level > Depth
    /\ out' = Append(Append(out, Phase(idx, "test", "start")), Phase(idx, "test", "end"))
    /\ \E e \in Effects :
         /\ Callback(e, "setup")
         /\ body_error' = IF e.error \in Unprintable THEN "text" ELSE e.error
    /\ pc' = "defers" /\ pos' = Len(defer_stack')
    /\ UNCHANGED <<idx, level, attempt, counters, cleanup_errors, escape, saw_failure, ran,
                   hook_calls>>
----------------------------------------------------------------------------
(* __teez_after_test.                                                      *)

\* The loop's bound is taken before it starts: what a deferred function
\* defers is not reached.
RunDefer ==
    /\ pc = "defers" /\ pos > 0
    /\ \E e \in Effects :
         /\ Callback(e, "late")
         /\ IF e.error \in Unprintable
            THEN pc' = "judge" /\ pos' = 0 /\ cleanup_errors' = Says(e.error)
            ELSE /\ pos' = pos - 1 /\ UNCHANGED pc
                 /\ cleanup_errors' = IF e.error = "none" THEN cleanup_errors ELSE e.error
    /\ ran' = Append(ran, defer_stack[pos])
    /\ UNCHANGED <<idx, level, attempt, counters, body_error, escape, out, saw_failure,
                   hook_calls>>

DefersOver ==
    /\ pc = "defers" /\ pos = 0
    /\ defer_stack' = <<>>
    /\ pc' = "afterEach" /\ level' = Depth
    /\ UNCHANGED <<list, idx, pos, attempt, counters, errors, out, saw_failure, history>>

AfterEach ==
    /\ pc = "afterEach" /\ pos = 0 /\ level > 0
    /\ OpenHooks
    /\ UNCHANGED <<list, idx, pc, attempt, counters, defer_stack, errors, saw_failure,
                   history>>

\* Mutant: every attempt is finalized.
finalize_always == TRUE

\* Only the last attempt a test may have is finalized.
finalize == attempt = current.retry

AfterEachOver ==
    /\ pc = "afterEach" /\ pos = 0 /\ level = 0
    /\ IF finalize THEN pc' = "complete" /\ level' = Depth
                   ELSE pc' = "judge" /\ UNCHANGED level
    /\ UNCHANGED <<list, idx, pos, attempt, counters, defer_stack, errors, out,
                   saw_failure, history>>

\* Mutant: afterAll_done is not looked at.
LastOfSuite_again == completed'[Suite] = registered[Suite]

LastOfSuite == completed'[Suite] = registered[Suite] /\ ~afterAll_done[Suite]

\* One suite of the test, in after_test or in complete_skipped_test.
CompleteSuite ==
    /\ pc \in {"complete", "skipped"} /\ pos = 0 /\ level > 0
    /\ completed' = [completed EXCEPT ![Suite] = @ + 1]
    /\ IF LastOfSuite
       THEN afterAll_done' = [afterAll_done EXCEPT ![Suite] = TRUE] /\ OpenHooks
       ELSE level' = NextLevel /\ UNCHANGED <<afterAll_done, pos, out>>
    /\ UNCHANGED <<list, idx, pc, attempt, registered, beforeAll_done, defer_stack,
                   errors, saw_failure, history>>

CompleteOver ==
    /\ pc = "complete" /\ pos = 0 /\ level = 0
    /\ pc' = "judge"
    /\ UNCHANGED <<list, idx, level, pos, attempt, counters, defer_stack, errors, out,
                   saw_failure, history>>

\* Mutant: execute_test does not return after a skipped test, and runs it.
SkipOver_runs ==
    /\ pc = "skipped" /\ pos = 0 /\ level = 0
    /\ pc' = "before" /\ attempt' = current.retry
    /\ UNCHANGED <<list, idx, level, pos, counters, defer_stack, errors, out,
                   saw_failure, history>>

SkipOver ==
    /\ pc = "skipped" /\ pos = 0 /\ level = 0
    /\ pc' = "next" /\ idx' = idx + 1
    /\ UNCHANGED <<list, level, pos, attempt, counters, defer_stack, errors, out,
                   saw_failure, history>>
----------------------------------------------------------------------------
(* The verdict on an attempt.                                              *)

\* Mutant: the errors that after_test returns are ignored.
failed_body_only == body_error # "none"

failed == body_error # "none" \/ cleanup_errors # "none"

\* Mutant: a test marked fails passes in any case.
accepted_fails_always == ~failed \/ current.mode = "fails"

accepted == failed <=> current.mode = "fails"

\* The message a retry or fail event carries: for a test marked fails it is
\* a fixed text, else the last cleanup error hides the body's.
last_message == IF current.mode = "fails" THEN "text"
                ELSE IF cleanup_errors # "none" THEN cleanup_errors ELSE body_error

Pass ==
    /\ pc = "judge" /\ accepted
    /\ out' = Append(out, Event("pass", idx))
    /\ pc' = "next" /\ idx' = idx + 1
    /\ UNCHANGED <<list, level, pos, attempt, counters, defer_stack, errors, saw_failure,
                   history>>

RetryTest ==
    /\ pc = "judge" /\ ~accepted /\ attempt # current.retry
    /\ IF last_message = "bytes"
       THEN pc' = "escaped" /\ UNCHANGED <<out, attempt>>
       ELSE /\ out' = Append(out, Retry(idx, attempt, current.retry))
            /\ pc' = "before" /\ attempt' = attempt + 1
    /\ UNCHANGED <<list, idx, level, pos, counters, defer_stack, errors, saw_failure,
                   history>>

Fail ==
    /\ pc = "judge" /\ ~accepted /\ attempt = current.retry
    /\ saw_failure' = TRUE
    /\ IF last_message = "bytes"
       THEN pc' = "escaped" /\ UNCHANGED <<out, idx>>
       ELSE /\ out' = Append(out, Event("fail", idx))
            /\ pc' = "next" /\ idx' = idx + 1
    /\ UNCHANGED <<list, level, pos, attempt, counters, defer_stack, errors, history>>

Next ==
    \/ LoadFile \/ LoadFails \/ ReportEscape \/ Finish
    \/ PassOver \/ StartTest \/ SkipTest
    \/ CallHook \/ CloseHooks
    \/ BeforeTest \/ BeforeAll \/ BeforeAllOver \/ BeforeEach \/ RunBody
    \/ RunDefer \/ DefersOver \/ AfterEach \/ AfterEachOver
    \/ CompleteSuite \/ CompleteOver \/ SkipOver
    \/ Pass \/ RetryTest \/ Fail

Spec == Init /\ [][Next]_vars

\* One thread runs the file and nothing waits: it goes on as long as every
\* callback returns.
FairSpec == Spec /\ WF_vars(Next)
----------------------------------------------------------------------------
(* Properties.                                                             *)

Ended == pc \in {"done", "crashed"}
Verdicts == {"pass", "fail", "skip", "todo"}

\* Event i of the output.
IsStart(i, t)   == out[i] = Event("start", t)
IsVerdict(i, t) == out[i].event \in Verdicts /\ out[i].id = t
IsPhase(i, id, phase, st) == out[i] = Phase(id, phase, st)
IsRetry(i, t)   == out[i].event = "retry" /\ out[i].id = t

Ids == Nat \cup Key
Events == [event : {"start"} \cup Verdicts, id : Nat]
          \cup [event : {"phase"}, id : Ids, phase : HookKind \cup {"test"},
                state : {"start", "end"}]
          \cup [event : {"retry"}, id : Nat, attempt : Nat, max : Nat]

HookCall == [suite : Key, kind : AllKind, hook : Nat]
Deferral == [where : {"load", "setup", "late", "skipped"}, n : Nat]

\* The shape of the state.
TypeOK ==
    /\ pending_tests \in Seq(TestCase) /\ hooks \in [Key -> [HookKind -> Nat]]
    /\ has_only \in BOOLEAN
    /\ announced \in Nat /\ idx \in Nat /\ level \in Nat /\ pos \in Nat /\ attempt \in Nat
    /\ pc \in HookPcs \cup {"load", "next", "before", "defers", "judge", "escaped",
                            "done", "crashed"}
    /\ registered \in [Key -> Nat] /\ completed \in [Key -> Nat]
    /\ beforeAll_done \in [Key -> BOOLEAN] /\ afterAll_done \in [Key -> BOOLEAN]
    /\ defer_stack \in Seq(Deferral) /\ owed \in Seq(Deferral) /\ ran \in Seq(Deferral)
    /\ body_error \in Message /\ cleanup_errors \in Message /\ escape \in Message
    /\ out \in Seq(Events)
    /\ saw_failure \in BOOLEAN /\ dirty \in BOOLEAN /\ raised \in BOOLEAN
    /\ hook_calls \in Seq(HookCall)

\* A suite never has more tests completed than registered, and one whose
\* test is still running has fewer: the equality that triggers afterAll
\* cannot come true while a test of the suite is under way, nor be overshot
\* and missed for good.
CompletedBehind ==
    \A k \in Key :
        /\ completed[k] <= registered[k]
        /\ (pc \in SetupPcs \cup {"defers", "afterEach"} /\ InSuite(current, k))
              => completed[k] < registered[k]

\* No beforeAll or afterAll function of a suite is called twice in a file,
\* whatever the retries, the order of the tests, the errors, and the skipped
\* tests, at the end of which afterAll runs without a phase event.
AllHooksOnce ==
    \A i, j \in 1..Len(hook_calls) : hook_calls[i] = hook_calls[j] => i = j

\* When a body runs, the beforeAll hooks of every suite around it have run to
\* their end, even those of a suite whose first test was skipped.
BeforeAllFirst ==
    \A j \in 1..Len(out) : \A t \in 1..Len(pending_tests) : \A k \in Key :
        IsPhase(j, t, "test", "start") /\ InSuite(pending_tests[t], k)
          /\ hooks[k]["beforeAll"] > 0
          => \E i \in 1..(j - 1) : IsPhase(i, k, "beforeAll", "end")

\* A test whose completion ran the afterAll hooks of one of its suites is not
\* attempted again: no retry comes after afterAll.
NoAttemptAfterOwnAfterAll ==
    \A i, j \in 1..Len(out) : \A t \in 1..Len(pending_tests) : \A k \in Key :
        i < j /\ IsPhase(i, k, "afterAll", "start") /\ IsPhase(j, t, "test", "start")
          /\ InSuite(pending_tests[t], k)
          => \E s \in i..j : IsStart(s, t)

\* What was deferred from beforeAll hooks to the end of the body has been run
\* before afterEach, each function once and the latest first, whatever the
\* deferred functions themselves deferred or raised.
DefersOnceLatestFirst ==
    pc \in {"afterEach", "complete"} =>
        /\ Len(ran) = Len(owed)
        /\ \A i \in 1..Len(ran) : ran[i] = owed[Len(owed) + 1 - i]

\* No test gets two verdicts.
OneVerdict ==
    \A i, j \in 1..Len(out) :
        out[i].event \in Verdicts /\ out[j].event \in Verdicts
          /\ out[i].id = out[j].id => i = j

\* When a file ends without being reported as failed, the tests that were
\* announced, the tests that have a verdict and the tests that only marks and
\* filters select are the same, those registered while it ran included.
SelectedTestsSettled ==
    pc = "done" /\ ~(\E i \in 1..Len(out) : out[i] = FileFailed) =>
        \A t \in 1..Len(pending_tests) :
            /\ Runs(pending_tests[t]) <=> \E i \in 1..Len(out) : IsStart(i, t)
            /\ Runs(pending_tests[t]) <=> \E i \in 1..Len(out) : IsVerdict(i, t)

\* The exit code and the stream agree: a fail event means a failing exit code,
\* and a failing exit code of a worker that ended by itself means a fail event.
ExitCodeAgrees ==
    /\ (\E i \in 1..Len(out) : out[i].event = "fail") => saw_failure
    /\ pc = "done" /\ saw_failure => \E i \in 1..Len(out) : out[i].event = "fail"
    /\ pc = "crashed" => saw_failure

\* A file that exits clean although one of its attempts raised says so: a
\* retry or a test that is expected to fail is in the stream.
CleanExit ==
    pc = "done" /\ ~saw_failure /\ raised =>
        \/ \E i \in 1..Len(out) : out[i].event = "retry"
        \/ \E i \in 1..Len(out) : \E t \in 1..Len(pending_tests) :
                out[i] = Event("pass", t) /\ pending_tests[t].mode = "fails"

\* A verdict tells the truth about its attempt: a test passes when nothing
\* that ran in the attempt, the hooks and deferred functions included,
\* raised, and a test marked fails when something did.
VerdictHonest ==
    [][\A v \in {"pass", "fail"} :
          out' = Append(out, Event(v, idx)) /\ pc = "judge" =>
              (v = "pass") = (dirty = (current.mode = "fails"))]_vars

\* The run of a file comes to its end.
Terminates == <>Ended

(* Two things the names registered and afterAll, and a test of the           *)
(* repository, promise, and the code does not keep.                          *)

\* No body of a suite's tests runs once the suite's afterAll hooks have run:
\* completed is compared with registered to find the suite's last test.
AfterAllLast ==
    \A i, j \in 1..Len(out) : \A t \in 1..Len(pending_tests) : \A k \in Key :
        i < j /\ IsPhase(i, k, "afterAll", "start") /\ InSuite(pending_tests[t], k)
          => ~IsPhase(j, t, "test", "start")

\* The lifecycle hooks run even when tests fail: at the end of a file whose
\* tests all have a verdict, the afterAll hooks of every suite with a test
\* that ran have run.
AfterAllRuns ==
    pc = "done" /\ ~(\E i \in 1..Len(out) : out[i] = FileFailed) =>
        \A k \in Key : beforeAll_done[k] => afterAll_done[k]

\* The stream follows the protocol of EventStream.
Stage ==
    IF pc \in SetupPcs THEN "setup"
    ELSE IF pc \in {"defers", "afterEach", "complete", "judge"} THEN "teardown"
    ELSE IF pc = "escaped" THEN "escaped"
    ELSE IF Ended THEN "over" ELSE "idle"

Open == IF pos > 0 /\ pc \in HookPcs \ {"skipped"} THEN ThisPhase ELSE None

Stream == INSTANCE EventStream WITH
    stage   <- Stage,
    test    <- announced,
    open    <- Open

StreamSpec == Stream!Spec
============================================================================
