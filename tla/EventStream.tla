---------------------------- MODULE EventStream ----------------------------
(***************************************************************************)
(* What a reader of a worker's standard output may rely on while one test  *)
(* file runs: the order in which start, phase, retry and verdict events of *)
(* that file can appear.  It knows nothing of suites, hook lists, defers   *)
(* or Lua; Lifecycle.tla is checked, and proved, to implement it.          *)
(* A test is known by its position in the file's list of tests.            *)
(***************************************************************************)
EXTENDS Naturals, Sequences

CONSTANTS
    Key,        \* the suites of a file
    Limits      \* the numbers of attempts a test may ask for

VARIABLES
    out,        \* the events written so far
    stage,      \* between tests, or how far the current test has got
    test,       \* the latest test that was announced, 0 before the first
    attempt,    \* the attempt the current test is in
    open        \* the phase that was started and not ended, or None

vars == <<out, stage, test, attempt, open>>

Verdicts == {"pass", "fail", "skip", "todo"}
None == [id |-> 0, phase |-> "none"]

Event(name, id)       == [event |-> name, id |-> id]
Phase(id, phase, st)  == [event |-> "phase", id |-> id, phase |-> phase, state |-> st]
Retry(id, n, max)     == [event |-> "retry", id |-> id, attempt |-> n, max |-> max]
FileFailed            == [event |-> "fail", id |-> 0]    \* id 0 is the file itself

Init ==
    /\ out = <<>>
    /\ stage = "idle"
    /\ test = 0
    /\ attempt = 0
    /\ open = None
----------------------------------------------------------------------------
\* A test of the list is announced; tests that are not selected are passed
\* over, and no test is announced twice.
Announce == stage = "idle" /\ test' \in Nat /\ test' > test

Start ==
    /\ Announce
    /\ out' = Append(out, Event("start", test'))
    /\ stage' = "setup" /\ attempt' = 1
    /\ UNCHANGED open

\* A skip or todo test is announced and settled at once.
Skip ==
    /\ Announce
    /\ \E v \in {"skip", "todo"} :
          out' = Append(Append(out, Event("start", test')), Event(v, test'))
    /\ UNCHANGED <<stage, attempt, open>>

\* beforeAll and beforeEach run before the body of an attempt, afterEach and
\* afterAll after it; the All phases carry a suite's id, the others the test's.
PhaseOf(s) ==
    IF s = "setup"
    THEN {[id |-> k, phase |-> "beforeAll"] : k \in Key} \cup {[id |-> test, phase |-> "beforeEach"]}
    ELSE {[id |-> k, phase |-> "afterAll"] : k \in Key} \cup {[id |-> test, phase |-> "afterEach"]}

Running == stage \in {"setup", "teardown"}

OpenPhase ==
    /\ Running /\ open = None
    /\ open' \in PhaseOf(stage)
    /\ out' = Append(out, Phase(open'.id, open'.phase, "start"))
    /\ UNCHANGED <<stage, test, attempt>>

ClosePhase ==
    /\ open # None
    /\ out' = Append(out, Phase(open.id, open.phase, "end"))
    /\ open' = None
    /\ UNCHANGED <<stage, test, attempt>>

\* An error escapes from a hook of after_test: its phase is never ended.
AbandonPhase ==
    /\ stage = "teardown" /\ open # None
    /\ open' = None
    /\ UNCHANGED <<out, stage, test, attempt>>

Body ==
    /\ stage = "setup" /\ open = None
    /\ out' = Append(Append(out, Phase(test, "test", "start")), Phase(test, "test", "end"))
    /\ stage' = "teardown"
    /\ UNCHANGED <<test, attempt, open>>

Again ==
    /\ stage = "teardown" /\ open = None
    /\ \E max \in Limits : attempt < max /\ out' = Append(out, Retry(test, attempt, max))
    /\ stage' = "setup" /\ attempt' = attempt + 1
    /\ UNCHANGED <<test, open>>

Settle ==
    /\ stage = "teardown" /\ open = None
    /\ \E v \in {"pass", "fail"} : out' = Append(out, Event(v, test))
    /\ stage' = "idle"
    /\ UNCHANGED <<test, attempt, open>>

\* An error escapes from the file: no test of it runs any more, the current
\* one stays without a verdict; the file itself is then reported as failed,
\* unless what the error says cannot be written and the worker dies of it.
Escape ==
    /\ stage \in {"idle", "setup", "teardown"}
    /\ stage' = "escaped" /\ open' = None
    /\ UNCHANGED <<out, test, attempt>>

FailFile ==
    /\ stage \in {"idle", "escaped"}
    /\ out' = Append(out, FileFailed)
    /\ stage' = "over"
    /\ UNCHANGED <<test, attempt, open>>

\* The end of the file, or of the whole worker before it could report.
Finish ==
    /\ stage \in {"idle", "escaped"}
    /\ stage' = "over"
    /\ UNCHANGED <<out, test, attempt, open>>

Next ==
    \/ Start \/ Skip
    \/ OpenPhase \/ ClosePhase \/ AbandonPhase
    \/ Body \/ Again \/ Settle
    \/ Escape \/ FailFile \/ Finish

Spec == Init /\ [][Next]_vars
----------------------------------------------------------------------------
\* The run of a file comes to an end.
Ends == <>(stage = "over")
============================================================================
