------------------------------- MODULE Worker -------------------------------
(***************************************************************************)
(* The worker process (main.cpp, run_worker and list_worker of             *)
(* runner.cpp): the loop over the test files, the exit code, and the live  *)
(* coverage events of LiveCoverageEmitter.  How a file runs its tests is   *)
(* the subject of Lifecycle; here a file completes tests, which pass or    *)
(* fail, until it ends, or an exception leaves run_test_file.              *)
(***************************************************************************)
EXTENDS Naturals, Sequences

CONSTANTS
    MaxFiles,   \* bound on the files of the target
    MaxTests    \* bound on the tests of a file

ASSUME WorkerAssumption == MaxFiles \in Nat /\ MaxTests \in Nat

VARIABLES
    mode,           \* "run" or "list"
    files,          \* how many files there are
    index,          \* the file that is under way
    pc,
    saw_failure, file_failure,
    tests,          \* tests completed by all the files
    printed,        \* what the worker has printed of the list
    exit,           \* "none", then "success" (0) or "failure" (1)
    use_file, use_progress, progress_total,
    executed_,      \* tests completed by the file
    coverage,       \* the coverage events of the file
    ran             \* history: how each file that was started ended

config == <<mode, files, use_file, use_progress, progress_total>>
emitter == <<executed_, coverage>>
vars == <<config, index, pc, saw_failure, file_failure, tests, printed, exit, emitter, ran>>

\* The configuration and the files are what they are while the worker runs.
Init ==
    /\ mode \in {"run", "list"} /\ files \in 0..MaxFiles
    /\ use_file \in BOOLEAN /\ use_progress \in BOOLEAN
    /\ progress_total \in 0..MaxTests
    /\ index = 0 /\ pc = "resolve"
    /\ saw_failure = FALSE /\ file_failure = FALSE /\ tests = 0 /\ printed = 0
    /\ exit = "none"
    /\ executed_ = 0 /\ coverage = <<>>
    /\ ran = <<>>

Exit(code) == pc' = "over" /\ exit' = code

\* An exception is caught in main: no other file is run.
Throw == Exit("failure")
----------------------------------------------------------------------------
(* LiveCoverageEmitter.                                                    *)

counts_tests == use_progress /\ progress_total > 0
enabled == use_file \/ counts_tests

Progress(n) == [source |-> "progress", lines_hit |-> IF n < progress_total THEN n ELSE progress_total]
Table == [source |-> "table"]

\* What maybe_emit may append once it is due: whether the report exists and
\* can be read is up to the programs under test.
Emissions(n) ==
    IF use_file
    THEN {<<Table>>} \cup (IF counts_tests THEN {<<Progress(n)>>} ELSE {<<>>})
    ELSE IF counts_tests THEN {<<Progress(n)>>} ELSE {<<>>}

\* Fewer than 50 ms may have passed since the last event that was due.
maybe_emit(n) == \E e \in Emissions(n) \cup {<<>>} : coverage' = coverage \o e

\* Mutant: the last event is throttled as well.
finish_throttled == maybe_emit(executed_)

finish == \E e \in Emissions(executed_) : coverage' = coverage \o e

on_test_completed ==
    IF enabled THEN executed_' = executed_ + 1 /\ maybe_emit(executed_')
               ELSE UNCHANGED emitter
----------------------------------------------------------------------------
(* run_worker.                                                             *)

\* The target's configuration and files: an error, or no file, is thrown.
Resolve ==
    /\ pc = "resolve"
    /\ \/ files > 0 /\ pc' = "next" /\ UNCHANGED exit
       \/ Throw
    /\ UNCHANGED <<config, index, saw_failure, file_failure, tests, printed, emitter, ran>>

\* Mutant: the file is not run once there was a failure.
NextFile_short_circuit ==
    /\ pc = "next" /\ index < files
    /\ index' = index + 1
    /\ IF saw_failure
       THEN UNCHANGED <<pc, exit, ran, file_failure, emitter>>
       ELSE /\ ran' = Append(ran, "started") /\ file_failure' = FALSE
            /\ executed_' = 0
            /\ \/ pc' = "load" /\ coverage' = (IF enabled THEN <<Progress(0)>> ELSE <<>>)
                  /\ UNCHANGED exit
               \/ Throw /\ coverage' = <<>>
    /\ UNCHANGED <<config, saw_failure, tests, printed>>

\* A Lua state and an emitter of its own for every file; start().
NextFile ==
    /\ pc = "next" /\ index < files
    /\ index' = index + 1
    /\ ran' = Append(ran, "started") /\ file_failure' = FALSE
    /\ executed_' = 0
    /\ \/ /\ mode = "run" /\ pc' = "load" /\ UNCHANGED exit
          /\ coverage' = IF enabled THEN <<Progress(0)>> ELSE <<>>
       \/ /\ mode = "list" /\ pc' = "collect" /\ UNCHANGED exit
          /\ coverage' = <<>>
       \/ Throw /\ coverage' = <<>>
    /\ UNCHANGED <<config, saw_failure, tests, printed>>

Ended(how) == ran' = [ran EXCEPT ![index] = how]

\* saw_failure = run_test_file(...) || saw_failure
Returns(failure) ==
    /\ saw_failure' = (failure \/ saw_failure)
    /\ pc' = "next"

\* The file cannot be loaded: a fail event, whose text may be no UTF-8 and is
\* thrown then, and no last coverage event.
LoadFails ==
    /\ pc = "load"
    /\ file_failure' = TRUE
    /\ Ended("broken")
    /\ \/ Returns(TRUE) /\ UNCHANGED exit
       \/ Throw /\ UNCHANGED saw_failure
    /\ UNCHANGED <<config, index, tests, printed, emitter>>

Loaded ==
    /\ pc = "load"
    /\ pc' = "tests"
    /\ UNCHANGED <<config, index, saw_failure, file_failure, tests, printed, exit, emitter, ran>>

TestCompletes ==
    /\ pc = "tests" /\ tests < MaxTests
    /\ tests' = tests + 1
    /\ \E failed \in BOOLEAN : file_failure' = (file_failure \/ failed)
    /\ on_test_completed
    /\ UNCHANGED <<config, index, pc, saw_failure, printed, exit, ran>>

\* Mutant: the file's own result is forgotten when an earlier file passed.
RunEnds_last_wins ==
    /\ pc = "tests"
    /\ \E failed \in BOOLEAN :
          LET failure == file_failure \/ failed IN
          /\ file_failure' = failure
          /\ Ended(IF failure THEN "failed" ELSE "passed")
          /\ saw_failure' = failure
    /\ pc' = "next"
    /\ finish
    /\ UNCHANGED <<config, index, tests, printed, exit, executed_>>

\* __teez_run_all_tests returns, or raises, which is a failure of the file.
RunEnds ==
    /\ pc = "tests"
    /\ \E failed \in BOOLEAN :
          LET failure == file_failure \/ failed IN
          /\ file_failure' = failure
          /\ Ended(IF failure THEN "failed" ELSE "passed")
          /\ Returns(failure)
    /\ finish
    /\ UNCHANGED <<config, index, tests, printed, exit, executed_>>

\* Its error cannot be written as JSON: emit_ndjson throws.
RunThrows ==
    /\ pc = "tests"
    /\ file_failure' = TRUE /\ Ended("broken") /\ Throw
    /\ UNCHANGED <<config, index, saw_failure, tests, printed, emitter>>

\* run_worker returns.
RunOver ==
    /\ pc = "next" /\ mode = "run" /\ index = files
    /\ Exit(IF saw_failure THEN "failure" ELSE "success")
    /\ UNCHANGED <<config, index, saw_failure, file_failure, tests, printed, emitter, ran>>
----------------------------------------------------------------------------
(* list_worker: the files are loaded and their tests collected, not run.   *)

Collect ==
    /\ pc = "collect"
    /\ \E n \in 0..(MaxTests - tests) : tests' = tests + n
    /\ Ended("listed") /\ pc' = "next"
    /\ UNCHANGED <<config, index, saw_failure, file_failure, printed, exit, emitter>>

CollectFails ==
    /\ pc = "collect"
    /\ Ended("broken") /\ Throw
    /\ UNCHANGED <<config, index, saw_failure, file_failure, tests, printed, emitter>>

\* main prints the list once every file is collected.
PrintList ==
    /\ pc = "next" /\ mode = "list" /\ index = files
    /\ printed' = tests
    /\ Exit("success")
    /\ UNCHANGED <<config, index, saw_failure, file_failure, tests, emitter, ran>>

Next ==
    \/ Resolve \/ NextFile
    \/ Loaded \/ LoadFails \/ TestCompletes \/ RunEnds \/ RunThrows \/ RunOver
    \/ Collect \/ CollectFails \/ PrintList

Spec == Init /\ [][Next]_vars
----------------------------------------------------------------------------
(* Properties.                                                             *)

Event == [source : {"progress"}, lines_hit : 0..progress_total] \cup {Table}

\* The shape of the state.
TypeOK ==
    /\ index \in 0..files /\ tests \in 0..MaxTests /\ printed \in 0..tests
    /\ pc \in {"resolve", "next", "load", "tests", "collect", "over"}
    /\ saw_failure \in BOOLEAN /\ file_failure \in BOOLEAN /\ exit \in {"none", "success", "failure"}
    /\ executed_ \in 0..tests /\ coverage \in Seq(Event)
    /\ ran \in Seq({"started", "broken", "failed", "passed", "listed"}) /\ Len(ran) <= index

\* The worker exits with success exactly when there were files and every one of
\* them was run, or listed, to its end without a failure.
ExitCodeHonest ==
    LET Clean == IF mode = "run" THEN "passed" ELSE "listed"
    IN  pc = "over" =>
            (exit = "success" <=>
                files > 0 /\ Len(ran) = files /\ \A i \in 1..files : ran[i] = Clean)

\* Unless an exception ends the worker, a failure in one file does not keep
\* another from being run: when the loop is over every file was.
EveryFileRuns ==
    pc = "next" => Len(ran) = index /\ \A i \in 1..index : ran[i] # "started"

\* However the events are throttled, the last one of a file that was run to
\* its end counts every test the file completed, unless it shows the report.
CoverageFinal ==
    /\ pc = "next" /\ mode = "run" /\ index > 0 /\ counts_tests
    /\ ran[index] \in {"passed", "failed"}
    => coverage[Len(coverage)] \in {Table, Progress(executed_)}
============================================================================
