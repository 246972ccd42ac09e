# teez-worker in TLA+

This directory holds TLA+ modules that model teez-worker, the program that runs
`*.teez.lua` test files, the TLC configurations that check them, and proofs that
TLAPS checks. Paths below are relative to the repository; `lua` stands for
`runtime/teez-worker.lua`.

To check: `tlc -config Lifecycle.cfg MCLifecycle` (and the other runs of section
4), `tlapm LifecycleProofs.tla` (and the other proof modules of section 6).

## 1. The system

teez-worker is one process with one main thread. For each test file it creates a
fresh Lua state, loads a small Lua runtime into it, loads the file (which only
*registers* tests, hooks and suites), runs the registered tests, and writes one
JSON object per line to standard output. The exit code is 1 when some file
failed. Only mock HTTP servers bring more threads, and only mock executables
and spawned programs bring other processes.

| Component | Code | State it keeps | Operations |
|---|---|---|---|
| Test lifecycle | `lua` 36-311, `src/runner.cpp` 37-51, 680-855, 936-980 | suite hooks and counters, stack of deferred functions, cleanup errors, the event stream, `saw_failure` | run a file: select tests, beforeAll/beforeEach, body, defers, afterEach/afterAll, retries, verdicts |
| Registration DSL | `lua` 102-212, 313-465 | suite and type stacks, `only_depth`, `pending_tests` | describe, describe.only, it and its modes, each, hooks, list |
| C++ assertions | `src/runner.cpp` 171-203, 278-669 | Lua globals that hand over operands | `assert_eq` and the others, `assert_throws`, `assert_eventually` |
| Snapshots | `src/runner.cpp` 205-276 | snapshot files | `assert_match_snapshot`, `assert_snapshot`: update, compare |
| Matchers | `runtime/expect.lua` | the calls of a mock function | `expect(x).toBe(...)` and the negated forms |
| Harness plugins | `src/harness.cpp` 40-316 | loaded names, modules, the global `register` | `use`, `provide`, `emit`, `phase` |
| Harness helpers | `src/harness.cpp` 140-185, 281-303, 318-430 | the file a capture appends to | `probe.until`, `capture.for_duration`; `tool`, `sleep`, `vars.apply`, `process` |
| Mock HTTP server | `src/mock_http.cpp` | routes, interceptors and recorded requests under a mutex, a listening thread | create, route, intercept, get_requests, stop |
| Mock executable | `src/mock_binary.cpp` | a directory with a script and a call log | create, get_calls, assert_called |
| Mock file | `src/mock_file.cpp` | a counter in the process, a directory in the system's temporary directory | create, read, cleanup |
| Live coverage | `src/runner.cpp` 53-169 | tests executed, time of the last event | start, on_test_completed, finish |
| Worker | `src/runner.cpp` 1032-1072, `src/main.cpp` | `saw_failure` over the files | run the files, list the tests |

How they interact: the lifecycle calls the functions a test file registered;
these call assertions, matchers, mocks and the harness, which in turn push
deferred functions on the lifecycle's stack (`__teez_register_defer`) and write
events to the stream the lifecycle writes to.

What is hard in it, and what makes each part correct:

* **Lifecycle.** No threads, but a long protocol with state in two languages:
  errors may leave any callback, be caught at four different places, and be
  unprintable or not writable as JSON; retries run hooks again; skipped tests
  take a path of their own; tests may be registered while the list is walked.
  It is correct when every announced test gets exactly one truthful verdict,
  hooks run once and on the right side of the bodies, deferred functions run
  once and in reverse, and the exit code agrees with the stream.
* **Registration.** Four stacks kept in parallel, and an error caught by user
  code unwinds only one of them; a name or a type that is nil is removed without having
  been added. It is correct when a test has the suites, type and mark of the blocks it is
  written in.
* **Mock HTTP server.** A Lua thread, an accept thread and handler threads
  around one mutex, and a stop that must not lose or outlive a request. It is
  correct when requests look as if served one at a time, and stop is final.
* **Mock executable.** Unsynchronized processes append to one log, may be
  killed, and two workers may choose one directory. It is correct when
  the log is read back as the calls that were made, or refused.
* **Mock files and snapshots.** Files in places that other processes know as well:
  workers that run at the same time and the successor of one that was killed
  count from the same start. It is correct when a test reads what it wrote,
  nothing is left behind, and a comparison is with the text that was accepted.
* **Harness plugins.** Reentrant loading through a single global. It is correct
  when a plugin's own `register` is called, and phases nest.
* **Matchers and assertions on values.** Pure, but over JavaScript-like rules for
  truth and equality, and two families that should agree.
* **Assertions that call Lua code.** A metamethod or a callback may call the same
  assertion again while it is at work, take time, or raise. They are correct when
  each decides on its own operands, a poll passes or gives up for a reason, and a
  capture's file agrees with its events.
* **Worker.** Exit code and coverage over a loop that exceptions leave.

## 2. Modules

| Module | Models | Kind |
|---|---|---|
| `EventStream` | what a reader of the event stream may rely on | abstract specification |
| `Lifecycle` | the run of one test file, `lua` and `runner.cpp` | detailed specification, implements `EventStream` |
| `LifecycleProofs` | theorems about `Lifecycle` | proofs |
| `Registration` | what a test file builds while it is loaded | specification |
| `HttpService` | a server that serves one request at a time | abstract specification |
| `MockHttp` | a mock HTTP server with its threads | detailed specification, implements `HttpService` |
| `MockBinary` | mock executables, their log, its reader | specification |
| `Files` | mock files and snapshots of several worker processes | specification |
| `Harness` | plugin loading and phases | specification |
| `Expect`, `LuaValues` | matchers, negation, call records, assertions on values | operators, with a machine that asks them |
| `Assertions` | assertions and harness functions that call Lua code | specification |
| `Worker` | `main`, the loop over files, live coverage | specification |
| `RegistrationProofs`, `MockHttpProofs`, `MockBinaryProofs`, `FilesProofs`, `HarnessProofs`, `AssertionsProofs`, `WorkerProofs` | theorems about the module of that name | proofs |
| `MC*` | finite instances of the modules above | model checking |

`MCMocks` puts `Files` and `MockBinary` in one run, `MCAssertions` puts
`Assertions` and an instance of `Expect` in one: the two parts of each run share no variable, so a behaviour
is one of the first part or one of the second, and no product is explored.

### State and actions

**Lifecycle.** Variables carry the names of the code: `pending_tests`, `hooks`
(how many hooks of each kind a suite has), `registered`, `completed`,
`beforeAll_done`, `afterAll_done` (fields of a suite's hook table), `defer_stack`,
`cleanup_errors`, `out`, `saw_failure`. `pc`, `idx`, `level`, `pos` and `attempt`
are the loop variables and the place in the code. One action is one callback or
one loop turn: `CallHook` is `run_protected` on one hook, `BeforeAll` one turn
of the loop of `__teez_before_test`, `CompleteSuite` one turn of the completion
loop of `__teez_after_test` or `complete_skipped_test`, `RunBody` the middle of
`run_attempt`, `RetryTest`, `Pass` and `Fail` the end of `execute_test`'s loop.
`owed`, `ran`, `dirty`, `raised`, `announced` and `hook_calls`, the calls of beforeAll and
afterAll functions, are history. A callback is what it can do to the worker: raise one of
four kinds of error (printable text, text that is not UTF-8, an object on which `tostring`
raises the one or the other), push deferred functions, register tests (`Callback`,
`Effects`). An error that cannot be printed leaves the protected call (`Unprintable`) as
the error that `tostring` raised (`Says`, kept in `escape`); one that is not UTF-8 makes
writing its event raise, also where the event is that of the file (`ReportEscape`), and
the worker dies.

**Registration.** `suite_stack`, `type_stack` and `only_depth` are the Lua
locals; `frames` is Lua's call stack. `Describe`/`EndDescribe` are the two halves
of `describe_impl` around the block's body, `Raise` an error and where user code
catches it (or does not), `It`, `Each` and `Hook` the registering functions. A name may be
nil, like a type: `Pushed` adds nothing then, and `Removed` takes an entry all the same.
What was registered remembers the blocks around it and what had gone by in the file
(`caught`, `left`, `unnamed`, `robbed`, all history).

**MockHttp.** `lua` and `thread` are the places of the two threads, `handler` of
each request's handler; `mutex`, `requests`, `routes` are the fields of
`MockHttpInstance`. A handler takes the mutex once to record and match
(`Record`, `Match`), and answers without it. The Lua thread starts and polls
(`Start`, `Poll`, `Started`, `GiveUp`), configures (`Route`), calls through the
server, and stops and joins (`Stop`, `CallStop`, `Join`). httplib (v0.18.3) is
external: its `listen`, `stop` and thread pool are modelled as the code uses them.

**MockBinary.** `Begin`, `Comma`, `Argument`, `Close` are the `printf`s of the
generated script; each is one append to the log. `read_mock_calls` finds the lines
of the log (`Lines`, the places between newlines) and returns the strings of each,
or raises when one of them is not an array of strings.

**Files.** `counter` is `g_mock_file_counter` of each process, `job` the call a worker is
in the middle of, `disk` what is in each file, `dirs` the directories. `mock_file` is
three steps, `MakeRoot`, `OpenMock` (which truncates) and `WriteMock` (the stream is
closed and the clean-up deferred), and its clean-up two, `RemoveFiles` and
`RemoveDir`. `OpenSnapshot`/`WriteSnapshot` are the update of a snapshot, `Compare` is
`compare_snapshot_file`. `Restart` kills or ends a process wherever it is and starts
another, which counts from 0 again. A write may fail without anyone looking, and
two writers of one file leave it garbled. `golden`, `spoiled` and `leaked` are history.

**Harness.** `frames` is the nesting of Lua functions C++ has called; `use`,
`phase`, and the return or raise of a chunk, a `register` and a phase are actions.
A `harness_loaded` event carries, as history, how long the stream was when its
`use` began (`began`).

**Worker.** `NextFile`, the load, the completion of tests, the exceptions and the
end of each file; `coverage` is the list of coverage events of the current file.

**Expect.** `Returns` is the table of matchers and assertions over tagged values; the
machine makes an expectation, negates it and asks it, or calls an assertion.

**Assertions.** `frames` is the nesting of C++ functions that have called Lua code;
`scratch` the globals through which `assert_table_has`, `assert_in` and `lua_equal` hand
over operands; `raising` says that an error is on its way out. A `Call...` action is
the function up to the Lua code it calls; `EqualReturns`, `IndexReturns`, `ItemReturns`,
`PollReturns` and `CollectReturns` what it does when that code returns;
`ComparisonRaises`, `PollRaises`, `ThrowsEnds` and `CaptureEnds` when it raises. `Tick` lets
time pass anywhere, `Change` turns what polls wait for on or off. A loop's record
says with `strayed`, a history field, that a callback took time, failed for another
reason, or that a sleep took longer than asked. A capture's record has the part of its
stream that is not in the file (`buf`) and whether the stream has gone bad (`bad`).
`Inserted` is what can become of a line that is given to a stream, which holds it, or writes
all it held and any part of the line, or fails anywhere; `WriteAndClose` is the stream's
destructor. `overlapped` and `failed` are history.

## 3. Abstractions

* A suite is its printed key: two paths that print alike share hooks and
  counters in the code, and are one suite in the model.
* A file's hook lists are fixed once it is loaded. Registering hooks during the
  run is not modelled.
* Coverage and plugin events are left out of `Lifecycle`'s stream. `Worker` has
  the coverage events, and abstracts from `Lifecycle` that a file completes
  tests, which pass or fail.
* What filters answer for a test (teez-core, external) is a Boolean.
* Routes and requests are compared by targets that are already normalized
  (upper-case method and path, or lower-case host without port).
* A mock's log is a sequence of tokens, not characters; a `printf` is one atomic
  append, which `O_APPEND` gives for short writes, and reading a log is a snapshot.
* Snapshot names are compared by the file they are written to: the map from names
  to files (`KeyOf`) is data, not computed from characters. Opening the file
  of a snapshot succeeds.
* All captures append to one file. A line, which is a header or a text with its newline, is
  `Parts` pieces; a stream that is full may write any number of them and keep the rest, and
  a write may fail anywhere. That a stream never fills up is among the choices, so no
  size of a buffer is assumed. A capture without a file is only its events.
* The name of a describe block is a value or nil. Names of other types that the
  code does not refuse either behave as values do.
* Time is a clock of few ticks; every sleep is a whole number of them, and may
  last longer than asked.
* Texts, durations and ids are not modelled, beyond what the events carry.

## 4. Runs

Deadlock is not checked: a file, a worker, a question to a matcher and a test
with its server really end, and the bounded modules use up their calls.

| Run | Instance | Shows |
|---|---|---|
| `lifecycle` (`Lifecycle.cfg`) | every pair from six tests over two nested suites, with and without a third; up to 2 attempts; every error kind from every callback | hooks run once, counted by their calls (`AllHooksOnce`), after no body that needs them (`BeforeAllFirst`), never between the attempts of a test (`NoAttemptAfterOwnAfterAll`); counters (`CompletedBehind`); verdicts (`OneVerdict`, `VerdictHonest`); exit code (`ExitCodeAgrees`, `CleanExit`); refinement of `EventStream` (`StreamSpec`) |
| `lifecycle_long` | files whose callbacks defer and register tests; `FairSpec` | `DefersOnceLatestFirst`, `SelectedTestsSettled`, and the liveness property `Terminates` |
| `lifecycle_after_all_last` | as `lifecycle` | **violated**: afterAll runs after a suite's first test |
| `lifecycle_after_all_runs` | as `lifecycle` | **violated**: afterAll never runs when a test passes before its last attempt |
| `registration` | 2 describe blocks, named or not, 2 tests, 1 hook, 2 names, 2 types, 2 rows; or 3 blocks, 1 test, one type at a time | in a file that caught no error a test has the suites of the blocks it is written in, but for the names that nameless blocks take away (`LexicalStack`), a type stays in its block (`TypeFromEnclosing`) and the marked tests are those listed (`FocusIsLexical`); if it did catch errors no suite is lost as long as no nameless block has returned (`CaughtErrorsOnlyAdd`) |
| `registration_types` | 2 describe blocks, 1 test, one name | **violated**: an untyped block takes away the type of the block around it |
| `mock_http` | 2 requests for one target, 2 routes over 2 targets, 2 responses, 1 poll; `FairSpec` | refinement of `HttpService` (`ServiceSpec`), which answers each request from the log and the routes of one moment; `QuietAfterStop`; liveness `SentIsSettled`, `StopReturns` |
| `mocks` (`Mocks.cfg`) | 2 workers, 2 mock executables each, 2 calls, 4 argument lists | `ReadHonest`, `OrderlyCallsRead`, `OverlapNoticed` |
| the same run | 2 workers, 2 mock files each, 3 paths, 3 snapshot names of which two are one file, 3 calls, 1 restart | a mock file reads as it was made, whatever an earlier process left (`MockFileReads`); no directory is left but for named reasons (`MockFilesCleaned`); a comparison is with the last update, but for named reasons (`SnapshotVerdict`) |
| `harness` | 2 plugins and one broken name, nesting 4, 4 calls | phases nest, also when writing an event raises (`PhasesNest`); a plugin is announced twice only if its loads overlap (`AnnouncedOnce`); `RegisterNotLeftBehind` |
| `harness_register` | nesting 3, 3 calls | **violated**: another plugin's `register` is called |
| `assertions` (`Assertions.cfg`) | scalars at the boundaries, tables of depth 2, command and HTTP results, mocks called twice, up to 2 nots | `toEqual` is deep equality (`EqualIsDeep`); truth, property paths and call matchers (`MatchersAgree`); assertions that do not share their code agree, such as `assert_empty` and `assert_not_empty` (`AssertionsAgree`) |
| the same run | nesting 2, 2 calls, timeouts 0, 2 and 3, sleeps of 2, clock up to 6 | `OwnOperands`, `PollHonest` |
| the same run | nesting 2, 2 calls, 3 samples of 3 kinds, lines of 2 pieces, clock up to 2 once a capture was made | what is in the file when no capture is at work, after errors, nesting, full streams and failing writes (`CaptureFile`) |
| `worker` | up to 3 files and 4 tests | `ExitCodeHonest`, `EveryFileRuns`, `CoverageFinal` |

The runs of `Lifecycle` and `MockHttp` also check the type invariant `TypeOK`. The
`TypeOK` of `Registration`, `Harness` and `Worker` is a part of the inductive invariants
of section 6.

**Why the bounds are enough.** In `Lifecycle` the state that carries over from
one test to the next is per suite: two nested suites and a test outside, with
two or three tests each, let every counter be behind, equal and tempted to pass;
two attempts are the least with a retry, and in `lifecycle_long` two defers are
the least that have an order. The theorems of section 6 lift these bounds.
`Registration` needs two blocks for one inside the other and for one after the
other, and two tests for one inside and one after; a name that is taken away shows with an
outer block, a nameless one in it and a third one after that, and one test that may be
registered anywhere. In
`MockHttp` two requests for one target are two handlers that contend for the
mutex and the least that have an order in the log; two routes are the least of
which one is first. In `MockBinary` a tear needs two calls, sharing needs two
workers. In `Files` two workers are the least that meet in a directory and in a snapshot;
two mocks of one process are two clean-ups; three calls are an update, a second one
that meets it and a comparison; one restart is enough to count from 0 again below
what the first process left. In `Assertions` nesting 2 is an assertion inside
another one of the same kind; the clock runs past the deadline of a loop that is
begun after another one's sleep, a timeout of 2 ends with a sleep, one of 3 does
not, and 0 is no time at all. Two calls are a capture inside another; of
three samples one is in the file, one torn and one in the stream; two pieces are a text
and its newline.
`Harness` needs an outer plugin, an inner plugin and a phase, with room
for one more. `Worker` needs a file before and one after the one that fails.

**Symmetry** is used where names are only compared: describe names and types,
plugins, and in `mocks` workers and calls. None of these runs checks a temporal property.

## 5. Fairness

`Lifecycle!FairSpec` is `WF_vars(Next)`: one thread runs the file and waits for
nothing, so it goes on as long as its callbacks return. A body that does not
return, and a file that registers tests for ever (bounded here by `MaxTests`),
are outside what `Terminates` says.

`MockHttp!FairSpec` has weak fairness for each thread's step: the Lua thread
inside a call of `start_instance` or `stop_instance` or waiting for an answer,
the accept thread, and every handler. What a *test* does next, adding a route or
calling stop, is its choice and has no fairness. Mutex acquisition is weakly fair
only: a holder never waits while it holds it.

## 6. Proofs

Every safety property the passing runs check, but for the three about `Expect`, is a theorem for
all values of the constants, and so are the two refinements. What the constants have to be is
in the module: bounds are naturals, sleeps positive; files, effects and attempts are
well-formed (`LifecycleAssumption`); a value that stands for "none" is not among the
values it is told from (`NoName`, `NoType`, `NoPlugin`, `Free`, the contents of a file without
one); tokens of a mock's log are different from each other, and an argument is of one
kind (`MockBinaryAssumption`). TLC evaluates these assumptions in the runs. Nothing else is assumed.

The properties are not inductive. Each module of proofs begins with the invariant that
is; TLC checked it on the instances above before it was proved.

**Lifecycle.** All invariants stand on `Shape`, the type with `Position`, which bounds
each loop variable at each `pc`: without it the type is not inductive, since
nothing says that `pending_tests[idx]` and `stack[level]` exist. `LogStep` says what a
step can add to the stream.

| Theorem | Property | Argument |
|---|---|---|
| `LifecycleProofs!TypeCorrect` | `TypeOK` | `Shape`. |
| `CountersAgree` | `CompletedBehind` | `Behind`: the suites in `ToComplete`, those of the current test whose turn to be completed is still to come, have fewer tests completed than registered. No suite occurs twice in a stack, so completing one level leaves the others alone. |
| `VerdictsUnique` | `OneVerdict` | `VerdictEvents`: verdicts in the stream have ids below `idx`, but for a skipped test's and the file's. |
| `FollowsEventStream` | `StreamSpec` | `Announced` ties the latest announced test to `idx`; with it, every step of `Lifecycle` is, action by action, one step of `EventStream` or a stutter under the mapping `Stage`, `Open`, `announced`. A worker that dies while it reports an escaped error is a step of `EventStream` from `escaped` to the end without the file's event. |
| `AfterAllWaitsForRetries` | `NoAttemptAfterOwnAfterAll` | `SinceStart`: while the current test may still be attempted, no afterAll was started after its start event. It rests on `Position` (`complete` implies the last attempt). |
| `BodiesAfterBeforeAll` | `BeforeAllFirst` | `HooksRan`: a suite's flag means its hooks ended, are running, or ended the file; `SetUpSoFar`: the flags of the levels `before_test` has passed are set. |
| `ExitCodeTold` | `ExitCodeAgrees` | `FailEvents`: between noting a failure and its event in the stream there are only the states in which the file is about to end. |
| `AllHooksRunOnce` | `AllHooksOnce` | By the history of calls, not by events: a call of a suite's All function implies that the suite's flag is set, flags are never reset, the list is entered where the flag is not set, and inside it only functions below `pos` have been called. |
| `VerdictsTrue` | `VerdictHonest` | `Ledger`: up to the body `cleanup_errors` is set exactly when something raised, and after it `body_error` or `cleanup_errors` is. An action property: the verdict a step writes is `accepted`, read off the two. |
| `DeferredRunOnce` | `DefersOnceLatestFirst` | `Owing`: up to the body what is owed is the stack; while deferred functions run, what has run and the part of the stack still to come are together what is owed, the first mirrored. |
| `CleanExitTold` | `CleanExit` | `RaisedTold`: an error is told in the stream, or its attempt goes on with `dirty` set, or the file has failed or is about to. It rests on `Ledger`. |
| `TestsSettled` | `SelectedTestsSettled` | `Settling`: every announced test is selected, every judged one announced, and every selected test behind `idx` judged. |

**Registration** (`RegistrationProofs`). Between the frames and the stacks no equality
survives an error that the file catches, since it drops frames and leaves the stacks, nor
a block without a name, which takes another block's away. As long as no such block has
returned, a describe under way still has its name where it put it (`Placed`), and there are
as many names more as errors have left blocks; its mark is counted in any case (`Counted`):
a describe that returns takes one entry off, and that is its own or one above it. Until
the first caught error (`Exact`) the suite stack is a subsequence of the names of the blocks
under way (`SuitesOf`), all of them unless one was taken away inside a block under way, and
only_depth is exact. Types fare like names (`TypesWithin`).

| Theorem | Property | Argument |
|---|---|---|
| `DepthNeverNegative` | `TypeOK` | `only_depth` stays a natural because every only block under way is counted. |
| `SuitesAreLexical`, `FocusByText` | `LexicalStack`, `FocusIsLexical` | `Exact` at the moment of registering. |
| `NothingLost` | `CaughtErrorsOnlyAdd` | `Placed` and `Counted`; the places of the frames are the embedding the property asks for, and the length of the stack is the number of names that are to be there. |
| `TypesFromBlocks` | `TypeFromEnclosing` | `TypesWithin`: the top of the type stack is some enclosing block's type. |

**MockHttp** (`MockHttpProofs`).

| Theorem | Property | Argument |
|---|---|---|
| `TypeCorrect` | `TypeOK` | With `Matching`: the handler that compares routes holds the mutex, so no route is added under it and its cursor stays in range. |
| `StopIsFinal` | `QuietAfterStop` | `Quiet`: a handler is busy only while the accept loop is there for it, and after stop the Lua thread is joining the loop or the loop has ended. |
| `ServesAtomically` | `ServiceSpec` | `Matching`: the request of the handler in the mutex is the last one logged and no route below its cursor is for its target. So logging is a stutter (the mapping takes the last request off while the mutex is held), and the step that finds the route, or the end, is the service's atomic step: `LookupFirst` says that the route at the cursor is the one `HttpService` looks up. |

**MockBinary** (`MockBinaryProofs`), for any number of workers, mocks and calls and any
arguments. `Shape` is the type and `Listed` says that the calls of a mock are recorded once
each. `Logs` is about every mock that has its directory to itself: its log is

* `Clean`: there are places `s[i]` and `e[i]` such that the line of the `i`th call is from one
  to the other (`Full`), the lines follow each other, and every newline but the last
  is right before some `s[i]`; only the last line may be incomplete (`Half`), and
  then it holds neither a newline nor a `]`; or
* `Broken`: somewhere in it is text that is no JSON string, or a `[` in the middle of a line.
  Then two calls have met, one was killed or one had an argument that cannot be
  logged.

A call that goes on extends the last line (`MovesKeep`); a call that begins does so
after a complete line, or breaks the log (`BeginsLegible`), and what is broken stays
so because logs only grow. For the reader, every place of a log is in a line
(`LineAround`), no array has a second `[` (`ArrayHas`), and of a clean log without
an incomplete line the lines are those of the calls, counted by where they
begin (`WholeReads`).

| Theorem | Property | Argument |
|---|---|---|
| `LogIsCalls` | the invariant | `Shape`, `Listed` and `Logs` are kept by every step. |
| `CallsAreReadWhole` | `ReadHonest` | A broken log raises, and so does a clean one whose last line is incomplete; any other is read as its calls. |
| `OrderlyCallsAreRead` | `OrderlyCallsRead` | The log cannot be broken, and all calls are done. |
| `OverlapIsNoticed` | `OverlapNoticed` | A clean log is only ever said of a mock that is not in `mixed`. |

**Files** (`FilesProofs`), for every map from paths and names to files.

| Theorem | Property | Argument |
|---|---|---|
| `MockFilesRead` | `MockFileReads` | `Numbered`: the mock files of one process, the one being made included, have different numbers, so a process never touches its own; `Alone`: a process that is alone with the file it has opened finds it empty, and no other has it open. `Touches` says what a step of one process does to the others. |
| `MockDirsRemoved` | `MockFilesCleaned` | `Owned`: every directory has a clean-up registered, coming or leaked; every file in one has one that will find it. |
| `VerdictsOfSnapshots` | `SnapshotVerdict` | `Snapshots`: an open snapshot is spoiled, and one that is not, and has one name, holds the text of its last update. |

**Harness** (`HarnessProofs`).

| Theorem | Property | Argument |
|---|---|---|
| `PhasesAreNested` | `PhasesNest` | `Ordered`: ids of phases grow along the stack as in the events; `Open`: a phase under way has no closing event; `Accounted`: a phase that was opened is under way, lost or closed. So when the phase on top closes, all that was opened since has been closed or lost (`Nested`). |
| `AnnouncedHonestly` | `AnnouncedOnce` | `Began`: a use under way began at an event after which alone its name was announced. |
| `NoRegisterLeft` | `RegisterNotLeftBehind` | `Definer`: the global names a plugin that is at work, unless a script raised after defining it. |

**Assertions** (`AssertionsProofs`). `Fine` says of every function at work that the globals
hold the operands of a comparison that was not entered again from inside (`Operands`),
and that a poll that sleeps and has not strayed wakes no earlier than now, and what
it waits for was not the case when it went to sleep (`Timely`). Captures have an
invariant of their own (`Written`), for any number of pieces in a line and any nesting.

| Theorem | Property | Argument |
|---|---|---|
| `ComparisonsKeepOperands` | `OwnOperands` | `Operands`. `assert_eq` needs no exception because its operands are read from the globals before Lua code runs. |
| `CapturesAreToldOnce` | `CaptureFile` | `Written`, of the file, the events and the streams of the captures at work. `Base`, whether writes fail or not: every piece in the file or in a stream is of a header, of a text that was told or of one whose telling failed, and streams hold only their own capture's. `Good`, until a write fails: every told text is, piece by piece, in the file or in its capture's stream; what a stream holds continues what its capture has in the file (`Ordered`); and as long as no two captures have met, the file and the one stream there is are together whole lines in the order told (`Alone`). A stream that is closed moves what it holds to the file, and with no capture at work `Good` is `CaptureFile`. |
| `PollsAreHonest` | `PollHonest` | `Timely`: the poll that gives up woke now, so it slept since one sleep ago, which was no earlier than one sleep before the deadline. |

A first form of `PollHonest` said *later than* one sleep before the deadline. Its proof
failed, and TLC confirms why on a timeout that is a multiple of the sleep, which
the instance did not have: the callback runs for the last time one sleep before
the deadline, and what it waits for may become the case right after it, in the same
tick. The property and the instance now have that case.

**Worker** (`WorkerProofs`).

| Theorem | Property | Argument |
|---|---|---|
| `ExitCodeTrue`, `AllFilesRun` | `ExitCodeHonest`, `EveryFileRuns` | `Loop`: the files before the current one have ended in the way the mode allows, and `saw_failure` is set once one of them did not pass. |
| `LastCoverageCounts` | `CoverageFinal` | The forced event at the end of a file is the last one, or shows the report. |

**Only model-checked.**

* Liveness (`Terminates`, `SentIsSettled`, `StopReturns`) and everything under fairness:
  fairness needs `ENABLED`, which is out of TLAPS's reach.
* `Expect` (`EqualIsDeep`, `MatchersAgree`, `AssertionsAgree`): the reference is a
  recursive operator, and what it says of every value needs induction over data.

## 7. Disagreements with the repository's own word

Four runs end in a counterexample; PROJECT.json quotes the code and the text.

1. **afterAll comes too early.** `registered` counts tests as they start, so
   `completed == registered` (`lua` 286) holds after a suite's first test.
2. **afterAll may never come.** `finalize_attempt(is_last_attempt)`
   (`src/runner.cpp` 793) leaves a test uncompleted that passes before its last
   permitted attempt.
3. **A block without a type takes its parent's type away** (`lua` 346-348).
4. **A plugin without `register` runs its caller's** (`src/harness.cpp` 239-245).

Some of what the code does is stated as the exception in a property that holds:

* `SnapshotVerdict`: two names may be one file; an update that could not write passes.
* `OwnOperands`: `assert_table_has` and `assert_in` called inside themselves decide on the
  inner operands.
* `MockFilesCleaned`: a mock file made outside every test is never removed.
* `PollHonest`: a timeout that is not positive fails without calling its function.
* `CaptureFile`: captures inside each other tear each other's lines when a stream is full,
  the header may come after other lines, and lines in another order than they were
  told; a write that fails is noticed by nobody, and loses what comes after it; a text that
  is not UTF-8 is in the file and in no event.
* `LexicalStack`: a describe whose name is nil takes the name of the block around it away
  when it returns (`lua` 345-349), so what follows in that block is registered for other
  suites than it is written in.
* `ExitCodeAgrees` and `StreamSpec`: an error that cannot be printed and whose `tostring`
  raises bytes that are not UTF-8 ends the worker while it reports the file's failure
  (`src/runner.cpp` 971).

Met while reading, and not given a run: `expect["not"](x)` looks at its second
parameter and compares nil (`runtime/expect.lua` 277); a mock HTTP server whose
listener begins after `start_instance` gave up is never stopped
(`src/mock_http.cpp` 272); hooks registered outside any describe block never run
(`lua` 251).

## 8. Not modelled

* Of the harness helpers, `vars.apply` and `format` (string templates), and `tool`,
  `probe.tcp`, `probe.exec` and `process.spawn`: each is one call of teez-core or of the
  system without state in this repository between calls.
* `assert_match`, `toMatch` and `toThrow` need Lua patterns, `toBeCloseTo` and
  `assert_near` floating point (numbers are compared for equality);
  `assert_file_exists` is one question to the file system. Messages of assertions
  are left out.
* `toContain` and `assert_in`, `toHaveLength` and the comparisons of numbers are in
  `Expect`, and no property is about them: what one would be compared with is the
  definition itself. The same is true of assertions that are one another's negation
  in the code (`assert_eq` and `assert_not_eq`, `assert_true` and `assert_false`).
* A mock's log that exists and cannot be opened, which is read as no calls
  (`src/mock_binary.cpp` 43), and a script whose `PATH` has no `sed`.
* The HTTP client helper passes a request to teez-net and returns its reply.
* The filters are external; what they answer is a Boolean.
* Build files, CI, fuzzing and tests have no state of the worker.

PROJECT.json lists every component with its status, and the hazards no property
covers with the reason.

## 9. Plan

The order was: the lifecycle, its abstract stream and their proofs first, since
every other part is called from there; then the parts with concurrency or
reentrance (`MockHttp`, `MockBinary`, `Harness`), then `Registration`, `Expect` and
`Worker`, then the files of several workers (`Files`) and the assertions that call
back (`Assertions`); then the proofs of section 6. What is left:

1. Widening: hooks registered during the run.
