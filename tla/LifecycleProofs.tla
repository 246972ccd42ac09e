-------------------------- MODULE LifecycleProofs --------------------------
(***************************************************************************)
(* Proofs about Lifecycle for every set of suites, files, callbacks and    *)
(* bounds.  Shape, the type with Position, which says where each program   *)
(* counter can stand, is inductive by itself; every other inductive        *)
(* invariant stands on it.  Behind counts the tests of a suite still to be *)
(* completed, VerdictEvents says what the verdicts already written imply   *)
(* for the current test, and under Announced every step implements one of  *)
(* EventStream or a stutter.  The second half is about the order of hooks  *)
(* and bodies, and about what the stream says of the run when it is read   *)
(* against its flags and lists: which All hooks start after and before     *)
(* which bodies and how often, the failures and the exit code of the       *)
(* worker, the verdict of an attempt and what it raised, what was deferred *)
(* and what has run, and the tests that were selected, announced, judged.  *)
(***************************************************************************)
EXTENDS Lifecycle, TLAPS

Busy == SetupPcs \cup {"defers", "afterEach", "complete", "judge", "skipped"}

\* Where the program counter stands in the list of tests, in the suites of
\* the current test and in a list of hooks or deferred functions.
Position ==
    /\ pc = "load" => idx = 0
    /\ ~Ended /\ pc # "load" => idx > 0
    /\ pc \in Busy => idx \in 1..Len(pending_tests)
    /\ pc \in Busy \ {"skipped"} => attempt \in 1..current.retry
    /\ pc \in {"beforeAll", "beforeEach"} => level \in 1..(Depth + 1)
    /\ pc \in {"afterEach", "complete", "skipped"} => level \in 0..Depth
    /\ pc \in HookPcs /\ pos > 0 => level \in 1..Depth
    /\ pc = "defers" => pos <= Len(defer_stack)
    /\ pc \notin HookPcs \cup {"defers"} => pos = 0
    /\ pc = "complete" => attempt = current.retry

\* The suites of the current test in which its completion is still to come.
ToComplete ==
    IF pc \in SetupPcs \cup {"defers", "afterEach"} \/ (pc = "judge" /\ attempt # current.retry)
    THEN 1..Depth
    ELSE IF pc \in {"complete", "skipped"} THEN 1..(IF pos = 0 THEN level ELSE level - 1)
    ELSE {}

Behind ==
    /\ \A k \in Key : completed[k] <= registered[k]
    /\ \A i \in ToComplete : completed[current.stack[i]] < registered[current.stack[i]]

\* The verdicts written so far belong to earlier tests, to the current one if
\* it was skipped, or to the file.
VerdictEvents ==
    /\ \A i \in 1..Len(out) : out[i].event \in Verdicts =>
          /\ out[i].id = 0 => pc = "done"
          /\ out[i].id <= idx
          /\ out[i].id = idx => pc \in {"skipped", "escaped", "done", "crashed"}
    /\ OneVerdict

Announced ==
    /\ announced <= idx
    /\ pc \in {"load", "next"} => announced < idx \/ idx = 0
    /\ pc \in Busy => announced = idx
----------------------------------------------------------------------------
(* Type correctness and the position of the program counter.               *)

Shape == TypeOK /\ Position

\* A file that is loaded has the shape IsFile gives it.
LEMMA FileShape ==
    ASSUME NEW f \in Files
    PROVE  /\ f.tests \in Seq(TestCase) /\ f.hooks \in [Key -> [HookKind -> Nat]]
           /\ f.defers \in Nat /\ f.error \in Message
BY LifecycleAssumption DEF IsFile

\* What a callback does keeps the shape of the lists it appends to, and the
\* tests already there.
LEMMA CallbackShape ==
    ASSUME NEW e \in Effects, NEW where \in {"setup", "late", "skipped"},
           TypeOK, Callback(e, where)
    PROVE  /\ e.error \in Errors
           /\ pending_tests' \in Seq(TestCase) /\ defer_stack' \in Seq(Deferral)
           /\ owed' \in Seq(Deferral)
           /\ dirty' \in BOOLEAN /\ raised' \in BOOLEAN
           /\ Len(pending_tests') >= Len(pending_tests)
           /\ \A i \in 1..Len(pending_tests) : pending_tests'[i] = pending_tests[i]
           /\ Len(defer_stack') >= Len(defer_stack)
           /\ hooks' = hooks /\ has_only' = has_only /\ announced' = announced
<1>1. IsEffect(e)
  BY LifecycleAssumption
<1>2. e.error \in Errors /\ e.defers \in Nat /\ e.adds \in Seq(TestCase)
  BY <1>1 DEF IsEffect
<1> DEFINE pushed == Deferred(where, e.defers, defer_stack)
<1>3. pushed \in Seq(Deferral) /\ Len(pushed) \in Nat
  <2>1. defer_stack \in Seq(Deferral) /\ Len(defer_stack) \in Nat
    BY DEF TypeOK
  <2>2. \A i \in 1..e.defers : [where |-> where, n |-> Len(defer_stack) + i] \in Deferral
    BY <2>1, <1>2 DEF Deferral
  <2> QED
    BY <2>2, <1>2 DEF Deferred
<1>4. pending_tests \in Seq(TestCase) /\ defer_stack \in Seq(Deferral) /\ owed \in Seq(Deferral)
  BY DEF TypeOK
<1>5. pending_tests' = pending_tests \o e.adds /\ defer_stack' = defer_stack \o pushed
  BY DEF Callback
<1>6. owed' = owed \o pushed \/ owed' = owed
  BY DEF Callback
<1>7. dirty' \in BOOLEAN /\ raised' \in BOOLEAN
  BY DEF Callback
<1>8. hooks' = hooks /\ has_only' = has_only /\ announced' = announced
  BY DEF Callback
<1> HIDE DEF pushed
<1>9. pending_tests' \in Seq(TestCase) /\ Len(pending_tests') >= Len(pending_tests)
      /\ \A i \in 1..Len(pending_tests) : pending_tests'[i] = pending_tests[i]
  BY <1>2, <1>4, <1>5
<1>10. defer_stack' \in Seq(Deferral) /\ owed' \in Seq(Deferral)
       /\ Len(defer_stack') >= Len(defer_stack)
  <2>1. pushed \in Seq(Deferral)
    BY <1>3
  <2>2. /\ defer_stack \o pushed \in Seq(Deferral)
        /\ Len(defer_stack \o pushed) = Len(defer_stack) + Len(pushed)
        /\ Len(defer_stack) \in Nat
    BY <2>1, <1>4
  <2>3. owed \o pushed \in Seq(Deferral)
    BY <2>1, <1>4
  <2>4. owed' \in Seq(Deferral)
    BY <2>3, <1>4, <1>6
  <2>5. defer_stack' \in Seq(Deferral)
    BY <2>2, <1>5
  <2>6. Len(defer_stack') >= Len(defer_stack)
    BY <2>2, <1>3, <1>5
  <2> QED
    BY <2>4, <2>5, <2>6
<1> QED
  BY <1>2, <1>7, <1>8, <1>9, <1>10

\* The events that are written are events.
LEMMA EventShape ==
    /\ \A t \in Nat, v \in {"start"} \cup Verdicts : Event(v, t) \in Events
    /\ FileFailed \in Events
    /\ \A id \in Ids, ph \in HookKind \cup {"test"}, st \in {"start", "end"} :
          Phase(id, ph, st) \in Events
    /\ \A t, n, m \in Nat : Retry(t, n, m) \in Events
BY DEF Events, Event, FileFailed, Phase, Retry, Verdicts

LEMMA PhaseFields ==
    \A id, ph, st : /\ Phase(id, ph, st).event = "phase" /\ Phase(id, ph, st).id = id
                    /\ Phase(id, ph, st).phase = ph /\ Phase(id, ph, st).state = st
BY DEF Phase

\* The current test and its suites, while there is one.
LEMMA CurrentShape ==
    ASSUME TypeOK, idx \in 1..Len(pending_tests)
    PROVE  /\ current \in TestCase /\ Depth \in Nat
           /\ current.retry \in Nat /\ current.retry > 0 /\ current.stack \in Seq(Key)
           /\ current.mode \in Modes
           /\ \A i, j \in 1..Depth : current.stack[i] = current.stack[j] => i = j
           /\ \A i \in 1..Depth : current.stack[i] \in Key
<1>1. current \in TestCase
  BY DEF TypeOK, current
<1>2. current.stack \in Stack /\ current.retry \in Limits /\ current.mode \in Modes
  BY <1>1 DEF TestCase
<1>3. current.retry \in Nat /\ current.retry > 0
  <2>1. current.retry \in Nat \ {0}
    BY <1>2, LifecycleAssumption
  <2> QED
    BY <2>1
<1>4. /\ current.stack \in Seq(Key)
      /\ \A i, j \in 1..Len(current.stack) : current.stack[i] = current.stack[j] => i = j
  BY <1>2 DEF Stack
<1>5. Depth \in Nat /\ \A i \in 1..Depth : current.stack[i] \in Key
  BY <1>4 DEF Depth
<1> QED
  BY <1>1, <1>2, <1>3, <1>4, <1>5 DEF Depth

\* The list of hooks whose turn it is, and its phase.
LEMMA HookShape ==
    ASSUME TypeOK, Position, pc \in HookPcs, level \in 1..Depth
    PROVE  /\ Functions \in Nat /\ Suite \in Key /\ Kind \in HookKind
           /\ idx \in 1..Len(pending_tests)
           /\ \A st \in {"start", "end"} :
                 Phase(ThisPhase.id, ThisPhase.phase, st) \in Events
<1>1. idx \in 1..Len(pending_tests)
  BY DEF Position, HookPcs, Busy, SetupPcs
<1>2. Suite \in Key
  BY <1>1, CurrentShape DEF Suite
<1>3. Kind \in HookKind
  BY DEF Kind, HookKind, AllKind, HookPcs
<1>4. Functions \in Nat
  BY <1>2, <1>3 DEF TypeOK, Functions
<1>5. ThisPhase.id \in Ids /\ ThisPhase.phase \in HookKind
  BY <1>1, <1>2, <1>3 DEF ThisPhase, Ids, HookKind, AllKind
<1> QED
  BY <1>1, <1>2, <1>3, <1>4, <1>5, EventShape

\* Writing events keeps the output a sequence of events.
LEMMA AppendShape ==
    ASSUME TypeOK, NEW e \in Events
    PROVE  /\ Append(out, e) \in Seq(Events)
           /\ \A f \in Events : Append(Append(out, e), f) \in Seq(Events)
<1>1. out \in Seq(Events)
  BY DEF TypeOK
<1>2. Append(out, e) \in Seq(Events)
  BY <1>1
<1> QED
  BY <1>2

LEMMA ShapeInit == Init => Shape
<1> SUFFICES ASSUME Init PROVE Shape
  OBVIOUS
<1>1. /\ pending_tests \in Seq(TestCase) /\ out \in Seq(Events)
      /\ defer_stack \in Seq(Deferral) /\ owed \in Seq(Deferral) /\ ran \in Seq(Deferral)
  BY DEF Init
<1>2. hooks \in [Key -> [HookKind -> Nat]] /\ hook_calls \in Seq(HookCall)
  BY DEF Init
<1>3. TypeOK
  BY <1>1, <1>2 DEF Init, TypeOK, Message
<1>4. Position
  BY DEF Init, Position, Busy, SetupPcs, HookPcs
<1> QED
  BY <1>3, <1>4 DEF Shape

LEMMA ShapeFile ==
    ASSUME Shape, LoadFile \/ LoadFails \/ ReportEscape \/ Finish \/ PassOver
    PROVE  Shape'
<1> USE DEF Shape
<1>1. CASE LoadFile
  <2>1. PICK f \in Files :
          /\ pending_tests' = f.tests /\ hooks' = f.hooks
          /\ defer_stack' = Deferred("load", f.defers, <<>>)
    BY <1>1 DEF LoadFile
  <2>2. pending_tests' \in Seq(TestCase) /\ hooks' \in [Key -> [HookKind -> Nat]]
    BY <2>1, FileShape
  <2>3. defer_stack' \in Seq(Deferral)
    <3>1. f.defers \in Nat
      BY FileShape
    <3>2. \A i \in 1..f.defers : [where |-> "load", n |-> 0 + i] \in Deferral
      BY <3>1 DEF Deferral
    <3> QED
      BY <2>1, <3>1, <3>2 DEF Deferred
  <2>4. TypeOK'
    BY <1>1, <2>2, <2>3 DEF LoadFile, TypeOK, counters, errors, history
  <2>5. Position'
    BY <1>1 DEF LoadFile, Position, Busy, SetupPcs, HookPcs, Ended
  <2> QED
    BY <2>4, <2>5
<1>2. CASE LoadFails
  <2>1. out' \in Seq(Events) /\ saw_failure' = TRUE /\ pc' \in {"done", "crashed"}
    <3>1. Append(out, FileFailed) \in Seq(Events) /\ out \in Seq(Events)
      BY EventShape, AppendShape DEF TypeOK
    <3> QED
      BY <1>2, <3>1 DEF LoadFails, FailFile
  <2>2. UNCHANGED <<list, idx, level, pos, attempt, counters, defer_stack, errors, history>>
    BY <1>2 DEF LoadFails
  <2>3. TypeOK'
    BY <2>1, <2>2 DEF TypeOK, list, counters, errors, history
  <2>4. Position'
    BY <1>2, <2>1, <2>2 DEF LoadFails, Position, Busy, SetupPcs, HookPcs, Ended
  <2> QED
    BY <2>3, <2>4
<1>3. CASE ReportEscape
  <2>1. out' \in Seq(Events) /\ saw_failure' = TRUE /\ pc' \in {"done", "crashed"}
    <3>1. Append(out, FileFailed) \in Seq(Events) /\ out \in Seq(Events)
      BY EventShape, AppendShape DEF TypeOK
    <3> QED
      BY <1>3, <3>1 DEF ReportEscape, FailFile
  <2>2. UNCHANGED <<list, idx, level, pos, attempt, counters, defer_stack, errors, history>>
    BY <1>3 DEF ReportEscape
  <2>3. TypeOK'
    BY <2>1, <2>2 DEF TypeOK, list, counters, errors, history
  <2>4. Position'
    BY <1>3, <2>1, <2>2 DEF ReportEscape, Position, Busy, SetupPcs, HookPcs, Ended
  <2> QED
    BY <2>3, <2>4
<1>4. CASE Finish
  <2>1. TypeOK'
    BY <1>4 DEF Finish, TypeOK, list, counters, errors, history
  <2>2. Position'
    BY <1>4 DEF Finish, TypeOK, Position, Busy, SetupPcs, HookPcs, Ended, list
  <2> QED
    BY <2>1, <2>2
<1>5. CASE PassOver
  <2>1. TypeOK'
    BY <1>5 DEF PassOver, TypeOK, list, counters, errors, history
  <2>2. Position'
    BY <1>5 DEF PassOver, TypeOK, Position, Busy, SetupPcs, HookPcs, Ended, list
  <2> QED
    BY <2>1, <2>2
<1> QED
  BY <1>1, <1>2, <1>3, <1>4, <1>5

LEMMA ShapeStart ==
    ASSUME Shape, StartTest \/ SkipTest
    PROVE  Shape'
<1> USE DEF Shape
<1>1. pc = "next" /\ idx \in 1..Len(pending_tests)
  <2>1. pc = "next" /\ idx <= Len(pending_tests)
    BY DEF StartTest, SkipTest
  <2>2. idx \in Nat /\ Len(pending_tests) \in Nat
    BY DEF TypeOK
  <2>3. idx > 0
    BY <2>1 DEF Position, Ended
  <2> QED
    BY <2>1, <2>2, <2>3
<1>2. /\ Depth \in Nat /\ current.retry \in Nat /\ current.retry > 0
      /\ current.mode \in Modes
  BY <1>1, CurrentShape
<1>3. registered' \in [Key -> Nat]
  <2>1. registered \in [Key -> Nat]
    BY DEF TypeOK
  <2>2. register_test_counts(current)
    BY DEF StartTest, SkipTest
  <2> QED
    BY <2>1, <2>2 DEF register_test_counts
<1>4. idx \in Nat /\ Event("start", idx) \in Events
  BY EventShape DEF TypeOK
<1>5. CASE StartTest
  <2>1. out' \in Seq(Events)
    BY <1>4, <1>5, AppendShape DEF StartTest, TypeOK
  <2>2. TypeOK'
    BY <1>3, <1>4, <1>5, <2>1 DEF StartTest, TypeOK, list, errors
  <2>3. Position'
    BY <1>1, <1>2, <1>5 DEF StartTest, Position, Busy, SetupPcs, HookPcs, Ended, list,
       current, Depth
  <2> QED
    BY <2>2, <2>3
<1>6. CASE SkipTest
  <2>1. out' \in Seq(Events)
    <3>1. Event(current.mode, idx) \in Events
      BY <1>4, <1>6, EventShape DEF SkipTest, Verdicts
    <3>2. Append(Append(out, Event("start", idx)), Event(current.mode, idx)) \in Seq(Events)
      BY <3>1, <1>4, AppendShape
    <3> QED
      BY <1>6, <3>2 DEF SkipTest, TypeOK
  <2>2. TypeOK'
    BY <1>2, <1>3, <1>4, <1>6, <2>1 DEF SkipTest, TypeOK, list, errors, HookPcs
  <2>3. Position'
    BY <1>1, <1>2, <1>6 DEF SkipTest, Position, Busy, SetupPcs, HookPcs, Ended, list,
       current, Depth
  <2> QED
    BY <2>2, <2>3
<1> QED
  BY <1>5, <1>6

\* Opening the list of a suite's hooks: the suite is unchanged and a hook is
\* next, or the list is empty and the next suite has its turn.
LEMMA OpenShape ==
    ASSUME Shape, pc \in HookPcs, level \in 1..Depth, OpenHooks
    PROVE  /\ out' \in Seq(Events)
           /\ \/ level' = NextLevel /\ pos' = pos /\ out' = out
              \/ level' = level /\ pos' = 1
                 /\ out' = IF pc = "skipped" THEN out
                           ELSE Append(out, Phase(ThisPhase.id, ThisPhase.phase, "start"))
<1>1. Phase(ThisPhase.id, ThisPhase.phase, "start") \in Events
  BY HookShape DEF Shape
<1>2. /\ out \in Seq(Events)
      /\ Append(out, Phase(ThisPhase.id, ThisPhase.phase, "start")) \in Seq(Events)
  BY <1>1, AppendShape DEF Shape, TypeOK
<1> QED
  BY <1>2 DEF OpenHooks, EmitPhase

LEMMA ShapeOpen ==
    ASSUME Shape, BeforeAll \/ BeforeEach \/ AfterEach \/ CompleteSuite
    PROVE  Shape'
<1> USE DEF Shape
<1>1. pc \in HookPcs /\ pos = 0 /\ level \in 1..Depth /\ pc \in Busy
  <2>1. /\ pc \in HookPcs /\ pos = 0
        /\ pc \in {"beforeAll", "beforeEach"} => level <= Depth
        /\ pc \in {"afterEach", "complete", "skipped"} => level > 0
    BY DEF BeforeAll, BeforeEach, AfterEach, CompleteSuite, HookPcs
  <2>2. pc \in Busy
    BY <2>1 DEF HookPcs, Busy, SetupPcs
  <2>3. Depth \in Nat
    BY <2>2, CurrentShape DEF Position
  <2>4. level \in 1..Depth
    BY <2>1, <2>3 DEF Position, HookPcs
  <2> QED
    BY <2>1, <2>2, <2>4
<1>2. idx \in 1..Len(pending_tests) /\ Depth \in Nat /\ Suite \in Key
  BY <1>1, HookShape, CurrentShape
<1>3. /\ out' \in Seq(Events)
      /\ \/ level' = NextLevel /\ pos' = pos
         \/ level' = level /\ pos' = 1
  <2>1. out \in Seq(Events)
    BY DEF TypeOK
  <2>2. OpenHooks \/ (level' = NextLevel /\ UNCHANGED <<pos, out>>)
    BY <1>1 DEF BeforeAll, BeforeEach, AfterEach, CompleteSuite, NextLevel, SetupPcs
  <2> QED
    BY <1>1, <2>1, <2>2, OpenShape
<1>4. /\ level' \in Nat /\ pos' \in Nat
      /\ pos' > 0 => level' \in 1..Depth
      /\ level' \in IF pc \in SetupPcs THEN 1..(Depth + 1) ELSE 0..Depth
  BY <1>1, <1>2, <1>3 DEF NextLevel
<1>5. UNCHANGED <<list, idx, pc, attempt, registered, defer_stack, errors, saw_failure, history>>
  BY DEF BeforeAll, BeforeEach, AfterEach, CompleteSuite, counters
<1>6. /\ completed' \in [Key -> Nat]
      /\ beforeAll_done' \in [Key -> BOOLEAN] /\ afterAll_done' \in [Key -> BOOLEAN]
  <2>1. /\ completed \in [Key -> Nat]
        /\ beforeAll_done \in [Key -> BOOLEAN] /\ afterAll_done \in [Key -> BOOLEAN]
    BY DEF TypeOK
  <2>2. CASE BeforeAll
    BY <1>2, <2>1, <2>2 DEF BeforeAll
  <2>3. CASE BeforeEach \/ AfterEach
    BY <2>1, <2>3 DEF BeforeEach, AfterEach, counters
  <2>4. CASE CompleteSuite
    <3>1. completed' \in [Key -> Nat]
      BY <1>2, <2>1, <2>4 DEF CompleteSuite
    <3>2. afterAll_done' \in [Key -> BOOLEAN] /\ beforeAll_done' = beforeAll_done
      BY <1>2, <2>1, <2>4 DEF CompleteSuite
    <3> QED
      BY <2>1, <3>1, <3>2
  <2> QED
    BY <2>2, <2>3, <2>4
<1>7. TypeOK'
  BY <1>3, <1>4, <1>5, <1>6 DEF TypeOK, list, errors, history
<1>8. Position'
  BY <1>1, <1>2, <1>4, <1>5 DEF Position, Busy, SetupPcs, HookPcs, Ended, list, current, Depth
<1> QED
  BY <1>7, <1>8

\* The current test is not touched by what a callback registers.
LEMMA CurrentKept ==
    ASSUME TypeOK, idx \in 1..Len(pending_tests), idx' = idx,
           Len(pending_tests') >= Len(pending_tests), Len(pending_tests') \in Nat,
           \A i \in 1..Len(pending_tests) : pending_tests'[i] = pending_tests[i]
    PROVE  current' = current /\ Depth' = Depth /\ idx' \in 1..Len(pending_tests')
<1>1. Len(pending_tests) \in Nat
  BY DEF TypeOK
<1>2. current' = current
  BY DEF current
<1> QED
  BY <1>1, <1>2 DEF Depth

\* What is left of an error is a message.
LEMMA ErrorKinds ==
    ASSUME NEW error \in Errors
    PROVE  /\ Says(error) \in Message
           /\ error \notin Unprintable => error \in Message
BY DEF Errors, Unprintable, Says, Message

\* The history of hook calls grows by the call of a hook at the end.
LEMMA HookCallShape ==
    ASSUME Shape, CallHook
    PROVE  hook_calls' \in Seq(HookCall)
<1>1. hook_calls \in Seq(HookCall) /\ pos \in Nat /\ Suite \in Key
  BY HookShape DEF Shape, TypeOK, CallHook, Position, HookPcs
<1>2. CASE Kind \in AllKind
  <2>1. [suite |-> Suite, kind |-> Kind, hook |-> pos] \in HookCall
    BY <1>1, <1>2 DEF HookCall
  <2> QED
    BY <1>1, <1>2, <2>1 DEF CallHook
<1>3. CASE Kind \notin AllKind
  BY <1>1, <1>3 DEF CallHook
<1> QED
  BY <1>2, <1>3

LEMMA ShapeCallHook ==
    ASSUME Shape, CallHook
    PROVE  Shape'
<1> USE DEF Shape
<1>1. /\ pc \in HookPcs /\ pos > 0 /\ pos <= Functions /\ level \in 1..Depth
      /\ idx \in 1..Len(pending_tests)
  BY HookShape DEF CallHook, Position, HookPcs
<1>2. PICK e \in Effects, where \in {"setup", "late", "skipped"} :
        /\ Callback(e, where)
        /\ IF e.error \in Unprintable
           THEN /\ pos' = 0
                /\ IF pc \in {"afterEach", "complete"}
                   THEN pc' = "judge" /\ cleanup_errors' = Says(e.error) /\ UNCHANGED escape
                   ELSE pc' = "escaped" /\ escape' = Says(e.error) /\ UNCHANGED cleanup_errors
           ELSE /\ pos' = pos + 1 /\ UNCHANGED <<pc, escape>>
                /\ cleanup_errors' = IF e.error = "none" THEN cleanup_errors ELSE e.error
  BY DEF CallHook
<1>3. /\ e.error \in Errors
      /\ pending_tests' \in Seq(TestCase) /\ defer_stack' \in Seq(Deferral)
      /\ owed' \in Seq(Deferral)
      /\ dirty' \in BOOLEAN /\ raised' \in BOOLEAN
      /\ Len(pending_tests') >= Len(pending_tests)
      /\ \A i \in 1..Len(pending_tests) : pending_tests'[i] = pending_tests[i]
      /\ hooks' = hooks /\ has_only' = has_only /\ announced' = announced
  BY <1>2, CallbackShape
<1>4. UNCHANGED <<idx, level, attempt, counters, body_error, out, saw_failure, ran>>
  BY DEF CallHook
<1>5. /\ cleanup_errors' \in Message /\ pos' \in Nat
      /\ pc' \in {pc, "escaped", "judge"}
      /\ pc' = "judge" => pc \in {"afterEach", "complete"}
      /\ pc' = pc \/ pos' = 0
  <2>1. pos \in Nat /\ cleanup_errors \in Message
    BY DEF TypeOK
  <2> QED
    BY <1>1, <1>2, <1>3, <2>1, ErrorKinds DEF HookPcs
<1>9. escape' \in Message
  <2>1. escape \in Message
    BY DEF TypeOK
  <2> QED
    BY <1>2, <1>3, <2>1, ErrorKinds
<1>10. hook_calls' \in Seq(HookCall)
  BY <1>1, HookCallShape
<1>6. TypeOK'
  BY <1>3, <1>4, <1>5, <1>9, <1>10 DEF TypeOK, counters, HookPcs
<1>7. current' = current /\ Depth' = Depth /\ idx' \in 1..Len(pending_tests')
  BY <1>1, <1>3, <1>4, CurrentKept
<1>8. Position'
  BY <1>1, <1>4, <1>5, <1>7 DEF Position, Busy, SetupPcs, HookPcs, Ended
<1> QED
  BY <1>6, <1>8

LEMMA ShapeCloseHooks ==
    ASSUME Shape, CloseHooks
    PROVE  Shape'
<1> USE DEF Shape
<1>1. pc \in HookPcs /\ level \in 1..Depth /\ pos' = 0 /\ level' = NextLevel
  BY DEF CloseHooks, Position
<1>2. /\ Phase(ThisPhase.id, ThisPhase.phase, "end") \in Events
      /\ idx \in 1..Len(pending_tests) /\ Depth \in Nat
  BY <1>1, HookShape, CurrentShape
<1>3. out' \in Seq(Events)
  <2>1. /\ out \in Seq(Events)
        /\ Append(out, Phase(ThisPhase.id, ThisPhase.phase, "end")) \in Seq(Events)
    BY <1>2, AppendShape DEF TypeOK
  <2> QED
    BY <2>1 DEF CloseHooks, EmitPhase
<1>4. level' \in Nat /\ level' \in IF pc \in SetupPcs THEN 1..(Depth + 1) ELSE 0..Depth
  BY <1>1, <1>2 DEF NextLevel
<1>5. UNCHANGED <<list, idx, pc, attempt, counters, defer_stack, errors, saw_failure, history>>
  BY DEF CloseHooks
<1>6. TypeOK'
  BY <1>1, <1>3, <1>4, <1>5 DEF TypeOK, list, counters, errors, history
<1>7. Position'
  BY <1>1, <1>2, <1>4, <1>5 DEF Position, Busy, SetupPcs, HookPcs, Ended, list, current, Depth
<1> QED
  BY <1>6, <1>7

LEMMA ShapeBefore ==
    ASSUME Shape, BeforeTest \/ BeforeAllOver \/ RunBody
    PROVE  Shape'
<1> USE DEF Shape
<1>1. idx \in 1..Len(pending_tests) /\ Depth \in Nat
  <2>1. pc \in Busy
    BY DEF BeforeTest, BeforeAllOver, RunBody, Busy, SetupPcs
  <2> QED
    BY <2>1, CurrentShape DEF Position
<1>2. CASE BeforeTest
  <2>1. TypeOK'
    <3>1. /\ defer_stack' \in Seq(Deferral) /\ owed' \in Seq(Deferral) /\ ran' \in Seq(Deferral)
          /\ cleanup_errors' \in Message
      BY <1>2 DEF BeforeTest, Message
    <3>3. dirty' \in BOOLEAN
      BY <1>2 DEF BeforeTest
    <3>2. /\ pc' = "beforeAll" /\ level' = 1
          /\ UNCHANGED <<list, idx, pos, attempt, counters, body_error, escape, out, saw_failure,
                         announced, raised, hook_calls>>
      BY <1>2 DEF BeforeTest
    <3> QED
      BY <3>1, <3>2, <3>3 DEF TypeOK, list, counters, HookPcs
  <2>2. Position'
    BY <1>1, <1>2 DEF BeforeTest, Position, Busy, SetupPcs, HookPcs, Ended, list, current, Depth
  <2> QED
    BY <2>1, <2>2
<1>3. CASE BeforeAllOver
  <2>1. TypeOK'
    BY <1>3 DEF BeforeAllOver, TypeOK, list, counters, errors, history, HookPcs
  <2>2. Position'
    BY <1>1, <1>3 DEF BeforeAllOver, Position, Busy, SetupPcs, HookPcs, Ended, list, current,
       Depth
  <2> QED
    BY <2>1, <2>2
<1>4. CASE RunBody
  <2>1. PICK e \in Effects : /\ Callback(e, "setup")
                             /\ body_error' = IF e.error \in Unprintable THEN "text" ELSE e.error
    BY <1>4 DEF RunBody
  <2>2. /\ e.error \in Errors
        /\ pending_tests' \in Seq(TestCase) /\ defer_stack' \in Seq(Deferral)
        /\ owed' \in Seq(Deferral)
        /\ dirty' \in BOOLEAN /\ raised' \in BOOLEAN
        /\ Len(pending_tests') >= Len(pending_tests)
        /\ \A i \in 1..Len(pending_tests) : pending_tests'[i] = pending_tests[i]
        /\ hooks' = hooks /\ has_only' = has_only /\ announced' = announced
    BY <2>1, CallbackShape
  <2>3. body_error' \in Message
    BY <2>1, <2>2 DEF Errors, Unprintable, Message
  <2>4. out' \in Seq(Events)
    <3>1. idx \in Ids
      BY DEF TypeOK, Ids
    <3>2. Phase(idx, "test", "start") \in Events /\ Phase(idx, "test", "end") \in Events
      BY <3>1, EventShape
    <3>3. Append(Append(out, Phase(idx, "test", "start")), Phase(idx, "test", "end")) \in Seq(Events)
      BY <3>2, AppendShape
    <3> QED
      BY <1>4, <3>3 DEF RunBody
  <2>5. /\ pc' = "defers" /\ pos' = Len(defer_stack') /\ pos' \in Nat
        /\ UNCHANGED <<idx, level, attempt, counters, cleanup_errors, escape, saw_failure, ran,
                       hook_calls>>
    BY <1>4, <2>2 DEF RunBody
  <2>6. TypeOK'
    BY <2>2, <2>3, <2>4, <2>5 DEF TypeOK, counters
  <2>7. current' = current /\ Depth' = Depth /\ idx' \in 1..Len(pending_tests')
    BY <1>1, <2>2, <2>5, CurrentKept
  <2>8. Position'
    BY <1>1, <1>4, <2>5, <2>7 DEF RunBody, Position, Busy, SetupPcs, HookPcs, Ended
  <2> QED
    BY <2>6, <2>8
<1> QED
  BY <1>2, <1>3, <1>4

LEMMA ShapeRunDefer ==
    ASSUME Shape, RunDefer
    PROVE  Shape'
<1> USE DEF Shape
<1>1. idx \in 1..Len(pending_tests) /\ pc = "defers" /\ pos > 0
  BY DEF RunDefer, Position, Busy
<1>2. PICK e \in Effects :
        /\ Callback(e, "late")
        /\ IF e.error \in Unprintable
           THEN pc' = "judge" /\ pos' = 0 /\ cleanup_errors' = Says(e.error)
           ELSE /\ pos' = pos - 1 /\ UNCHANGED pc
                /\ cleanup_errors' = IF e.error = "none" THEN cleanup_errors ELSE e.error
  BY DEF RunDefer
<1>3. /\ e.error \in Errors
      /\ pending_tests' \in Seq(TestCase) /\ defer_stack' \in Seq(Deferral)
      /\ owed' \in Seq(Deferral)
      /\ dirty' \in BOOLEAN /\ raised' \in BOOLEAN
      /\ Len(pending_tests') >= Len(pending_tests)
      /\ \A i \in 1..Len(pending_tests) : pending_tests'[i] = pending_tests[i]
      /\ Len(defer_stack') >= Len(defer_stack)
      /\ hooks' = hooks /\ has_only' = has_only /\ announced' = announced
  BY <1>2, CallbackShape
<1>4. UNCHANGED <<idx, level, attempt, counters, body_error, escape, out, saw_failure,
                  hook_calls>>
  BY DEF RunDefer
<1>5. cleanup_errors' \in Message /\ pos' \in Nat /\ pc' \in {"defers", "judge"}
      /\ (pc' = "judge" => pos' = 0) /\ (pc' = "defers" => pos' = pos - 1)
  <2>1. pos \in Nat /\ cleanup_errors \in Message
    BY DEF TypeOK
  <2> QED
    BY <1>1, <1>2, <1>3, <2>1, ErrorKinds
<1>6. ran' \in Seq(Deferral)
  <2>1. ran \in Seq(Deferral) /\ defer_stack \in Seq(Deferral) /\ pos \in Nat
    BY DEF TypeOK
  <2>2. pos \in 1..Len(defer_stack)
    BY <1>1, <2>1 DEF Position
  <2>3. defer_stack[pos] \in Deferral
    BY <2>1, <2>2
  <2> QED
    BY <2>1, <2>3 DEF RunDefer
<1>7. TypeOK'
  BY <1>3, <1>4, <1>5, <1>6 DEF TypeOK, counters
<1>8. current' = current /\ Depth' = Depth /\ idx' \in 1..Len(pending_tests')
  BY <1>1, <1>3, <1>4, CurrentKept
<1>9. pc' = "defers" => pos' <= Len(defer_stack')
  <2>1. pos \in Nat /\ Len(defer_stack) \in Nat /\ Len(defer_stack') \in Nat
    BY <1>3 DEF TypeOK
  <2> QED
    BY <1>1, <1>3, <1>5, <2>1 DEF Position
<1>10. Position'
  BY <1>1, <1>4, <1>5, <1>8, <1>9 DEF Position, Busy, SetupPcs, HookPcs, Ended
<1> QED
  BY <1>7, <1>10

LEMMA ShapeAfter ==
    ASSUME Shape, DefersOver \/ AfterEachOver \/ CompleteOver \/ SkipOver
    PROVE  Shape'
<1> USE DEF Shape
<1>1. idx \in 1..Len(pending_tests) /\ Depth \in Nat
  <2>1. pc \in Busy
    BY DEF DefersOver, AfterEachOver, CompleteOver, SkipOver, Busy
  <2> QED
    BY <2>1, CurrentShape DEF Position
<1>2. CASE DefersOver
  <2>1. TypeOK'
    BY <1>1, <1>2 DEF DefersOver, TypeOK, list, counters, errors, history, HookPcs
  <2>2. Position'
    BY <1>1, <1>2 DEF DefersOver, Position, Busy, SetupPcs, HookPcs, Ended, list, current, Depth
  <2> QED
    BY <2>1, <2>2
<1>3. CASE AfterEachOver
  <2>1. TypeOK'
    BY <1>1, <1>3 DEF AfterEachOver, TypeOK, list, counters, errors, history, HookPcs
  <2>2. Position'
    BY <1>1, <1>3 DEF AfterEachOver, finalize, Position, Busy, SetupPcs, HookPcs, Ended, list,
       current, Depth
  <2> QED
    BY <2>1, <2>2
<1>4. CASE CompleteOver
  <2>1. TypeOK'
    BY <1>4 DEF CompleteOver, TypeOK, list, counters, errors, history
  <2>2. Position'
    BY <1>1, <1>4 DEF CompleteOver, Position, Busy, SetupPcs, HookPcs, Ended, list, current,
       Depth
  <2> QED
    BY <2>1, <2>2
<1>5. CASE SkipOver
  <2>1. TypeOK'
    BY <1>5 DEF SkipOver, TypeOK, list, counters, errors, history
  <2>2. Position'
    BY <1>1, <1>5 DEF SkipOver, Position, Busy, SetupPcs, HookPcs, Ended, TypeOK
  <2> QED
    BY <2>1, <2>2
<1> QED
  BY <1>2, <1>3, <1>4, <1>5

LEMMA ShapeVerdict ==
    ASSUME Shape, Pass \/ RetryTest \/ Fail
    PROVE  Shape'
<1> USE DEF Shape
<1>1. /\ pc = "judge" /\ idx \in 1..Len(pending_tests) /\ Depth \in Nat /\ idx \in Nat
      /\ attempt \in 1..current.retry /\ current.retry \in Nat
  <2>1. pc = "judge"
    BY DEF Pass, RetryTest, Fail
  <2> QED
    BY <2>1, CurrentShape DEF Position, Busy, TypeOK
<1>2. out' \in Seq(Events)
  <2>1. /\ Event("pass", idx) \in Events /\ Event("fail", idx) \in Events
        /\ Retry(idx, attempt, current.retry) \in Events
    BY <1>1, EventShape DEF Verdicts
  <2>2. \A e \in Events : Append(out, e) \in Seq(Events)
    BY AppendShape
  <2>3. out \in Seq(Events)
    BY DEF TypeOK
  <2> QED
    BY <2>1, <2>2, <2>3 DEF Pass, RetryTest, Fail
<1>3. /\ pc' \in {"next", "escaped", "before"} /\ idx' \in {idx, idx + 1}
      /\ attempt' \in {attempt, attempt + 1} /\ saw_failure' \in {saw_failure, TRUE}
      /\ UNCHANGED <<list, level, pos, counters, defer_stack, errors, history>>
  BY DEF Pass, RetryTest, Fail
<1>4. pc' = "before" => idx' = idx /\ attempt' = attempt + 1 /\ attempt # current.retry
  BY DEF Pass, RetryTest, Fail
<1>5. TypeOK'
  <2>1. idx' \in Nat /\ attempt' \in Nat
    BY <1>1, <1>3 DEF TypeOK
  <2>2. saw_failure' \in BOOLEAN
    BY DEF Pass, RetryTest, Fail, TypeOK
  <2> QED
    BY <1>2, <1>3, <2>1, <2>2 DEF TypeOK, list, counters, errors, history
<1>6. Position'
  <2>1. CASE pc' = "before"
    <3>1. idx' = idx /\ attempt' \in 1..current.retry /\ current' = current
      BY <1>1, <1>3, <1>4, <2>1 DEF current, list
    <3> QED
      BY <1>1, <1>3, <2>1, <3>1 DEF Position, Busy, SetupPcs, HookPcs, Ended, list
  <2>2. CASE pc' # "before"
    BY <1>1, <1>3, <2>2 DEF Position, Busy, SetupPcs, HookPcs, Ended
  <2> QED
    BY <2>1, <2>2
<1> QED
  BY <1>5, <1>6

LEMMA ShapeStutter == ASSUME Shape, UNCHANGED vars PROVE Shape'
<1>1. TypeOK'
  BY DEF Shape, TypeOK, vars, list, counters, errors, history
<1>2. Position'
  BY DEF Shape, Position, vars, list, Busy, Ended, current, Depth
<1> QED
  BY <1>1, <1>2 DEF Shape

LEMMA ShapeStep == Shape /\ [Next]_vars => Shape'
BY ShapeFile, ShapeStart, ShapeOpen, ShapeCallHook, ShapeCloseHooks, ShapeBefore, ShapeRunDefer,
   ShapeAfter, ShapeVerdict, ShapeStutter DEF Next

\* In every reachable state of the run of any file, whatever its callbacks do,
\* the state of the runtime and of the runner has its type.
THEOREM TypeCorrect == Spec => []TypeOK
<1>1. Spec => []Shape
  BY ShapeInit, ShapeStep, PTL DEF Spec
<1>2. Shape => TypeOK
  BY DEF Shape
<1> QED
  BY <1>1, <1>2, PTL
----------------------------------------------------------------------------
(* Completed tests never overtake registered ones.                         *)

LEMMA BehindInit == Init => Behind
BY DEF Init, Behind, ToComplete, SetupPcs

\* Steps that do not count, and after which no more suites wait.
LEMMA BehindKept ==
    ASSUME Shape, Behind, registered' = registered, completed' = completed,
           ToComplete' \subseteq ToComplete,
           ToComplete' # {} => current' = current
    PROVE  Behind'
BY DEF Behind

\* A test that starts is registered in each of its suites.
LEMMA BehindStart ==
    ASSUME Shape, Behind, StartTest \/ SkipTest
    PROVE  Behind'
<1>1. pc = "next" /\ idx \in 1..Len(pending_tests) /\ completed' = completed
      /\ current' = current /\ Depth' = Depth
  BY DEF StartTest, SkipTest, Shape, Position, TypeOK, list, Ended, current, Depth
<1>2. /\ Depth \in Nat /\ \A i \in 1..Depth : current.stack[i] \in Key
      /\ registered \in [Key -> Nat] /\ completed \in [Key -> Nat]
  BY <1>1, CurrentShape DEF Shape, TypeOK
<1>3. register_test_counts(current)
  BY DEF StartTest, SkipTest
<1>4. \A k \in Key : registered'[k] = IF InSuite(current, k) THEN registered[k] + 1
                                      ELSE registered[k]
  BY <1>3 DEF register_test_counts
<1>5. \A k \in Key : completed'[k] <= registered'[k]
  BY <1>1, <1>2, <1>4 DEF Behind
<1>6. \A i \in 1..Depth : completed'[current.stack[i]] < registered'[current.stack[i]]
  <2> TAKE i \in 1..Depth
  <2>1. InSuite(current, current.stack[i]) /\ current.stack[i] \in Key
    BY <1>2 DEF InSuite, Depth
  <2> QED
    BY <1>1, <1>2, <1>4, <2>1 DEF Behind
<1>7. ToComplete' \subseteq 1..Depth
  <2>1. /\ pos = 0 /\ pos' = 0
        /\ pc' \in {"before", "escaped", "skipped"} /\ (pc' = "skipped" => level' = Depth)
    BY <1>1 DEF StartTest, SkipTest, Shape, Position, HookPcs
  <2> QED
    BY <1>1, <1>2, <2>1 DEF ToComplete, SetupPcs
<1> QED
  BY <1>1, <1>5, <1>6, <1>7 DEF Behind

\* Completing a suite counts one test that was registered there, and leaves
\* the outer suites, whose keys differ, to be completed.
LEMMA BehindComplete ==
    ASSUME Shape, Behind, CompleteSuite
    PROVE  Behind'
<1>1. pc \in {"complete", "skipped"} /\ pos = 0 /\ level > 0
  BY DEF CompleteSuite
<1>2. /\ level \in 1..Depth /\ idx \in 1..Len(pending_tests) /\ Depth \in Nat
      /\ \A i \in 1..Depth : current.stack[i] \in Key
      /\ \A i, j \in 1..Depth : current.stack[i] = current.stack[j] => i = j
  <2>1. pc \in Busy /\ level \in Nat
    BY <1>1 DEF Busy, Shape, TypeOK
  <2>2. idx \in 1..Len(pending_tests)
    BY <2>1 DEF Shape, Position
  <2> QED
    BY <1>1, <2>1, <2>2, CurrentShape DEF Shape, Position
<1>3. registered \in [Key -> Nat] /\ completed \in [Key -> Nat]
  BY DEF Shape, TypeOK
<1>4. /\ completed' = [completed EXCEPT ![Suite] = @ + 1] /\ registered' = registered
      /\ current' = current /\ pc' = pc
  BY DEF CompleteSuite, list, current
<1>5. Suite \in Key /\ completed[Suite] < registered[Suite]
  BY <1>1, <1>2 DEF Behind, ToComplete, Suite, SetupPcs
<1>6. ToComplete' \subseteq 1..(level - 1)
  <2>1. \/ level' = level - 1 /\ pos' = 0
        \/ level' = level /\ pos' = 1
    BY <1>1 DEF CompleteSuite, OpenHooks, NextLevel, SetupPcs
  <2> QED
    BY <1>1, <1>2, <1>4, <2>1 DEF ToComplete, SetupPcs
<1>7. \A k \in Key : completed'[k] <= registered'[k]
  BY <1>3, <1>4, <1>5 DEF Behind
<1>8. \A i \in 1..(level - 1) : completed'[current.stack[i]] < registered'[current.stack[i]]
  <2> TAKE i \in 1..(level - 1)
  <2>1. i \in ToComplete /\ i \in 1..Depth /\ i # level
    BY <1>1, <1>2 DEF ToComplete, SetupPcs
  <2>2. current.stack[i] # Suite /\ current.stack[i] \in Key
    BY <1>2, <2>1 DEF Suite
  <2> QED
    BY <1>3, <1>4, <2>1, <2>2 DEF Behind
<1> QED
  BY <1>4, <1>6, <1>7, <1>8 DEF Behind

\* Where the current test stays the same, and where it does not matter.
LEMMA SameTest ==
    ASSUME Shape, UNCHANGED <<pending_tests, idx>>
    PROVE  current' = current /\ Depth' = Depth
BY DEF current, Depth

LEMMA BehindOther ==
    ASSUME Shape, Behind,
           \/ LoadFile \/ LoadFails \/ ReportEscape \/ Finish \/ PassOver
           \/ SkipOver \/ Pass \/ Fail
    PROVE  Behind'
<1>1. registered' = registered /\ completed' = completed
  BY DEF LoadFile, LoadFails, ReportEscape, Finish, PassOver, SkipOver, Pass, Fail, counters
<1>2. pc' \in {"next", "done", "crashed", "escaped"}
  BY DEF LoadFile, LoadFails, ReportEscape, Finish, PassOver, SkipOver, Pass, Fail, FailFile
<1>3. ToComplete' = {}
  BY <1>2 DEF ToComplete, SetupPcs
<1> QED
  BY <1>1, <1>3 DEF Behind

LEMMA BehindSame ==
    ASSUME Shape, Behind,
           \/ BeforeTest \/ BeforeAllOver \/ BeforeAll \/ BeforeEach \/ AfterEach
           \/ DefersOver \/ AfterEachOver \/ CompleteOver \/ CloseHooks \/ RetryTest
    PROVE  Behind'
<1>1. /\ registered' = registered /\ completed' = completed
      /\ UNCHANGED <<pending_tests, idx>>
  BY DEF BeforeTest, BeforeAllOver, BeforeAll, BeforeEach, AfterEach, DefersOver, AfterEachOver,
     CompleteOver, CloseHooks, RetryTest, counters, list
<1>2. current' = current /\ Depth' = Depth
  BY <1>1, SameTest
<1>3. ToComplete' \subseteq ToComplete
  <2>1. CASE BeforeTest \/ BeforeAllOver \/ BeforeAll \/ BeforeEach \/ AfterEach \/ DefersOver
    BY <1>2, <2>1 DEF BeforeTest, BeforeAllOver, BeforeAll, BeforeEach, AfterEach, DefersOver,
       ToComplete, SetupPcs
  <2>2. CASE AfterEachOver \/ CompleteOver \/ RetryTest
    BY <1>2, <2>2 DEF AfterEachOver, finalize, CompleteOver, RetryTest, ToComplete, SetupPcs,
       Shape, Position
  <2>3. CASE CloseHooks
    BY <1>2, <2>3 DEF CloseHooks, NextLevel, HookPcs, ToComplete, SetupPcs
  <2> QED
    BY <2>1, <2>2, <2>3
<1> QED
  BY <1>1, <1>2, <1>3, BehindKept

LEMMA BehindCallbacks ==
    ASSUME Shape, Behind, CallHook \/ RunBody \/ RunDefer
    PROVE  Behind'
<1>1. /\ registered' = registered /\ completed' = completed /\ idx' = idx
      /\ level' = level /\ attempt' = attempt
  BY DEF CallHook, RunBody, RunDefer, counters
<1>2. pc \in Busy /\ idx \in 1..Len(pending_tests)
  BY DEF CallHook, RunBody, RunDefer, Shape, Position, Busy, HookPcs, SetupPcs
<1>3. PICK e \in Effects, where \in {"setup", "late", "skipped"} : Callback(e, where)
  BY DEF CallHook, RunBody, RunDefer
<1>4. current' = current /\ Depth' = Depth
  <2>1. /\ pending_tests' \in Seq(TestCase)
        /\ Len(pending_tests') >= Len(pending_tests)
        /\ \A i \in 1..Len(pending_tests) : pending_tests'[i] = pending_tests[i]
    BY <1>3, CallbackShape DEF Shape
  <2> QED
    BY <1>1, <1>2, <2>1, CurrentKept DEF Shape
<1>5. ToComplete' \subseteq ToComplete
  <2>1. CASE CallHook
    <3>1. /\ pc \in HookPcs /\ pos > 0 /\ pos \in Nat
          /\ \/ pc' = pc /\ pos' = pos + 1
             \/ pc' = "judge" /\ pc \in {"afterEach", "complete"}
             \/ pc' = "escaped"
      BY <2>1 DEF CallHook, Shape, TypeOK
    <3>2. pc = "complete" => attempt = current.retry
      BY DEF Shape, Position
    <3> QED
      BY <1>1, <1>4, <3>1, <3>2 DEF HookPcs, ToComplete, SetupPcs
  <2>2. CASE RunBody
    BY <1>4, <2>2 DEF RunBody, ToComplete, SetupPcs
  <2>3. CASE RunDefer
    <3>1. pc = "defers" /\ pc' \in {"defers", "judge"}
      BY <2>3 DEF RunDefer
    <3> QED
      BY <1>1, <1>4, <3>1 DEF ToComplete, SetupPcs
  <2> QED
    BY <2>1, <2>2, <2>3
<1> QED
  BY <1>1, <1>4, <1>5, BehindKept

LEMMA BehindStep == Shape /\ Behind /\ [Next]_vars => Behind'
<1>1. ASSUME Shape, Behind, UNCHANGED vars PROVE Behind'
  BY <1>1 DEF Behind, ToComplete, vars, list, counters, current, Depth
<1> QED
  BY <1>1, BehindStart, BehindComplete, BehindOther, BehindSame, BehindCallbacks DEF Next

LEMMA BehindImplies == Shape /\ Behind => CompletedBehind
<1> SUFFICES ASSUME Shape, Behind, NEW k \in Key
             PROVE  /\ completed[k] <= registered[k]
                    /\ (pc \in SetupPcs \cup {"defers", "afterEach"} /\ InSuite(current, k))
                          => completed[k] < registered[k]
  BY DEF CompletedBehind
<1> QED
  BY DEF Behind, ToComplete, InSuite, Depth

\* For every file and whatever its callbacks raise, defer or register: no
\* suite counts more completed tests than registered ones, and fewer while a
\* test of the suite is under way, so its afterAll hooks cannot be triggered
\* in the middle of one of its tests.
THEOREM CountersAgree == Spec => []CompletedBehind
<1>1. Init => Shape /\ Behind
  BY ShapeInit, BehindInit
<1>2. Shape /\ Behind /\ [Next]_vars => (Shape /\ Behind)'
  BY ShapeStep, BehindStep
<1> QED
  BY <1>1, <1>2, BehindImplies, PTL DEF Spec
----------------------------------------------------------------------------
(* No test gets two verdicts.                                              *)

\* The events of the output after one or two more were written.
LEMMA WrittenOne ==
    ASSUME TypeOK, NEW e, out' = Append(out, e)
    PROVE  /\ Len(out) \in Nat /\ Len(out') = Len(out) + 1 /\ out'[Len(out) + 1] = e
           /\ \A i \in 1..Len(out) : out'[i] = out[i]
BY DEF TypeOK

LEMMA WrittenTwo ==
    ASSUME TypeOK, NEW e, NEW f, out' = Append(Append(out, e), f)
    PROVE  /\ Len(out) \in Nat /\ Len(out') = Len(out) + 2
           /\ out'[Len(out) + 1] = e /\ out'[Len(out) + 2] = f
           /\ \A i \in 1..Len(out) : out'[i] = out[i]
<1> DEFINE one == Append(out, e)
<1>1. /\ Len(out) \in Nat /\ Len(one) = Len(out) + 1 /\ one[Len(out) + 1] = e
      /\ \A i \in 1..Len(out) : one[i] = out[i]
      /\ one \in Seq(Events \cup {e})
  BY DEF TypeOK
<1>2. out' = Append(one, f)
  OBVIOUS
<1> HIDE DEF one
<1>3. /\ Len(Append(one, f)) = Len(one) + 1 /\ Append(one, f)[Len(one) + 1] = f
      /\ \A i \in 1..Len(one) : Append(one, f)[i] = one[i]
  BY <1>1
<1> QED
  BY <1>1, <1>2, <1>3

\* What the verdicts written so far ask of a step that writes none.
LEMMA VerdictKept ==
    ASSUME TypeOK, VerdictEvents,
           \A i \in 1..Len(out') : out'[i].event \in Verdicts =>
               i \in 1..Len(out) /\ out'[i] = out[i],
           idx' \in Nat, idx' >= idx, pc \notin {"done", "crashed"},
           idx' = idx => (pc \in {"skipped", "escaped"} => pc' \in {"skipped", "escaped", "done", "crashed"})
    PROVE  VerdictEvents'
<1>1. \A i \in 1..Len(out) : out[i].event \in Verdicts =>
          out[i].id \in Nat /\ out[i].id # 0 /\ out[i].id <= idx
  <2>1. \A i \in 1..Len(out) : out[i] \in Events
    BY DEF TypeOK
  <2>2. \A e \in Events : e.event \in Verdicts => e.id \in Nat
    BY DEF Events, Verdicts
  <2> QED
    BY <2>1, <2>2 DEF VerdictEvents
<1>2. idx \in Nat
  BY DEF TypeOK
<1>3. ASSUME NEW i \in 1..Len(out'), out'[i].event \in Verdicts
      PROVE  /\ out'[i].id = 0 => pc' = "done"
             /\ out'[i].id <= idx'
             /\ out'[i].id = idx' => pc' \in {"skipped", "escaped", "done", "crashed"}
  <2>1. i \in 1..Len(out) /\ out'[i] = out[i] /\ out[i].event \in Verdicts
    BY <1>3
  <2>2. out[i].id \in Nat /\ out[i].id # 0 /\ out[i].id <= idx
    BY <1>1, <2>1
  <2>3. out[i].id = idx => pc \in {"skipped", "escaped", "done", "crashed"}
    BY <2>1 DEF VerdictEvents
  <2> QED
    BY <1>2, <2>1, <2>2, <2>3
<1>4. OneVerdict'
  BY DEF VerdictEvents, OneVerdict
<1> QED
  BY <1>3, <1>4 DEF VerdictEvents

\* A step that writes the verdict on a test which has none yet.
LEMMA VerdictWritten ==
    ASSUME TypeOK, VerdictEvents, NEW n \in 1..Len(out'), NEW t \in Nat,
           out'[n].event \in Verdicts, out'[n].id = t,
           \A i \in 1..Len(out') : i # n /\ out'[i].event \in Verdicts =>
               i \in 1..Len(out) /\ out'[i] = out[i],
           \A i \in 1..Len(out) : out[i].event \in Verdicts => out[i].id # t,
           idx' \in Nat, idx' >= idx, t <= idx', t = 0 => pc' = "done", pc \notin {"done", "crashed"},
           t = idx' => pc' \in {"skipped", "escaped", "done", "crashed"},
           idx' = idx => (pc \in {"skipped", "escaped"} => pc' \in {"skipped", "escaped", "done", "crashed"})
    PROVE  VerdictEvents'
<1>1. \A i \in 1..Len(out) : out[i].event \in Verdicts =>
          out[i].id \in Nat /\ out[i].id # 0 /\ out[i].id <= idx
  <2>1. \A i \in 1..Len(out) : out[i] \in Events
    BY DEF TypeOK
  <2>2. \A e \in Events : e.event \in Verdicts => e.id \in Nat
    BY DEF Events, Verdicts
  <2> QED
    BY <2>1, <2>2 DEF VerdictEvents
<1>2. idx \in Nat
  BY DEF TypeOK
<1>3. ASSUME NEW i \in 1..Len(out'), out'[i].event \in Verdicts
      PROVE  /\ out'[i].id = 0 => pc' = "done"
             /\ out'[i].id <= idx'
             /\ out'[i].id = idx' => pc' \in {"skipped", "escaped", "done", "crashed"}
  <2>1. CASE i = n
    BY <2>1
  <2>2. CASE i # n
    <3>1. i \in 1..Len(out) /\ out'[i] = out[i] /\ out[i].event \in Verdicts
      BY <1>3, <2>2
    <3>2. out[i].id \in Nat /\ out[i].id # 0 /\ out[i].id <= idx
      BY <1>1, <3>1
    <3>3. out[i].id = idx => pc \in {"skipped", "escaped", "done", "crashed"}
      BY <3>1 DEF VerdictEvents
    <3> QED
      BY <1>2, <3>1, <3>2, <3>3
  <2> QED
    BY <2>1, <2>2
<1>4. ASSUME NEW i \in 1..Len(out'), NEW j \in 1..Len(out'),
             out'[i].event \in Verdicts, out'[j].event \in Verdicts, out'[i].id = out'[j].id
      PROVE  i = j
  <2>1. \A m \in 1..Len(out') : m # n /\ out'[m].event \in Verdicts => out'[m].id # t
    OBVIOUS
  <2>2. CASE i = n \/ j = n
    BY <1>4, <2>1, <2>2
  <2>3. CASE i # n /\ j # n
    BY <1>4, <2>3 DEF VerdictEvents, OneVerdict
  <2> QED
    BY <2>2, <2>3
<1>5. OneVerdict'
  BY <1>4 DEF OneVerdict
<1> QED
  BY <1>3, <1>5 DEF VerdictEvents

\* The steps that write no verdict and note no failure.
Quiet ==
    \/ LoadFile \/ Finish \/ PassOver \/ StartTest \/ RetryTest
    \/ CallHook \/ CloseHooks \/ BeforeTest \/ BeforeAll \/ BeforeAllOver
    \/ BeforeEach \/ RunBody \/ RunDefer \/ DefersOver \/ AfterEach
    \/ AfterEachOver \/ CompleteSuite \/ CompleteOver \/ SkipOver

\* A step that writes at most one event, or two, none of a kind in question.
WritesNone(kinds) ==
    \/ out' = out
    \/ \E e : out' = Append(out, e) /\ e.event \notin kinds
    \/ \E e, f : /\ out' = Append(Append(out, e), f)
                 /\ e.event \notin kinds /\ f.event \notin kinds

LEMMA QuietWrites == ASSUME Shape, Quiet PROVE WritesNone(Verdicts)
<1>1. /\ \A id, ph, st : Phase(id, ph, st).event \notin Verdicts
      /\ Event("start", idx).event \notin Verdicts
      /\ Retry(idx, attempt, current.retry).event \notin Verdicts
  BY DEF Phase, Event, Retry, Verdicts
<1>2. CASE LoadFile \/ Finish \/ PassOver \/ CallHook \/ BeforeTest \/ BeforeAllOver
           \/ RunDefer \/ DefersOver \/ AfterEachOver \/ CompleteOver \/ SkipOver
  BY <1>2 DEF WritesNone, LoadFile, Finish, PassOver, CallHook, BeforeTest, BeforeAllOver,
     RunDefer, DefersOver, AfterEachOver, CompleteOver, SkipOver
<1>3. CASE StartTest
  BY <1>1, <1>3 DEF WritesNone, StartTest
<1>4. CASE RetryTest
  BY <1>1, <1>4 DEF WritesNone, RetryTest
<1>5. CASE RunBody
  BY <1>1, <1>5 DEF WritesNone, RunBody
<1>6. CASE CloseHooks
  BY <1>1, <1>6 DEF WritesNone, CloseHooks, EmitPhase
<1>7. CASE BeforeAll \/ BeforeEach \/ AfterEach \/ CompleteSuite
  BY <1>1, <1>7 DEF WritesNone, BeforeAll, BeforeEach, AfterEach, CompleteSuite, OpenHooks,
     EmitPhase
<1> QED
  BY <1>2, <1>3, <1>4, <1>5, <1>6, <1>7 DEF Quiet

LEMMA VerdictSilent ==
    ASSUME Shape, VerdictEvents, idx' \in Nat, Quiet
    PROVE  VerdictEvents'
<1> USE DEF Shape
<1>1. WritesNone(Verdicts)
  BY QuietWrites
<1>2. \A i \in 1..Len(out') : out'[i].event \in Verdicts =>
          i \in 1..Len(out) /\ out'[i] = out[i]
  <2>1. CASE out' = out
    BY <2>1
  <2>2. ASSUME NEW e, out' = Append(out, e), e.event \notin Verdicts
        PROVE  \A i \in 1..Len(out') : out'[i].event \in Verdicts =>
                   i \in 1..Len(out) /\ out'[i] = out[i]
    BY <2>2, WrittenOne
  <2>3. ASSUME NEW e, NEW f, out' = Append(Append(out, e), f),
               e.event \notin Verdicts, f.event \notin Verdicts
        PROVE  \A i \in 1..Len(out') : out'[i].event \in Verdicts =>
                   i \in 1..Len(out) /\ out'[i] = out[i]
    BY <2>3, WrittenTwo
  <2> QED
    BY <1>1, <2>1, <2>2, <2>3 DEF WritesNone
<1>3. /\ pc \notin {"done", "crashed"} /\ idx \in Nat /\ idx' >= idx
      /\ idx' = idx => (pc \in {"skipped", "escaped"} => pc' \in {"skipped", "escaped", "done", "crashed"})
  <2>1. idx \in Nat
    BY DEF TypeOK
  <2>2. CASE LoadFile
    BY <2>1, <2>2 DEF LoadFile, Position
  <2>3. CASE PassOver \/ SkipOver
    BY <2>1, <2>3 DEF PassOver, SkipOver
  <2>4. CASE CallHook
    BY <2>1, <2>4 DEF CallHook, HookPcs
  <2>5. CASE CloseHooks \/ BeforeAll \/ BeforeEach \/ AfterEach \/ CompleteSuite
    BY <2>1, <2>5 DEF CloseHooks, BeforeAll, BeforeEach, AfterEach, CompleteSuite, HookPcs
  <2>6. CASE Finish \/ StartTest \/ RetryTest \/ BeforeTest \/ BeforeAllOver \/ RunBody
             \/ RunDefer \/ DefersOver \/ AfterEachOver \/ CompleteOver
    BY <2>1, <2>6 DEF Finish, StartTest, RetryTest, BeforeTest, BeforeAllOver, RunBody, RunDefer,
       DefersOver, AfterEachOver, CompleteOver
  <2> QED
    BY <2>2, <2>3, <2>4, <2>5, <2>6 DEF Quiet
<1> QED
  BY <1>2, <1>3, VerdictKept

LEMMA VerdictStep == Shape /\ VerdictEvents /\ [Next]_vars => VerdictEvents'
<1> SUFFICES ASSUME Shape, VerdictEvents, [Next]_vars, Shape' PROVE VerdictEvents'
  BY ShapeStep
<1>1. idx \in Nat /\ idx' \in Nat /\ TypeOK
  BY DEF Shape, TypeOK
<1>2. CASE LoadFails \/ ReportEscape
  <2>1. pc \in {"load", "escaped"} /\ idx' = idx
    BY <1>2 DEF LoadFails, ReportEscape
  <2>2. CASE out' = out
    <3>1. pc' = "crashed"
      BY <1>2, <2>2, WrittenOne DEF LoadFails, ReportEscape, FailFile, TypeOK, Shape
    <3> QED
      BY <1>1, <2>1, <2>2, <3>1, VerdictKept
  <2>3. CASE out' # out
    <3>1. out' = Append(out, FileFailed) /\ pc' = "done"
      BY <1>2, <2>3 DEF LoadFails, ReportEscape, FailFile
    <3>2. FileFailed.event = "fail" /\ FileFailed.id = 0 /\ "fail" \in Verdicts
      BY DEF FileFailed, Event, Verdicts
    <3>3. \A i \in 1..Len(out) : out[i].event \in Verdicts => out[i].id # 0
      BY <2>1 DEF VerdictEvents
    <3>4. /\ Len(out) \in Nat /\ Len(out') = Len(out) + 1 /\ out'[Len(out) + 1] = FileFailed
          /\ \A i \in 1..Len(out) : out'[i] = out[i]
      BY <1>1, <3>1, WrittenOne
    <3>5. Len(out) + 1 \in 1..Len(out')
      BY <3>4
    <3>6. \A i \in 1..Len(out') : i # Len(out) + 1 => i \in 1..Len(out) /\ out'[i] = out[i]
      BY <3>4
    <3> QED
      BY <1>1, <2>1, <3>1, <3>2, <3>3, <3>4, <3>5, <3>6, VerdictWritten
  <2> QED
    BY <2>2, <2>3
<1>3. CASE SkipTest
  <2>1. pc = "next" /\ idx' = idx /\ idx > 0
    BY <1>3 DEF SkipTest, Shape, Position, Ended
  <2>2. CASE ~current.utf8
    <3>1. out' = out /\ pc' = "escaped"
      BY <1>3, <2>2 DEF SkipTest
    <3> QED
      BY <1>1, <2>1, <3>1, VerdictKept
  <2>3. CASE current.utf8
    <3>1. /\ out' = Append(Append(out, Event("start", idx)), Event(current.mode, idx))
          /\ pc' = "skipped" /\ current.mode \in {"skip", "todo"}
      BY <1>3, <2>3 DEF SkipTest
    <3>2. /\ Event(current.mode, idx).event \in Verdicts /\ Event(current.mode, idx).id = idx
          /\ Event("start", idx).event \notin Verdicts
      BY <3>1 DEF Event, Verdicts
    <3>3. \A i \in 1..Len(out) : out[i].event \in Verdicts => out[i].id # idx
      BY <2>1 DEF VerdictEvents
    <3>4. /\ Len(out) \in Nat /\ Len(out') = Len(out) + 2
          /\ out'[Len(out) + 1] = Event("start", idx)
          /\ out'[Len(out) + 2] = Event(current.mode, idx)
          /\ \A i \in 1..Len(out) : out'[i] = out[i]
      BY <1>1, <3>1, WrittenTwo
    <3>5. Len(out) + 2 \in 1..Len(out')
      BY <3>4
    <3>6. \A i \in 1..Len(out') : i # Len(out) + 2 /\ out'[i].event \in Verdicts
             => i \in 1..Len(out) /\ out'[i] = out[i]
      BY <3>2, <3>4
    <3> QED
      BY <1>1, <2>1, <3>1, <3>2, <3>3, <3>4, <3>5, <3>6, VerdictWritten
  <2> QED
    BY <2>2, <2>3
<1>4. CASE Pass \/ Fail
  <2>1. pc = "judge" /\ idx > 0
    BY <1>4 DEF Pass, Fail, Shape, Position, Ended
  <2>2. CASE out' = out
    <3>1. idx' = idx
      BY <1>1, <1>4, <2>2, WrittenOne DEF Pass, Fail, TypeOK
    <3> QED
      BY <1>1, <2>1, <2>2, <3>1, VerdictKept
  <2>3. CASE out' # out
    <3>1. PICK v \in {"pass", "fail"} : out' = Append(out, Event(v, idx))
      BY <1>4, <2>3 DEF Pass, Fail
    <3>2. idx' = idx + 1 /\ pc' = "next"
      BY <1>4, <2>3 DEF Pass, Fail
    <3>3. Event(v, idx).event \in Verdicts /\ Event(v, idx).id = idx
      BY DEF Event, Verdicts
    <3>4. \A i \in 1..Len(out) : out[i].event \in Verdicts => out[i].id # idx
      BY <2>1 DEF VerdictEvents
    <3>5. /\ Len(out) \in Nat /\ Len(out') = Len(out) + 1 /\ out'[Len(out) + 1] = Event(v, idx)
          /\ \A i \in 1..Len(out) : out'[i] = out[i]
      BY <1>1, <3>1, WrittenOne
    <3>6. Len(out) + 1 \in 1..Len(out')
      BY <3>5
    <3>7. \A i \in 1..Len(out') : i # Len(out) + 1 => i \in 1..Len(out) /\ out'[i] = out[i]
      BY <3>5
    <3> QED
      BY <1>1, <2>1, <3>2, <3>3, <3>4, <3>5, <3>6, <3>7, VerdictWritten
  <2> QED
    BY <2>2, <2>3
<1>5. CASE UNCHANGED vars
  BY <1>5 DEF VerdictEvents, OneVerdict, vars
<1> QED
  BY <1>1, <1>2, <1>3, <1>4, <1>5, VerdictSilent DEF Next, Quiet

\* For every file and whatever its callbacks do, no test is given two
\* verdicts and the file is reported as failed at most once.
THEOREM VerdictsUnique == Spec => []OneVerdict
<1>1. Init => Shape /\ VerdictEvents
  <2>1. Init => VerdictEvents
    BY DEF Init, VerdictEvents, OneVerdict
  <2> QED
    BY <2>1, ShapeInit
<1>2. Shape /\ VerdictEvents /\ [Next]_vars => (Shape /\ VerdictEvents)'
  BY ShapeStep, VerdictStep
<1>3. VerdictEvents => OneVerdict
  BY DEF VerdictEvents
<1> QED
  BY <1>1, <1>2, <1>3, PTL DEF Spec
----------------------------------------------------------------------------
(* The stream follows the protocol of EventStream.                         *)

LEMMA AnnouncedStep == Shape /\ Announced /\ [Next]_vars => Announced'
<1> SUFFICES ASSUME Shape, Announced, [Next]_vars PROVE Announced'
  OBVIOUS
<1>1. announced \in Nat /\ idx \in Nat
  BY DEF Shape, TypeOK
<1>2. CASE LoadFile \/ LoadFails \/ ReportEscape \/ Finish \/ PassOver
  <2>1. /\ announced' = announced
        /\ \/ idx' = idx /\ pc' \in {"done", "crashed"}
           \/ pc' = "next" /\ pc = "load" /\ idx' = 1
           \/ pc' = "next" /\ pc = "next" /\ idx' = idx + 1
    BY <1>2 DEF LoadFile, LoadFails, ReportEscape, FailFile, Finish, PassOver, history
  <2>2. pc = "load" => idx = 0
    BY DEF Shape, Position
  <2> QED
    BY <1>1, <2>1, <2>2 DEF Announced, Busy, SetupPcs
<1>3. CASE StartTest \/ SkipTest
  BY <1>1, <1>3 DEF StartTest, SkipTest, Announced, Busy, SetupPcs
<1>4. CASE CallHook \/ RunBody \/ RunDefer
  <2>1. /\ announced' = announced /\ idx' = idx /\ pc \in Busy
        /\ pc' \notin {"load", "next"}
    BY <1>4 DEF CallHook, RunBody, RunDefer, Callback, Busy, HookPcs, SetupPcs
  <2> QED
    BY <1>1, <2>1 DEF Announced
<1>5. CASE \/ CloseHooks \/ BeforeTest \/ BeforeAll \/ BeforeAllOver \/ BeforeEach
           \/ DefersOver \/ AfterEach \/ AfterEachOver \/ CompleteSuite \/ CompleteOver
  <2>1. /\ announced' = announced /\ idx' = idx /\ pc \in Busy
        /\ pc' \notin {"load", "next"}
    BY <1>5 DEF CloseHooks, BeforeTest, BeforeAll, BeforeAllOver, BeforeEach, DefersOver,
       AfterEach, AfterEachOver, CompleteSuite, CompleteOver, Busy, HookPcs, SetupPcs, history
  <2> QED
    BY <1>1, <2>1 DEF Announced
<1>6. CASE SkipOver \/ Pass \/ RetryTest \/ Fail
  BY <1>1, <1>6 DEF SkipOver, Pass, RetryTest, Fail, Announced, Busy, SetupPcs, history
<1>7. CASE UNCHANGED vars
  BY <1>7 DEF Announced, vars, history
<1> QED
  BY <1>2, <1>3, <1>4, <1>5, <1>6, <1>7 DEF Next

\* Loading a file, going through its tests and reporting its failure: no phase
\* is open.
LEMMA StreamFile ==
    ASSUME Shape, Announced,
           LoadFile \/ LoadFails \/ ReportEscape \/ Finish \/ PassOver \/ StartTest \/ SkipTest
    PROVE  [Stream!Next]_(Stream!vars)
<1>1. /\ pc \in {"load", "escaped", "next"} /\ Open = None
      /\ Stage = IF pc = "escaped" THEN "escaped" ELSE "idle"
  BY DEF LoadFile, LoadFails, ReportEscape, Finish, PassOver, StartTest, SkipTest, Open, Stage,
     SetupPcs, Ended, HookPcs
<1>2. CASE LoadFile \/ PassOver
  <2>1. pc' = "next" /\ out' = out /\ announced' = announced /\ attempt' = attempt
    BY <1>2 DEF LoadFile, PassOver, history
  <2>2. Stage' = "idle" /\ Open' = None /\ Stage = "idle"
    BY <1>1, <1>2, <2>1 DEF LoadFile, PassOver, Stage, Open, SetupPcs, HookPcs, Ended, None
  <2> QED
    BY <1>1, <2>1, <2>2 DEF Stream!vars
<1>3. CASE LoadFails \/ ReportEscape
  <2>1. /\ pc' \in {"done", "crashed"} /\ announced' = announced /\ attempt' = attempt
        /\ pc' = "crashed" => out' = out /\ pc \in {"load", "escaped"}
        /\ pc' = "done" => out' = Append(out, FileFailed)
    BY <1>3 DEF LoadFails, ReportEscape, FailFile, history
  <2>2. Stage' = "over" /\ Open' = None
    BY <2>1 DEF Stage, Open, SetupPcs, HookPcs, Ended, None
  <2>3. CASE pc' = "done"
    BY <1>1, <2>1, <2>2, <2>3 DEF Stream!Next, Stream!FailFile, Stream!FileFailed, FileFailed,
       Event
  <2>4. CASE pc' = "crashed"
    BY <1>1, <2>1, <2>2, <2>4 DEF Stream!Next, Stream!Finish
  <2> QED
    BY <2>1, <2>3, <2>4
<1>4. CASE Finish
  <2>1. pc' = "done" /\ out' = out /\ announced' = announced /\ attempt' = attempt
    BY <1>4 DEF Finish, history
  <2>2. Stage' = "over" /\ Open' = None /\ Stage = "idle"
    BY <1>1, <1>4, <2>1 DEF Finish, Stage, Open, SetupPcs, HookPcs, Ended, None
  <2> QED
    BY <1>1, <2>1, <2>2 DEF Stream!Next, Stream!Finish
<1>5. CASE StartTest
  <2>1. pc = "next" /\ announced < idx /\ idx \in Nat /\ Stage = "idle"
    BY <1>1, <1>5 DEF StartTest, Announced, Shape, Position, Ended, TypeOK
  <2>2. CASE current.utf8
    <3>1. /\ pc' = "before" /\ announced' = idx /\ attempt' = 1
          /\ out' = Append(out, Event("start", idx))
      BY <1>5, <2>2 DEF StartTest
    <3>2. Stage' = "setup" /\ Open' = None
      BY <3>1 DEF Stage, Open, SetupPcs, HookPcs, None
    <3> QED
      BY <1>1, <2>1, <3>1, <3>2 DEF Stream!Next, Stream!Start, Stream!Announce, Stream!Event, Event
  <2>3. CASE ~current.utf8
    <3>1. pc' = "escaped" /\ announced' = announced /\ attempt' = attempt /\ out' = out
      BY <1>5, <2>3 DEF StartTest
    <3>2. Stage' = "escaped" /\ Open' = None
      BY <3>1 DEF Stage, Open, SetupPcs, HookPcs, None
    <3> QED
      BY <1>1, <2>1, <3>1, <3>2 DEF Stream!Next, Stream!Escape, Stream!None, None
  <2> QED
    BY <2>2, <2>3
<1>6. CASE SkipTest
  <2>1. /\ pc = "next" /\ announced < idx /\ idx \in Nat /\ Stage = "idle"
        /\ attempt' = attempt /\ current.mode \in {"skip", "todo"}
    BY <1>1, <1>6 DEF SkipTest, Announced, Shape, Position, Ended, TypeOK
  <2>2. CASE current.utf8
    <3>1. /\ pc' = "skipped" /\ announced' = idx
          /\ out' = Append(Append(out, Event("start", idx)), Event(current.mode, idx))
      BY <1>6, <2>2 DEF SkipTest
    <3>2. Stage' = "idle" /\ Open' = None
      BY <3>1 DEF Stage, Open, SetupPcs, HookPcs, None, Ended
    <3> QED
      BY <1>1, <2>1, <3>1, <3>2 DEF Stream!Next, Stream!Skip, Stream!Announce, Stream!Event, Event
  <2>3. CASE ~current.utf8
    <3>1. pc' = "escaped" /\ announced' = announced /\ out' = out
      BY <1>6, <2>3 DEF SkipTest
    <3>2. Stage' = "escaped" /\ Open' = None
      BY <3>1 DEF Stage, Open, SetupPcs, HookPcs, None
    <3> QED
      BY <1>1, <2>1, <3>1, <3>2 DEF Stream!Next, Stream!Escape, Stream!None, None
  <2> QED
    BY <2>2, <2>3
<1> QED
  BY <1>2, <1>3, <1>4, <1>5, <1>6

\* A suite's hooks are opened, or there are none to run.
LEMMA StreamOpen ==
    ASSUME Shape, Announced, BeforeAll \/ BeforeEach \/ AfterEach \/ CompleteSuite
    PROVE  [Stream!Next]_(Stream!vars)
<1>1. /\ pc \in HookPcs /\ pos = 0 /\ pc' = pc /\ announced' = announced /\ attempt' = attempt
      /\ UNCHANGED <<idx, pending_tests>> /\ pc \in Busy
      /\ pc \in {"beforeAll", "beforeEach"} => level <= Depth
      /\ pc \in {"afterEach", "complete", "skipped"} => level > 0
  BY DEF BeforeAll, BeforeEach, AfterEach, CompleteSuite, HookPcs, Busy, SetupPcs, list, history
<1>2. level \in 1..Depth /\ announced = idx /\ current' = current
  <2>1. idx \in 1..Len(pending_tests) /\ announced = idx
    BY <1>1 DEF Shape, Position, Announced
  <2>2. Depth \in Nat
    BY <2>1, CurrentShape DEF Shape
  <2> QED
    BY <1>1, <2>1, <2>2 DEF Shape, Position, HookPcs, current
<1>3. Suite \in Key
  BY <1>1, <1>2, HookShape DEF Shape
<1>4. Open = None /\ Stage' = Stage
  BY <1>1 DEF Open, Stage, Ended
<1>5. \/ pos' = 0 /\ out' = out
      \/ /\ pos' = 1 /\ level' = level
         /\ out' = IF pc = "skipped" THEN out
                   ELSE Append(out, Phase(ThisPhase.id, ThisPhase.phase, "start"))
  BY <1>1 DEF BeforeAll, BeforeEach, AfterEach, CompleteSuite, OpenHooks, EmitPhase
<1>6. CASE (pos' = 0 /\ out' = out) \/ pc = "skipped"
  <2>1. Open' = None /\ out' = out
    BY <1>1, <1>5, <1>6 DEF Open, None
  <2> QED
    BY <1>1, <1>4, <2>1 DEF Stream!vars, None
<1>7. CASE pos' = 1 /\ level' = level /\ pc # "skipped"
           /\ out' = Append(out, Phase(ThisPhase.id, ThisPhase.phase, "start"))
  <2>1. Open' = ThisPhase
    BY <1>1, <1>2, <1>7 DEF Open, ThisPhase, Kind, AllKind, Suite
  <2>2. /\ Stage \in {"setup", "teardown"}
        /\ ThisPhase \in Stream!PhaseOf(Stage)
    <3>1. CASE pc = "beforeAll"
      BY <1>3, <3>1 DEF Stage, SetupPcs, ThisPhase, Kind, AllKind, Stream!PhaseOf
    <3>2. CASE pc = "beforeEach"
      BY <1>2, <3>2 DEF Stage, SetupPcs, ThisPhase, Kind, AllKind, Stream!PhaseOf
    <3>3. CASE pc = "afterEach"
      BY <1>2, <3>3 DEF Stage, SetupPcs, ThisPhase, Kind, AllKind, Stream!PhaseOf
    <3>4. CASE pc = "complete"
      BY <1>3, <3>4 DEF Stage, SetupPcs, ThisPhase, Kind, AllKind, Stream!PhaseOf
    <3> QED
      BY <1>1, <1>7, <3>1, <3>2, <3>3, <3>4 DEF HookPcs
  <2> QED
    BY <1>1, <1>4, <1>7, <2>1, <2>2 DEF Stream!Next, Stream!OpenPhase, Stream!Running,
       Stream!None, None, Stream!Phase, Phase
<1> QED
  BY <1>5, <1>6, <1>7

LEMMA StreamHooks ==
    ASSUME Shape, Announced, CallHook \/ CloseHooks
    PROVE  [Stream!Next]_(Stream!vars)
<1>1. /\ pc \in HookPcs /\ pos > 0 /\ pos \in Nat /\ announced' = announced
      /\ attempt' = attempt /\ idx' = idx /\ pc \in Busy
  BY DEF CallHook, CloseHooks, Callback, HookPcs, Busy, SetupPcs, history, Shape, TypeOK
<1>2. /\ idx \in 1..Len(pending_tests)
      /\ Stage \in {"setup", "teardown", "idle"}
      /\ Stage = "idle" <=> pc = "skipped"
      /\ Stage = "teardown" <=> pc \in {"afterEach", "complete"}
      /\ Open = IF pc = "skipped" THEN None ELSE ThisPhase
      /\ ThisPhase # None
  <2>1. Kind # "none"
    BY <1>1 DEF Kind, HookPcs
  <2> QED
    BY <1>1, <2>1 DEF Stage, SetupPcs, HookPcs, Ended, Open, Shape, Position, ThisPhase, None
<1>3. CASE CallHook
  <2>1. PICK e \in Effects, where \in {"setup", "late", "skipped"} : Callback(e, where)
    BY <1>3 DEF CallHook
  <2>2. /\ pending_tests' \in Seq(TestCase)
        /\ Len(pending_tests') >= Len(pending_tests)
        /\ \A i \in 1..Len(pending_tests) : pending_tests'[i] = pending_tests[i]
    BY <2>1, CallbackShape DEF Shape
  <2>3. current' = current
    BY <1>1, <1>2, <2>2, CurrentKept DEF Shape
  <2>4. out' = out /\ level' = level
    BY <1>3 DEF CallHook
  <2>5. \/ pc' = pc /\ pos' = pos + 1
        \/ pc' = "judge" /\ pos' = 0 /\ pc \in {"afterEach", "complete"}
        \/ pc' = "escaped" /\ pos' = 0
    BY <1>3 DEF CallHook
  <2>6. CASE pc' = pc /\ pos' = pos + 1
    <3>1. Stage' = Stage /\ Open' = Open
      BY <1>1, <2>3, <2>4, <2>6 DEF Stage, Ended, Open, ThisPhase, Kind, AllKind, Suite
    <3> QED
      BY <1>1, <2>4, <3>1 DEF Stream!vars
  <2>7. CASE pc' = "judge" /\ pc \in {"afterEach", "complete"}
    <3>1. Stage' = "teardown" /\ Open' = None
      BY <2>7 DEF Stage, SetupPcs, Open, HookPcs, None
    <3> QED
      BY <1>1, <1>2, <2>4, <2>7, <3>1 DEF Stream!Next, Stream!AbandonPhase, Stream!None, None
  <2>8. CASE pc' = "escaped"
    <3>1. Stage' = "escaped" /\ Open' = None
      BY <2>8 DEF Stage, SetupPcs, Open, HookPcs, None
    <3> QED
      BY <1>1, <1>2, <2>4, <3>1 DEF Stream!Next, Stream!Escape, Stream!None, None
  <2> QED
    BY <2>5, <2>6, <2>7, <2>8
<1>4. CASE CloseHooks
  <2>1. /\ pc' = pc /\ pos' = 0
        /\ out' = IF pc = "skipped" THEN out
                  ELSE Append(out, Phase(ThisPhase.id, ThisPhase.phase, "end"))
    BY <1>4 DEF CloseHooks, EmitPhase
  <2>2. Stage' = Stage /\ Open' = None
    BY <2>1 DEF Stage, Ended, Open, None
  <2>3. CASE pc = "skipped"
    BY <1>1, <1>2, <2>1, <2>2, <2>3 DEF Stream!vars
  <2>4. CASE pc # "skipped"
    BY <1>1, <1>2, <2>1, <2>2, <2>4 DEF Stream!Next, Stream!ClosePhase, Stream!None, None,
       Stream!Phase, Phase
  <2> QED
    BY <2>3, <2>4
<1> QED
  BY <1>3, <1>4

\* The steps of a test that write nothing.
LEMMA StreamSilent ==
    ASSUME Shape, Announced,
           \/ BeforeTest \/ BeforeAllOver \/ RunDefer \/ DefersOver \/ AfterEachOver
           \/ CompleteOver \/ SkipOver
    PROVE  [Stream!Next]_(Stream!vars)
<1>1. /\ out' = out /\ attempt' = attempt /\ announced' = announced
  BY DEF BeforeTest, BeforeAllOver, RunDefer, DefersOver, AfterEachOver, CompleteOver, SkipOver,
     Callback, history
<1>2. Stage' = Stage
  BY DEF BeforeTest, BeforeAllOver, RunDefer, DefersOver, AfterEachOver, CompleteOver, SkipOver,
     Stage, SetupPcs, Ended
<1>3. Open = None
  BY DEF BeforeTest, BeforeAllOver, RunDefer, DefersOver, AfterEachOver, CompleteOver, SkipOver,
     Open, HookPcs
<1>4. Open' = None
  <2>1. pc' \notin HookPcs \/ pos' = 0
    BY DEF BeforeTest, BeforeAllOver, RunDefer, DefersOver, AfterEachOver, CompleteOver, SkipOver,
       HookPcs, Shape, Position
  <2> QED
    BY <2>1 DEF Open, None
<1> QED
  BY <1>1, <1>2, <1>3, <1>4 DEF Stream!vars

LEMMA StreamTest ==
    ASSUME Shape, Announced, RunBody \/ Pass \/ RetryTest \/ Fail
    PROVE  [Stream!Next]_(Stream!vars)
<1>1. /\ pc \in Busy /\ announced' = announced /\ announced = idx /\ Open = None
  <2>1. pc \in Busy /\ announced' = announced /\ (pos = 0 \/ pc \notin HookPcs)
    BY DEF RunBody, Pass, RetryTest, Fail, Callback, Busy, SetupPcs, history, HookPcs
  <2> QED
    BY <2>1 DEF Announced, Open
<1>2. CASE RunBody
  <2>1. /\ pc = "beforeEach" /\ pc' = "defers" /\ attempt' = attempt
        /\ out' = Append(Append(out, Phase(idx, "test", "start")), Phase(idx, "test", "end"))
    BY <1>2 DEF RunBody
  <2>2. Stage = "setup" /\ Stage' = "teardown" /\ Open' = None
    BY <2>1 DEF Stage, SetupPcs, Open, HookPcs, None
  <2> QED
    BY <1>1, <2>1, <2>2 DEF Stream!Next, Stream!Body, Stream!None, None, Stream!Phase, Phase
<1>3. CASE Pass \/ RetryTest \/ Fail
  <2>1. pc = "judge" /\ Stage = "teardown"
    BY <1>3 DEF Pass, RetryTest, Fail, Stage, SetupPcs
  <2>2. CASE pc' = "escaped"
    <3>1. out' = out /\ attempt' = attempt /\ Stage' = "escaped" /\ Open' = None
      BY <1>3, <2>2 DEF Pass, RetryTest, Fail, Stage, SetupPcs, Open, HookPcs, None
    <3> QED
      BY <1>1, <2>1, <3>1 DEF Stream!Next, Stream!Escape, Stream!None, None
  <2>3. CASE pc' = "next"
    <3>1. PICK v \in {"pass", "fail"} : out' = Append(out, Event(v, idx))
      BY <1>3, <2>3 DEF Pass, RetryTest, Fail
    <3>2. attempt' = attempt /\ Stage' = "idle" /\ Open' = None
      BY <1>3, <2>3 DEF Pass, RetryTest, Fail, Stage, SetupPcs, Open, HookPcs, None, Ended
    <3> QED
      BY <1>1, <2>1, <3>1, <3>2 DEF Stream!Next, Stream!Settle, Stream!None, None, Stream!Event,
         Event
  <2>4. CASE pc' = "before"
    <3>1. /\ out' = Append(out, Retry(idx, attempt, current.retry))
          /\ attempt' = attempt + 1 /\ attempt # current.retry
      BY <1>3, <2>4 DEF Pass, RetryTest, Fail
    <3>2. Stage' = "setup" /\ Open' = None
      BY <2>4 DEF Stage, SetupPcs, Open, HookPcs, None
    <3>3. current.retry \in Limits /\ attempt < current.retry
      <4>1. idx \in 1..Len(pending_tests) /\ attempt \in 1..current.retry
        BY <1>1, <2>1 DEF Shape, Position, Busy
      <4>2. current \in TestCase /\ current.retry \in Nat
        BY <4>1, CurrentShape DEF Shape
      <4> QED
        BY <3>1, <4>1, <4>2 DEF TestCase
    <3> QED
      BY <1>1, <2>1, <3>1, <3>2, <3>3 DEF Stream!Next, Stream!Again, Stream!None, None,
         Stream!Retry, Retry
  <2> QED
    BY <1>3, <2>2, <2>3, <2>4 DEF Pass, RetryTest, Fail
<1> QED
  BY <1>2, <1>3

LEMMA StreamStep == Shape /\ Announced /\ [Next]_vars => [Stream!Next]_(Stream!vars)
<1>1. ASSUME UNCHANGED vars PROVE UNCHANGED Stream!vars
  BY <1>1 DEF vars, list, history, Stream!vars, Stage, Ended, Open, ThisPhase, Kind, AllKind, Suite, current
<1> QED
  BY <1>1, StreamFile, StreamOpen, StreamHooks, StreamSilent, StreamTest DEF Next

\* The runner and its Lua runtime implement the protocol of EventStream: for
\* every file and whatever its callbacks do, a reader of the output sees each
\* test announced once and in order, its phases nested in its attempts, at
\* most as many attempts as it asked for, and one verdict or the failure of
\* the whole file.
THEOREM FollowsEventStream == Spec => StreamSpec
<1>1. Init => Shape /\ Announced
  <2>1. Init => Announced
    BY DEF Init, Announced, Busy, SetupPcs
  <2> QED
    BY <2>1, ShapeInit
<1>2. Shape /\ Announced /\ [Next]_vars => (Shape /\ Announced)'
  BY ShapeStep, AnnouncedStep
<1>3. Init => Stream!Init
  BY DEF Init, Stream!Init, Stage, SetupPcs, Ended, Open, Stream!None, None
<1>4. Spec => [](Shape /\ Announced)
  BY <1>1, <1>2, PTL DEF Spec
<1> QED
  BY <1>3, <1>4, StreamStep, PTL DEF Spec, StreamSpec, Stream!Spec
----------------------------------------------------------------------------
(* The order of All hooks and bodies in the stream.  It rests on what one  *)
(* step can add to the stream (LogStep): only RunBody starts a body, only  *)
(* CompleteSuite starts afterAll hooks, and what is written stays.         *)

IsBodyStart(e) == e.event = "phase" /\ e.phase = "test" /\ e.state = "start"
IsAfterAll(e)  == e.event = "phase" /\ e.phase = "afterAll" /\ e.state = "start"

\* Any other event, and a step that writes other events only.
Plain(e) == ~IsBodyStart(e) /\ ~IsAfterAll(e)

WritesPlain ==
    \/ out' = out
    \/ \E e : out' = Append(out, e) /\ Plain(e)
    \/ \E e, f : out' = Append(Append(out, e), f) /\ Plain(e) /\ Plain(f)

\* What a step leaves of the stream, and what it may add to it.
LogKept == /\ Len(out) \in Nat /\ Len(out') \in Nat /\ Len(out') >= Len(out)
           /\ \A i \in 1..Len(out) : out'[i] = out[i]

Added == Len(out) + 1 .. Len(out')

LEMMA PlainLog ==
    ASSUME TypeOK, WritesPlain
    PROVE  LogKept /\ \A i \in Added : Plain(out'[i])
<1>1. CASE out' = out
  BY <1>1 DEF LogKept, Added, TypeOK
<1>2. ASSUME NEW e, out' = Append(out, e), Plain(e)
      PROVE  LogKept /\ \A i \in Added : Plain(out'[i])
  <2>1. /\ Len(out) \in Nat /\ Len(out') = Len(out) + 1 /\ out'[Len(out) + 1] = e
        /\ \A i \in 1..Len(out) : out'[i] = out[i]
    BY <1>2, WrittenOne
  <2>2. \A i \in Added : i = Len(out) + 1
    BY <2>1 DEF Added
  <2> QED
    BY <1>2, <2>1, <2>2 DEF LogKept
<1>3. ASSUME NEW e, NEW f, out' = Append(Append(out, e), f), Plain(e), Plain(f)
      PROVE  LogKept /\ \A i \in Added : Plain(out'[i])
  <2>1. /\ Len(out) \in Nat /\ Len(out') = Len(out) + 2
        /\ out'[Len(out) + 1] = e /\ out'[Len(out) + 2] = f
        /\ \A i \in 1..Len(out) : out'[i] = out[i]
    BY <1>3, WrittenTwo
  <2>2. \A i \in Added : i = Len(out) + 1 \/ i = Len(out) + 2
    BY <2>1 DEF Added
  <2> QED
    BY <1>3, <2>1, <2>2 DEF LogKept
<1> QED
  BY <1>1, <1>2, <1>3 DEF WritesPlain

LEMMA LogStep ==
    ASSUME Shape, [Next]_vars
    PROVE  /\ LogKept
           /\ \A i \in Added : /\ IsBodyStart(out'[i]) => RunBody
                               /\ IsAfterAll(out'[i]) => CompleteSuite /\ pc = "complete"
<1>1. /\ \A v, t : Plain(Event(v, t)) \/ v = "phase"
      /\ \A t, n, max : Plain(Retry(t, n, max))
      /\ \A id, ph : Plain(Phase(id, ph, "end"))
      /\ \A id, ph, st : Plain(Phase(id, ph, st)) \/ ph \in {"test", "afterAll"}
      /\ \A id, st : ~IsAfterAll(Phase(id, "test", st)) /\ ~IsBodyStart(Phase(id, "afterAll", st))
  BY PhaseFields DEF Plain, IsBodyStart, IsAfterAll, Event, Retry
<1>2. TypeOK
  BY DEF Shape
<1>3. CASE UNCHANGED vars \/ LoadFile \/ Finish \/ PassOver \/ CallHook \/ BeforeTest
           \/ BeforeAllOver \/ RunDefer \/ DefersOver \/ AfterEachOver \/ CompleteOver \/ SkipOver
  <2>1. out' = out
    BY <1>3 DEF vars, LoadFile, Finish, PassOver, CallHook, BeforeTest, BeforeAllOver, RunDefer,
       DefersOver, AfterEachOver, CompleteOver, SkipOver
  <2>2. WritesPlain
    BY <2>1 DEF WritesPlain
  <2> QED
    BY <1>2, <2>2, PlainLog DEF Plain
<1>4. CASE LoadFails \/ ReportEscape \/ StartTest \/ SkipTest
  <2>1. current.mode \in {"skip", "todo"} => current.mode # "phase"
    OBVIOUS
  <2>2. WritesPlain
    BY <1>1, <1>4, <2>1 DEF WritesPlain, LoadFails, ReportEscape, FailFile, FileFailed, StartTest,
       SkipTest
  <2> QED
    BY <1>2, <2>2, PlainLog DEF Plain
<1>5. CASE CloseHooks \/ Pass \/ RetryTest \/ Fail
  <2>1. WritesPlain
    BY <1>1, <1>5 DEF WritesPlain, CloseHooks, EmitPhase, Pass, RetryTest, Fail
  <2> QED
    BY <1>2, <2>1, PlainLog DEF Plain
<1>6. CASE BeforeAll \/ BeforeEach \/ AfterEach
  <2>1. ThisPhase.phase = pc /\ pc \in {"beforeAll", "beforeEach", "afterEach"}
    BY <1>6 DEF BeforeAll, BeforeEach, AfterEach, ThisPhase, Kind, AllKind
  <2>2. WritesPlain
    BY <1>1, <1>6, <2>1 DEF WritesPlain, BeforeAll, BeforeEach, AfterEach, OpenHooks, EmitPhase
  <2> QED
    BY <1>2, <2>2, PlainLog DEF Plain
<1>7. CASE CompleteSuite
  <2>1. ThisPhase.phase = "afterAll"
    BY <1>7 DEF CompleteSuite, ThisPhase, Kind, AllKind
  <2>2. \/ out' = out
        \/ pc # "skipped" /\ out' = Append(out, Phase(ThisPhase.id, "afterAll", "start"))
    BY <1>7, <2>1 DEF CompleteSuite, OpenHooks, EmitPhase
  <2>3. pc \in {"complete", "skipped"}
    BY <1>7 DEF CompleteSuite
  <2>4. CASE out' = out
    <3>1. WritesPlain
      BY <2>4 DEF WritesPlain
    <3> QED
      BY <1>2, <3>1, PlainLog DEF Plain
  <2>5. CASE out' # out
    <3>1. /\ Len(out) \in Nat /\ Len(out') = Len(out) + 1
          /\ out'[Len(out) + 1] = Phase(ThisPhase.id, "afterAll", "start")
          /\ \A i \in 1..Len(out) : out'[i] = out[i]
      BY <1>2, <2>2, <2>5, WrittenOne
    <3>2. \A i \in Added : i = Len(out) + 1
      BY <3>1 DEF Added
    <3> QED
      BY <1>1, <1>7, <2>2, <2>3, <2>5, <3>1, <3>2 DEF LogKept
  <2> QED
    BY <2>4, <2>5
<1>8. CASE RunBody
  <2>1. out' = Append(Append(out, Phase(idx, "test", "start")), Phase(idx, "test", "end"))
    BY <1>8 DEF RunBody
  <2>2. /\ Len(out) \in Nat /\ Len(out') = Len(out) + 2
        /\ out'[Len(out) + 1] = Phase(idx, "test", "start")
        /\ out'[Len(out) + 2] = Phase(idx, "test", "end")
        /\ \A i \in 1..Len(out) : out'[i] = out[i]
    BY <1>2, <2>1, WrittenTwo
  <2>3. \A i \in Added : i = Len(out) + 1 \/ i = Len(out) + 2
    BY <2>2 DEF Added
  <2> QED
    BY <1>1, <1>8, <2>2, <2>3 DEF LogKept
<1> QED
  BY <1>3, <1>4, <1>5, <1>6, <1>7, <1>8 DEF Next

\* Once the file is loaded its tests stay, and more may be appended; the
\* hooks stay as they are.
LEMMA TestsStep ==
    ASSUME Shape, [Next]_vars, pc # "load"
    PROVE  /\ hooks' = hooks /\ Len(pending_tests') >= Len(pending_tests)
           /\ Len(pending_tests) \in Nat /\ Len(pending_tests') \in Nat
           /\ \A i \in 1..Len(pending_tests) : pending_tests'[i] = pending_tests[i]
<1>1. Len(pending_tests) \in Nat /\ Len(pending_tests') \in Nat /\ TypeOK
  BY SMTT(30), ShapeStep DEF Shape, TypeOK
<1>2. CASE CallHook \/ RunBody \/ RunDefer
  <2>1. PICK e \in Effects, where \in {"setup", "late", "skipped"} : Callback(e, where)
    BY <1>2 DEF CallHook, RunBody, RunDefer
  <2> QED
    BY <1>1, <2>1, CallbackShape
<1>3. CASE LoadFails \/ ReportEscape \/ Finish \/ PassOver \/ StartTest \/ SkipTest \/ CloseHooks
           \/ BeforeTest \/ BeforeAll \/ BeforeAllOver \/ BeforeEach \/ DefersOver
  BY <1>1, <1>3 DEF LoadFails, ReportEscape, Finish, PassOver, StartTest, SkipTest, CloseHooks,
     BeforeTest, BeforeAll, BeforeAllOver, BeforeEach, DefersOver, list
<1>4. CASE AfterEach \/ AfterEachOver \/ CompleteSuite \/ CompleteOver \/ SkipOver \/ Pass
           \/ RetryTest \/ Fail \/ UNCHANGED vars
  BY <1>1, <1>4 DEF AfterEach, AfterEachOver, CompleteSuite, CompleteOver, SkipOver, Pass,
     RetryTest, Fail, vars, list
<1>5. ~LoadFile
  BY DEF LoadFile
<1> QED
  BY <1>2, <1>3, <1>4, <1>5 DEF Next

\* Nothing is written before the file is loaded, and every body that was
\* started is that of a test in the list.
Bodies ==
    /\ pc = "load" => out = <<>>
    /\ \A j \in 1..Len(out), t \in Nat :
          IsPhase(j, t, "test", "start") => t \in 1..Len(pending_tests)

\* What RunBody writes.
LEMMA BodyEvents ==
    ASSUME Shape, RunBody
    PROVE  /\ idx \in 1..Len(pending_tests) /\ Len(out) \in Nat /\ Len(out') = Len(out) + 2
           /\ out'[Len(out) + 1] = Phase(idx, "test", "start")
           /\ \A j \in Added : \A t : out'[j] = Phase(t, "test", "start") => j = Len(out) + 1 /\ t = idx
<1>1. out' = Append(Append(out, Phase(idx, "test", "start")), Phase(idx, "test", "end"))
  BY DEF RunBody
<1>2. /\ Len(out) \in Nat /\ Len(out') = Len(out) + 2
      /\ out'[Len(out) + 1] = Phase(idx, "test", "start")
      /\ out'[Len(out) + 2] = Phase(idx, "test", "end")
  BY <1>1, WrittenTwo DEF Shape
<1>3. idx \in 1..Len(pending_tests)
  BY DEF RunBody, Shape, Position, Busy, SetupPcs
<1>4. ASSUME NEW j \in Added, NEW t, out'[j] = Phase(t, "test", "start")
      PROVE  j = Len(out) + 1 /\ t = idx
  <2>1. j = Len(out) + 1 \/ j = Len(out) + 2
    BY <1>2 DEF Added
  <2>2. j # Len(out) + 2
    <3>1. Phase(t, "test", "start").state = "start" /\ Phase(idx, "test", "end").state = "end"
      BY PhaseFields
    <3> QED
      BY <1>2, <1>4, <3>1
  <2>3. Phase(t, "test", "start").id = t /\ Phase(idx, "test", "start").id = idx
    BY PhaseFields
  <2> QED
    BY <1>2, <1>4, <2>1, <2>2, <2>3
<1> QED
  BY <1>2, <1>3, <1>4

LEMMA BodiesStep == Shape /\ Bodies /\ [Next]_vars => Bodies'
<1> SUFFICES ASSUME Shape, Bodies, [Next]_vars PROVE Bodies'
  OBVIOUS
<1>1. LogKept /\ \A i \in Added : IsBodyStart(out'[i]) => RunBody
  BY LogStep
<1>2. pc' = "load" => out' = out /\ pc = "load"
  BY DEF Next, vars, LoadFile, LoadFails, ReportEscape, FailFile, Finish, PassOver, StartTest,
     SkipTest, CallHook, CloseHooks, BeforeTest, BeforeAll, BeforeAllOver, BeforeEach, RunBody,
     RunDefer, DefersOver, AfterEach, AfterEachOver, CompleteSuite, CompleteOver, SkipOver, Pass,
     RetryTest, Fail, HookPcs
<1>3. ASSUME NEW j \in 1..Len(out'), NEW t \in Nat, out'[j] = Phase(t, "test", "start")
      PROVE  t \in 1..Len(pending_tests')
  <2>1. CASE j \in 1..Len(out)
    <3>1. pc # "load"
      BY <1>1, <2>1 DEF Bodies, LogKept
    <3>2. t \in 1..Len(pending_tests)
      BY <1>1, <1>3, <2>1 DEF Bodies, LogKept, IsPhase
    <3> QED
      BY <3>1, <3>2, TestsStep
  <2>2. CASE j \notin 1..Len(out)
    <3>1. j \in Added
      BY <1>1, <2>2 DEF Added, LogKept
    <3>2. RunBody
      BY <1>1, <1>3, <3>1, PhaseFields DEF IsBodyStart
    <3>3. t = idx /\ idx \in 1..Len(pending_tests)
      BY <1>3, <3>1, <3>2, BodyEvents
    <3>4. pc # "load"
      BY <3>2 DEF RunBody
    <3> QED
      BY <3>3, <3>4, TestsStep
  <2> QED
    BY <2>1, <2>2
<1>4. \A j \in 1..Len(out'), t \in Nat :
          IsPhase(j, t, "test", "start")' => t \in 1..Len(pending_tests')
  BY <1>3 DEF IsPhase, Phase
<1> QED
  BY <1>2, <1>4 DEF Bodies
----------------------------------------------------------------------------
(* No attempt after the test's own afterAll.                               *)

\* The current test may still be attempted, or its last attempt is not yet
\* finalized.
Attempting ==
    \/ pc \in SetupPcs \cup {"defers", "afterEach"}
    \/ pc = "judge" /\ attempt # current.retry

\* No afterAll hooks were started since such a test was announced.
SinceStart ==
    Attempting =>
        \E s \in 1..Len(out) :
            /\ IsStart(s, idx)
            /\ \A i \in 1..Len(out), k \in Key : i > s => ~IsPhase(i, k, "afterAll", "start")

LEMMA AttemptingStep ==
    ASSUME Shape, [Next]_vars, Attempting'
    PROVE  StartTest \/ (Attempting /\ idx' = idx /\ ~CompleteSuite)
<1>1. CASE StartTest
  BY <1>1
<1>2. CASE CallHook \/ RunBody \/ RunDefer
  <2>1. pc \in Busy /\ idx' = idx /\ attempt' = attempt
    BY <1>2 DEF CallHook, RunBody, RunDefer, Busy, HookPcs, SetupPcs
  <2>2. PICK e \in Effects, where \in {"setup", "late", "skipped"} : Callback(e, where)
    BY <1>2 DEF CallHook, RunBody, RunDefer
  <2>3. current' = current
    <3>1. /\ Len(pending_tests') >= Len(pending_tests) /\ pending_tests' \in Seq(TestCase)
          /\ \A i \in 1..Len(pending_tests) : pending_tests'[i] = pending_tests[i]
      BY <2>2, CallbackShape DEF Shape
    <3> QED
      BY <2>1, <3>1, CurrentKept DEF Shape, Position
  <2>4. pc = "complete" => attempt = current.retry
    BY DEF Shape, Position
  <2>5. pc # "skipped"
    BY <1>2, <2>1 DEF CallHook, RunBody, RunDefer, Attempting, SetupPcs
  <2>6. Attempting
    BY <1>2, <2>1, <2>3, <2>4, <2>5 DEF CallHook, RunBody, RunDefer, Attempting, HookPcs, SetupPcs
  <2>7. ~CompleteSuite
    BY <2>6 DEF CompleteSuite, Attempting, SetupPcs
  <2> QED
    BY <2>1, <2>6, <2>7
<1>3. CASE CloseHooks \/ BeforeTest \/ BeforeAll \/ BeforeAllOver \/ BeforeEach \/ DefersOver
           \/ AfterEach
  <2>1. /\ idx' = idx
        /\ pc \in SetupPcs \cup {"defers", "afterEach", "complete", "skipped"}
        /\ pc \in {"complete", "skipped"} => pc' = pc
    BY <1>3 DEF CloseHooks, BeforeTest, BeforeAll, BeforeAllOver, BeforeEach, DefersOver, AfterEach,
       HookPcs, SetupPcs
  <2>2. pc \in SetupPcs \cup {"defers", "afterEach"} /\ idx' = idx
    BY <2>1 DEF Attempting, SetupPcs
  <2> QED
    BY <2>2 DEF Attempting, CompleteSuite, SetupPcs
<1>4. CASE AfterEachOver
  BY <1>4 DEF AfterEachOver, Attempting, CompleteSuite, SetupPcs
<1>5. CASE CompleteOver
  <2>1. /\ attempt' = attempt /\ current' = current /\ pc' = "judge"
        /\ attempt = current.retry
    BY <1>5 DEF CompleteOver, Shape, Position, current, list
  <2> QED
    BY <2>1 DEF Attempting, SetupPcs
<1>6. CASE RetryTest
  BY <1>6 DEF RetryTest, Attempting, CompleteSuite, SetupPcs
<1>7. CASE UNCHANGED vars
  <2>1. Attempting /\ idx' = idx
    BY <1>7 DEF Attempting, vars, current, list, SetupPcs
  <2> QED
    BY <2>1 DEF Attempting, CompleteSuite, SetupPcs
<1>8. CASE \/ LoadFile \/ LoadFails \/ ReportEscape \/ Finish \/ PassOver \/ SkipTest
           \/ CompleteSuite \/ SkipOver \/ Pass \/ Fail
  BY <1>8 DEF LoadFile, LoadFails, ReportEscape, FailFile, Finish, PassOver, SkipTest,
     CompleteSuite, SkipOver, Pass, Fail, Attempting, SetupPcs
<1> QED
  BY <1>1, <1>2, <1>3, <1>4, <1>5, <1>6, <1>7, <1>8 DEF Next

LEMMA SinceStartStep == Shape /\ SinceStart /\ [Next]_vars => SinceStart'
<1> SUFFICES ASSUME Shape, SinceStart, [Next]_vars, Attempting'
             PROVE  \E s \in 1..Len(out') :
                        /\ out'[s] = Event("start", idx')
                        /\ \A i \in 1..Len(out'), k \in Key :
                              i > s => out'[i] # Phase(k, "afterAll", "start")
  BY DEF SinceStart, IsStart, IsPhase, Event, Phase
<1>1. CASE StartTest
  <2>1. out' = Append(out, Event("start", idx)) /\ idx' = idx
    BY <1>1 DEF StartTest, Attempting, SetupPcs
  <2>2. Len(out) \in Nat /\ Len(out') = Len(out) + 1 /\ out'[Len(out) + 1] = Event("start", idx)
    BY <2>1, WrittenOne DEF Shape
  <2>3. Len(out) + 1 \in 1..Len(out') /\ \A i \in 1..Len(out') : ~(i > Len(out) + 1)
    BY <2>2
  <2> QED
    BY <2>1, <2>2, <2>3
<1>2. CASE ~StartTest
  <2>1. Attempting /\ idx' = idx /\ ~CompleteSuite
    BY <1>2, AttemptingStep
  <2>2. PICK s \in 1..Len(out) :
            /\ out[s] = Event("start", idx)
            /\ \A i \in 1..Len(out), k \in Key : i > s => out[i] # Phase(k, "afterAll", "start")
    BY <2>1 DEF SinceStart, IsStart, IsPhase
  <2>3. LogKept /\ \A i \in Added : ~IsAfterAll(out'[i])
    BY <2>1, LogStep
  <2>4. s \in 1..Len(out') /\ out'[s] = Event("start", idx')
    BY <2>1, <2>2, <2>3 DEF LogKept
  <2>5. ASSUME NEW i \in 1..Len(out'), NEW k \in Key, i > s
        PROVE  out'[i] # Phase(k, "afterAll", "start")
    <3>1. CASE i \in 1..Len(out)
      BY <2>2, <2>3, <2>5, <3>1 DEF LogKept
    <3>2. CASE i \notin 1..Len(out)
      <4>1. i \in Added
        BY <2>3, <3>2 DEF Added, LogKept
      <4> QED
        BY <2>3, <4>1, PhaseFields DEF IsAfterAll
    <3> QED
      BY <3>1, <3>2
  <2> QED
    BY <2>4, <2>5
<1> QED
  BY <1>1, <1>2

LEMMA NoAttemptStep ==
    ASSUME Shape, Bodies, SinceStart, NoAttemptAfterOwnAfterAll, [Next]_vars
    PROVE  NoAttemptAfterOwnAfterAll'
<1>1. LogKept /\ \A i \in Added : /\ IsBodyStart(out'[i]) => RunBody
                                  /\ IsAfterAll(out'[i]) => CompleteSuite /\ pc = "complete"
  BY LogStep
<1>2. SUFFICES ASSUME NEW i \in 1..Len(out'), NEW j \in 1..Len(out'),
                      NEW t \in 1..Len(pending_tests'), NEW k \in Key, i < j,
                      out'[i] = Phase(k, "afterAll", "start"),
                      out'[j] = Phase(t, "test", "start"), InSuite(pending_tests'[t], k)
               PROVE  \E s \in i..j : out'[s] = Event("start", t)
  BY DEF NoAttemptAfterOwnAfterAll, IsStart, IsPhase, Event, Phase, InSuite
<1>3. CASE j \in 1..Len(out)
  <2>1. pc # "load" /\ i \in 1..Len(out)
    BY <1>1, <1>2, <1>3 DEF Bodies, LogKept
  <2>2. out[i] = Phase(k, "afterAll", "start") /\ out[j] = Phase(t, "test", "start")
    BY <1>1, <1>2, <1>3, <2>1 DEF LogKept
  <2>3. t \in Nat
    BY <2>1, TestsStep
  <2>4. t \in 1..Len(pending_tests)
    BY <1>3, <2>2, <2>3 DEF Bodies, IsPhase
  <2>5. pending_tests'[t] = pending_tests[t]
    BY <2>1, <2>4, TestsStep
  <2>6. PICK s \in i..j : out[s] = Event("start", t)
    BY <1>2, <1>3, <2>1, <2>2, <2>4, <2>5 DEF NoAttemptAfterOwnAfterAll, IsPhase, IsStart
  <2>7. s \in 1..Len(out)
    BY <1>1, <1>3, <2>1 DEF LogKept
  <2> QED
    BY <1>1, <2>6, <2>7 DEF LogKept
<1>4. CASE j \notin 1..Len(out)
  <2>1. j \in Added
    BY <1>1, <1>4 DEF Added, LogKept
  <2>2. RunBody
    BY <1>1, <1>2, <2>1, PhaseFields DEF IsBodyStart
  <2>3. /\ j = Len(out) + 1 /\ t = idx /\ Len(out) \in Nat
        /\ Attempting /\ pc # "complete"
    BY <1>2, <2>1, <2>2, BodyEvents DEF RunBody, Attempting, SetupPcs
  <2>4. i \in 1..Len(out) /\ out[i] = Phase(k, "afterAll", "start")
    BY <1>1, <1>2, <2>3 DEF LogKept
  <2>5. PICK s \in 1..Len(out) :
            /\ out[s] = Event("start", idx)
            /\ \A n \in 1..Len(out), q \in Key : n > s => out[n] # Phase(q, "afterAll", "start")
    BY <2>3 DEF SinceStart, IsStart, IsPhase
  <2>6. s \in i..j
    BY <2>3, <2>4, <2>5
  <2> QED
    BY <1>1, <2>3, <2>5, <2>6 DEF LogKept
<1> QED
  BY <1>3, <1>4

\* For every file and whatever its callbacks do, no attempt at a test follows
\* afterAll hooks of one of its suites that were run since the test was
\* announced: the hooks its own completion runs wait for its last attempt.
THEOREM AfterAllWaitsForRetries == Spec => []NoAttemptAfterOwnAfterAll
<1> DEFINE Inv == Shape /\ Bodies /\ SinceStart /\ NoAttemptAfterOwnAfterAll
<1>1. Init => Inv
  <2>1. Init => Bodies /\ SinceStart /\ NoAttemptAfterOwnAfterAll
    BY DEF Init, Bodies, SinceStart, Attempting, SetupPcs, NoAttemptAfterOwnAfterAll
  <2> QED
    BY <2>1, ShapeInit
<1>2. Inv /\ [Next]_vars => Inv'
  BY ShapeStep, BodiesStep, SinceStartStep, NoAttemptStep
<1> QED
  BY <1>1, <1>2, PTL DEF Spec
----------------------------------------------------------------------------
(* No body before the beforeAll hooks of its suites.                       *)

BeforeAllRan(k) == \E i \in 1..Len(out) : IsPhase(i, k, "beforeAll", "end")

Terminal == {"escaped", "done", "crashed"}

\* The beforeAll hooks of a suite whose flag is set have run to their end, are
\* running, or ended the run of the file.
HooksRan ==
    /\ pc = "load" => \A k \in Key : ~beforeAll_done[k]
    /\ \A k \in Key : beforeAll_done[k] /\ hooks[k]["beforeAll"] > 0 =>
          BeforeAllRan(k) \/ (pc = "beforeAll" /\ pos > 0 /\ k = Suite) \/ pc \in Terminal

\* The suites of the current test that before_test has dealt with.
SetUpSoFar ==
    /\ pc = "beforeAll" =>
          \A l \in 1..(IF pos = 0 THEN level - 1 ELSE level) : beforeAll_done[current.stack[l]]
    /\ pc = "beforeEach" => \A l \in 1..Depth : beforeAll_done[current.stack[l]]

LEMMA RanKept == ASSUME LogKept, NEW k \in Key, BeforeAllRan(k) PROVE BeforeAllRan(k)'
<1>1. PICK i \in 1..Len(out) : out[i] = Phase(k, "beforeAll", "end")
  BY DEF BeforeAllRan, IsPhase
<1>2. i \in 1..Len(out') /\ out'[i] = Phase(k, "beforeAll", "end")
  BY <1>1 DEF LogKept
<1> QED
  BY <1>2 DEF BeforeAllRan, IsPhase, Phase

\* BeforeAll sets the flag of the suite whose turn it is, and no other.
LEMMA BeforeAllSets ==
    ASSUME Shape, BeforeAll
    PROVE  /\ level \in 1..Depth /\ Suite \in Key /\ pc = "beforeAll" /\ pc' = pc /\ pos = 0
           /\ UNCHANGED <<pending_tests, hooks, idx, current>>
           /\ beforeAll_done'[Suite]
           /\ \A k \in Key : k # Suite => beforeAll_done'[k] = beforeAll_done[k]
           /\ \/ level' = level + 1 /\ pos' = 0
              \/ level' = level /\ pos' = 1
           /\ \/ beforeAll_done[Suite] /\ level' = level + 1
              \/ level' = level + 1 /\ Functions = 0
              \/ level' = level
<1>1. pc = "beforeAll" /\ level <= Depth /\ pos = 0 /\ idx \in 1..Len(pending_tests)
  BY DEF BeforeAll, Shape, Position, Busy, SetupPcs
<1>2. Depth \in Nat
  BY <1>1, CurrentShape DEF Shape
<1>3. level \in 1..Depth
  BY <1>1, <1>2 DEF Shape, Position
<1>4. Suite \in Key /\ beforeAll_done \in [Key -> BOOLEAN]
  BY <1>1, <1>3, HookShape DEF Shape, TypeOK, HookPcs
<1>5. UNCHANGED <<pending_tests, hooks, idx, current, pc>>
  BY DEF BeforeAll, list, current
<1>6. CASE SetUp
  BY <1>1, <1>3, <1>4, <1>5, <1>6 DEF BeforeAll, SetUp
<1>7. CASE ~SetUp
  <2>1. beforeAll_done' = [beforeAll_done EXCEPT ![Suite] = TRUE] /\ OpenHooks
    BY <1>7 DEF BeforeAll
  <2>2. \/ level' = level + 1 /\ pos' = 0 /\ Functions = 0
        \/ level' = level /\ pos' = 1
    BY <1>1, <2>1 DEF OpenHooks, NextLevel, SetupPcs
  <2> QED
    BY <1>1, <1>3, <1>4, <1>5, <2>1, <2>2
<1> QED
  BY <1>6, <1>7

\* The steps that neither set the flag of a suite nor end its beforeAll hooks.
LEMMA HooksRanElsewhere ==
    ASSUME LogKept, HooksRan, UNCHANGED <<hooks, beforeAll_done>>, pc # "load",
           ~(pc = "beforeAll" /\ pos > 0), pc \in Terminal => pc' \in Terminal, pc' # "load"
    PROVE  HooksRan'
<1>1. ASSUME NEW k \in Key, beforeAll_done'[k], hooks'[k]["beforeAll"] > 0
      PROVE  BeforeAllRan(k)' \/ pc' \in Terminal
  <2>1. BeforeAllRan(k) \/ pc \in Terminal
    BY <1>1 DEF HooksRan
  <2> QED
    BY <2>1, RanKept
<1> QED
  BY <1>1 DEF HooksRan, Terminal

LEMMA HooksRanBeforeAll == ASSUME Shape, HooksRan, BeforeAll PROVE HooksRan'
<1>1. LogKept
  BY LogStep DEF Next
<1>2. ASSUME NEW k \in Key, beforeAll_done'[k], hooks'[k]["beforeAll"] > 0
      PROVE  BeforeAllRan(k)' \/ (pc' = "beforeAll" /\ pos' > 0 /\ k = Suite')
  <2>1. CASE beforeAll_done[k]
    <3>1. BeforeAllRan(k)
      BY <1>2, <2>1, BeforeAllSets DEF HooksRan, Terminal
    <3> QED
      BY <1>1, <3>1, RanKept
  <2>2. CASE ~beforeAll_done[k]
    <3>1. k = Suite
      BY <1>2, <2>2, BeforeAllSets
    <3>2. Functions # 0
      BY <1>2, <3>1, BeforeAllSets DEF Functions, Kind
    <3>3. level' = level /\ pos' = 1
      BY <2>2, <3>1, <3>2, BeforeAllSets DEF Shape, TypeOK
    <3> QED
      BY <3>1, <3>3, BeforeAllSets DEF Suite
  <2> QED
    BY <2>1, <2>2
<1>3. pc' = "beforeAll"
  BY BeforeAllSets
<1> QED
  BY <1>2, <1>3 DEF HooksRan

LEMMA HooksRanHooks == ASSUME Shape, HooksRan, CallHook \/ CloseHooks PROVE HooksRan'
<1>1. LogKept
  BY LogStep DEF Next
<1>2. /\ UNCHANGED <<hooks, beforeAll_done>> /\ pc \in HookPcs /\ pos \in Nat /\ pos > 0
      /\ pc' \notin {"load"}
  BY DEF CallHook, CloseHooks, Callback, list, counters, HookPcs, Shape, TypeOK
<1>3. CASE pc # "beforeAll"
  BY <1>1, <1>2, <1>3, HooksRanElsewhere DEF HookPcs, Terminal
<1>4. CASE pc = "beforeAll" /\ CallHook
  <2>1. PICK e \in Effects : Callback(e, "setup")
    BY <1>4 DEF CallHook, SetupPcs
  <2>2. idx \in 1..Len(pending_tests) /\ idx' = idx
    BY <1>4 DEF CallHook, Shape, Position, Busy, SetupPcs
  <2>3. current' = current
    <3>1. /\ Len(pending_tests') >= Len(pending_tests) /\ pending_tests' \in Seq(TestCase)
          /\ \A i \in 1..Len(pending_tests) : pending_tests'[i] = pending_tests[i]
      BY <2>1, CallbackShape DEF Shape
    <3> QED
      BY <2>2, <3>1, CurrentKept DEF Shape
  <2>4. /\ level' = level
        /\ \/ pc' = "escaped"
           \/ pc' = "beforeAll" /\ pos' = pos + 1
    BY <1>4 DEF CallHook
  <2>5. Suite' = Suite
    BY <2>3, <2>4 DEF Suite
  <2>6. pos' > 0 \/ pc' = "escaped"
    BY <1>2, <2>4
  <2>7. ASSUME NEW k \in Key, beforeAll_done'[k], hooks'[k]["beforeAll"] > 0
        PROVE  BeforeAllRan(k)' \/ (pc' = "beforeAll" /\ pos' > 0 /\ k = Suite')
               \/ pc' \in Terminal
    <3>1. BeforeAllRan(k) \/ k = Suite
      BY <1>2, <1>4, <2>7 DEF HooksRan, Terminal
    <3> QED
      BY <1>1, <2>4, <2>5, <2>6, <3>1, RanKept DEF Terminal
  <2> QED
    BY <1>2, <2>7 DEF HooksRan
<1>5. CASE pc = "beforeAll" /\ CloseHooks
  <2>1. level \in 1..Depth
    BY <1>2 DEF Shape, Position
  <2>2. Suite \in Key
    BY <1>2, <2>1, HookShape DEF Shape
  <2>3. out' = Append(out, Phase(Suite, "beforeAll", "end")) /\ pc' = pc
    BY <1>5 DEF CloseHooks, EmitPhase, ThisPhase, Kind, AllKind
  <2>4. Len(out) \in Nat /\ Len(out') = Len(out) + 1
        /\ out'[Len(out) + 1] = Phase(Suite, "beforeAll", "end")
    BY <2>3, WrittenOne DEF Shape
  <2>5. Len(out) + 1 \in 1..Len(out')
    BY <2>4
  <2>6. \A k \in Key : k = Suite => BeforeAllRan(k)'
    BY <2>4, <2>5 DEF BeforeAllRan, IsPhase, Phase
  <2>7. ASSUME NEW k \in Key, beforeAll_done'[k], hooks'[k]["beforeAll"] > 0
        PROVE  BeforeAllRan(k)'
    <3>1. BeforeAllRan(k) \/ k = Suite
      BY <1>2, <1>5, <2>7 DEF HooksRan, Terminal
    <3> QED
      BY <1>1, <2>6, <3>1, RanKept
  <2> QED
    BY <1>2, <2>7 DEF HooksRan
<1> QED
  BY <1>3, <1>4, <1>5

LEMMA HooksRanStep == Shape /\ HooksRan /\ [Next]_vars => HooksRan'
<1> SUFFICES ASSUME Shape, HooksRan, [Next]_vars PROVE HooksRan'
  OBVIOUS
<1>1. LogKept
  BY LogStep
<1>2. CASE LoadFile
  BY <1>2 DEF LoadFile, HooksRan, counters
<1>3. CASE LoadFails \/ ReportEscape \/ Finish \/ PassOver \/ StartTest \/ SkipTest
  <2>1. /\ beforeAll_done' = beforeAll_done /\ hooks' = hooks
        /\ pc \in {"load", "escaped", "next"} /\ pc' # "load"
        /\ pc \in {"load", "escaped"} => pc' \in Terminal
    BY <1>3 DEF LoadFails, ReportEscape, FailFile, Finish, PassOver, StartTest, SkipTest, list,
       counters, Terminal
  <2>2. CASE pc = "load"
    BY <2>1, <2>2 DEF HooksRan
  <2> QED
    BY <1>1, <2>1, <2>2, HooksRanElsewhere DEF Terminal
<1>4. CASE BeforeTest \/ BeforeAllOver \/ BeforeEach \/ DefersOver \/ AfterEach \/ AfterEachOver
           \/ CompleteSuite \/ CompleteOver \/ SkipOver \/ Pass \/ RetryTest \/ Fail
  <2>1. /\ beforeAll_done' = beforeAll_done /\ hooks' = hooks
        /\ pc \notin Terminal \cup {"load"} /\ pc' # "load" /\ (pc = "beforeAll" => pos = 0)
    BY <1>4 DEF BeforeTest, BeforeAllOver, BeforeEach, DefersOver, AfterEach, AfterEachOver,
       CompleteSuite, CompleteOver, SkipOver, Pass, RetryTest, Fail, list, counters, Terminal
  <2> QED
    BY <1>1, <2>1, HooksRanElsewhere
<1>5. CASE RunBody \/ RunDefer
  <2>1. /\ beforeAll_done' = beforeAll_done /\ hooks' = hooks
        /\ pc \in {"beforeEach", "defers"} /\ pc' # "load"
    BY <1>5 DEF RunBody, RunDefer, Callback, counters
  <2> QED
    BY <1>1, <2>1, HooksRanElsewhere DEF Terminal
<1>6. CASE UNCHANGED vars
  BY <1>6 DEF HooksRan, BeforeAllRan, IsPhase, Suite, current, vars, list, counters
<1> QED
  BY <1>2, <1>3, <1>4, <1>5, <1>6, HooksRanBeforeAll, HooksRanHooks DEF Next

LEMMA SetUpStep == Shape /\ SetUpSoFar /\ [Next]_vars => SetUpSoFar'
<1> SUFFICES ASSUME Shape, SetUpSoFar, [Next]_vars PROVE SetUpSoFar'
  OBVIOUS
<1>1. CASE BeforeAll
  <2>1. ASSUME NEW l \in 1..(IF pos' = 0 THEN level' - 1 ELSE level')
        PROVE  beforeAll_done'[current'.stack[l]]
    <3>1. l \in 1..level
      BY <1>1, BeforeAllSets DEF Shape, TypeOK
    <3>2. CASE l = level
      BY <1>1, <3>2, BeforeAllSets DEF Suite
    <3>3. CASE l # level
      <4>1. idx \in 1..Len(pending_tests) /\ Depth \in Nat
        <5>1. idx \in 1..Len(pending_tests)
          BY <1>1, BeforeAllSets DEF Shape, Position, Busy, SetupPcs
        <5> QED
          BY <5>1, CurrentShape DEF Shape
      <4>2. level \in Nat /\ level <= Depth
        BY <1>1, <4>1, BeforeAllSets
      <4>3. l \in 1..(level - 1) /\ l \in 1..Depth
        BY <3>1, <3>3, <4>1, <4>2
      <4>4. beforeAll_done[current.stack[l]]
        BY <1>1, <4>3, BeforeAllSets DEF SetUpSoFar
      <4>5. current.stack[l] \in Key
        BY <4>1, <4>3, CurrentShape DEF Shape
      <4> QED
        BY <1>1, <4>4, <4>5, BeforeAllSets
    <3> QED
      BY <3>2, <3>3
  <2> QED
    BY <1>1, <2>1, BeforeAllSets DEF SetUpSoFar
<1>2. CASE BeforeTest
  <2>1. pc' = "beforeAll" /\ level' = 1 /\ pos' = 0
    BY <1>2 DEF BeforeTest, Shape, Position, HookPcs
  <2> QED
    BY <2>1 DEF SetUpSoFar
<1>3. CASE BeforeAllOver
  <2>1. pc = "beforeAll" /\ pos = 0 /\ level > Depth /\ pc' = "beforeEach"
        /\ UNCHANGED <<current, beforeAll_done>>
    BY <1>3 DEF BeforeAllOver, current, list, counters
  <2>2. Depth \in Nat /\ level \in 1..(Depth + 1)
    <3>1. idx \in 1..Len(pending_tests)
      BY <2>1 DEF Shape, Position, Busy, SetupPcs
    <3> QED
      BY <2>1, <3>1, CurrentShape DEF Shape, Position
  <2>3. level - 1 = Depth
    BY <2>1, <2>2
  <2> QED
    BY <2>1, <2>3 DEF SetUpSoFar, Depth
<1>4. CASE BeforeEach
  <2>1. pc = "beforeEach" /\ pc' = pc /\ UNCHANGED <<current, beforeAll_done>>
    BY <1>4 DEF BeforeEach, current, list, counters
  <2> QED
    BY <2>1 DEF SetUpSoFar, Depth
<1>5. CASE CallHook
  <2>1. PICK e \in Effects, where \in {"setup", "late", "skipped"} : Callback(e, where)
    BY <1>5 DEF CallHook
  <2>2. idx \in 1..Len(pending_tests) /\ idx' = idx
    BY <1>5 DEF CallHook, Shape, Position, Busy, HookPcs, SetupPcs
  <2>3. current' = current
    <3>1. /\ Len(pending_tests') >= Len(pending_tests) /\ pending_tests' \in Seq(TestCase)
          /\ \A i \in 1..Len(pending_tests) : pending_tests'[i] = pending_tests[i]
      BY <2>1, CallbackShape DEF Shape
    <3> QED
      BY <2>2, <3>1, CurrentKept DEF Shape
  <2>4. /\ beforeAll_done' = beforeAll_done /\ level' = level /\ pos \in Nat /\ pos > 0
        /\ pc' \in {"judge", "escaped"} \/ (pc' = pc /\ pos' = pos + 1)
    BY <1>5 DEF CallHook, counters, Shape, TypeOK
  <2>5. CASE pc' \in {"judge", "escaped"}
    BY <2>5 DEF SetUpSoFar
  <2>6. CASE pc' = pc /\ pos' = pos + 1
    <3>1. pos' # 0 /\ pos # 0
      BY <2>4, <2>6
    <3> QED
      BY <2>3, <2>4, <2>6, <3>1 DEF SetUpSoFar, Depth
  <2> QED
    BY <2>4, <2>5, <2>6
<1>6. CASE CloseHooks
  <2>1. /\ pc' = pc /\ UNCHANGED <<current, beforeAll_done>> /\ pos' = 0 /\ pos # 0
        /\ pc = "beforeAll" => level' - 1 = level
    BY <1>6 DEF CloseHooks, NextLevel, SetupPcs, current, list, counters, Shape, TypeOK
  <2> QED
    BY <2>1 DEF SetUpSoFar, Depth
<1>7. CASE UNCHANGED vars
  BY <1>7 DEF SetUpSoFar, Depth, current, vars, list, counters
<1>8. CASE \/ LoadFile \/ LoadFails \/ ReportEscape \/ Finish \/ PassOver \/ StartTest \/ SkipTest
           \/ RunBody \/ DefersOver \/ AfterEachOver \/ CompleteOver \/ SkipOver
           \/ Pass \/ RetryTest \/ Fail
  <2>1. pc' \notin {"beforeAll", "beforeEach"}
    BY <1>8 DEF LoadFile, LoadFails, ReportEscape, FailFile, Finish, PassOver, StartTest, SkipTest,
       RunBody, DefersOver, AfterEachOver, CompleteOver, SkipOver, Pass, RetryTest, Fail
  <2> QED
    BY <2>1 DEF SetUpSoFar
<1>9. CASE RunDefer \/ AfterEach \/ CompleteSuite
  <2>1. pc' \notin {"beforeAll", "beforeEach"}
    BY <1>9 DEF RunDefer, AfterEach, CompleteSuite
  <2> QED
    BY <2>1 DEF SetUpSoFar
<1> QED
  BY <1>1, <1>2, <1>3, <1>4, <1>5, <1>6, <1>7, <1>8, <1>9 DEF Next

LEMMA BeforeAllFirstStep ==
    ASSUME Shape, Bodies, HooksRan, SetUpSoFar, BeforeAllFirst, [Next]_vars
    PROVE  BeforeAllFirst'
<1>1. LogKept /\ \A i \in Added : IsBodyStart(out'[i]) => RunBody
  BY LogStep
<1>2. SUFFICES ASSUME NEW j \in 1..Len(out'), NEW t \in 1..Len(pending_tests'), NEW k \in Key,
                      out'[j] = Phase(t, "test", "start"), InSuite(pending_tests'[t], k),
                      hooks'[k]["beforeAll"] > 0
               PROVE  \E i \in 1..(j - 1) : out'[i] = Phase(k, "beforeAll", "end")
  BY DEF BeforeAllFirst, IsPhase, Phase, InSuite
<1>3. CASE j \in 1..Len(out)
  <2>1. pc # "load" /\ out[j] = Phase(t, "test", "start")
    BY <1>1, <1>2, <1>3 DEF Bodies, LogKept
  <2>2. t \in Nat
    BY <2>1, TestsStep
  <2>3. t \in 1..Len(pending_tests)
    BY <1>3, <2>1, <2>2 DEF Bodies, IsPhase
  <2>4. pending_tests'[t] = pending_tests[t] /\ hooks' = hooks
    BY <2>1, <2>3, TestsStep
  <2>5. PICK i \in 1..(j - 1) : out[i] = Phase(k, "beforeAll", "end")
    BY <1>2, <1>3, <2>1, <2>3, <2>4 DEF BeforeAllFirst, IsPhase
  <2>6. i \in 1..Len(out)
    BY <1>1, <1>3 DEF LogKept
  <2> QED
    BY <1>1, <2>5, <2>6 DEF LogKept
<1>4. CASE j \notin 1..Len(out)
  <2>1. j \in Added
    BY <1>1, <1>4 DEF Added, LogKept
  <2>2. RunBody
    BY <1>1, <1>2, <2>1, PhaseFields DEF IsBodyStart
  <2>3. /\ j = Len(out) + 1 /\ t = idx /\ Len(out) \in Nat /\ pc = "beforeEach" /\ pos = 0
        /\ idx \in 1..Len(pending_tests)
    BY <1>2, <2>1, <2>2, BodyEvents DEF RunBody
  <2>4. pending_tests'[t] = current /\ hooks' = hooks
    BY <2>3, TestsStep DEF current
  <2>5. PICK l \in 1..Depth : current.stack[l] = k
    BY <1>2, <2>4 DEF InSuite, Depth
  <2>6. beforeAll_done[k] /\ hooks[k]["beforeAll"] > 0
    BY <1>2, <2>3, <2>4, <2>5 DEF SetUpSoFar
  <2>7. PICK i \in 1..Len(out) : out[i] = Phase(k, "beforeAll", "end")
    BY <2>3, <2>6 DEF HooksRan, Terminal, BeforeAllRan, IsPhase
  <2>8. i \in 1..(j - 1)
    BY <2>3
  <2> QED
    BY <1>1, <2>7, <2>8 DEF LogKept
<1> QED
  BY <1>3, <1>4

\* For every file and whatever its callbacks do, no body runs before the
\* beforeAll hooks of every suite around it have run to their end, be the
\* suite's earlier tests skipped or not selected.
THEOREM BodiesAfterBeforeAll == Spec => []BeforeAllFirst
<1> DEFINE Inv == Shape /\ Bodies /\ HooksRan /\ SetUpSoFar /\ BeforeAllFirst
<1>1. Init => Inv
  <2>1. Init => Bodies /\ HooksRan /\ SetUpSoFar /\ BeforeAllFirst
    BY DEF Init, Bodies, HooksRan, SetUpSoFar, BeforeAllFirst
  <2> QED
    BY <2>1, ShapeInit
<1>2. Inv /\ [Next]_vars => Inv'
  BY ShapeStep, BodiesStep, HooksRanStep, SetUpStep, BeforeAllFirstStep
<1> QED
  BY <1>1, <1>2, PTL DEF Spec
----------------------------------------------------------------------------
(* The exit code.                                                          *)

FailWritten == \E i \in 1..Len(out) : out[i].event = "fail"

\* A failure is noted before it is written, and nothing but the end of the
\* file comes between the two.
FailEvents ==
    /\ FailWritten => saw_failure
    /\ saw_failure /\ pc \notin {"escaped", "crashed"} => FailWritten
    /\ pc = "crashed" => saw_failure

LEMMA FailUnwritten ==
    ASSUME TypeOK, WritesNone({"fail"})
    PROVE  FailWritten' <=> FailWritten
<1>1. CASE out' = out
  BY <1>1 DEF FailWritten
<1>2. ASSUME NEW e, out' = Append(out, e), e.event # "fail"
      PROVE  FailWritten' <=> FailWritten
  <2>1. /\ Len(out) \in Nat /\ Len(out') = Len(out) + 1 /\ out'[Len(out) + 1] = e
        /\ \A i \in 1..Len(out) : out'[i] = out[i]
    BY <1>2, WrittenOne
  <2> QED
    BY <1>2, <2>1 DEF FailWritten
<1>3. ASSUME NEW e, NEW f, out' = Append(Append(out, e), f), e.event # "fail", f.event # "fail"
      PROVE  FailWritten' <=> FailWritten
  <2>1. /\ Len(out) \in Nat /\ Len(out') = Len(out) + 2
        /\ out'[Len(out) + 1] = e /\ out'[Len(out) + 2] = f
        /\ \A i \in 1..Len(out) : out'[i] = out[i]
    BY <1>3, WrittenTwo
  <2> QED
    BY <1>3, <2>1 DEF FailWritten
<1> QED
  BY <1>1, <1>2, <1>3 DEF WritesNone

LEMMA FailAppended ==
    ASSUME TypeOK, NEW e, out' = Append(out, e), e.event = "fail"
    PROVE  FailWritten'
<1>1. Len(out) \in Nat /\ Len(out') = Len(out) + 1 /\ out'[Len(out) + 1] = e
  BY WrittenOne
<1>2. Len(out) + 1 \in 1..Len(out')
  BY <1>1
<1> QED
  BY <1>1, <1>2 DEF FailWritten

LEMMA QuietFails ==
    ASSUME Shape, FailEvents, Quiet
    PROVE  FailEvents'
<1>1. FailWritten' <=> FailWritten
  <2>1. WritesNone({"fail"})
    BY QuietWrites DEF WritesNone, Verdicts
  <2> QED
    BY <2>1, FailUnwritten DEF Shape
<1>2. saw_failure' = saw_failure /\ pc # "escaped" /\ pc # "crashed" /\ pc' # "crashed"
  <2>1. CASE LoadFile \/ Finish \/ PassOver \/ StartTest \/ RetryTest \/ SkipOver
    BY <2>1 DEF LoadFile, Finish, PassOver, StartTest, RetryTest, SkipOver
  <2>2. CASE CallHook \/ CloseHooks
    BY <2>2 DEF CallHook, CloseHooks, HookPcs
  <2>3. CASE BeforeTest \/ BeforeAll \/ BeforeAllOver \/ BeforeEach \/ RunBody
    BY <2>3 DEF BeforeTest, BeforeAll, BeforeAllOver, BeforeEach, RunBody
  <2>4. CASE RunDefer \/ DefersOver \/ AfterEach \/ AfterEachOver \/ CompleteSuite \/ CompleteOver
    BY <2>4 DEF RunDefer, DefersOver, AfterEach, AfterEachOver, CompleteSuite, CompleteOver
  <2> QED
    BY <2>1, <2>2, <2>3, <2>4 DEF Quiet
<1> QED
  BY <1>1, <1>2 DEF FailEvents

LEMMA FailStep == Shape /\ FailEvents /\ [Next]_vars => FailEvents'
<1> SUFFICES ASSUME Shape, FailEvents, [Next]_vars PROVE FailEvents'
  OBVIOUS
<1>1. TypeOK
  BY DEF Shape
<1>2. CASE LoadFails \/ ReportEscape
  <2>1. /\ saw_failure' = TRUE
        /\ \/ pc' = "crashed"
           \/ pc' = "done" /\ out' = Append(out, FileFailed)
    BY <1>2 DEF LoadFails, ReportEscape, FailFile
  <2>2. FileFailed.event = "fail"
    BY DEF FileFailed, Event
  <2>3. pc' = "done" => FailWritten'
    BY <1>1, <2>1, <2>2, FailAppended
  <2> QED
    BY <2>1, <2>3 DEF FailEvents
<1>3. CASE Fail
  <2>1. /\ saw_failure' = TRUE
        /\ \/ pc' = "escaped"
           \/ pc' = "next" /\ out' = Append(out, Event("fail", idx))
    BY <1>3 DEF Fail
  <2>2. Event("fail", idx).event = "fail"
    BY DEF Event
  <2>3. pc' = "next" => FailWritten'
    BY <1>1, <2>1, <2>2, FailAppended
  <2> QED
    BY <2>1, <2>3 DEF FailEvents
<1>4. CASE Pass \/ SkipTest
  <2>1. /\ saw_failure' = saw_failure /\ pc \in {"judge", "next"}
        /\ pc' \in {"next", "skipped", "escaped"}
    BY <1>4 DEF Pass, SkipTest
  <2>2. WritesNone({"fail"})
    BY <1>4 DEF WritesNone, Pass, SkipTest, Event
  <2> QED
    BY <1>1, <2>1, <2>2, FailUnwritten DEF FailEvents
<1>5. CASE UNCHANGED vars
  BY <1>5 DEF FailEvents, FailWritten, vars
<1>6. CASE Quiet
  BY <1>6, QuietFails
<1> QED
  BY <1>2, <1>3, <1>4, <1>5, <1>6 DEF Next, Quiet

\* For every file and whatever its callbacks do, an exit code that says the
\* file failed has a fail event in the stream to go with it, unless the worker
\* died over that very event, and no fail event comes with a clean exit code.
THEOREM ExitCodeTold == Spec => []ExitCodeAgrees
<1>1. Init => Shape /\ FailEvents
  <2>1. Init => FailEvents
    BY DEF Init, FailEvents, FailWritten
  <2> QED
    BY <2>1, ShapeInit
<1>2. Shape /\ FailEvents /\ [Next]_vars => (Shape /\ FailEvents)'
  BY ShapeStep, FailStep
<1>3. FailEvents => ExitCodeAgrees
  BY DEF FailEvents, FailWritten, ExitCodeAgrees
<1> QED
  BY <1>1, <1>2, <1>3, PTL DEF Spec
----------------------------------------------------------------------------
(* The All hooks.                                                          *)

\* The flag that says whether the All hooks of a suite have been run.
HookFlag(k, kind) == IF kind = "beforeAll" THEN beforeAll_done[k] ELSE afterAll_done[k]

\* The All hooks of a kind of a suite are being called.
Calling(k, kind) == pc \in HookPcs /\ pos > 0 /\ Suite = k /\ Kind = kind

\* A call of an All hook means that the flag of its suite is set, which is
\* before the first call; while the hooks of a list are called, the calls of
\* that list made so far are of hooks before the next one.
HookLog ==
    /\ \A i \in 1..Len(hook_calls) :
          /\ HookFlag(hook_calls[i].suite, hook_calls[i].kind)
          /\ Calling(hook_calls[i].suite, hook_calls[i].kind) => hook_calls[i].hook < pos
    /\ \A k \in Key, kind \in AllKind : Calling(k, kind) => HookFlag(k, kind)
    /\ AllHooksOnce

FlagsKept ==
    \A k \in Key, kind \in AllKind : HookFlag(k, kind) => HookFlag(k, kind)'

\* The calls made so far, typed.
LEMMA HookCallTypes ==
    ASSUME Shape, NEW i \in 1..Len(hook_calls)
    PROVE  /\ hook_calls[i].suite \in Key /\ hook_calls[i].kind \in AllKind
           /\ hook_calls[i].hook \in Nat
<1>1. hook_calls \in Seq(HookCall)
  BY DEF Shape, TypeOK
<1>2. hook_calls[i] \in HookCall
  BY <1>1
<1> QED
  BY <1>2 DEF HookCall

\* A step that calls no hook and starts no list of All hooks, and one that
\* starts a list whose flag was not set.
LEMMA HookSilent ==
    ASSUME Shape, HookLog, FlagsKept, UNCHANGED hook_calls,
           \A k \in Key, kind \in AllKind : ~Calling(k, kind)'
    PROVE  HookLog'
BY HookCallTypes DEF HookLog, FlagsKept, AllHooksOnce

LEMMA HookOpened ==
    ASSUME Shape, HookLog, FlagsKept, UNCHANGED hook_calls,
           NEW s \in Key, NEW h \in AllKind, ~HookFlag(s, h), HookFlag(s, h)',
           \A k \in Key, kind \in AllKind : Calling(k, kind)' => k = s /\ kind = h
    PROVE  HookLog'
<1>1. ASSUME NEW i \in 1..Len(hook_calls)
      PROVE  /\ HookFlag(hook_calls[i].suite, hook_calls[i].kind)'
             /\ ~Calling(hook_calls[i].suite, hook_calls[i].kind)'
  <2>1. hook_calls[i].suite \in Key /\ hook_calls[i].kind \in AllKind
    BY HookCallTypes
  <2>2. HookFlag(hook_calls[i].suite, hook_calls[i].kind)
    BY DEF HookLog
  <2> QED
    BY <2>1, <2>2 DEF FlagsKept
<1> QED
  BY <1>1 DEF HookLog, AllHooksOnce

LEMMA HookBeforeAll == ASSUME Shape, HookLog, BeforeAll PROVE HookLog'
<1>1. pc = "beforeAll" /\ pos = 0 /\ level \in 1..Depth
  <2>1. pc = "beforeAll" /\ pos = 0 /\ level <= Depth /\ idx \in 1..Len(pending_tests)
    BY DEF BeforeAll, Shape, Position, Busy, SetupPcs
  <2>2. Depth \in Nat
    BY <2>1, CurrentShape DEF Shape
  <2> QED
    BY <2>1, <2>2 DEF Shape, Position
<1>2. Suite \in Key /\ beforeAll_done \in [Key -> BOOLEAN]
  BY <1>1, HookShape DEF Shape, TypeOK, HookPcs
<1>3. UNCHANGED <<list, idx, pc, afterAll_done, hook_calls>>
  BY DEF BeforeAll, history
<1>4. CASE SetUp
  BY <1>1, <1>3, <1>4, HookSilent DEF BeforeAll, FlagsKept, HookFlag, Calling
<1>5. CASE ~SetUp
  <2>1. beforeAll_done' = [beforeAll_done EXCEPT ![Suite] = TRUE] /\ OpenHooks
    BY <1>5 DEF BeforeAll
  <2>2. FlagsKept
    BY <1>2, <1>3, <2>1 DEF FlagsKept, HookFlag
  <2>3. ~HookFlag(Suite, "beforeAll")
    BY <1>5 DEF SetUp, HookFlag
  <2>4. \A k \in Key : k = Suite => HookFlag(k, "beforeAll")'
    BY <1>2, <2>1 DEF HookFlag
  <2>5. \A k \in Key, kind \in AllKind : Calling(k, kind)' => k = Suite /\ kind = "beforeAll"
    <3>1. (level' = level /\ Kind' = "beforeAll") \/ pos' = 0
      BY <1>1, <1>3, <2>1 DEF OpenHooks, Kind
    <3>2. level' = level => Suite' = Suite
      BY <1>3 DEF Suite, current, list
    <3> QED
      BY <3>1, <3>2 DEF Calling
  <2>6. PICK s \in Key : s = Suite
    BY <1>2
  <2> QED
    BY <1>3, <2>2, <2>3, <2>4, <2>5, <2>6, HookOpened DEF AllKind
<1> QED
  BY <1>4, <1>5

LEMMA HookComplete == ASSUME Shape, HookLog, CompleteSuite PROVE HookLog'
<1>1. pc \in {"complete", "skipped"} /\ pos = 0 /\ level \in 1..Depth
  <2>1. pc \in {"complete", "skipped"} /\ pos = 0 /\ level > 0 /\ level \in 0..Depth
    BY DEF CompleteSuite, Shape, Position
  <2> QED
    BY <2>1
<1>2. Suite \in Key /\ afterAll_done \in [Key -> BOOLEAN]
  BY <1>1, HookShape DEF Shape, TypeOK, HookPcs
<1>3. UNCHANGED <<list, idx, pc, beforeAll_done, hook_calls>>
  BY DEF CompleteSuite, history
<1>4. CASE ~LastOfSuite
  BY <1>1, <1>3, <1>4, HookSilent DEF CompleteSuite, FlagsKept, HookFlag, Calling
<1>5. CASE LastOfSuite
  <2>1. afterAll_done' = [afterAll_done EXCEPT ![Suite] = TRUE] /\ OpenHooks
    BY <1>5 DEF CompleteSuite
  <2>2. FlagsKept
    BY <1>2, <1>3, <2>1 DEF FlagsKept, HookFlag
  <2>3. ~HookFlag(Suite, "afterAll")
    BY <1>5 DEF LastOfSuite, HookFlag
  <2>4. \A k \in Key : k = Suite => HookFlag(k, "afterAll")'
    BY <1>2, <2>1 DEF HookFlag
  <2>5. \A k \in Key, kind \in AllKind : Calling(k, kind)' => k = Suite /\ kind = "afterAll"
    <3>1. (level' = level /\ Kind' = "afterAll") \/ pos' = 0
      BY <1>1, <1>3, <2>1 DEF OpenHooks, Kind
    <3>2. level' = level => Suite' = Suite
      BY <1>3 DEF Suite, current, list
    <3> QED
      BY <3>1, <3>2 DEF Calling
  <2>6. PICK s \in Key : s = Suite
    BY <1>2
  <2> QED
    BY <1>3, <2>2, <2>3, <2>4, <2>5, <2>6, HookOpened DEF AllKind
<1> QED
  BY <1>4, <1>5

\* A hook is called: the call is new, for the calls of its list are of hooks
\* before it.
LEMMA HookCalled == ASSUME Shape, HookLog, CallHook PROVE HookLog'
<1>1. /\ pc \in HookPcs /\ pos > 0 /\ pos \in Nat /\ level \in 1..Depth
      /\ idx \in 1..Len(pending_tests) /\ Suite \in Key
  BY HookShape DEF CallHook, Shape, Position, TypeOK
<1>2. PICK e \in Effects, where \in {"setup", "late", "skipped"} :
        /\ Callback(e, where)
        /\ pos' = 0 \/ (pos' = pos + 1 /\ pc' = pc)
  BY DEF CallHook
<1>3. Suite' = Suite
  <2>1. /\ Len(pending_tests') >= Len(pending_tests) /\ pending_tests' \in Seq(TestCase)
        /\ \A i \in 1..Len(pending_tests) : pending_tests'[i] = pending_tests[i]
    BY <1>2, CallbackShape DEF Shape
  <2>2. UNCHANGED <<idx, level>>
    BY DEF CallHook
  <2>3. current' = current
    BY <1>1, <2>1, <2>2, CurrentKept DEF Shape
  <2> QED
    BY <2>2, <2>3 DEF Suite
<1>4. \A k, kind : HookFlag(k, kind)' = HookFlag(k, kind)
  BY DEF CallHook, counters, HookFlag
<1>5. \A k, kind : Calling(k, kind)' => Calling(k, kind) /\ pos' = pos + 1
  BY <1>1, <1>2, <1>3 DEF Calling, Kind
<1>6. CASE Kind \notin AllKind
  <2>1. hook_calls' = hook_calls
    BY <1>6 DEF CallHook
  <2>2. \A k \in Key, kind \in AllKind : ~Calling(k, kind)'
    BY <1>5, <1>6 DEF Calling
  <2> QED
    BY <1>4, <2>1, <2>2, HookSilent DEF FlagsKept
<1>7. CASE Kind \in AllKind
  <2> DEFINE c == [suite |-> Suite, kind |-> Kind, hook |-> pos]
             n == Len(hook_calls)
  <2>1. /\ n \in Nat /\ Len(hook_calls') = n + 1 /\ hook_calls'[n + 1] = c
        /\ \A i \in 1..n : hook_calls'[i] = hook_calls[i]
    <3>1. hook_calls \in Seq(HookCall)
      BY DEF Shape, TypeOK
    <3>2. hook_calls' = Append(hook_calls, c)
      BY <1>7 DEF CallHook
    <3> QED
      BY <3>1, <3>2
  <2>2. Calling(Suite, Kind) /\ HookFlag(Suite, Kind)
    <3>1. Calling(Suite, Kind)
      BY <1>1 DEF Calling
    <3> QED
      BY <1>1, <1>7, <3>1 DEF HookLog
  <2>3. ASSUME NEW i \in 1..n
        PROVE  /\ HookFlag(hook_calls[i].suite, hook_calls[i].kind)
               /\ Calling(hook_calls[i].suite, hook_calls[i].kind) => hook_calls[i].hook < pos
               /\ hook_calls[i].hook \in Nat
    BY HookCallTypes DEF HookLog
  <2>4. \A i \in 1..n : hook_calls[i] # c
    BY <1>1, <2>2, <2>3
  <2>5. ASSUME NEW i \in 1..Len(hook_calls')
        PROVE  /\ HookFlag(hook_calls[i].suite, hook_calls[i].kind)'
               /\ Calling(hook_calls[i].suite, hook_calls[i].kind)' => (hook_calls[i].hook < pos)'
    <3>1. CASE i \in 1..n
      <4>1. hook_calls'[i] = hook_calls[i]
        BY <2>1, <3>1
      <4> QED
        BY <1>1, <1>4, <1>5, <2>3, <3>1, <4>1
    <3>2. CASE i = n + 1
      BY <1>1, <1>4, <1>5, <2>1, <2>2, <3>2
    <3> QED
      BY <2>1, <3>1, <3>2
  <2>6. AllHooksOnce'
    <3>1. ASSUME NEW i \in 1..(n + 1), NEW j \in 1..(n + 1), hook_calls'[i] = hook_calls'[j]
          PROVE  i = j
      BY <2>1, <2>4, <3>1 DEF HookLog, AllHooksOnce
    <3> QED
      BY <2>1, <3>1 DEF AllHooksOnce
  <2>7. \A k \in Key, kind \in AllKind : Calling(k, kind)' => HookFlag(k, kind)'
    BY <1>4, <1>5 DEF HookLog
  <2> QED
    BY <2>5, <2>6, <2>7 DEF HookLog
<1> QED
  BY <1>6, <1>7

LEMMA HookStep == Shape /\ HookLog /\ [Next]_vars => HookLog'
<1> SUFFICES ASSUME Shape, HookLog, [Next]_vars PROVE HookLog'
  OBVIOUS
<1> DEFINE Elsewhere == /\ UNCHANGED <<beforeAll_done, afterAll_done, hook_calls>>
                        /\ \A k \in Key, kind \in AllKind : ~Calling(k, kind)'
<1>1. Elsewhere => HookLog'
  BY HookSilent DEF FlagsKept, HookFlag
<1>2. CASE \/ LoadFile \/ LoadFails \/ ReportEscape \/ Finish \/ PassOver \/ StartTest \/ SkipTest
           \/ BeforeTest
  <2>1. UNCHANGED <<beforeAll_done, afterAll_done, hook_calls, pos>>
    BY <1>2 DEF LoadFile, LoadFails, ReportEscape, Finish, PassOver, StartTest, SkipTest, BeforeTest,
       counters, history
  <2>2. pos = 0
    BY <1>2 DEF LoadFile, LoadFails, ReportEscape, Finish, PassOver, StartTest, SkipTest, BeforeTest,
       Shape, Position, HookPcs
  <2> QED
    BY <1>1, <2>1, <2>2 DEF Calling
<1>3. CASE \/ BeforeAllOver \/ DefersOver \/ AfterEachOver \/ CompleteOver \/ SkipOver \/ CloseHooks
  <2>1. UNCHANGED <<beforeAll_done, afterAll_done, hook_calls>> /\ pos' = 0
    BY <1>3 DEF BeforeAllOver, DefersOver, AfterEachOver, CompleteOver, SkipOver, CloseHooks,
       counters, history
  <2> QED
    BY <1>1, <2>1 DEF Calling
<1>4. CASE RunBody \/ RunDefer
  <2>1. UNCHANGED <<beforeAll_done, afterAll_done, hook_calls>> /\ pc' \in {"defers", "judge"}
    BY <1>4 DEF RunBody, RunDefer, counters
  <2> QED
    BY <1>1, <2>1 DEF Calling, HookPcs
<1>5. CASE BeforeEach \/ AfterEach
  <2>1. /\ UNCHANGED <<beforeAll_done, afterAll_done, hook_calls>>
        /\ pc' \in {"beforeEach", "afterEach"}
    BY <1>5 DEF BeforeEach, AfterEach, counters, history
  <2> QED
    BY <1>1, <2>1 DEF Calling, Kind, AllKind
<1>6. CASE Pass \/ RetryTest \/ Fail
  <2>1. UNCHANGED <<beforeAll_done, afterAll_done, hook_calls, pos>> /\ pos = 0
    BY <1>6 DEF Pass, RetryTest, Fail, counters, history, Shape, Position, HookPcs
  <2> QED
    BY <1>1, <2>1 DEF Calling
<1>7. CASE UNCHANGED vars
  BY <1>7 DEF HookLog, AllHooksOnce, HookFlag, Calling, Kind, Suite, current, vars, counters, list,
     history
<1> QED
  BY <1>2, <1>3, <1>4, <1>5, <1>6, <1>7, HookBeforeAll, HookComplete, HookCalled DEF Next

\* For every file and whatever its callbacks do, no beforeAll or afterAll
\* function of a suite is called twice: not by a retry, not by the completion
\* of a skipped test, and not for a test registered late.
THEOREM AllHooksRunOnce == Spec => []AllHooksOnce
<1>1. Init => Shape /\ HookLog
  <2>1. Init => HookLog
    BY DEF Init, HookLog, AllHooksOnce, Calling
  <2> QED
    BY <2>1, ShapeInit
<1>2. Shape /\ HookLog /\ [Next]_vars => (Shape /\ HookLog)'
  BY ShapeStep, HookStep
<1>3. HookLog => AllHooksOnce
  BY DEF HookLog
<1> QED
  BY <1>1, <1>2, <1>3, PTL DEF Spec
----------------------------------------------------------------------------
(* What an attempt has raised.                                             *)

\* Every error of a callback is among those the verdict looks at.
Ledger ==
    /\ pc \in {"beforeAll", "beforeEach"} => (dirty <=> cleanup_errors # "none")
    /\ pc \in {"defers", "afterEach", "complete", "judge"} => (dirty <=> failed)

\* Every step but those of callbacks and the start of an attempt.
LEMMA LedgerKept ==
    ASSUME Ledger, UNCHANGED <<dirty, body_error, cleanup_errors>>,
           \/ pc' = pc
           \/ pc' \notin {"beforeAll", "beforeEach", "defers", "afterEach", "complete", "judge"}
           \/ pc = "beforeAll" /\ pc' = "beforeEach"
           \/ pc = "defers" /\ pc' = "afterEach"
           \/ pc \in {"afterEach", "complete"} /\ pc' \in {"complete", "judge"}
    PROVE  Ledger'
BY DEF Ledger, failed

LEMMA LedgerCallbacks ==
    ASSUME Shape, Ledger, CallHook \/ RunBody \/ RunDefer
    PROVE  Ledger'
<1>1. CASE CallHook
  <2>1. PICK e \in Effects :
          /\ dirty' = (dirty \/ e.error # "none")
          /\ IF e.error \in Unprintable
             THEN IF pc \in {"afterEach", "complete"}
                  THEN pc' = "judge" /\ cleanup_errors' = Says(e.error)
                  ELSE pc' = "escaped"
             ELSE /\ UNCHANGED pc
                  /\ cleanup_errors' = IF e.error = "none" THEN cleanup_errors ELSE e.error
    BY <1>1 DEF CallHook, Callback
  <2>2. pc \in HookPcs /\ UNCHANGED body_error
    BY <1>1 DEF CallHook
  <2> QED
    BY <2>1, <2>2 DEF Ledger, failed, HookPcs, Unprintable, Says
<1>2. CASE RunBody
  <2>1. PICK e \in Effects :
          /\ dirty' = (dirty \/ e.error # "none")
          /\ body_error' = IF e.error \in Unprintable THEN "text" ELSE e.error
    BY <1>2 DEF RunBody, Callback
  <2>2. pc = "beforeEach" /\ pc' = "defers" /\ UNCHANGED cleanup_errors
    BY <1>2 DEF RunBody
  <2> QED
    BY <2>1, <2>2 DEF Ledger, failed, Unprintable, Says
<1>3. CASE RunDefer
  <2>1. PICK e \in Effects :
          /\ dirty' = (dirty \/ e.error # "none")
          /\ IF e.error \in Unprintable
             THEN pc' = "judge" /\ cleanup_errors' = Says(e.error)
             ELSE /\ UNCHANGED pc
                  /\ cleanup_errors' = IF e.error = "none" THEN cleanup_errors ELSE e.error
    BY <1>3 DEF RunDefer, Callback
  <2>2. pc = "defers" /\ UNCHANGED body_error
    BY <1>3 DEF RunDefer
  <2> QED
    BY <2>1, <2>2 DEF Ledger, failed, Unprintable, Says
<1> QED
  BY <1>1, <1>2, <1>3

LEMMA LedgerStep == Shape /\ Ledger /\ [Next]_vars => Ledger'
<1> SUFFICES ASSUME Shape, Ledger, [Next]_vars PROVE Ledger'
  OBVIOUS
<1>1. CASE CallHook \/ RunBody \/ RunDefer
  BY <1>1, LedgerCallbacks
<1>2. CASE BeforeTest
  BY <1>2 DEF Ledger, BeforeTest
<1>3. CASE LoadFile \/ LoadFails \/ ReportEscape \/ Finish \/ PassOver \/ StartTest \/ SkipTest
  BY <1>3, LedgerKept DEF LoadFile, LoadFails, ReportEscape, FailFile, Finish, PassOver, StartTest,
     SkipTest, errors, history
<1>4. CASE CloseHooks \/ BeforeAll \/ BeforeAllOver \/ BeforeEach \/ DefersOver \/ AfterEach
  BY <1>4, LedgerKept DEF CloseHooks, BeforeAll, BeforeAllOver, BeforeEach, DefersOver, AfterEach,
     errors, history
<1>5. CASE AfterEachOver \/ CompleteSuite \/ CompleteOver \/ SkipOver
  BY <1>5, LedgerKept DEF AfterEachOver, CompleteSuite, CompleteOver, SkipOver, errors, history
<1>6. CASE Pass \/ RetryTest \/ Fail \/ UNCHANGED vars
  BY <1>6, LedgerKept DEF Pass, RetryTest, Fail, vars, errors, history
<1> QED
  BY <1>1, <1>2, <1>3, <1>4, <1>5, <1>6 DEF Next

\* A passing or failing verdict is written by Pass or by Fail.
LEMMA VerdictSteps ==
    ASSUME Shape, Next, NEW v \in {"pass", "fail"}, out' = Append(out, Event(v, idx)), pc = "judge"
    PROVE  IF v = "pass" THEN Pass ELSE Fail
<1>1. TypeOK /\ Len(out') = Len(out) + 1 /\ Len(out) \in Nat
      /\ out'[Len(out) + 1] = Event(v, idx)
  BY WrittenOne DEF Shape
<1>2. Pass \/ RetryTest \/ Fail
  BY DEF Next, LoadFile, LoadFails, ReportEscape, Finish, PassOver, StartTest, SkipTest, CallHook,
     CloseHooks, BeforeTest, BeforeAll, BeforeAllOver, BeforeEach, RunBody, RunDefer, DefersOver,
     AfterEach, AfterEachOver, CompleteSuite, CompleteOver, SkipOver, HookPcs
<1>3. PICK e \in {Event("pass", idx), Event("fail", idx), Retry(idx, attempt, current.retry)} :
        /\ out' = Append(out, e)
        /\ e = Event("pass", idx) => Pass
        /\ e = Event("fail", idx) => Fail
  <2>1. out' # out
    BY <1>1
  <2>2. /\ Event("pass", idx).event = "pass" /\ Event("fail", idx).event = "fail"
        /\ Retry(idx, attempt, current.retry).event = "retry"
    BY DEF Event, Retry
  <2> QED
    BY <1>2, <2>1, <2>2 DEF Pass, RetryTest, Fail
<1>4. out'[Len(out) + 1] = e
  BY <1>1, <1>3, WrittenOne
<1>5. e = Event(v, idx)
  BY <1>1, <1>4
<1> QED
  BY <1>3, <1>5

\* A test is given a pass when nothing that ran in the attempt raised, hooks and
\* deferred functions included, and a fail when something did; the other way
\* round for a test that is marked fails.
THEOREM VerdictsTrue == Spec => VerdictHonest
<1>1. Init => Shape /\ Ledger
  BY ShapeInit DEF Init, Ledger
<1>2. Shape /\ Ledger /\ [Next]_vars => (Shape /\ Ledger)'
  BY ShapeStep, LedgerStep
<1> DEFINE Honest ==
      \A v \in {"pass", "fail"} :
          out' = Append(out, Event(v, idx)) /\ pc = "judge" =>
              (v = "pass") = (dirty = (current.mode = "fails"))
<1>3. Shape /\ Ledger /\ [Next]_vars => [Honest]_vars
  <2> SUFFICES ASSUME Shape, Ledger, Next, NEW v \in {"pass", "fail"},
                      out' = Append(out, Event(v, idx)), pc = "judge"
               PROVE  (v = "pass") = (dirty = (current.mode = "fails"))
    OBVIOUS
  <2>1. dirty = failed /\ dirty \in BOOLEAN
    BY DEF Ledger, Shape, TypeOK, failed
  <2>2. CASE v = "pass"
    <3>1. accepted
      BY <2>2, VerdictSteps DEF Pass
    <3> QED
      BY <2>1, <2>2, <3>1 DEF accepted
  <2>3. CASE v = "fail"
    <3>1. ~accepted
      BY <2>3, VerdictSteps DEF Fail
    <3> QED
      BY <2>1, <2>3, <3>1 DEF accepted
  <2> QED
    BY <2>2, <2>3
<1> QED
  BY <1>1, <1>2, <1>3, PTL DEF Spec, VerdictHonest
----------------------------------------------------------------------------
(* Deferred functions.                                                     *)

\* Up to the end of the body what is owed is the stack; while deferred
\* functions run, the part of the stack still to come mirrors what has run.
Owing ==
    /\ pc \in {"beforeAll", "beforeEach"} => defer_stack = owed /\ ran = <<>>
    /\ pc = "defers" =>
          /\ Len(owed) <= Len(defer_stack)
          /\ \A i \in 1..Len(owed) : defer_stack[i] = owed[i]
          /\ Len(ran) + pos = Len(owed)
          /\ \A i \in 1..Len(ran) : ran[i] = owed[Len(owed) + 1 - i]
    /\ DefersOnceLatestFirst

LEMMA OwingKept ==
    ASSUME Owing, UNCHANGED <<owed, ran>>,
           \/ pc' = pc /\ pc # "defers" /\ UNCHANGED defer_stack
           \/ pc' = pc /\ pc \in {"afterEach", "complete"}
           \/ pc' \notin {"beforeAll", "beforeEach", "defers", "afterEach", "complete"}
           \/ pc = "beforeAll" /\ pc' = "beforeEach" /\ UNCHANGED defer_stack
           \/ pc = "afterEach" /\ pc' = "complete"
    PROVE  Owing'
BY DEF Owing, DefersOnceLatestFirst

\* What a callback defers is pushed on the stack, and owed up to the body.
LEMMA CallbackDefers ==
    ASSUME TypeOK, NEW e \in Effects, NEW where \in {"setup", "late", "skipped"}, Callback(e, where)
    PROVE  /\ Len(defer_stack) \in Nat /\ Len(defer_stack') \in Nat
           /\ Len(defer_stack') >= Len(defer_stack)
           /\ \A i \in 1..Len(defer_stack) : defer_stack'[i] = defer_stack[i]
           /\ where = "setup" /\ defer_stack = owed => defer_stack' = owed'
           /\ where # "setup" => owed' = owed
<1> DEFINE pushed == Deferred(where, e.defers, defer_stack)
<1>1. e.defers \in Nat
  BY LifecycleAssumption DEF IsEffect
<1>2. defer_stack \in Seq(Deferral)
  BY DEF TypeOK
<1>3. pushed \in Seq(Deferral)
  <2>1. \A i \in 1..e.defers : [where |-> where, n |-> Len(defer_stack) + i] \in Deferral
    BY <1>1, <1>2 DEF Deferral
  <2> QED
    BY <1>1, <2>1 DEF Deferred
<1>4. defer_stack' = defer_stack \o pushed
      /\ owed' = IF where = "setup" THEN owed \o pushed ELSE owed
  BY DEF Callback
<1> HIDE DEF pushed
<1>5. /\ Len(defer_stack) \in Nat /\ Len(pushed) \in Nat
      /\ Len(defer_stack') = Len(defer_stack) + Len(pushed)
      /\ \A i \in 1..Len(defer_stack) : defer_stack'[i] = defer_stack[i]
  BY <1>2, <1>3, <1>4
<1>6. where = "setup" /\ defer_stack = owed => defer_stack' = owed'
  BY <1>4
<1>7. where # "setup" => owed' = owed
  BY <1>4
<1>8. Len(defer_stack') \in Nat /\ Len(defer_stack') >= Len(defer_stack)
  BY <1>5
<1> QED
  BY <1>5, <1>6, <1>7, <1>8

LEMMA OwingRunBody == ASSUME Shape, Owing, RunBody PROVE Owing'
<1>1. PICK e \in Effects : Callback(e, "setup")
  BY DEF RunBody
<1>2. pc = "beforeEach" /\ pc' = "defers" /\ pos' = Len(defer_stack') /\ UNCHANGED ran
  BY DEF RunBody
<1>3. defer_stack = owed /\ ran = <<>>
  BY <1>2 DEF Owing
<1>4. defer_stack' = owed' /\ Len(defer_stack') \in Nat
  BY <1>1, <1>3, CallbackDefers DEF Shape
<1>5. Len(ran') = 0
  BY <1>2, <1>3
<1> QED
  BY <1>2, <1>4, <1>5 DEF Owing, DefersOnceLatestFirst

LEMMA OwingRunDefer == ASSUME Shape, Owing, RunDefer PROVE Owing'
<1>1. PICK e \in Effects :
        /\ Callback(e, "late")
        /\ \/ pc' = "judge"
           \/ pc' = pc /\ pos' = pos - 1
  BY DEF RunDefer
<1>2. pc = "defers" /\ pos > 0 /\ ran' = Append(ran, defer_stack[pos])
  BY DEF RunDefer
<1>3. /\ Len(defer_stack) \in Nat /\ Len(defer_stack') \in Nat
      /\ Len(defer_stack') >= Len(defer_stack)
      /\ \A i \in 1..Len(defer_stack) : defer_stack'[i] = defer_stack[i]
      /\ owed' = owed
  BY <1>1, CallbackDefers DEF Shape
<1>4. CASE pc' = "judge"
  BY <1>4 DEF Owing, DefersOnceLatestFirst
<1>5. CASE pc' = "defers" /\ pos' = pos - 1
  <2>1. /\ pos \in Nat /\ ran \in Seq(Deferral) /\ owed \in Seq(Deferral)
        /\ Len(owed) \in Nat /\ Len(ran) \in Nat
    BY DEF Shape, TypeOK
  <2>2. /\ Len(owed) <= Len(defer_stack) /\ \A i \in 1..Len(owed) : defer_stack[i] = owed[i]
        /\ Len(ran) + pos = Len(owed)
        /\ \A i \in 1..Len(ran) : ran[i] = owed[Len(owed) + 1 - i]
    BY <1>2 DEF Owing
  <2>3. defer_stack[pos] = owed[pos] /\ pos = Len(owed) + 1 - (Len(ran) + 1)
    BY <1>2, <2>1, <2>2
  <2>4. /\ Len(ran') = Len(ran) + 1 /\ ran'[Len(ran) + 1] = owed[pos]
        /\ \A i \in 1..Len(ran) : ran'[i] = ran[i]
    BY <1>2, <2>1, <2>3
  <2>5. \A i \in 1..Len(ran') : ran'[i] = owed[Len(owed) + 1 - i]
    BY <2>1, <2>2, <2>3, <2>4
  <2>6. \A i \in 1..Len(owed) : defer_stack'[i] = owed[i]
    BY <1>3, <2>1, <2>2
  <2>7. Len(owed) <= Len(defer_stack') /\ Len(ran') + pos' = Len(owed)
    BY <1>2, <1>3, <1>5, <2>1, <2>2, <2>4
  <2> QED
    BY <1>3, <1>5, <2>5, <2>6, <2>7 DEF Owing, DefersOnceLatestFirst
<1> QED
  BY <1>1, <1>2, <1>4, <1>5

LEMMA OwingCallHook == ASSUME Shape, Owing, CallHook PROVE Owing'
<1>1. pc \in HookPcs /\ UNCHANGED ran
  BY DEF CallHook
<1>2. PICK e \in Effects :
        /\ Callback(e, IF pc \in SetupPcs THEN "setup"
                       ELSE IF pc = "skipped" THEN "skipped" ELSE "late")
        /\ pc' \in {pc, "judge", "escaped"}
  BY DEF CallHook
<1>3. CASE pc \in SetupPcs
  <2>1. defer_stack = owed /\ ran = <<>>
    BY <1>1, <1>3 DEF Owing, SetupPcs, HookPcs
  <2>2. Callback(e, "setup")
    BY <1>2, <1>3
  <2>3. defer_stack' = owed'
    BY <2>1, <2>2, CallbackDefers DEF Shape
  <2> QED
    BY <1>1, <1>2, <1>3, <2>1, <2>3 DEF Owing, DefersOnceLatestFirst, SetupPcs
<1>4. CASE pc \notin SetupPcs
  <2>1. PICK where \in {"skipped", "late"} : Callback(e, where)
    BY <1>2, <1>4
  <2>2. owed' = owed
    BY <2>1, CallbackDefers DEF Shape
  <2> QED
    BY <1>1, <1>2, <1>4, <2>2, OwingKept DEF SetupPcs, HookPcs
<1> QED
  BY <1>3, <1>4

LEMMA OwingStep == Shape /\ Owing /\ [Next]_vars => Owing'
<1> SUFFICES ASSUME Shape, Owing, [Next]_vars PROVE Owing'
  OBVIOUS
<1>1. CASE BeforeTest
  BY <1>1 DEF Owing, DefersOnceLatestFirst, BeforeTest
<1>2. CASE DefersOver
  <2>1. /\ pc = "defers" /\ pos = 0 /\ pc' = "afterEach" /\ UNCHANGED <<owed, ran>>
    BY <1>2 DEF DefersOver, history
  <2>2. Len(ran) \in Nat /\ Len(owed) \in Nat
    BY DEF Shape, TypeOK
  <2> QED
    BY <2>1, <2>2 DEF Owing, DefersOnceLatestFirst
<1>3. CASE LoadFile \/ LoadFails \/ ReportEscape \/ Finish \/ PassOver \/ StartTest \/ SkipTest
  BY <1>3, OwingKept DEF LoadFile, LoadFails, ReportEscape, FailFile, Finish, PassOver, StartTest,
     SkipTest, history
<1>4. CASE CloseHooks \/ BeforeAll \/ BeforeAllOver \/ BeforeEach \/ AfterEach
  BY <1>4, OwingKept DEF CloseHooks, BeforeAll, BeforeAllOver, BeforeEach, AfterEach, HookPcs,
     history
<1>5. CASE AfterEachOver \/ CompleteSuite \/ CompleteOver \/ SkipOver
  BY <1>5, OwingKept DEF AfterEachOver, CompleteSuite, CompleteOver, SkipOver, history
<1>6. CASE Pass \/ RetryTest \/ Fail
  BY <1>6, OwingKept DEF Pass, RetryTest, Fail, history
<1>7. CASE UNCHANGED vars
  BY <1>7 DEF Owing, DefersOnceLatestFirst, vars, history
<1> QED
  BY <1>1, <1>2, <1>3, <1>4, <1>5, <1>6, <1>7, OwingCallHook, OwingRunBody, OwingRunDefer DEF Next

\* Whatever the hooks and the body of an attempt deferred has been run, each
\* function once and the latest first, when the afterEach hooks begin.
THEOREM DeferredRunOnce == Spec => []DefersOnceLatestFirst
<1>1. Init => Shape /\ Owing
  BY ShapeInit DEF Init, Owing, DefersOnceLatestFirst
<1>2. Shape /\ Owing /\ [Next]_vars => (Shape /\ Owing)'
  BY ShapeStep, OwingStep
<1>3. Owing => DefersOnceLatestFirst
  BY DEF Owing
<1> QED
  BY <1>1, <1>2, <1>3, PTL DEF Spec
----------------------------------------------------------------------------
(* Errors of a file that exits clean.                                      *)

Told ==
    \/ \E i \in 1..Len(out) : out[i].event = "retry"
    \/ \E i \in 1..Len(out) : \E t \in 1..Len(pending_tests) :
          out[i] = Event("pass", t) /\ pending_tests[t].mode = "fails"

\* An error is told of in the stream, or its attempt still goes on, or the
\* file has failed or is about to.
RaisedTold ==
    /\ pc = "load" => ~raised
    /\ raised /\ ~saw_failure /\ pc \notin {"escaped", "crashed"} =>
          \/ Told
          \/ dirty /\ pc \in {"beforeAll", "beforeEach", "defers", "afterEach", "complete", "judge"}

LEMMA ToldKept == ASSUME Shape, [Next]_vars, pc # "load", Told PROVE Told'
<1>1. LogKept
  BY LogStep
<1>2. /\ Len(pending_tests) \in Nat /\ Len(pending_tests') \in Nat
      /\ Len(pending_tests') >= Len(pending_tests)
      /\ \A i \in 1..Len(pending_tests) : pending_tests'[i] = pending_tests[i]
  BY TestsStep
<1>3. \A i \in 1..Len(out) : i \in 1..Len(out') /\ out'[i] = out[i]
  BY <1>1 DEF LogKept
<1>4. \A t \in 1..Len(pending_tests) : t \in 1..Len(pending_tests')
  BY <1>2
<1> QED
  BY <1>2, <1>3, <1>4 DEF Told, Event

\* Steps that are no callbacks and end no attempt.
LEMMA RaisedKept ==
    ASSUME Shape, [Next]_vars, RaisedTold, UNCHANGED raised,
           \/ UNCHANGED <<dirty, pc, saw_failure>>
           \/ saw_failure' = TRUE /\ pc' # "load"
           \/ pc' \in {"escaped", "crashed"}
           \/ /\ UNCHANGED <<dirty, saw_failure>>
              /\ pc' \in {"beforeAll", "beforeEach", "defers", "afterEach", "complete", "judge"}
              /\ pc \notin {"escaped", "crashed", "load"}
           \/ /\ UNCHANGED saw_failure
              /\ pc \in {"load", "next", "before", "skipped"} /\ pc' # "load"
    PROVE  RaisedTold'
<1>1. CASE pc = "load"
  <2>1. saw_failure' \/ pc' \in {"escaped", "crashed"} \/ ~raised'
    BY <1>1 DEF RaisedTold
  <2>2. pc' = "load" => ~raised'
    BY <1>1 DEF RaisedTold
  <2> QED
    BY <2>1, <2>2 DEF RaisedTold
<1>2. CASE pc # "load"
  <2>1. Told => Told'
    BY <1>2, ToldKept
  <2>2. pc' # "load"
    BY <1>2
  <2> QED
    BY <1>2, <2>1, <2>2 DEF RaisedTold
<1> QED
  BY <1>1, <1>2

LEMMA RaisedCallbacks ==
    ASSUME Shape, RaisedTold, CallHook \/ RunBody \/ RunDefer
    PROVE  RaisedTold'
<1>1. [Next]_vars /\ pc # "load"
  BY DEF Next, CallHook, RunBody, RunDefer, HookPcs
<1>2. Told => Told'
  BY <1>1, ToldKept
<1>3. UNCHANGED saw_failure
  BY DEF CallHook, RunBody, RunDefer
<1>4. pc' # "load"
  BY <1>1 DEF CallHook, RunBody, RunDefer
<1>5. CASE pc = "skipped"
  <2>1. raised' = raised /\ pc' \in {"skipped", "escaped"}
    <3>1. CallHook
      BY <1>5 DEF RunBody, RunDefer
    <3>2. PICK e \in Effects : Callback(e, "skipped")
      BY <1>5, <3>1 DEF CallHook, SetupPcs
    <3>3. raised' = raised
      BY <3>2 DEF Callback, RaisedTold, Shape, TypeOK
    <3> QED
      BY <1>5, <3>1, <3>3 DEF CallHook
  <2> QED
    BY <1>2, <1>3, <1>5, <2>1 DEF RaisedTold
<1>6. CASE pc # "skipped"
  <2>1. PICK e \in Effects :
          /\ dirty' = (dirty \/ e.error # "none")
          /\ raised' \in {raised, raised \/ e.error # "none"}
    <3>1. PICK e \in Effects, where \in {"setup", "late", "skipped"} : Callback(e, where)
      BY DEF CallHook, RunBody, RunDefer
    <3>2. dirty' = (dirty \/ e.error # "none")
          /\ raised' = (raised \/ (where # "skipped" /\ e.error # "none"))
      BY <3>1 DEF Callback
    <3> QED
      BY <3>2 DEF Shape, TypeOK
  <2>2. /\ pc \in {"beforeAll", "beforeEach", "defers", "afterEach", "complete", "judge"}
        /\ pc' \in {"beforeAll", "beforeEach", "defers", "afterEach", "complete", "judge", "escaped"}
    BY <1>6 DEF CallHook, RunBody, RunDefer, HookPcs
  <2> QED
    BY <1>2, <1>3, <1>4, <2>1, <2>2 DEF RaisedTold
<1> QED
  BY <1>5, <1>6

\* A pass of an attempt that raised is the pass of a test marked fails.
LEMMA RaisedPass == ASSUME Shape, Ledger, RaisedTold, Pass PROVE RaisedTold'
<1>1. /\ pc = "judge" /\ accepted /\ out' = Append(out, Event("pass", idx)) /\ pc' = "next"
      /\ UNCHANGED <<saw_failure, raised, dirty, pending_tests>>
  BY DEF Pass, history, list
<1>2. [Next]_vars /\ pc # "load"
  BY <1>1 DEF Next
<1>3. Told => Told'
  BY <1>2, ToldKept
<1>4. CASE dirty
  <2>1. current.mode = "fails"
    BY <1>1, <1>4 DEF Ledger, accepted
  <2>2. idx \in 1..Len(pending_tests)
    BY <1>1 DEF Shape, Position, Busy
  <2>3. /\ Len(out) \in Nat /\ Len(out') = Len(out) + 1 /\ out'[Len(out) + 1] = Event("pass", idx)
    BY <1>1, WrittenOne DEF Shape
  <2>4. Len(out) + 1 \in 1..Len(out')
    BY <2>3
  <2>5. pending_tests'[idx].mode = "fails" /\ idx \in 1..Len(pending_tests')
    BY <1>1, <2>1, <2>2 DEF current
  <2>6. \E t \in 1..Len(pending_tests') :
          out'[Len(out) + 1] = Event("pass", t) /\ pending_tests'[t].mode = "fails"
    BY <2>3, <2>5
  <2>7. Told'
    BY <2>4, <2>6 DEF Told, Event
  <2> QED
    BY <1>1, <2>7 DEF RaisedTold
<1>5. CASE ~dirty
  BY <1>1, <1>3, <1>5 DEF RaisedTold
<1> QED
  BY <1>4, <1>5

LEMMA RaisedRetry == ASSUME Shape, RaisedTold, RetryTest PROVE RaisedTold'
<1>1. UNCHANGED <<saw_failure, raised>>
  BY DEF RetryTest, history
<1>2. CASE pc' = "escaped"
  BY <1>2 DEF RaisedTold
<1>3. CASE pc' = "before" /\ out' = Append(out, Retry(idx, attempt, current.retry))
  <2>1. /\ Len(out) \in Nat /\ Len(out') = Len(out) + 1
        /\ out'[Len(out) + 1] = Retry(idx, attempt, current.retry)
    BY <1>3, WrittenOne DEF Shape
  <2>2. Len(out) + 1 \in 1..Len(out') /\ out'[Len(out) + 1].event = "retry"
    BY <2>1 DEF Retry
  <2>3. Told'
    BY <2>2 DEF Told
  <2> QED
    BY <1>3, <2>3 DEF RaisedTold
<1> QED
  BY <1>2, <1>3 DEF RetryTest

LEMMA RaisedStep == Shape /\ Ledger /\ RaisedTold /\ [Next]_vars => RaisedTold'
<1> SUFFICES ASSUME Shape, Ledger, RaisedTold, [Next]_vars PROVE RaisedTold'
  OBVIOUS
<1>1. CASE LoadFile \/ LoadFails \/ ReportEscape
  BY <1>1, RaisedKept DEF LoadFile, LoadFails, ReportEscape, FailFile, history
<1>2. CASE Finish \/ PassOver \/ StartTest \/ SkipTest \/ BeforeTest \/ SkipOver
  <2>1. UNCHANGED <<saw_failure, raised>> /\ pc \in {"next", "before", "skipped"} /\ pc' # "load"
    BY <1>2 DEF Finish, PassOver, StartTest, SkipTest, BeforeTest, SkipOver, history
  <2> QED
    BY <2>1, RaisedKept
<1>3. CASE CloseHooks \/ BeforeAll \/ BeforeEach \/ AfterEach \/ CompleteSuite \/ UNCHANGED vars
  <2>1. UNCHANGED <<saw_failure, raised, dirty, pc>>
    BY <1>3 DEF CloseHooks, BeforeAll, BeforeEach, AfterEach, CompleteSuite, vars, history
  <2> QED
    BY <2>1, RaisedKept
<1>4. CASE BeforeAllOver \/ DefersOver \/ AfterEachOver \/ CompleteOver
  <2>1. /\ UNCHANGED <<saw_failure, raised, dirty>>
        /\ pc \in {"beforeAll", "defers", "afterEach", "complete"}
        /\ pc' \in {"beforeEach", "afterEach", "complete", "judge"}
    BY <1>4 DEF BeforeAllOver, DefersOver, AfterEachOver, CompleteOver, history
  <2> QED
    BY <2>1, RaisedKept
<1>5. CASE Fail
  <2>1. saw_failure' = TRUE /\ pc' # "load" /\ UNCHANGED raised
    BY <1>5 DEF Fail, history
  <2> QED
    BY <2>1, RaisedKept
<1> QED
  BY <1>1, <1>2, <1>3, <1>4, <1>5, RaisedCallbacks, RaisedPass, RaisedRetry DEF Next

\* A file that exits clean has told of every attempt that raised: by a retry,
\* or by the pass of a test that is expected to fail.
THEOREM CleanExitTold == Spec => []CleanExit
<1>1. Init => Shape /\ Ledger /\ RaisedTold
  BY ShapeInit DEF Init, Ledger, RaisedTold
<1>2. Shape /\ Ledger /\ RaisedTold /\ [Next]_vars => (Shape /\ Ledger /\ RaisedTold)'
  BY ShapeStep, LedgerStep, RaisedStep
<1>3. RaisedTold => CleanExit
  BY DEF RaisedTold, Told, CleanExit
<1> QED
  BY <1>1, <1>2, <1>3, PTL DEF Spec
----------------------------------------------------------------------------
(* Announced tests and their verdicts.                                     *)

HasStart(t)   == \E i \in 1..Len(out) : IsStart(i, t)
HasVerdict(t) == \E i \in 1..Len(out) : IsVerdict(i, t)

\* Tests that were announced are selected, tests with a verdict were
\* announced, and every selected test that is behind has its verdict.
Settling ==
    /\ pc = "load" => out = <<>>
    /\ \A i \in 1..Len(out), t \in Nat :
          /\ IsStart(i, t) => t \in 1..Len(pending_tests) /\ Runs(pending_tests[t])
          /\ IsVerdict(i, t) /\ t # 0 => HasStart(t)
    /\ pc # "load" =>
          \A t \in 1..Len(pending_tests) : t < idx /\ Runs(pending_tests[t]) => HasVerdict(t)
    /\ pc \in Busy => HasStart(idx)
    /\ pc = "skipped" => HasVerdict(idx)
    /\ pc = "done" => \/ idx > Len(pending_tests)
                      \/ \E i \in 1..Len(out) : out[i] = FileFailed

\* A step that writes neither a start event nor a verdict.
WritesNeither == WritesNone({"start"} \cup Verdicts)

LEMMA NeitherAdded ==
    ASSUME TypeOK, WritesNeither
    PROVE  \A i \in Added : out'[i].event \notin {"start"} \cup Verdicts
<1>1. CASE out' = out
  BY <1>1 DEF Added, TypeOK
<1>2. ASSUME NEW e, out' = Append(out, e), e.event \notin {"start"} \cup Verdicts
      PROVE  \A i \in Added : out'[i].event \notin {"start"} \cup Verdicts
  <2>1. Len(out) \in Nat /\ Len(out') = Len(out) + 1 /\ out'[Len(out) + 1] = e
    BY <1>2, WrittenOne
  <2>2. \A i \in Added : i = Len(out) + 1
    BY <2>1 DEF Added
  <2> QED
    BY <1>2, <2>1, <2>2
<1>3. ASSUME NEW e, NEW f, out' = Append(Append(out, e), f),
             e.event \notin {"start"} \cup Verdicts, f.event \notin {"start"} \cup Verdicts
      PROVE  \A i \in Added : out'[i].event \notin {"start"} \cup Verdicts
  <2>1. /\ Len(out) \in Nat /\ Len(out') = Len(out) + 2
        /\ out'[Len(out) + 1] = e /\ out'[Len(out) + 2] = f
    BY <1>3, WrittenTwo
  <2>2. \A i \in Added : i = Len(out) + 1 \/ i = Len(out) + 2
    BY <2>1 DEF Added
  <2> QED
    BY <1>3, <2>1, <2>2
<1> QED
  BY <1>1, <1>2, <1>3 DEF WritesNone, WritesNeither

\* What is written after loading keeps its meaning.
LEMMA WrittenKept ==
    ASSUME Shape, [Next]_vars, pc # "load"
    PROVE  /\ \A t : HasStart(t) => HasStart(t)'
           /\ \A t : HasVerdict(t) => HasVerdict(t)'
           /\ \A t \in 1..Len(pending_tests) :
                 /\ t \in 1..Len(pending_tests') /\ pending_tests'[t] = pending_tests[t]
                 /\ Runs(pending_tests[t])' <=> Runs(pending_tests[t])
           /\ Len(pending_tests) \in Nat /\ Len(pending_tests') \in Nat
<1>1. LogKept
  BY LogStep
<1>2. \A i \in 1..Len(out) : i \in 1..Len(out') /\ out'[i] = out[i]
  BY <1>1 DEF LogKept
<1>3. /\ Len(pending_tests) \in Nat /\ Len(pending_tests') \in Nat
      /\ Len(pending_tests') >= Len(pending_tests)
      /\ \A i \in 1..Len(pending_tests) : pending_tests'[i] = pending_tests[i]
  BY TestsStep
<1>4. has_only' = has_only
  BY DEF Next, vars, list, LoadFile, LoadFails, ReportEscape, Finish, PassOver, StartTest, SkipTest,
     CallHook, Callback, CloseHooks, BeforeTest, BeforeAll, BeforeAllOver, BeforeEach, RunBody,
     RunDefer, DefersOver, AfterEach, AfterEachOver, CompleteSuite, CompleteOver, SkipOver, Pass,
     RetryTest, Fail
<1>5. \A t \in 1..Len(pending_tests) : t \in 1..Len(pending_tests')
  BY <1>3
<1>6. \A t : HasStart(t) => HasStart(t)'
  BY <1>2 DEF HasStart, IsStart, Event
<1>7. \A t : HasVerdict(t) => HasVerdict(t)'
  BY <1>2 DEF HasVerdict, IsVerdict
<1>8. \A t \in 1..Len(pending_tests) : Runs(pending_tests[t])' <=> Runs(pending_tests[t])
  BY <1>3, <1>4 DEF Runs
<1> QED
  BY <1>3, <1>5, <1>6, <1>7, <1>8

\* What a step has to do for the events it writes, the test it leaves behind
\* and the one it comes to.
LEMMA SettlingKept ==
    ASSUME Shape, [Next]_vars, Settling, pc # "load",
           \A i \in Added, t \in Nat :
              /\ IsStart(i, t)' => t \in 1..Len(pending_tests) /\ Runs(pending_tests[t])
              /\ IsVerdict(i, t)' /\ t # 0 => HasStart(t)',
           \/ UNCHANGED idx /\ (UNCHANGED pending_tests \/ idx \in 1..Len(pending_tests))
           \/ /\ idx' = idx + 1 /\ UNCHANGED pending_tests
              /\ \/ ~Runs(current)
                 \/ \E i \in 1..Len(out') : out'[i].event \in Verdicts /\ out'[i].id = idx,
           pc' \in Busy => HasStart(idx)',
           pc' = "skipped" => HasVerdict(idx)',
           pc' = "done" => \/ idx' > Len(pending_tests')
                           \/ \E i \in 1..Len(out') : out'[i] = FileFailed
    PROVE  Settling'
<1>1. TypeOK /\ idx \in Nat /\ pc' # "load"
  <2>1. pc' # "load"
    BY DEF Next, vars, LoadFile, LoadFails, ReportEscape, FailFile, Finish, PassOver, StartTest,
       SkipTest, CallHook, CloseHooks, BeforeTest, BeforeAll, BeforeAllOver, BeforeEach, RunBody,
       RunDefer, DefersOver, AfterEach, AfterEachOver, CompleteSuite, CompleteOver, SkipOver, Pass,
       RetryTest, Fail
  <2> QED
    BY <2>1 DEF Shape, TypeOK
<1>2. LogKept
  BY LogStep
<1>3. ASSUME NEW i \in 1..Len(out'), NEW t \in Nat
      PROVE  /\ IsStart(i, t)' => t \in 1..Len(pending_tests') /\ Runs(pending_tests[t])'
             /\ IsVerdict(i, t)' /\ t # 0 => HasStart(t)'
  <2>1. CASE i \in Added
    BY <2>1, WrittenKept
  <2>2. CASE i \notin Added
    <3>1. i \in 1..Len(out) /\ out'[i] = out[i]
      BY <1>2, <2>2 DEF LogKept, Added
    <3>2. (IsStart(i, t)' => IsStart(i, t)) /\ (IsVerdict(i, t)' => IsVerdict(i, t))
      BY <3>1 DEF IsStart, IsVerdict, Event
    <3> QED
      BY <3>1, <3>2, WrittenKept DEF Settling
  <2> QED
    BY <2>1, <2>2
<1>4. ASSUME NEW t \in 1..Len(pending_tests'), t < idx', Runs(pending_tests[t])'
      PROVE  HasVerdict(t)'
  <2>1. t \in 1..Len(pending_tests)
    BY <1>1, <1>4, WrittenKept
  <2>2. Runs(pending_tests[t])
    BY <1>4, <2>1, WrittenKept
  <2>3. CASE t < idx
    BY <2>1, <2>2, <2>3, WrittenKept DEF Settling
  <2>4. CASE ~(t < idx)
    <3>1. t = idx /\ idx' = idx + 1
      BY <1>1, <1>4, <2>1, <2>4
    <3>2. PICK i \in 1..Len(out') : out'[i].event \in Verdicts /\ out'[i].id = idx
      BY <1>1, <2>2, <3>1 DEF current
    <3> QED
      BY <3>1, <3>2 DEF HasVerdict, IsVerdict
  <2> QED
    BY <2>3, <2>4
<1> QED
  BY <1>1, <1>3, <1>4 DEF Settling

LEMMA SettlingLoad ==
    ASSUME Shape, Settling, LoadFile \/ LoadFails
    PROVE  Settling'
<1>1. TypeOK /\ pc = "load" /\ out = <<>>
  BY DEF Shape, Settling, LoadFile, LoadFails
<1>2. CASE LoadFile
  BY <1>1, <1>2 DEF Settling, LoadFile, Busy, SetupPcs
<1>3. CASE LoadFails
  <2>1. \/ pc' = "crashed" /\ out' = <<>>
        \/ pc' = "done" /\ out' = <<FileFailed>>
    BY <1>1, <1>3 DEF LoadFails, FailFile
  <2>2. UNCHANGED <<pending_tests, idx>> /\ idx = 0 /\ Len(pending_tests) \in Nat
    BY <1>1, <1>3 DEF LoadFails, list, Shape, Position, TypeOK
  <2>3. ASSUME NEW i \in 1..Len(out'), NEW t \in Nat
        PROVE  ~IsStart(i, t)' /\ (IsVerdict(i, t)' => t = 0)
    <3>1. out'[i] = FileFailed
      BY <2>1
    <3> QED
      BY <3>1 DEF IsStart, IsVerdict, FileFailed, Event
  <2>4. pc' = "done" => \E i \in 1..Len(out') : out'[i] = FileFailed
    BY <2>1
  <2>5. \A t \in 1..Len(pending_tests') : ~(t < idx')
    BY <2>2
  <2>6. pc' \notin Busy \cup {"load", "skipped"}
    BY <2>1 DEF Busy, SetupPcs
  <2> QED
    BY <2>3, <2>4, <2>5, <2>6 DEF Settling
<1> QED
  BY <1>2, <1>3

\* The steps that write neither a start event nor a verdict.
LEMMA SettlingSilent ==
    ASSUME Shape, Settling,
           \/ Finish \/ PassOver \/ CallHook \/ CloseHooks \/ BeforeTest \/ BeforeAll
           \/ BeforeAllOver \/ BeforeEach \/ RunBody \/ RunDefer \/ DefersOver \/ AfterEach
           \/ AfterEachOver \/ CompleteSuite \/ CompleteOver \/ SkipOver \/ RetryTest
    PROVE  Settling'
<1>1. Next /\ TypeOK /\ pc \in Busy \cup {"next"} /\ idx \in Nat /\ idx > 0
  <2>1. Next /\ pc \in Busy \cup {"next"}
    BY DEF Next, Finish, PassOver, CallHook, CloseHooks, BeforeTest, BeforeAll, BeforeAllOver,
       BeforeEach, RunBody, RunDefer, DefersOver, AfterEach, AfterEachOver, CompleteSuite,
       CompleteOver, SkipOver, RetryTest, Busy, SetupPcs, HookPcs
  <2> QED
    BY <2>1 DEF Shape, Position, TypeOK, Busy, SetupPcs, Ended
<1>2. WritesNeither
  <2>1. /\ \A id, ph, st : Phase(id, ph, st).event \notin {"start"} \cup Verdicts
        /\ Retry(idx, attempt, current.retry).event \notin {"start"} \cup Verdicts
    BY DEF Phase, Retry, Verdicts
  <2>2. CASE Finish \/ PassOver \/ CallHook \/ BeforeTest \/ BeforeAllOver \/ RunDefer \/ DefersOver
             \/ AfterEachOver \/ CompleteOver \/ SkipOver
    BY <2>2 DEF WritesNeither, WritesNone, Finish, PassOver, CallHook, BeforeTest, BeforeAllOver,
       RunDefer, DefersOver, AfterEachOver, CompleteOver, SkipOver
  <2>3. CASE RetryTest \/ RunBody \/ CloseHooks
    BY <2>1, <2>3 DEF WritesNeither, WritesNone, RetryTest, RunBody, CloseHooks, EmitPhase
  <2>4. CASE BeforeAll \/ BeforeEach \/ AfterEach \/ CompleteSuite
    BY <2>1, <2>4 DEF WritesNeither, WritesNone, BeforeAll, BeforeEach, AfterEach, CompleteSuite,
       OpenHooks, EmitPhase
  <2> QED
    BY <2>2, <2>3, <2>4
<1>3. ASSUME NEW i \in Added, NEW t \in Nat PROVE ~IsStart(i, t)' /\ ~IsVerdict(i, t)'
  <2>1. out'[i].event \notin {"start"} \cup Verdicts
    BY <1>1, <1>2, NeitherAdded
  <2> QED
    BY <2>1 DEF IsStart, IsVerdict, Event
<1>4. CASE Finish \/ PassOver \/ SkipOver
  <2>1. pc' = "done" => idx' > Len(pending_tests')
    BY <1>4 DEF Finish, PassOver, SkipOver, list
  <2>2. pc' \notin Busy
    BY <1>4 DEF Finish, PassOver, SkipOver, Busy, SetupPcs
  <2>3. \/ UNCHANGED idx /\ UNCHANGED pending_tests
        \/ /\ idx' = idx + 1 /\ UNCHANGED pending_tests
           /\ ~Runs(current) \/ (pc = "skipped" /\ UNCHANGED out)
    BY <1>4 DEF Finish, PassOver, SkipOver, list
  <2>4. pc = "skipped" /\ UNCHANGED out =>
            \E i \in 1..Len(out') : out'[i].event \in Verdicts /\ out'[i].id = idx
    BY DEF Settling, HasVerdict, IsVerdict
  <2>5. pc # "load" /\ pc' # "skipped"
    BY <1>4, <2>2 DEF Busy, Finish, PassOver, SkipOver
  <2> QED
    BY <1>1, <1>3, <2>1, <2>2, <2>3, <2>4, <2>5, SettlingKept
<1>5. CASE ~(Finish \/ PassOver \/ SkipOver)
  <2>1. pc \in Busy /\ pc' # "done" /\ (pc' = "skipped" => pc = "skipped")
        /\ UNCHANGED idx
    BY <1>5 DEF CallHook, CloseHooks, BeforeTest, BeforeAll, BeforeAllOver, BeforeEach, RunBody,
       RunDefer, DefersOver, AfterEach, AfterEachOver, CompleteSuite, CompleteOver, RetryTest,
       Busy, SetupPcs, HookPcs
  <2>2. idx \in 1..Len(pending_tests) /\ HasStart(idx) /\ (pc = "skipped" => HasVerdict(idx))
    BY <2>1 DEF Shape, Position, Settling
  <2>3. pc # "load"
    BY <2>1 DEF Busy, SetupPcs
  <2>4. PICK n \in Nat : n = idx
    BY <1>1
  <2>5. HasStart(n)' /\ (pc = "skipped" => HasVerdict(n)')
    BY <1>1, <2>2, <2>3, <2>4, WrittenKept
  <2>6. HasStart(idx)' /\ (pc = "skipped" => HasVerdict(idx)')
    BY <2>1, <2>4, <2>5 DEF HasStart, HasVerdict, IsStart, IsVerdict, Event
  <2> QED
    BY <1>1, <1>3, <2>1, <2>2, <2>3, <2>6, SettlingKept
<1> QED
  BY <1>4, <1>5

LEMMA SettlingAnnounce ==
    ASSUME Shape, Settling, StartTest \/ SkipTest
    PROVE  Settling'
<1>1. /\ Next /\ TypeOK /\ pc = "next" /\ UNCHANGED <<idx, pending_tests>> /\ Runs(current)
      /\ idx \in 1..Len(pending_tests) /\ idx \in Nat
  <2>1. Next /\ pc = "next" /\ idx <= Len(pending_tests) /\ Runs(current)
        /\ UNCHANGED <<idx, pending_tests>>
    BY DEF Next, StartTest, SkipTest, list
  <2>2. idx \in Nat /\ idx > 0 /\ Len(pending_tests) \in Nat
    BY <2>1 DEF Shape, Position, TypeOK, Ended
  <2> QED
    BY <2>1, <2>2 DEF Shape
<1>2. CASE UNCHANGED out /\ pc' = "escaped"
  <2>1. Added = {}
    BY <1>1, <1>2 DEF Added, TypeOK
  <2> QED
    BY <1>1, <1>2, <2>1, SettlingKept DEF Busy, SetupPcs
<1>3. CASE out' = Append(out, Event("start", idx)) /\ pc' = "before"
  <2>1. Len(out) \in Nat /\ Len(out') = Len(out) + 1 /\ out'[Len(out) + 1] = Event("start", idx)
    BY <1>1, <1>3, WrittenOne
  <2>2. \A i \in Added : i = Len(out) + 1
    BY <2>1 DEF Added
  <2>3. ASSUME NEW i \in Added, NEW t \in Nat
        PROVE  (IsStart(i, t)' => t = idx) /\ ~IsVerdict(i, t)'
    BY <2>1, <2>2 DEF IsStart, IsVerdict, Event, Verdicts
  <2>4. HasStart(idx)'
    BY <1>1, <2>1 DEF HasStart, IsStart
  <2> QED
    BY <1>1, <1>3, <2>3, <2>4, SettlingKept DEF current
<1>4. CASE /\ current.mode \in {"skip", "todo"} /\ pc' = "skipped"
           /\ out' = Append(Append(out, Event("start", idx)), Event(current.mode, idx))
  <2>1. /\ Len(out) \in Nat /\ Len(out') = Len(out) + 2
        /\ out'[Len(out) + 1] = Event("start", idx) /\ out'[Len(out) + 2] = Event(current.mode, idx)
    BY <1>1, <1>4, WrittenTwo
  <2>2. \A i \in Added : i = Len(out) + 1 \/ i = Len(out) + 2
    BY <2>1 DEF Added
  <2>3. ASSUME NEW i \in Added, NEW t \in Nat
        PROVE  (IsStart(i, t)' => t = idx) /\ (IsVerdict(i, t)' => t = idx)
    BY <1>4, <2>1, <2>2 DEF IsStart, IsVerdict, Event
  <2>4. HasStart(idx)' /\ HasVerdict(idx)'
    <3>1. Len(out) + 1 \in 1..Len(out') /\ Len(out) + 2 \in 1..Len(out')
      BY <2>1
    <3>2. Event(current.mode, idx).event \in Verdicts /\ Event(current.mode, idx).id = idx
      BY <1>4 DEF Event, Verdicts
    <3> QED
      BY <1>1, <2>1, <3>1, <3>2 DEF HasStart, HasVerdict, IsStart, IsVerdict
  <2>5. \A t \in Nat : t = idx => HasStart(t)'
    BY <1>1, <2>4 DEF HasStart, IsStart
  <2> QED
    BY <1>1, <1>4, <2>3, <2>4, <2>5, SettlingKept DEF current
<1> QED
  BY <1>2, <1>3, <1>4 DEF StartTest, SkipTest

LEMMA SettlingJudge ==
    ASSUME Shape, Settling, Pass \/ Fail
    PROVE  Settling'
<1>1. /\ Next /\ TypeOK /\ pc = "judge" /\ UNCHANGED pending_tests
      /\ idx \in 1..Len(pending_tests) /\ idx \in Nat /\ HasStart(idx)
  <2>1. Next /\ pc = "judge" /\ UNCHANGED pending_tests
    BY DEF Next, Pass, Fail, list
  <2> QED
    BY <2>1 DEF Shape, Position, TypeOK, Busy, Settling
<1>2. CASE UNCHANGED <<out, idx>> /\ pc' = "escaped"
  <2>1. Added = {}
    BY <1>1, <1>2 DEF Added, TypeOK
  <2> QED
    BY <1>1, <1>2, <2>1, SettlingKept DEF Busy, SetupPcs
<1>3. ASSUME NEW v \in {"pass", "fail"}, out' = Append(out, Event(v, idx)), pc' = "next",
             idx' = idx + 1
      PROVE  Settling'
  <2>1. Len(out) \in Nat /\ Len(out') = Len(out) + 1 /\ out'[Len(out) + 1] = Event(v, idx)
    BY <1>1, <1>3, WrittenOne
  <2>2. \A i \in Added : i = Len(out) + 1
    BY <2>1 DEF Added
  <2>3. ASSUME NEW i \in Added, NEW t \in Nat
        PROVE  ~IsStart(i, t)' /\ (IsVerdict(i, t)' => t = idx)
    BY <1>3, <2>1, <2>2 DEF IsStart, IsVerdict, Event
  <2>4. \E i \in 1..Len(out') : out'[i].event \in Verdicts /\ out'[i].id = idx
    <3>1. Len(out) + 1 \in 1..Len(out')
      BY <2>1
    <3>2. Event(v, idx).event \in Verdicts /\ Event(v, idx).id = idx
      BY <1>3 DEF Event, Verdicts
    <3> QED
      BY <2>1, <3>1, <3>2
  <2>5. \A t \in Nat : t = idx => HasStart(t)'
    BY <1>1, WrittenKept
  <2> QED
    BY <1>1, <1>3, <2>3, <2>4, <2>5, SettlingKept DEF Busy, SetupPcs
<1> QED
  BY <1>2, <1>3 DEF Pass, Fail

LEMMA SettlingEscape ==
    ASSUME Shape, Settling, ReportEscape
    PROVE  Settling'
<1>1. /\ Next /\ TypeOK /\ pc = "escaped" /\ UNCHANGED <<pending_tests, idx>>
      /\ \/ out' = Append(out, FileFailed) /\ pc' = "done"
         \/ out' = out /\ pc' = "crashed"
  BY DEF Next, ReportEscape, FailFile, list, Shape
<1>2. CASE out' = Append(out, FileFailed) /\ pc' = "done"
  <2>1. Len(out) \in Nat /\ Len(out') = Len(out) + 1 /\ out'[Len(out) + 1] = FileFailed
    BY <1>1, <1>2, WrittenOne
  <2>2. \A i \in Added : i = Len(out) + 1
    BY <2>1 DEF Added
  <2>3. ASSUME NEW i \in Added, NEW t \in Nat
        PROVE  ~IsStart(i, t)' /\ (IsVerdict(i, t)' => t = 0)
    BY <2>1, <2>2 DEF IsStart, IsVerdict, FileFailed, Event
  <2>4. \E i \in 1..Len(out') : out'[i] = FileFailed
    <3>1. Len(out) + 1 \in 1..Len(out')
      BY <2>1
    <3> QED
      BY <2>1, <3>1
  <2> QED
    BY <1>1, <1>2, <2>3, <2>4, SettlingKept DEF Busy, SetupPcs
<1>3. CASE out' = out /\ pc' = "crashed"
  <2>1. Added = {}
    BY <1>1, <1>3 DEF Added, TypeOK
  <2> QED
    BY <1>1, <1>3, <2>1, SettlingKept DEF Busy, SetupPcs
<1> QED
  BY <1>1, <1>2, <1>3

LEMMA SettlingStep == Shape /\ Settling /\ [Next]_vars => Settling'
<1>1. ASSUME Settling, UNCHANGED vars PROVE Settling'
  BY <1>1 DEF Settling, HasStart, HasVerdict, IsStart, IsVerdict, Runs, vars, list
<1> QED
  BY <1>1, SettlingLoad, SettlingSilent, SettlingAnnounce, SettlingJudge, SettlingEscape DEF Next

\* At the end of a file that was not reported as failed, the tests that were
\* announced, those with a verdict and those that are selected are the same.
THEOREM TestsSettled == Spec => []SelectedTestsSettled
<1>1. Init => Shape /\ Settling
  BY ShapeInit DEF Init, Settling, Busy, SetupPcs
<1>2. Shape /\ Settling /\ [Next]_vars => (Shape /\ Settling)'
  BY ShapeStep, SettlingStep
<1>3. Shape /\ Settling => SelectedTestsSettled
  <2> SUFFICES ASSUME Shape, Settling, pc = "done",
                      ~(\E i \in 1..Len(out) : out[i] = FileFailed),
                      NEW t \in 1..Len(pending_tests)
               PROVE  /\ Runs(pending_tests[t]) <=> HasStart(t)
                      /\ Runs(pending_tests[t]) <=> HasVerdict(t)
    BY DEF SelectedTestsSettled, HasStart, HasVerdict
  <2>1. t \in Nat /\ t # 0 /\ t < idx
    BY DEF Settling, Shape, TypeOK
  <2>2. Runs(pending_tests[t]) => HasVerdict(t)
    BY <2>1 DEF Settling
  <2>3. HasVerdict(t) => HasStart(t)
    BY <2>1 DEF Settling, HasVerdict
  <2>4. HasStart(t) => Runs(pending_tests[t])
    BY <2>1 DEF Settling, HasStart
  <2> QED
    BY <2>2, <2>3, <2>4
<1> QED
  BY <1>1, <1>2, <1>3, PTL DEF Spec
=============================================================================
