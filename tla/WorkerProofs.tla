---------------------------- MODULE WorkerProofs ----------------------------
(***************************************************************************)
(* Proofs about the worker process, for every number of files and tests:   *)
(* its exit code, the files it runs, and the last coverage event of a      *)
(* file.                                                                   *)
(***************************************************************************)
EXTENDS Worker, TLAPS

Config == /\ mode \in {"run", "list"} /\ files \in Nat
          /\ use_file \in BOOLEAN /\ use_progress \in BOOLEAN /\ progress_total \in Nat

\* The file under way has not ended, the files before it have, in the way the
\* mode allows, and saw_failure is set once one of them did not pass.
Loop ==
    /\ Len(ran) = index
    /\ pc = "resolve" => index = 0
    /\ pc \in {"next", "load", "tests", "collect"} => files > 0
    /\ pc \in {"load", "tests"} => mode = "run"
    /\ pc = "collect" => mode = "list"
    /\ pc \in {"load", "tests", "collect"} => index > 0 /\ ran[index] = "started"
    /\ pc # "over" => \A i \in 1..index :
          \/ i = index /\ pc # "next"
          \/ ran[i] \in IF mode = "run" THEN {"passed", "failed", "broken"} ELSE {"listed"}
    /\ pc # "over" => (saw_failure <=> \E i \in 1..index : ran[i] \in {"failed", "broken"})

Inv == Config /\ TypeOK /\ Loop /\ ExitCodeHonest /\ CoverageFinal
----------------------------------------------------------------------------
(* What the loop and the emitter leave behind.                             *)

\* How the file under way ended is noted in its own place.
LEMMA EndedNotes ==
    ASSUME TypeOK, Loop, index > 0,
           NEW how \in {"started", "broken", "failed", "passed", "listed"}, Ended(how)
    PROVE  /\ ran' \in Seq({"started", "broken", "failed", "passed", "listed"})
           /\ Len(ran') = Len(ran) /\ ran'[index] = how
           /\ \A i \in 1..index : i # index => ran'[i] = ran[i]
<1>1. ran \in Seq({"started", "broken", "failed", "passed", "listed"}) /\ index \in 1..Len(ran)
  BY DEF TypeOK, Loop
<1> QED
  BY <1>1 DEF Ended

\* What is due is a sequence of at most two events, and a last event that is
\* due shows the report or every test completed.
LEMMA EmissionsLast ==
    ASSUME Config, NEW n \in Nat, NEW e \in Emissions(n)
    PROVE  /\ e \in Seq(Event)
           /\ counts_tests => Len(e) > 0 /\ e[Len(e)] \in {Table, Progress(n)}
<1>1. Table \in Event /\ Progress(n) \in Event
  BY DEF Config, Table, Progress, Event
<1>2. e \in {<<>>, <<Table>>, <<Progress(n)>>}
  BY DEF Emissions
<1>3. counts_tests => e # <<>>
  BY DEF Emissions
<1>4. CASE e = <<>>
  BY <1>3, <1>4
<1>5. CASE e = <<Table>>
  BY <1>1, <1>5
<1>6. CASE e = <<Progress(n)>>
  BY <1>1, <1>6
<1> QED
  BY <1>2, <1>4, <1>5, <1>6

\* The events of a file are appended to; the last one stays the last.
LEMMA Appended ==
    ASSUME NEW s \in Seq(Event), NEW e \in Seq(Event)
    PROVE  /\ s \o e \in Seq(Event)
           /\ Len(e) > 0 => (s \o e)[Len(s \o e)] = e[Len(e)]
OBVIOUS

----------------------------------------------------------------------------
(* The steps.                                                              *)

LEMMA InitInv == Init => Inv
<1> SUFFICES ASSUME Init PROVE Inv
  OBVIOUS
<1>1. Config
  BY WorkerAssumption DEF Init, Config
<1>2. TypeOK
  <2>1. /\ index \in 0..files /\ tests \in 0..MaxTests /\ printed \in 0..tests /\ executed_ \in 0..tests
    BY <1>1, WorkerAssumption DEF Init, Config
  <2>2. /\ coverage \in Seq(Event) /\ Len(ran) <= index
        /\ ran \in Seq({"started", "broken", "failed", "passed", "listed"})
    BY DEF Init
  <2> QED
    BY <2>1, <2>2 DEF Init, TypeOK
<1> QED
  BY <1>1, <1>2 DEF Init, Inv, Loop, ExitCodeHonest, CoverageFinal

LEMMA InvResolve == Inv /\ Resolve => Inv'
<1> SUFFICES ASSUME Inv, Resolve PROVE Inv'
  OBVIOUS
<1> USE DEF Inv, Resolve, config, emitter
<1>1. Config'
  BY DEF Config
<1>2. TypeOK'
  BY DEF TypeOK, Throw, Exit, Event
<1>3. Loop'
  BY DEF Loop, Config, Throw, Exit
<1>4. ExitCodeHonest'
  BY DEF Loop, Config, ExitCodeHonest, Throw, Exit
<1>5. CoverageFinal'
  BY DEF CoverageFinal, Loop, Throw, Exit, TypeOK
<1> QED
  BY <1>1, <1>2, <1>3, <1>4, <1>5

LEMMA InvNextFile == Inv /\ NextFile => Inv'
<1> SUFFICES ASSUME Inv, NextFile PROVE Inv'
  OBVIOUS
<1> USE DEF Inv, NextFile, config
<1>1. Config'
  BY DEF Config
<1>2. /\ ran \in Seq({"started", "broken", "failed", "passed", "listed"})
      /\ ran' = Append(ran, "started") /\ index' = index + 1 /\ index \in Nat /\ Len(ran) = index
  BY DEF TypeOK, Loop, Config
<1>3. /\ Len(ran') = index' /\ index' > 0 /\ ran'[index'] = "started"
      /\ \A i \in 1..index : ran'[i] = ran[i]
  BY <1>2
<1>4. TypeOK'
  <2>1. <<Progress(0)>> \in Seq(Event) /\ <<>> \in Seq(Event) /\ Event' = Event
    BY DEF Config, Progress, Event
  <2>2. coverage' \in Seq(Event')
    BY <2>1
  <2>3. index' \in 0..files'
    BY <1>2 DEF Config
  <2>4. ran' \in Seq({"started", "broken", "failed", "passed", "listed"}) /\ Len(ran') <= index'
    BY <1>2, <1>3
  <2>5. /\ pc' \in {"load", "collect", "over"} /\ exit' \in {exit, "failure"}
        /\ file_failure' = FALSE /\ executed_' = 0
    BY DEF Throw, Exit
  <2>6. /\ tests' \in 0..MaxTests /\ printed' \in 0..tests' /\ executed_' \in 0..tests'
    BY <2>5 DEF TypeOK
  <2> QED
    BY <2>2, <2>3, <2>4, <2>5, <2>6 DEF TypeOK
<1>5. Loop'
  <2>1. \A i \in 1..index' : i = index' \/ i \in 1..index
    BY <1>2
  <2>2. \A i \in 1..index : i \in 1..index' /\ i # index'
    BY <1>2
  <2>3. pc' # "over" => saw_failure' <=> \E i \in 1..index' : ran'[i] \in {"failed", "broken"}
    BY <1>3, <2>1, <2>2 DEF Loop
  <2>4. pc' # "over" => \A i \in 1..index' :
          \/ i = index' /\ pc' # "next"
          \/ ran'[i] \in IF mode' = "run" THEN {"passed", "failed", "broken"} ELSE {"listed"}
    BY <1>3, <2>1, <2>2 DEF Loop, Throw, Exit
  <2> QED
    BY <1>3, <2>3, <2>4 DEF Loop, Throw, Exit
<1>6. ExitCodeHonest'
  <2>1. pc' = "over" => exit' = "failure"
    BY DEF Throw, Exit
  <2>2. index' \in 1..files' \/ Len(ran') # files'
    BY <1>2, <1>3 DEF Config
  <2> QED
    BY <1>3, <2>1, <2>2 DEF ExitCodeHonest
<1>7. CoverageFinal'
  BY DEF CoverageFinal, Throw, Exit
<1> QED
  BY <1>1, <1>4, <1>5, <1>6, <1>7

\* The file under way ends with how, and the loop goes on or is left.
LEMMA InvEnded ==
    ASSUME Inv, pc \in {"load", "tests", "collect"},
           NEW how \in {"broken", "failed", "passed", "listed"}, Ended(how),
           UNCHANGED <<config, index>>,
           \/ /\ pc' = "next" /\ exit' = exit
              /\ how \in IF mode = "run" THEN {"passed", "failed", "broken"} ELSE {"listed"}
              /\ saw_failure' = (how \in {"failed", "broken"} \/ saw_failure)
           \/ how = "broken" /\ Throw
    PROVE  Config' /\ Loop' /\ ExitCodeHonest'
<1> USE DEF Inv, config
<1>1. Config'
  BY DEF Config
<1>2. /\ Len(ran') = Len(ran) /\ ran'[index] = how
      /\ \A i \in 1..index : i # index => ran'[i] = ran[i]
  BY EndedNotes DEF Loop
<1>3. index \in 1..index /\ index' = index /\ files' = files /\ mode' = mode
  BY DEF TypeOK, Config, Loop
<1>4. Loop'
  <2>1. CASE pc' = "next"
    <3>1. /\ how \in IF mode = "run" THEN {"passed", "failed", "broken"} ELSE {"listed"}
          /\ saw_failure' = (how \in {"failed", "broken"} \/ saw_failure)
      BY <2>1 DEF Throw, Exit
    <3>2. \A i \in 1..index : ran'[i] \in IF mode = "run" THEN {"passed", "failed", "broken"} ELSE {"listed"}
      BY <1>2, <3>1 DEF Loop
    <3>3. saw_failure <=> \E i \in 1..index : i # index /\ ran[i] \in {"failed", "broken"}
      BY DEF Loop
    <3>4. saw_failure' <=> \E i \in 1..index : ran'[i] \in {"failed", "broken"}
      BY <1>2, <1>3, <3>1, <3>3
    <3> QED
      BY <1>2, <1>3, <2>1, <3>2, <3>4 DEF Loop
  <2>2. CASE pc' = "over"
    BY <1>2, <1>3, <2>2 DEF Loop
  <2> QED
    BY <2>1, <2>2 DEF Throw, Exit
<1>5. ExitCodeHonest'
  <2>1. CASE pc' = "next"
    BY <2>1 DEF ExitCodeHonest
  <2>2. CASE how = "broken" /\ Throw
    <3>1. Len(ran') = files' => index \in 1..files'
      BY <1>2, <1>3 DEF Loop
    <3> QED
      BY <1>2, <1>3, <2>2, <3>1 DEF ExitCodeHonest, Throw, Exit
  <2> QED
    BY <2>1, <2>2
<1> QED
  BY <1>1, <1>4, <1>5

LEMMA InvLoad == Inv /\ (LoadFails \/ Loaded) => Inv'
<1>1. ASSUME Inv, Loaded PROVE Inv'
  BY <1>1 DEF Inv, Loaded, Config, TypeOK, Loop, ExitCodeHonest, CoverageFinal, config, emitter, Event
<1>2. ASSUME Inv, LoadFails PROVE Inv'
  <2> USE <1>2 DEF Inv
  <2>1. Config' /\ Loop' /\ ExitCodeHonest'
    <3>1. /\ pc = "load" /\ mode = "run" /\ Ended("broken") /\ UNCHANGED <<config, index>>
          /\ \/ pc' = "next" /\ exit' = exit /\ saw_failure' = TRUE
             \/ Throw
      BY DEF LoadFails, Returns, Loop
    <3> QED
      BY <3>1, InvEnded
  <2>2. ran' \in Seq({"started", "broken", "failed", "passed", "listed"}) /\ Len(ran') = Len(ran)
        /\ ran'[index] = "broken"
    BY EndedNotes DEF LoadFails, Loop
  <2>3. TypeOK'
    BY <2>2 DEF TypeOK, LoadFails, Returns, Throw, Exit, config, emitter, Event
  <2>4. CoverageFinal'
    BY <2>2 DEF CoverageFinal, LoadFails
  <2> QED
    BY <2>1, <2>3, <2>4
<1> QED
  BY <1>1, <1>2

LEMMA InvTestCompletes == Inv /\ TestCompletes => Inv'
<1> SUFFICES ASSUME Inv, TestCompletes PROVE Inv'
  OBVIOUS
<1> USE DEF Inv, TestCompletes, config
<1>1. Config'
  BY DEF Config
<1>2. /\ executed_ \in Nat /\ tests' \in 0..MaxTests /\ tests \in Nat
      /\ executed_' \in 0..tests' /\ printed' \in 0..tests'
  BY WorkerAssumption DEF TypeOK, on_test_completed, emitter
<1>3. coverage' \in Seq(Event)
  <2>1. CASE enabled
    <3>1. executed_' \in Nat /\ maybe_emit(executed_')
      BY <1>2, <2>1 DEF on_test_completed
    <3>2. PICK e \in Emissions(executed_') \cup {<<>>} : coverage' = coverage \o e
      BY <3>1 DEF maybe_emit
    <3>3. CASE e = <<>>
      BY <3>2, <3>3, Appended DEF TypeOK
    <3>4. CASE e \in Emissions(executed_')
      <4>1. e \in Seq(Event)
        BY <3>1, <3>4, EmissionsLast
      <4> QED
        BY <3>2, <4>1, Appended DEF TypeOK
    <3> QED
      BY <3>2, <3>3, <3>4
  <2>2. CASE ~enabled
    BY <2>2 DEF on_test_completed, emitter, TypeOK
  <2> QED
    BY <2>1, <2>2
<1>4. TypeOK'
  BY <1>2, <1>3 DEF TypeOK, Event
<1>5. Loop' /\ ExitCodeHonest' /\ CoverageFinal'
  BY DEF Loop, ExitCodeHonest, CoverageFinal
<1> QED
  BY <1>1, <1>4, <1>5

LEMMA InvRunEnds == Inv /\ RunEnds => Inv'
<1> SUFFICES ASSUME Inv, RunEnds PROVE Inv'
  OBVIOUS
<1> USE DEF Inv, RunEnds, config
<1>1. PICK failed \in BOOLEAN :
          LET failure == file_failure \/ failed IN
          /\ file_failure' = failure
          /\ Ended(IF failure THEN "failed" ELSE "passed")
          /\ Returns(failure)
  OBVIOUS
<1> DEFINE how == IF file_failure \/ failed THEN "failed" ELSE "passed"
<1>2. how \in {"failed", "passed"} /\ Ended(how) /\ mode = "run"
  BY <1>1 DEF Loop
<1>3. /\ pc' = "next" /\ exit' = exit
      /\ saw_failure' = (how \in {"failed", "broken"} \/ saw_failure)
  BY <1>1 DEF Returns
<1> HIDE DEF how
<1>4. Config' /\ Loop' /\ ExitCodeHonest'
  BY <1>2, <1>3, InvEnded
<1>5. PICK e \in Emissions(executed_) : coverage' = coverage \o e
  BY DEF finish
<1>6. /\ e \in Seq(Event) /\ coverage \in Seq(Event)
      /\ counts_tests => Len(e) > 0 /\ e[Len(e)] \in {Table, Progress(executed_)}
  BY <1>5, EmissionsLast DEF TypeOK
<1>7. ran' \in Seq({"started", "broken", "failed", "passed", "listed"}) /\ Len(ran') = Len(ran)
  BY <1>2, EndedNotes DEF Loop
<1>8. TypeOK'
  <2>1. coverage' \in Seq(Event')
    BY <1>5, <1>6, Appended DEF Event
  <2>2. file_failure' \in BOOLEAN /\ saw_failure' \in BOOLEAN
    BY <1>1, <1>3 DEF TypeOK
  <2> QED
    BY <1>3, <1>7, <2>1, <2>2 DEF TypeOK
<1>9. CoverageFinal'
  <2>1. counts_tests => coverage'[Len(coverage')] \in {Table, Progress(executed_)}
    BY <1>5, <1>6, Appended
  <2> QED
    BY <2>1 DEF CoverageFinal, counts_tests, Progress
<1> QED
  BY <1>4, <1>8, <1>9

LEMMA InvThrows == Inv /\ (RunThrows \/ CollectFails) => Inv'
<1> SUFFICES ASSUME Inv, RunThrows \/ CollectFails PROVE Inv'
  OBVIOUS
<1> USE DEF Inv
<1>1. /\ pc \in {"tests", "collect"} /\ Ended("broken") /\ Throw
      /\ UNCHANGED <<config, index, saw_failure, tests, printed, emitter>>
      /\ file_failure' \in {TRUE, file_failure}
  BY DEF RunThrows, CollectFails
<1>2. Config' /\ Loop' /\ ExitCodeHonest'
  BY <1>1, InvEnded
<1>3. ran' \in Seq({"started", "broken", "failed", "passed", "listed"}) /\ Len(ran') = Len(ran)
  BY <1>1, EndedNotes DEF Loop
<1>4. TypeOK'
  BY <1>1, <1>3 DEF TypeOK, Throw, Exit, config, emitter, Event
<1>5. CoverageFinal'
  BY <1>1 DEF CoverageFinal, Throw, Exit
<1> QED
  BY <1>2, <1>4, <1>5

LEMMA InvCollect == Inv /\ Collect => Inv'
<1> SUFFICES ASSUME Inv, Collect PROVE Inv'
  OBVIOUS
<1> USE DEF Inv, Collect
<1>1. saw_failure = FALSE /\ mode = "list"
  BY DEF Loop, TypeOK
<1>2. Config' /\ Loop' /\ ExitCodeHonest'
  <2>1. /\ pc \in {"load", "tests", "collect"} /\ Ended("listed") /\ UNCHANGED <<config, index>>
        /\ pc' = "next" /\ exit' = exit
        /\ "listed" \in IF mode = "run" THEN {"passed", "failed", "broken"} ELSE {"listed"}
        /\ saw_failure' = ("listed" \in {"failed", "broken"} \/ saw_failure)
    BY <1>1 DEF config, emitter
  <2> QED
    BY <2>1, InvEnded
<1>3. ran' \in Seq({"started", "broken", "failed", "passed", "listed"}) /\ Len(ran') = Len(ran)
  BY EndedNotes DEF Loop
<1>4. /\ tests' \in 0..MaxTests /\ printed' \in 0..tests' /\ executed_' \in 0..tests'
  BY WorkerAssumption DEF TypeOK, emitter
<1>5. TypeOK'
  BY <1>3, <1>4 DEF TypeOK, config, emitter, Event
<1>6. CoverageFinal'
  BY <1>1 DEF CoverageFinal, config
<1> QED
  BY <1>2, <1>5, <1>6

LEMMA InvOver == Inv /\ (RunOver \/ PrintList) => Inv'
<1> SUFFICES ASSUME Inv, RunOver \/ PrintList PROVE Inv'
  OBVIOUS
<1> USE DEF Inv
<1>1. /\ pc = "next" /\ index = files /\ pc' = "over"
      /\ UNCHANGED <<config, index, saw_failure, file_failure, tests, emitter, ran>>
      /\ printed' \in {printed, tests}
      /\ exit' = IF mode = "run" /\ saw_failure THEN "failure" ELSE "success"
  BY DEF RunOver, PrintList, Exit
<1>2. Config' /\ Loop' /\ CoverageFinal'
  BY <1>1 DEF Config, Loop, CoverageFinal, config
<1>3. TypeOK'
  BY <1>1 DEF TypeOK, config, emitter, Event
<1>4. ExitCodeHonest'
  BY <1>1 DEF ExitCodeHonest, Loop, Config, config
<1> QED
  BY <1>2, <1>3, <1>4

LEMMA InvStep == Inv /\ [Next]_vars => Inv'
<1>1. ASSUME Inv, UNCHANGED vars PROVE Inv'
  BY <1>1 DEF Inv, Config, TypeOK, Loop, ExitCodeHonest, CoverageFinal, vars, config, emitter, Event,
              counts_tests, Progress
<1> QED
  BY <1>1, InvResolve, InvNextFile, InvLoad, InvTestCompletes, InvRunEnds, InvThrows, InvCollect, InvOver
     DEF Next

\* At every moment the files so far are noted as the mode allows, saw_failure
\* agrees with the notes, and the last coverage events are honest.
THEOREM WorkerInvariant == Spec => []Inv
BY InitInv, InvStep, PTL DEF Spec

\* The worker exits with success exactly when there were files and each was
\* run, or listed, to its end without a failure.
THEOREM ExitCodeTrue == Spec => []ExitCodeHonest
<1>1. Inv => ExitCodeHonest
  BY DEF Inv
<1> QED
  BY <1>1, WorkerInvariant, PTL

\* A failure in one file does not keep another from being run.
THEOREM AllFilesRun == Spec => []EveryFileRuns
<1>1. Inv => EveryFileRuns
  BY DEF Inv, Loop, EveryFileRuns
<1> QED
  BY <1>1, WorkerInvariant, PTL

\* The last coverage event of a file counts all its tests, or shows the report.
THEOREM LastCoverageCounts == Spec => []CoverageFinal
<1>1. Inv => CoverageFinal
  BY DEF Inv
<1> QED
  BY <1>1, WorkerInvariant, PTL
============================================================================
