----------------------------- MODULE FilesProofs -----------------------------
(***************************************************************************)
(* Proofs about mock files and snapshots, for every set of workers, paths, *)
(* snapshot names and texts, every way in which paths and names meet in    *)
(* files, and every bound: what a test reads of its mock file, that mock   *)
(* directories are cleaned up, and what a snapshot comparison decides.     *)
(***************************************************************************)
EXTENDS Files, TLAPS
----------------------------------------------------------------------------
(* The state.                                                              *)

Content == Text \cup {Empty, NoFile, Garbled}
Mock == [file : MockFile, text : Text, kept : BOOLEAN, intact : BOOLEAN]

Openings  == [kind : {"opening"}, file : MockFile, text : Text]
Mocking   == [kind : {"mock"}, file : MockFile, text : Text, alone : BOOLEAN, linked : BOOLEAN]
Snapping  == [kind : {"snapshot"}, file : {Snapshot(n) : n \in Name}, name : Name, text : Text,
              alone : BOOLEAN]
Removings == [kind : {"removing"}, dir : {DirOf(f) : f \in MockFile}]
Jobs      == {Idle} \cup Openings \cup Mocking \cup Snapping \cup Removings

\* The shape of the state.
Shape ==
    /\ counter \in [Worker -> 0..MaxMocks] /\ update \in [Worker -> BOOLEAN]
    /\ job \in [Worker -> Jobs] /\ live \in [Worker -> SUBSET Mock]
    /\ disk \in [File -> Content] /\ golden \in [Name -> Text \cup {NoFile}]
    /\ \A w \in Worker : job[w].kind = "snapshot" => job[w].file = Snapshot(job[w].name)

\* A process numbers its mock files: no two of those it has share a number,
\* nor does the one that it is making.
NumbersOf(w) ==
    /\ job[w].kind \in {"opening", "mock"} => job[w].file[1] = counter[w]
    /\ \A m \in live[w] :
          /\ m.file[1] <= counter[w]
          /\ job[w].kind \in {"opening", "mock"} => m.file[1] < counter[w]
    /\ \A m, o \in live[w] : m.file[1] = o.file[1] => m = o

Numbered == \A w \in Worker : NumbersOf(w)

\* A process that is alone with the file it has opened finds it as it left
\* it, and no other has it open.
FindsItsFile(w) ==
    job[w].kind \in {"mock", "snapshot"} /\ job[w].alone =>
        /\ disk[job[w].file] = Empty
        /\ job[w].kind = "mock" => job[w].linked
        /\ \A v \in Others(w) : ~IsWriting(v, job[w].file)

Alone == \A w \in Worker : FindsItsFile(w)

Shared(n) == \E o \in Name : o # n /\ KeyOf[o] = KeyOf[n]

\* A snapshot that is open is spoiled; one that is not spoiled and has one
\* name holds the text of its last update.
Snapshots ==
    /\ \A w \in Worker : job[w].kind = "snapshot" => job[w].file \in spoiled
    /\ \A n \in Name : Snapshot(n) \notin spoiled /\ ~Shared(n) => disk[Snapshot(n)] = golden[n]

\* A clean-up that is registered, or the file of one still to be registered,
\* is there for the directory.
Kept(dir) ==
    \/ dir \in leaked
    \/ \E w \in Worker :
          \/ job[w].kind = "mock" /\ dir = DirOf(job[w].file)
          \/ \E m \in live[w] : m.kept /\ dir = DirOf(m.file)

Coming(dir) ==
    \E w \in Worker : \/ job[w].kind = "opening" /\ dir = DirOf(job[w].file)
                      \/ job[w].kind = "removing" /\ dir = job[w].dir

\* Every directory there is, and every file in one, has somebody to remove it.
Owned ==
    /\ \A dir \in dirs : Kept(dir) \/ Coming(dir)
    /\ \A f \in MockFile : disk[f] # NoFile => Kept(DirOf(f))

----------------------------------------------------------------------------
(* What a step of one process does to the others.                          *)

\* k is the job j, which may no longer be alone.
SameJob(j, k) ==
    /\ k \in Jobs /\ k.kind = j.kind
    /\ j.kind \in {"opening", "mock", "snapshot"} => k.file = j.file /\ k.text = j.text
    /\ j.kind = "snapshot" => k.name = j.name
    /\ j.kind = "removing" => k.dir = j.dir

\* w touches the files in fs: another process that has one of them open is
\* not alone with it any more, and a mock file that was touched is not intact.
Touches(w, fs) ==
    /\ fs \subseteq File
    /\ \A f \in File \ fs : disk'[f] = disk[f]
    /\ job'[w].kind \in {"mock", "snapshot"} => job'[w].file \in fs
    /\ \A v \in Others(w) :
          /\ counter'[v] = counter[v]
          /\ SameJob(job[v], job'[v])
          /\ job[v].kind \in {"mock", "snapshot"} /\ job'[v].alone =>
                job'[v] = job[v] /\ job[v].file \notin fs
          /\ (live'[v] = live[v] /\ fs \cap MockFile = {}) \/ live'[v] = Shaken(w, fs)[v]

LEMMA JobKinds ==
    ASSUME NEW j \in Jobs
    PROVE  /\ j.kind = "idle" => j = Idle
           /\ j.kind = "opening" => j \in Openings
           /\ j.kind = "mock" => j \in Mocking
           /\ j.kind = "snapshot" => j \in Snapping
           /\ j.kind = "removing" => j \in Removings
           /\ j.kind \in {"idle", "opening", "mock", "snapshot", "removing"}
BY DEF Jobs, Idle, Openings, Mocking, Snapping, Removings

\* Mock files are numbered from 1; snapshots are none of them.
LEMMA FilesApart ==
    ASSUME FilesAssumption, NEW f \in MockFile, NEW n \in Name
    PROVE  f \in File /\ Snapshot(n) \in File /\ f # Snapshot(n) /\ f[1] \in 1..MaxMocks
<1>1. f[1] \in 1..MaxMocks /\ Snapshot(n)[1] = 0
  BY DEF MockFile, Snapshot
<1>2. 0 \notin 1..MaxMocks
  OBVIOUS
<1> QED
  BY <1>1, <1>2 DEF File

LEMMA ZeroMocks == FilesAssumption => 0 \in 0..MaxMocks
<1>1. FilesAssumption => MaxMocks \in Nat
  BY DEF FilesAssumption
<1> QED
  BY <1>1

LEMMA DisturbedJob ==
    ASSUME FilesAssumption, Shape, NEW w \in Worker, NEW v \in Worker, NEW fs, NEW unlink \in BOOLEAN,
           unlink => fs \subseteq MockFile
    PROVE  /\ SameJob(job[v], Disturbed(w, fs, unlink)[v])
           /\ job[v].kind \in {"mock", "snapshot"} /\ Disturbed(w, fs, unlink)[v].alone =>
                /\ Disturbed(w, fs, unlink)[v] = job[v]
                /\ v # w => job[v].file \notin fs
<1> DEFINE d == Disturbed(w, fs, unlink)[v]
<1>1. job[v] \in Jobs
  BY DEF Shape
<1>2. CASE v = w \/ ~\E f \in fs : IsWriting(v, f)
  <2>1. d = job[v]
    BY <1>2 DEF Disturbed
  <2>2. v # w /\ job[v].kind \in {"mock", "snapshot"} => job[v].file \notin fs
    BY <1>2 DEF IsWriting
  <2> QED
    BY <1>1, <2>1, <2>2 DEF SameJob
<1>3. CASE v # w /\ \E f \in fs : IsWriting(v, f)
  <2>1. job[v].kind \in {"mock", "snapshot"} /\ job[v].file \in fs
    BY <1>3 DEF IsWriting
  <2>2. d = IF unlink THEN [job[v] EXCEPT !.alone = FALSE, !.linked = FALSE]
                      ELSE [job[v] EXCEPT !.alone = FALSE]
    BY <1>3 DEF Disturbed
  <2>3. CASE job[v] \in Mocking
    <3>1. d \in Mocking /\ d.file = job[v].file /\ d.text = job[v].text /\ d.alone = FALSE
      BY <2>2, <2>3 DEF Mocking
    <3> QED
      BY <2>3, <3>1 DEF SameJob, Jobs, Mocking
  <2>4. CASE job[v] \in Snapping
    <3>1. ~unlink
      <4>1. job[v].kind = "snapshot" /\ job[v].file = Snapshot(job[v].name) /\ job[v].name \in Name
        BY <2>4 DEF Snapping, Shape
      <4> QED
        BY <2>1, <4>1, FilesApart
    <3>2. d \in Snapping /\ d.file = job[v].file /\ d.text = job[v].text /\ d.alone = FALSE
          /\ d.name = job[v].name
      BY <2>2, <2>4, <3>1 DEF Snapping
    <3> QED
      BY <2>4, <3>2 DEF SameJob, Jobs, Snapping
  <2> QED
    BY <1>1, <2>1, <2>3, <2>4, JobKinds
<1> QED
  BY <1>2, <1>3

LEMMA UnchangedJob ==
    ASSUME Shape, NEW v \in Worker
    PROVE  SameJob(job[v], job[v])
BY DEF Shape, SameJob

\* The mock files of another process are the same, but for what was touched.
LEMMA ShakenMocks ==
    ASSUME Shape, NEW w \in Worker, NEW v \in Worker, NEW fs
    PROVE  /\ v = w => Shaken(w, fs)[v] = live[v]
           /\ \A o \in Shaken(w, fs)[v] : \E m \in live[v] :
                 /\ o = [m EXCEPT !.intact = o.intact]
                 /\ o.file = m.file /\ o.text = m.text /\ o.kept = m.kept
                 /\ v # w => o.intact = (m.intact /\ m.file \notin fs)
           /\ \A m \in live[v] : \E o \in Shaken(w, fs)[v] :
                 o.file = m.file /\ o.kept = m.kept
           /\ Shaken(w, fs)[v] \in SUBSET Mock
<1>1. \A m \in live[v] : m \in Mock
  BY DEF Shape
<1>2. CASE v = w
  <2>1. Shaken(w, fs)[v] = live[v]
    BY <1>2 DEF Shaken
  <2>2. \A m \in Mock : m = [m EXCEPT !.intact = m.intact]
    BY DEF Mock
  <2> QED
    BY <1>1, <1>2, <2>1, <2>2
<1>3. CASE v # w
  <2> DEFINE Touch(m) == [m EXCEPT !.intact = m.intact /\ m.file \notin fs]
  <2>1. Shaken(w, fs)[v] = {Touch(m) : m \in live[v]}
    BY <1>3 DEF Shaken
  <2>2. ASSUME NEW m \in Mock
        PROVE  /\ Touch(m) \in Mock /\ Touch(m).file = m.file /\ Touch(m).kept = m.kept
               /\ Touch(m).text = m.text
               /\ Touch(m).intact = (m.intact /\ m.file \notin fs)
               /\ Touch(m) = [m EXCEPT !.intact = Touch(m).intact]
    BY DEF Mock
  <2> HIDE DEF Touch
  <2> QED
    BY <1>1, <1>3, <2>1, <2>2
<1> QED
  BY <1>2, <1>3

\* An action of w that gives way to Disturbed touches the files it names, ...
LEMMA DisturbedTouches ==
    ASSUME FilesAssumption, Shape, NEW w \in Worker, NEW fs \in SUBSET File, NEW unlink \in BOOLEAN,
           unlink => fs \subseteq MockFile,
           \A f \in File \ fs : disk'[f] = disk[f],
           job'[w].kind \in {"mock", "snapshot"} => job'[w].file \in fs,
           \A v \in Others(w) : counter'[v] = counter[v],
           \A v \in Others(w) : job'[v] = Disturbed(w, fs, unlink)[v],
           \A v \in Others(w) :
              (live'[v] = live[v] /\ fs \cap MockFile = {}) \/ live'[v] = Shaken(w, fs)[v]
    PROVE  Touches(w, fs)
<1>1. \A v \in Others(w) : v \in Worker /\ v # w
  BY DEF Others
<1>2. ASSUME NEW v \in Others(w)
      PROVE  /\ SameJob(job[v], job'[v])
             /\ job[v].kind \in {"mock", "snapshot"} /\ job'[v].alone =>
                   job'[v] = job[v] /\ job[v].file \notin fs
  BY <1>1, DisturbedJob
<1> QED
  BY <1>2 DEF Touches

\* ... and one that opens and writes nothing touches no file.
LEMMA TouchesNothing ==
    ASSUME Shape, NEW w \in Worker, disk' = disk,
           job'[w].kind \notin {"mock", "snapshot"},
           \A v \in Others(w) : counter'[v] = counter[v] /\ job'[v] = job[v] /\ live'[v] = live[v]
    PROVE  Touches(w, {})
<1>1. \A v \in Others(w) : v \in Worker
  BY DEF Others
<1> QED
  BY <1>1, UnchangedJob DEF Touches

LEMMA TouchesQuiet ==
    ASSUME Shape, NEW w \in Worker,
           MakeRoot(w) \/ OpenMockFails(w) \/ RemoveDir(w) \/ Compare(w) \/ Restart(w)
    PROVE  Touches(w, {})
<1> USE DEF Shape
<1>1. CASE MakeRoot(w)
  <2>1. job'[w].kind = "opening"
    BY <1>1 DEF MakeRoot, Opening
  <2> QED
    BY <1>1, <2>1, TouchesNothing DEF MakeRoot, Others
<1>2. CASE OpenMockFails(w) \/ RemoveDir(w)
  <2>1. job'[w].kind = "idle"
    BY <1>2 DEF OpenMockFails, RemoveDir, Idle
  <2> QED
    BY <1>2, <2>1, TouchesNothing DEF OpenMockFails, RemoveDir, Others
<1>3. CASE Compare(w)
  <2>1. job'[w].kind = "idle"
    <3>1. job' = job /\ job[w] = Idle
      BY <1>3 DEF Compare, Calls
    <3> QED
      BY <3>1 DEF Idle
  <2> QED
    BY <1>3, <2>1, TouchesNothing DEF Compare, Others
<1>4. CASE Restart(w)
  <2>1. job'[w].kind = "idle"
    BY <1>4 DEF Restart, Idle
  <2> QED
    BY <1>4, <2>1, TouchesNothing DEF Restart, Others
<1> QED
  BY <1>1, <1>2, <1>3, <1>4

LEMMA TouchesOpenMock ==
    ASSUME FilesAssumption, Shape, NEW w \in Worker, OpenMock(w)
    PROVE  /\ job[w] \in Openings /\ job[w].file \in MockFile /\ Touches(w, {job[w].file})
           /\ job'[w] = [WritingMock(job[w].file, job[w].text) EXCEPT
                           !.alone = \A v \in Others(w) : ~IsWriting(v, job[w].file)]
<1>1. job[w] \in Openings /\ job[w].file \in MockFile
  BY JobKinds DEF OpenMock, Shape, Openings
<1> DEFINE f == job[w].file
<1> DEFINE j == [WritingMock(f, job[w].text) EXCEPT !.alone = \A v \in Others(w) : ~IsWriting(v, f)]
<1>2. job' = [Disturbed(w, {f}, FALSE) EXCEPT ![w] = j]
  BY DEF OpenMock
<1>3. j.file = f
  BY DEF WritingMock
<1> HIDE DEF j
<1>4. job'[w] = j /\ \A v \in Others(w) : job'[v] = Disturbed(w, {f}, FALSE)[v]
  BY <1>2 DEF Disturbed, Others
<1>5. f \in File /\ \A g \in File \ {f} : disk'[g] = disk[g]
  BY <1>1 DEF OpenMock, Shape, File
<1>6. \A v \in Others(w) : counter'[v] = counter[v] /\ live'[v] = Shaken(w, {f})[v]
  BY DEF OpenMock
<1>7. Touches(w, {f})
  BY <1>3, <1>4, <1>5, <1>6, DisturbedTouches
<1> QED
  BY <1>1, <1>4, <1>7 DEF j

LEMMA TouchesWriteMock ==
    ASSUME FilesAssumption, Shape, NEW w \in Worker, WriteMock(w)
    PROVE  /\ job[w] \in Mocking /\ job[w].file \in MockFile /\ Touches(w, {job[w].file})
           /\ job'[w] = Idle
<1>1. job[w] \in Mocking /\ job[w].file \in MockFile
  BY JobKinds DEF WriteMock, Shape, Mocking
<1> DEFINE f == job[w].file
<1>2. job' = [Disturbed(w, {f}, FALSE) EXCEPT ![w] = Idle]
  BY DEF WriteMock
<1>4. job'[w] = Idle /\ \A v \in Others(w) : job'[v] = Disturbed(w, {f}, FALSE)[v]
  BY <1>2 DEF Disturbed, Others
<1>5. f \in File /\ \A g \in File \ {f} : disk'[g] = disk[g]
  BY <1>1 DEF WriteMock, Shape, File
<1>6. \A v \in Others(w) : counter'[v] = counter[v] /\ live'[v] = Shaken(w, {f})[v]
  BY DEF WriteMock, Others, Shaken
<1>7. job'[w].kind = "idle"
  BY <1>4 DEF Idle
<1>8. Touches(w, {f})
  BY <1>4, <1>5, <1>6, <1>7, DisturbedTouches
<1> QED
  BY <1>1, <1>4, <1>8

LEMMA TouchesRemoveFiles ==
    ASSUME FilesAssumption, Shape, NEW w \in Worker, RemoveFiles(w)
    PROVE  \E m \in live[w] :
              /\ m \in Mock /\ m.kept /\ Touches(w, In(DirOf(m.file)))
              /\ job'[w] = Removing(DirOf(m.file)) /\ live'[w] = live[w] \ {m}
              /\ \A f \in In(DirOf(m.file)) : disk'[f] = NoFile
<1>1. PICK m \in live[w] :
          LET gone == In(DirOf(m.file)) IN
          /\ m.kept
          /\ live' = [Shaken(w, gone) EXCEPT ![w] = @ \ {m}]
          /\ disk' = [f \in File |-> IF f \in gone THEN NoFile ELSE disk[f]]
          /\ job' = [Disturbed(w, gone, TRUE) EXCEPT ![w] = Removing(DirOf(m.file))]
  BY DEF RemoveFiles
<1> DEFINE gone == In(DirOf(m.file))
<1>2. gone \subseteq MockFile /\ gone \subseteq File /\ m \in Mock
  BY DEF In, File, Shape
<1> HIDE DEF gone
<1>3. /\ m.kept
      /\ live' = [Shaken(w, gone) EXCEPT ![w] = @ \ {m}]
      /\ disk' = [f \in File |-> IF f \in gone THEN NoFile ELSE disk[f]]
      /\ job' = [Disturbed(w, gone, TRUE) EXCEPT ![w] = Removing(DirOf(m.file))]
  BY <1>1 DEF gone
<1>4. /\ job'[w] = Removing(DirOf(m.file))
      /\ \A v \in Others(w) : job'[v] = Disturbed(w, gone, TRUE)[v]
  BY <1>3 DEF Disturbed, Others
<1>5. live'[w] = live[w] \ {m} /\ \A v \in Others(w) : live'[v] = Shaken(w, gone)[v]
  BY <1>3 DEF Shaken, Others
<1>6. /\ \A f \in File \ gone : disk'[f] = disk[f]
      /\ \A f \in gone : disk'[f] = NoFile
  BY <1>2, <1>3
<1>7. \A v \in Others(w) : counter'[v] = counter[v]
  BY DEF RemoveFiles
<1>8. job'[w].kind = "removing"
  BY <1>4 DEF Removing
<1>9. Touches(w, gone)
  BY <1>2, <1>4, <1>5, <1>6, <1>7, <1>8, DisturbedTouches
<1> QED
  BY <1>2, <1>3, <1>4, <1>5, <1>6, <1>9 DEF gone

LEMMA TouchesOpenSnapshot ==
    ASSUME FilesAssumption, Shape, NEW w \in Worker, OpenSnapshot(w)
    PROVE  \E n \in Name, t \in Text :
              /\ Touches(w, {Snapshot(n)})
              /\ disk' = [disk EXCEPT ![Snapshot(n)] = Empty]
              /\ spoiled' = spoiled \cup {Snapshot(n)}
              /\ job'[w] = WritingSnapshot(n, t, \A v \in Others(w) : ~IsWriting(v, Snapshot(n)))
<1>1. PICK n \in Name, t \in Text :
          /\ disk' = [disk EXCEPT ![Snapshot(n)] = Empty]
          /\ job' = [Disturbed(w, {Snapshot(n)}, FALSE) EXCEPT ![w] =
                WritingSnapshot(n, t, \A v \in Others(w) : ~IsWriting(v, Snapshot(n)))]
          /\ spoiled' = spoiled \cup {Snapshot(n)}
  BY DEF OpenSnapshot
<1> DEFINE j == WritingSnapshot(n, t, \A v \in Others(w) : ~IsWriting(v, Snapshot(n)))
<1>2. j.file = Snapshot(n)
  BY DEF WritingSnapshot
<1>3. Snapshot(n) \in File /\ {Snapshot(n)} \cap MockFile = {}
  BY FilesApart DEF File
<1> HIDE DEF j
<1>4. job' = [Disturbed(w, {Snapshot(n)}, FALSE) EXCEPT ![w] = j]
  BY <1>1 DEF j
<1>5. job'[w] = j /\ \A v \in Others(w) : job'[v] = Disturbed(w, {Snapshot(n)}, FALSE)[v]
  BY <1>4 DEF Disturbed, Others
<1>6. \A g \in File \ {Snapshot(n)} : disk'[g] = disk[g]
  BY <1>1 DEF Shape
<1>7. \A v \in Others(w) : counter'[v] = counter[v] /\ live'[v] = live[v]
  BY DEF OpenSnapshot
<1>8. Touches(w, {Snapshot(n)})
  BY <1>2, <1>3, <1>5, <1>6, <1>7, DisturbedTouches
<1> QED
  BY <1>1, <1>5, <1>8 DEF j

LEMMA TouchesWriteSnapshot ==
    ASSUME FilesAssumption, Shape, Alone, NEW w \in Worker, WriteSnapshot(w)
    PROVE  /\ job[w] \in Snapping /\ job[w].file = Snapshot(job[w].name) /\ job[w].name \in Name
           /\ Touches(w, {job[w].file}) /\ job'[w] = Idle
<1>1. job[w] \in Snapping /\ job[w].file = Snapshot(job[w].name) /\ job[w].name \in Name
  BY JobKinds DEF WriteSnapshot, Shape, Snapping
<1> DEFINE f == job[w].file
<1>2. f \in File /\ {f} \cap MockFile = {}
  BY <1>1, FilesApart DEF File
<1>3. job'[w] = Idle /\ \A v \in Others(w) : job'[v] = job[v] /\ v \in Worker /\ v # w
  BY DEF WriteSnapshot, Others, Shape
<1>4. \A g \in File \ {f} : disk'[g] = disk[g]
  BY DEF WriteSnapshot, Shape
<1>5. ASSUME NEW v \in Others(w), job[v].kind \in {"mock", "snapshot"}, job[v].alone
      PROVE  job[v].file # f
  <2>1. w \in Others(v) /\ IsWriting(w, f)
    BY <1>1, <1>3 DEF Others, IsWriting, Snapping
  <2> QED
    BY <1>3, <1>5, <2>1 DEF Alone, FindsItsFile
<1>6. \A v \in Others(w) : SameJob(job[v], job'[v]) /\ counter'[v] = counter[v] /\ live'[v] = live[v]
  BY <1>3, UnchangedJob DEF WriteSnapshot
<1>7. Touches(w, {f})
  BY <1>2, <1>3, <1>4, <1>5, <1>6 DEF Touches, Idle
<1> QED
  BY <1>1, <1>3, <1>7
----------------------------------------------------------------------------
(* The shape of the state.                                                 *)

JobsOf(jobs) ==
    /\ jobs \in [Worker -> Jobs]
    /\ \A w \in Worker : jobs[w].kind = "snapshot" => jobs[w].file = Snapshot(jobs[w].name)

LEMMA JobsChange ==
    ASSUME FilesAssumption, Shape, NEW w \in Worker, NEW fs, NEW unlink \in BOOLEAN,
           unlink => fs \subseteq MockFile,
           NEW j \in Jobs, j.kind = "snapshot" => j.file = Snapshot(j.name),
           \/ job' = [job EXCEPT ![w] = j]
           \/ job' = [Disturbed(w, fs, unlink) EXCEPT ![w] = j]
    PROVE  JobsOf(job')
<1>1. CASE job' = [job EXCEPT ![w] = j]
  BY <1>1 DEF Shape, JobsOf
<1>2. CASE job' = [Disturbed(w, fs, unlink) EXCEPT ![w] = j]
  <2>1. /\ DOMAIN job' = Worker /\ job'[w] = j
        /\ \A v \in Worker : v # w => job'[v] = Disturbed(w, fs, unlink)[v]
        /\ job' = [v \in Worker |-> job'[v]]
    BY <1>2 DEF Disturbed
  <2>2. ASSUME NEW v \in Worker, v # w
        PROVE  job'[v] \in Jobs /\ (job'[v].kind = "snapshot" => job'[v].file = Snapshot(job'[v].name))
    <3>1. SameJob(job[v], job'[v])
      BY <2>1, <2>2, DisturbedJob
    <3> QED
      BY <3>1 DEF SameJob, Shape
  <2> QED
    BY <2>1, <2>2 DEF JobsOf
<1> QED
  BY <1>1, <1>2

LEMMA LiveChange ==
    ASSUME Shape, NEW w \in Worker, NEW fs, NEW mine \in SUBSET Mock,
           live' = [Shaken(w, fs) EXCEPT ![w] = mine] \/ live' = [live EXCEPT ![w] = mine]
    PROVE  live' \in [Worker -> SUBSET Mock]
<1>1. Shaken(w, fs) \in [Worker -> SUBSET Mock]
  <2>1. \A v \in Worker : Shaken(w, fs)[v] \in SUBSET Mock
    BY ShakenMocks
  <2> QED
    BY <2>1 DEF Shaken
<1> QED
  BY <1>1 DEF Shape

LEMMA InitShape == FilesAssumption /\ Init => Shape
<1> SUFFICES ASSUME FilesAssumption, Init PROVE Shape
  OBVIOUS
<1>1. counter \in [Worker -> 0..MaxMocks]
  <2>1. 0 \in 0..MaxMocks
    BY ZeroMocks
  <2> QED
    BY <2>1 DEF Init
<1>2. Idle \in Jobs /\ Idle.kind = "idle"
  BY DEF Jobs, Idle
<1> QED
  BY <1>1, <1>2 DEF Init, Shape, Content

LEMMA ShapeMocks ==
    ASSUME FilesAssumption, Shape, NEW w \in Worker,
           MakeRoot(w) \/ OpenMock(w) \/ OpenMockFails(w) \/ WriteMock(w)
           \/ RemoveFiles(w) \/ RemoveDir(w)
    PROVE  Shape'
<1>0. Idle \in Jobs /\ Idle.kind = "idle"
  BY DEF Jobs, Idle
<1>1. CASE MakeRoot(w)
  <2>1. PICK p \in Path, t \in Text : job' = [job EXCEPT ![w] = Opening(<<counter'[w], p>>, t)]
    BY <1>1 DEF MakeRoot
  <2>2. counter' \in [Worker -> 0..MaxMocks] /\ counter'[w] \in 1..MaxMocks
    <3>1. MaxMocks \in Nat /\ counter[w] \in 0..MaxMocks /\ counter[w] < MaxMocks
      BY <1>1 DEF MakeRoot, Shape, FilesAssumption
    <3>2. counter' = [counter EXCEPT ![w] = @ + 1] /\ counter \in [Worker -> 0..MaxMocks]
      BY <1>1 DEF MakeRoot, Shape
    <3>3. counter[w] + 1 \in 0..MaxMocks /\ counter[w] + 1 \in 1..MaxMocks
      BY <3>1
    <3> QED
      BY <3>2, <3>3
  <2>3. Opening(<<counter'[w], p>>, t) \in Jobs /\ Opening(<<counter'[w], p>>, t).kind = "opening"
    BY <2>2 DEF Opening, Jobs, Openings, MockFile
  <2>4. JobsOf(job')
    BY <2>1, <2>3, JobsChange
  <2> QED
    BY <1>1, <2>2, <2>4 DEF MakeRoot, Shape, JobsOf
<1>2. CASE OpenMock(w)
  <2> DEFINE f == job[w].file
  <2> DEFINE j == [WritingMock(f, job[w].text) EXCEPT !.alone = \A v \in Others(w) : ~IsWriting(v, f)]
  <2>1. job[w] \in Openings /\ f \in MockFile
    BY <1>2, TouchesOpenMock
  <2>2. j \in Jobs /\ j.kind = "mock"
    BY <2>1 DEF WritingMock, Jobs, Mocking, Openings
  <2>3. /\ job' = [Disturbed(w, {f}, FALSE) EXCEPT ![w] = j]
        /\ disk' = [disk EXCEPT ![f] = Empty] /\ live' = Shaken(w, {f})
    BY <1>2 DEF OpenMock
  <2>4. JobsOf(job')
    <3> HIDE DEF f, j
    <3> QED
      BY <2>2, <2>3, JobsChange
  <2>5. live' \in [Worker -> SUBSET Mock]
    <3>1. \A v \in Worker : Shaken(w, {f})[v] \in SUBSET Mock
      BY ShakenMocks
    <3> QED
      BY <2>3, <3>1 DEF Shaken
  <2>6. disk' \in [File -> Content]
    BY <2>3 DEF Shape, Content
  <2> QED
    BY <1>2, <2>4, <2>5, <2>6 DEF OpenMock, Shape, JobsOf
<1>3. CASE OpenMockFails(w) \/ RemoveDir(w)
  <2>1. job' = [job EXCEPT ![w] = Idle]
    BY <1>3 DEF OpenMockFails, RemoveDir
  <2>2. JobsOf(job')
    BY <1>0, <2>1, JobsChange
  <2> QED
    BY <1>3, <2>2 DEF OpenMockFails, RemoveDir, Shape, JobsOf
<1>4. CASE WriteMock(w)
  <2> DEFINE f == job[w].file
  <2>1. job[w] \in Mocking /\ f \in MockFile /\ f \in File
    BY <1>4, TouchesWriteMock DEF File
  <2>2. PICK lost \in BOOLEAN, kept \in BOOLEAN :
          /\ IF job[w].linked
             THEN \E text \in After(f, job[w].text, lost) : disk' = [disk EXCEPT ![f] = text]
             ELSE UNCHANGED disk
          /\ live' = [Shaken(w, {f}) EXCEPT ![w] = @ \cup
                {[file |-> f, text |-> job[w].text, kept |-> kept,
                  intact |-> job[w].alone /\ ~lost]}]
    BY <1>4 DEF WriteMock
  <2> DEFINE m == [file |-> f, text |-> job[w].text, kept |-> kept, intact |-> job[w].alone /\ ~lost]
  <2>3. job[w].text \in Text /\ m \in Mock
    BY <2>1 DEF Mocking, Mock
  <2>4. disk' \in [File -> Content]
    <3>1. \A text \in After(f, job[w].text, lost) : text \in Content
      BY <2>1, <2>3 DEF After, Shape, Content
    <3> QED
      BY <2>2, <3>1 DEF Shape
  <2>5. live' \in [Worker -> SUBSET Mock]
    <3>1. live' = [Shaken(w, {f}) EXCEPT ![w] = Shaken(w, {f})[w] \cup {m}]
      BY <2>2
    <3>2. Shaken(w, {f})[w] \cup {m} \in SUBSET Mock
      BY <2>3, ShakenMocks
    <3> HIDE DEF m, f
    <3> QED
      BY <3>1, <3>2, LiveChange
  <2>6. job' = [Disturbed(w, {f}, FALSE) EXCEPT ![w] = Idle]
    BY <1>4 DEF WriteMock
  <2>7. JobsOf(job')
    <3> HIDE DEF f
    <3> QED
      BY <1>0, <2>6, JobsChange
  <2> QED
    BY <1>4, <2>4, <2>5, <2>7 DEF WriteMock, Shape, JobsOf
<1>5. CASE RemoveFiles(w)
  <2>1. PICK m \in live[w] :
          LET gone == In(DirOf(m.file)) IN
          /\ live' = [Shaken(w, gone) EXCEPT ![w] = @ \ {m}]
          /\ disk' = [f \in File |-> IF f \in gone THEN NoFile ELSE disk[f]]
          /\ job' = [Disturbed(w, gone, TRUE) EXCEPT ![w] = Removing(DirOf(m.file))]
    BY <1>5 DEF RemoveFiles
  <2> DEFINE gone == In(DirOf(m.file))
  <2>2. m.file \in MockFile /\ gone \subseteq MockFile
    BY DEF Shape, Mock, In
  <2>3. Removing(DirOf(m.file)) \in Jobs /\ Removing(DirOf(m.file)).kind = "removing"
    BY <2>2 DEF Jobs, Removings, Removing
  <2> HIDE DEF gone
  <2>4. /\ live' = [Shaken(w, gone) EXCEPT ![w] = Shaken(w, gone)[w] \ {m}]
        /\ disk' = [f \in File |-> IF f \in gone THEN NoFile ELSE disk[f]]
        /\ job' = [Disturbed(w, gone, TRUE) EXCEPT ![w] = Removing(DirOf(m.file))]
    BY <2>1 DEF gone
  <2>5. JobsOf(job')
    BY <2>2, <2>3, <2>4, JobsChange
  <2>6. Shaken(w, gone)[w] \ {m} \in SUBSET Mock
    BY ShakenMocks
  <2>7. live' \in [Worker -> SUBSET Mock]
    BY <2>4, <2>6, LiveChange
  <2>8. disk' \in [File -> Content]
    BY <2>4 DEF Shape, Content
  <2> QED
    BY <1>5, <2>5, <2>7, <2>8 DEF RemoveFiles, Shape, JobsOf
<1> QED
  BY <1>1, <1>2, <1>3, <1>4, <1>5

LEMMA ShapeSnapshots ==
    ASSUME FilesAssumption, Shape, NEW w \in Worker,
           OpenSnapshot(w) \/ WriteSnapshot(w) \/ Compare(w) \/ Restart(w)
    PROVE  Shape'
<1>0. Idle \in Jobs /\ Idle.kind = "idle"
  BY DEF Jobs, Idle
<1>1. CASE OpenSnapshot(w)
  <2>1. PICK n \in Name, t \in Text :
          /\ disk' = [disk EXCEPT ![Snapshot(n)] = Empty]
          /\ job' = [Disturbed(w, {Snapshot(n)}, FALSE) EXCEPT ![w] =
                WritingSnapshot(n, t, \A v \in Others(w) : ~IsWriting(v, Snapshot(n)))]
    BY <1>1 DEF OpenSnapshot
  <2> DEFINE j == WritingSnapshot(n, t, \A v \in Others(w) : ~IsWriting(v, Snapshot(n)))
  <2>2. j \in Jobs /\ j.kind = "snapshot" /\ j.file = Snapshot(j.name)
    BY DEF WritingSnapshot, Jobs, Snapping
  <2> HIDE DEF j
  <2>3. job' = [Disturbed(w, {Snapshot(n)}, FALSE) EXCEPT ![w] = j]
    BY <2>1 DEF j
  <2>4. JobsOf(job')
    BY <2>2, <2>3, JobsChange
  <2>5. disk' \in [File -> Content]
    BY <2>1 DEF Shape, Content
  <2> QED
    BY <1>1, <2>4, <2>5 DEF OpenSnapshot, Shape, JobsOf
<1>2. CASE WriteSnapshot(w)
  <2> DEFINE f == job[w].file
  <2>1. job[w] \in Snapping /\ job[w].name \in Name /\ job[w].text \in Text /\ f \in File
    BY <1>2, JobKinds DEF WriteSnapshot, Shape, Snapping, File
  <2>2. PICK lost \in BOOLEAN :
          /\ \E text \in After(f, job[w].text, lost) : disk' = [disk EXCEPT ![f] = text]
          /\ golden' = [golden EXCEPT ![job[w].name] = job[w].text]
    BY <1>2 DEF WriteSnapshot
  <2>3. disk' \in [File -> Content]
    <3>1. \A text \in After(f, job[w].text, lost) : text \in Content
      BY <2>1 DEF After, Shape, Content
    <3> QED
      BY <2>2, <3>1 DEF Shape
  <2>4. golden' \in [Name -> Text \cup {NoFile}]
    BY <2>1, <2>2 DEF Shape
  <2>5. JobsOf(job')
    <3>1. job' = [job EXCEPT ![w] = Idle]
      BY <1>2 DEF WriteSnapshot
    <3> QED
      BY <1>0, <3>1, JobsChange
  <2> QED
    BY <1>2, <2>3, <2>4, <2>5 DEF WriteSnapshot, Shape, JobsOf
<1>3. CASE Compare(w)
  BY <1>3 DEF Compare, Shape, Calls
<1>4. CASE Restart(w)
  <2>1. job' = [job EXCEPT ![w] = Idle] /\ live' = [live EXCEPT ![w] = {}]
    BY <1>4 DEF Restart
  <2>2. JobsOf(job')
    BY <1>0, <2>1, JobsChange
  <2>3. live' \in [Worker -> SUBSET Mock]
    BY <2>1, LiveChange
  <2>4. counter' \in [Worker -> 0..MaxMocks] /\ update' \in [Worker -> BOOLEAN]
    <3>1. 0 \in 0..MaxMocks
      BY ZeroMocks
    <3> QED
      BY <1>4, <3>1 DEF Restart, Shape
  <2> QED
    BY <1>4, <2>2, <2>3, <2>4 DEF Restart, Shape, JobsOf
<1> QED
  BY <1>1, <1>2, <1>3, <1>4

Step(w) ==
    \/ MakeRoot(w) \/ OpenMock(w) \/ OpenMockFails(w) \/ WriteMock(w)
    \/ RemoveFiles(w) \/ RemoveDir(w)
    \/ OpenSnapshot(w) \/ WriteSnapshot(w) \/ Compare(w) \/ Restart(w)

LEMMA ShapeStep ==
    ASSUME FilesAssumption, Shape, NEW w \in Worker, Step(w)
    PROVE  Shape'
BY ShapeMocks, ShapeSnapshots DEF Step

LEMMA StepTouches ==
    ASSUME FilesAssumption, Shape, Alone, NEW w \in Worker, Step(w)
    PROVE  \E fs : Touches(w, fs)
BY TouchesQuiet, TouchesOpenMock, TouchesWriteMock, TouchesRemoveFiles, TouchesOpenSnapshot,
   TouchesWriteSnapshot DEF Step

\* The mock files of another process after a step.
LEMMA OtherMocks ==
    ASSUME Shape, NEW w \in Worker, NEW fs, Touches(w, fs), NEW v \in Others(w)
    PROVE  /\ \A o \in live'[v] : \E m \in live[v] :
                 /\ m \in Mock /\ o = [m EXCEPT !.intact = o.intact]
                 /\ o.file = m.file /\ o.text = m.text /\ o.kept = m.kept
                 /\ o.intact = (m.intact /\ m.file \notin fs)
           /\ \A m \in live[v] : \E o \in live'[v] : o.file = m.file /\ o.kept = m.kept
<1>1. v \in Worker /\ v # w /\ \A m \in live[v] : m \in Mock
  BY DEF Others, Shape
<1>2. CASE live'[v] = live[v] /\ fs \cap MockFile = {}
  <2>1. \A m \in Mock : m = [m EXCEPT !.intact = m.intact] /\ m.file \in MockFile /\ m.intact \in BOOLEAN
    BY DEF Mock
  <2> QED
    BY <1>1, <1>2, <2>1
<1>3. CASE live'[v] = Shaken(w, fs)[v]
  BY <1>1, <1>3, ShakenMocks
<1> QED
  BY <1>2, <1>3 DEF Touches
----------------------------------------------------------------------------
(* Numbers of mock files.                                                  *)

LEMMA NumberedOthers ==
    ASSUME Shape, Numbered, NEW w \in Worker, NEW fs, Touches(w, fs), NEW v \in Others(w)
    PROVE  NumbersOf(v)'
<1>1. v \in Worker /\ counter'[v] = counter[v] /\ SameJob(job[v], job'[v])
  BY DEF Others, Touches
<1>2. \A o \in live'[v] : \E m \in live[v] : m \in Mock /\ o.file = m.file
  BY OtherMocks
<1>3. ASSUME NEW p \in live'[v], NEW o \in live'[v], p.file[1] = o.file[1]
      PROVE  p = o
  <2>1. PICK m \in live[v] : /\ m \in Mock /\ p = [m EXCEPT !.intact = p.intact]
                             /\ p.intact = (m.intact /\ m.file \notin fs) /\ p.file = m.file
    BY OtherMocks
  <2>2. PICK n \in live[v] : /\ n \in Mock /\ o = [n EXCEPT !.intact = o.intact]
                             /\ o.intact = (n.intact /\ n.file \notin fs) /\ o.file = n.file
    BY OtherMocks
  <2>4. m = n
    BY <1>1, <1>3, <2>1, <2>2 DEF Numbered, NumbersOf
  <2>5. p.intact = o.intact
    BY <2>1, <2>2, <2>4
  <2> QED
    BY <2>1, <2>2, <2>4, <2>5
<1> QED
  BY <1>1, <1>2, <1>3 DEF Numbered, NumbersOf, SameJob

LEMMA NumberedOwn ==
    ASSUME FilesAssumption, Shape, Numbered, NEW w \in Worker, Step(w)
    PROVE  NumbersOf(w)'
<1> USE DEF NumbersOf
<1>2. /\ counter[w] \in Nat
      /\ \A m \in live[w] : m \in Mock /\ m.file[1] \in Nat /\ m.file[1] <= counter[w]
      /\ \A m, o \in live[w] : m.file[1] = o.file[1] => m = o
  <2>1. \A m \in Mock : m.file[1] \in Nat
    BY DEF Mock, MockFile
  <2> QED
    BY <2>1 DEF Shape, Numbered
<1>3. CASE MakeRoot(w)
  <2>1. counter'[w] = counter[w] + 1 /\ live' = live
    BY <1>3 DEF MakeRoot, Shape
  <2>2. job'[w].file[1] = counter'[w]
    BY <1>3 DEF MakeRoot, Shape, Opening
  <2> QED
    BY <1>2, <2>1, <2>2
<1>4. CASE OpenMock(w)
  <2>1. job[w].kind = "opening" /\ counter' = counter /\ live' = Shaken(w, {job[w].file})
    BY <1>4 DEF OpenMock
  <2>2. live'[w] = live[w]
    BY <2>1, ShakenMocks
  <2>3. job'[w].file = job[w].file
    <3>1. job'[w] = [WritingMock(job[w].file, job[w].text) EXCEPT
                       !.alone = \A v \in Others(w) : ~IsWriting(v, job[w].file)]
      BY <1>4, TouchesOpenMock
    <3> QED
      BY <3>1 DEF WritingMock
  <2> QED
    BY <2>1, <2>2, <2>3 DEF Numbered
<1>5. CASE WriteMock(w)
  <2>1. job[w].kind = "mock" /\ job'[w].kind = "idle" /\ counter' = counter
    <3>1. job[w].kind = "mock" /\ counter' = counter
      BY <1>5 DEF WriteMock
    <3>2. job'[w] = Idle
      BY <1>5, TouchesWriteMock
    <3> QED
      BY <3>1, <3>2 DEF Idle
  <2>2. PICK m : m.file = job[w].file /\ live'[w] = live[w] \cup {m}
    <3>1. PICK lost, kept \in BOOLEAN :
             live' = [Shaken(w, {job[w].file}) EXCEPT ![w] = @ \cup
                {[file |-> job[w].file, text |-> job[w].text, kept |-> kept,
                  intact |-> job[w].alone /\ ~lost]}]
      BY <1>5 DEF WriteMock
    <3> DEFINE m == [file |-> job[w].file, text |-> job[w].text, kept |-> kept,
                     intact |-> job[w].alone /\ ~lost]
    <3>2. m.file = job[w].file
      OBVIOUS
    <3> HIDE DEF m
    <3>3. live' = [Shaken(w, {job[w].file}) EXCEPT ![w] = @ \cup {m}]
      BY <3>1 DEF m
    <3>4. live'[w] = live[w] \cup {m}
      BY <3>3, ShakenMocks DEF Shaken
    <3> QED
      BY <3>2, <3>4
  <2>3. m.file[1] = counter[w] /\ \A o \in live[w] : o.file[1] < counter[w]
    BY <2>1, <2>2 DEF Numbered
  <2> QED
    BY <1>2, <2>1, <2>2, <2>3
<1>6. CASE RemoveFiles(w)
  <2>1. job'[w].kind = "removing" /\ live'[w] \subseteq live[w] /\ counter' = counter
    <3>1. counter' = counter
      BY <1>6 DEF RemoveFiles
    <3>2. \E m \in live[w] : job'[w] = Removing(DirOf(m.file)) /\ live'[w] = live[w] \ {m}
      BY <1>6, TouchesRemoveFiles
    <3> QED
      BY <3>1, <3>2 DEF Removing
  <2> QED
    BY <1>2, <2>1
<1>7. CASE OpenMockFails(w) \/ RemoveDir(w)
  <2>1. job'[w] = Idle /\ live' = live /\ counter' = counter
    BY <1>7 DEF OpenMockFails, RemoveDir, Shape
  <2> QED
    BY <1>2, <2>1 DEF Idle
<1>8. CASE OpenSnapshot(w)
  <2>1. job'[w].kind = "snapshot" /\ live' = live /\ counter' = counter
    <3>1. live' = live /\ counter' = counter
      BY <1>8 DEF OpenSnapshot
    <3>2. PICK n \in Name, t \in Text :
             job'[w] = WritingSnapshot(n, t, \A v \in Others(w) : ~IsWriting(v, Snapshot(n)))
      BY <1>8, TouchesOpenSnapshot
    <3> QED
      BY <3>1, <3>2 DEF WritingSnapshot
  <2> QED
    BY <1>2, <2>1
<1>9. CASE WriteSnapshot(w)
  <2>1. job'[w] = Idle /\ live' = live /\ counter' = counter
    BY <1>9 DEF WriteSnapshot, Shape
  <2> QED
    BY <1>2, <2>1 DEF Idle
<1>10. CASE Compare(w)
  BY <1>10 DEF Compare, Numbered
<1>11. CASE Restart(w)
  <2>1. job'[w] = Idle /\ live'[w] = {}
    BY <1>11 DEF Restart, Shape
  <2> QED
    BY <2>1 DEF Idle
<1> QED
  BY <1>3, <1>4, <1>5, <1>6, <1>7, <1>8, <1>9, <1>10, <1>11 DEF Step

LEMMA NumberedStep ==
    ASSUME FilesAssumption, Shape, Alone, Numbered, NEW w \in Worker, Step(w)
    PROVE  Numbered'
<1>1. PICK fs : Touches(w, fs)
  BY StepTouches
<1>2. \A v \in Worker : v = w \/ v \in Others(w)
  BY DEF Others
<1> QED
  BY <1>1, <1>2, NumberedOwn, NumberedOthers DEF Numbered
----------------------------------------------------------------------------
(* Files that are open.                                                    *)

LEMMA AloneOthers ==
    ASSUME Shape, Alone, NEW w \in Worker, NEW fs, Touches(w, fs), NEW v \in Others(w)
    PROVE  FindsItsFile(v)'
<1> SUFFICES ASSUME job'[v].kind \in {"mock", "snapshot"}, job'[v].alone
             PROVE  /\ disk'[job'[v].file] = Empty
                    /\ job'[v].kind = "mock" => job'[v].linked
                    /\ \A u \in Others(v) : ~IsWriting(u, job[v].file)'
  BY DEF FindsItsFile, Others
<1>1. v \in Worker /\ v # w /\ job[v].kind = job'[v].kind
  BY DEF Others, Touches, SameJob
<1>2. job'[v] = job[v] /\ job[v].file \notin fs
  BY <1>1 DEF Touches
<1>3. FindsItsFile(v)
  BY <1>1 DEF Alone
<1>4. job[v].file \in File
  <2>1. job[v] \in Mocking \cup Snapping
    BY <1>1, JobKinds DEF Shape
  <2> QED
    BY <2>1 DEF Mocking, Snapping, File
<1>5. disk'[job'[v].file] = Empty /\ (job'[v].kind = "mock" => job'[v].linked)
  BY <1>1, <1>2, <1>3, <1>4 DEF FindsItsFile, Touches
<1>6. ASSUME NEW u \in Others(v), IsWriting(u, job[v].file)' PROVE FALSE
  <2>1. job'[u].kind \in {"mock", "snapshot"} /\ job'[u].file = job[v].file
    BY <1>2, <1>6 DEF IsWriting
  <2>2. u # w
    BY <1>2, <2>1 DEF Touches
  <2>3. SameJob(job[u], job'[u])
    BY <2>2 DEF Touches, Others
  <2>4. IsWriting(u, job[v].file)
    BY <2>1, <2>3 DEF SameJob, IsWriting
  <2> QED
    BY <1>1, <1>2, <1>3, <2>4 DEF FindsItsFile
<1> QED
  BY <1>5, <1>6

LEMMA AloneOwn ==
    ASSUME FilesAssumption, Shape, NEW w \in Worker, Step(w)
    PROVE  FindsItsFile(w)'
<1>1. ASSUME NEW f \in File, disk'[f] = Empty, job'[w].file = f, job'[w].kind = "mock" => job'[w].linked,
             job'[w].alone = \A v \in Others(w) : ~IsWriting(v, f),
             Touches(w, {f})
      PROVE  FindsItsFile(w)'
  <2>1. \A v \in Others(w) : IsWriting(v, f)' => IsWriting(v, f)
    <3>1. \A v \in Others(w) : SameJob(job[v], job'[v])
      BY <1>1 DEF Touches
    <3> QED
      BY <3>1 DEF SameJob, IsWriting
  <2>2. job'[w].alone => \A v \in Others(w) : ~IsWriting(v, f)'
    BY <1>1, <2>1
  <2> QED
    BY <1>1, <2>2 DEF FindsItsFile, Others
<1>2. CASE OpenMock(w)
  <2>1. disk'[job[w].file] = Empty
    BY <1>2, TouchesOpenMock DEF OpenMock, Shape, File
  <2>2. /\ job[w].file \in File /\ Touches(w, {job[w].file})
        /\ job'[w] = [WritingMock(job[w].file, job[w].text) EXCEPT
                       !.alone = \A v \in Others(w) : ~IsWriting(v, job[w].file)]
    BY <1>2, TouchesOpenMock DEF File
  <2>3. /\ job'[w].file = job[w].file /\ job'[w].linked
        /\ job'[w].alone = \A v \in Others(w) : ~IsWriting(v, job[w].file)
    BY <2>2 DEF WritingMock
  <2> QED
    BY <1>1, <2>1, <2>2, <2>3
<1>3. CASE OpenSnapshot(w)
  <2>1. PICK n \in Name, t \in Text :
              /\ Touches(w, {Snapshot(n)})
              /\ disk' = [disk EXCEPT ![Snapshot(n)] = Empty]
              /\ job'[w] = WritingSnapshot(n, t, \A v \in Others(w) : ~IsWriting(v, Snapshot(n)))
    BY <1>3, TouchesOpenSnapshot
  <2>2. Snapshot(n) \in File /\ disk'[Snapshot(n)] = Empty
    BY <2>1 DEF Shape, File
  <2>3. /\ job'[w].file = Snapshot(n) /\ job'[w].kind = "snapshot"
        /\ job'[w].alone = \A v \in Others(w) : ~IsWriting(v, Snapshot(n))
    <3> DEFINE first == \A v \in Others(w) : ~IsWriting(v, Snapshot(n))
    <3> HIDE DEF first
    <3>1. job'[w] = WritingSnapshot(n, t, first)
      BY <2>1 DEF first
    <3>2. job'[w].file = Snapshot(n) /\ job'[w].kind = "snapshot" /\ job'[w].alone = first
      BY <3>1 DEF WritingSnapshot
    <3> QED
      BY <3>2 DEF first
  <2> QED
    BY <1>1, <2>1, <2>2, <2>3
<1>4. CASE ~OpenMock(w) /\ ~OpenSnapshot(w)
  <2>1. CASE MakeRoot(w)
    <3>1. job'[w].kind = "opening"
      BY <2>1 DEF MakeRoot, Opening, Shape
    <3> QED
      BY <3>1 DEF FindsItsFile
  <2>2. CASE RemoveFiles(w)
    <3>1. \E m : job'[w] = Removing(DirOf(m.file))
      BY <2>2, TouchesRemoveFiles
    <3>2. job'[w].kind = "removing"
      BY <3>1 DEF Removing
    <3> QED
      BY <3>2 DEF FindsItsFile
  <2>3. ASSUME job'[w] = Idle PROVE FindsItsFile(w)'
    <3>1. job'[w].kind = "idle"
      BY <2>3 DEF Idle
    <3> QED
      BY <3>1 DEF FindsItsFile
  <2>4. OpenMockFails(w) \/ RemoveDir(w) \/ WriteSnapshot(w) \/ Restart(w) => job'[w] = Idle
    BY DEF OpenMockFails, RemoveDir, WriteSnapshot, Restart, Shape
  <2>5. WriteMock(w) => job'[w] = Idle
    BY TouchesWriteMock
  <2>6. Compare(w) => job'[w] = Idle
    BY DEF Compare, Calls
  <2> QED
    BY <1>4, <2>1, <2>2, <2>3, <2>4, <2>5, <2>6 DEF Step
<1> QED
  BY <1>2, <1>3, <1>4

LEMMA AloneStep ==
    ASSUME FilesAssumption, Shape, Alone, NEW w \in Worker, Step(w)
    PROVE  Alone'
<1>1. PICK fs : Touches(w, fs)
  BY StepTouches
<1>2. \A v \in Worker : v = w \/ v \in Others(w)
  BY DEF Others
<1> QED
  BY <1>1, <1>2, AloneOwn, AloneOthers DEF Alone
----------------------------------------------------------------------------
(* What a step does to the job and the mock files of its own process.      *)

LEMMA OwnJob ==
    ASSUME FilesAssumption, Shape, NEW w \in Worker, Step(w)
    PROVE  /\ MakeRoot(w) => job'[w].kind = "opening"
           /\ OpenMock(w) => job'[w].kind = "mock" /\ job'[w].file = job[w].file /\ job[w].kind = "opening"
           /\ RemoveFiles(w) => job'[w].kind = "removing"
           /\ OpenSnapshot(w) => job'[w].kind = "snapshot"
           /\ \/ MakeRoot(w) \/ OpenMock(w) \/ RemoveFiles(w) \/ OpenSnapshot(w)
              \/ job'[w].kind = "idle"
<1>1. MakeRoot(w) => job'[w].kind = "opening"
  BY DEF MakeRoot, Opening, Shape
<1>2. ASSUME OpenMock(w)
      PROVE  job'[w].kind = "mock" /\ job'[w].file = job[w].file /\ job[w].kind = "opening"
  <2>1. job'[w] = [WritingMock(job[w].file, job[w].text) EXCEPT
                       !.alone = \A v \in Others(w) : ~IsWriting(v, job[w].file)]
    BY <1>2, TouchesOpenMock
  <2>2. job[w].kind = "opening"
    BY <1>2 DEF OpenMock
  <2> QED
    BY <2>1, <2>2 DEF WritingMock
<1>3. ASSUME RemoveFiles(w) PROVE job'[w].kind = "removing"
  <2>1. \E m : job'[w] = Removing(DirOf(m.file))
    BY <1>3, TouchesRemoveFiles
  <2> QED
    BY <2>1 DEF Removing
<1>4. ASSUME OpenSnapshot(w) PROVE job'[w].kind = "snapshot"
  <2>1. PICK n \in Name, t \in Text :
            job'[w] = WritingSnapshot(n, t, \A v \in Others(w) : ~IsWriting(v, Snapshot(n)))
    BY <1>4, TouchesOpenSnapshot
  <2> QED
    BY <2>1 DEF WritingSnapshot
<1>5. ASSUME job'[w] = Idle PROVE job'[w].kind = "idle"
  BY <1>5 DEF Idle
<1>6. OpenMockFails(w) \/ RemoveDir(w) \/ WriteSnapshot(w) \/ Restart(w) => job'[w] = Idle
  BY DEF OpenMockFails, RemoveDir, WriteSnapshot, Restart, Shape
<1>7. WriteMock(w) => job'[w] = Idle
  BY TouchesWriteMock
<1>8. Compare(w) => job'[w] = Idle
  BY DEF Compare, Calls
<1> QED
  BY <1>1, <1>2, <1>3, <1>4, <1>5, <1>6, <1>7, <1>8 DEF Step

\* What a process is doing when it takes a step.
LEMMA KindBefore ==
    ASSUME NEW w \in Worker
    PROVE  /\ MakeRoot(w) \/ RemoveFiles(w) \/ OpenSnapshot(w) \/ Compare(w) => job[w].kind = "idle"
           /\ OpenMock(w) \/ OpenMockFails(w) => job[w].kind = "opening"
           /\ WriteMock(w) => job[w].kind = "mock"
           /\ RemoveDir(w) => job[w].kind = "removing"
           /\ WriteSnapshot(w) => job[w].kind = "snapshot"
<1>1. MakeRoot(w) \/ RemoveFiles(w) \/ OpenSnapshot(w) \/ Compare(w) => job[w] = Idle
  BY DEF MakeRoot, RemoveFiles, OpenSnapshot, Compare, Calls
<1>2. job[w] = Idle => job[w].kind = "idle"
  BY DEF Idle
<1> QED
  BY <1>1, <1>2 DEF OpenMock, OpenMockFails, WriteMock, RemoveDir, WriteSnapshot

\* What a mock file that was just written is registered as.
LEMMA OwnMocks ==
    ASSUME Shape, NEW w \in Worker, Step(w)
    PROVE  /\ WriteMock(w) => \E lost, kept \in BOOLEAN : \E m :
                 /\ m.file = job[w].file /\ m.text = job[w].text /\ m.kept = kept
                 /\ m.intact = (job[w].alone /\ ~lost)
                 /\ live'[w] = live[w] \cup {m}
                 /\ leaked' = IF kept THEN leaked ELSE leaked \cup {DirOf(job[w].file)}
                 /\ IF job[w].linked
                    THEN \E text \in After(job[w].file, job[w].text, lost) :
                            disk' = [disk EXCEPT ![job[w].file] = text]
                    ELSE UNCHANGED disk
           /\ Restart(w) => live'[w] = {}
           /\ OpenMock(w) => live'[w] = live[w]
           /\ \/ WriteMock(w) \/ Restart(w) \/ RemoveFiles(w)
              \/ live'[w] = live[w]
<1>1. ASSUME WriteMock(w)
      PROVE  \E lost, kept \in BOOLEAN : \E m :
                 /\ m.file = job[w].file /\ m.text = job[w].text /\ m.kept = kept
                 /\ m.intact = (job[w].alone /\ ~lost)
                 /\ live'[w] = live[w] \cup {m}
                 /\ leaked' = IF kept THEN leaked ELSE leaked \cup {DirOf(job[w].file)}
                 /\ IF job[w].linked
                    THEN \E text \in After(job[w].file, job[w].text, lost) :
                            disk' = [disk EXCEPT ![job[w].file] = text]
                    ELSE UNCHANGED disk
  <2> DEFINE f == job[w].file
  <2>1. PICK lost, kept \in BOOLEAN :
            /\ IF job[w].linked
               THEN \E text \in After(f, job[w].text, lost) : disk' = [disk EXCEPT ![f] = text]
               ELSE UNCHANGED disk
            /\ live' = [Shaken(w, {f}) EXCEPT ![w] = @ \cup
                  {[file |-> f, text |-> job[w].text, kept |-> kept,
                    intact |-> job[w].alone /\ ~lost]}]
            /\ leaked' = IF kept THEN leaked ELSE leaked \cup {DirOf(f)}
    BY <1>1 DEF WriteMock
  <2> DEFINE m == [file |-> f, text |-> job[w].text, kept |-> kept, intact |-> job[w].alone /\ ~lost]
  <2>2. /\ m.file = f /\ m.text = job[w].text /\ m.kept = kept
        /\ m.intact = (job[w].alone /\ ~lost)
    OBVIOUS
  <2> HIDE DEF m
  <2>3. live' = [Shaken(w, {f}) EXCEPT ![w] = @ \cup {m}]
    BY <2>1 DEF m
  <2>4. live'[w] = live[w] \cup {m}
    BY <2>3, ShakenMocks DEF Shaken
  <2> HIDE DEF f
  <2>5. /\ m.file = f /\ m.text = job[w].text /\ m.kept = kept
        /\ m.intact = (job[w].alone /\ ~lost)
        /\ live'[w] = live[w] \cup {m}
        /\ leaked' = IF kept THEN leaked ELSE leaked \cup {DirOf(f)}
        /\ IF job[w].linked
           THEN \E text \in After(f, job[w].text, lost) : disk' = [disk EXCEPT ![f] = text]
           ELSE UNCHANGED disk
    BY <2>1, <2>2, <2>4
  <2> QED
    BY <2>5 DEF f
<1>2. Restart(w) => live'[w] = {}
  BY DEF Restart, Shape
<1>3. OpenMock(w) => live'[w] = live[w]
  <2>1. OpenMock(w) => live' = Shaken(w, {job[w].file})
    BY DEF OpenMock
  <2> QED
    BY <2>1, ShakenMocks
<1>4. MakeRoot(w) \/ OpenMockFails(w) \/ RemoveDir(w) \/ OpenSnapshot(w) \/ WriteSnapshot(w)
      \/ Compare(w) => live'[w] = live[w]
  BY DEF MakeRoot, OpenMockFails, RemoveDir, OpenSnapshot, WriteSnapshot, Compare
<1> QED
  BY <1>1, <1>2, <1>3, <1>4 DEF Step
----------------------------------------------------------------------------
(* What a test reads of its mock files.                                    *)

LEMMA ReadsOthers ==
    ASSUME Shape, MockFileReads, NEW w \in Worker, NEW fs, Touches(w, fs), NEW v \in Others(w),
           NEW o \in live'[v], o.intact
    PROVE  disk'[o.file] = o.text
<1>1. PICK m \in live[v] : /\ m \in Mock /\ o.file = m.file /\ o.text = m.text
                           /\ m.intact /\ m.file \notin fs
  BY OtherMocks
<1>2. v \in Worker /\ m.file \in File
  BY <1>1 DEF Others, Mock, File
<1> QED
  BY <1>1, <1>2 DEF MockFileReads, Touches

LEMMA ReadsOwn ==
    ASSUME FilesAssumption, Shape, Alone, Numbered, MockFileReads, NEW w \in Worker, Step(w),
           NEW o \in live'[w], o.intact
    PROVE  disk'[o.file] = o.text
<1>1. \A m \in live[w] : m \in Mock /\ m.file \in MockFile /\ m.file \in File
  BY DEF Shape, Mock, File
<1>2. ASSUME o \in live[w], NEW fs, Touches(w, fs), o.file \notin fs
      PROVE  disk'[o.file] = o.text
  BY <1>1, <1>2 DEF Touches, MockFileReads
<1>3. ASSUME OpenMock(w) \/ WriteMock(w), o \in live[w] PROVE o.file # job[w].file
  <2>1. job[w].kind \in {"opening", "mock"}
    BY <1>3 DEF OpenMock, WriteMock
  <2>2. job[w].file[1] = counter[w] /\ o.file[1] < counter[w] /\ counter[w] \in Nat
    BY <1>3, <2>1 DEF Numbered, NumbersOf, Shape
  <2> QED
    BY <2>2
<1>4. CASE OpenMock(w)
  BY <1>2, <1>3, <1>4, TouchesOpenMock, OwnMocks
<1>5. CASE WriteMock(w)
  <2>1. PICK lost, m :
           /\ lost \in BOOLEAN
           /\ m.file = job[w].file /\ m.text = job[w].text
           /\ m.intact = (job[w].alone /\ ~lost)
           /\ live'[w] = live[w] \cup {m}
           /\ IF job[w].linked
              THEN \E text \in After(job[w].file, job[w].text, lost) :
                      disk' = [disk EXCEPT ![job[w].file] = text]
              ELSE UNCHANGED disk
    BY <1>5, OwnMocks
  <2>2. CASE o \in live[w]
    BY <1>2, <1>3, <1>5, <2>2, TouchesWriteMock
  <2>3. CASE o = m
    <3>1. job[w].alone /\ ~lost
      BY <2>1, <2>3
    <3>2. job[w].kind = "mock" /\ job[w].file \in File
      BY <1>5, TouchesWriteMock DEF File, Mocking
    <3>3. disk[job[w].file] = Empty /\ job[w].linked
      BY <3>1, <3>2 DEF Alone, FindsItsFile
    <3>4. After(job[w].file, job[w].text, lost) = {job[w].text}
      BY <3>1, <3>3 DEF After
    <3>5. disk' = [disk EXCEPT ![job[w].file] = job[w].text]
      BY <2>1, <3>3, <3>4
    <3> QED
      BY <2>1, <2>3, <3>2, <3>5 DEF Shape
  <2> QED
    BY <2>1, <2>2, <2>3
<1>6. CASE RemoveFiles(w)
  <2>1. PICK m \in live[w] :
              /\ Touches(w, In(DirOf(m.file))) /\ live'[w] = live[w] \ {m}
    BY <1>6, TouchesRemoveFiles
  <2>2. o.file \in In(DirOf(m.file)) => o.file[1] = m.file[1]
    BY DEF In, DirOf
  <2>3. o \in live[w] /\ o.file \notin In(DirOf(m.file))
    BY <2>1, <2>2 DEF Numbered, NumbersOf
  <2> QED
    BY <1>2, <2>1, <2>3
<1>7. CASE OpenSnapshot(w)
  <2>1. PICK n \in Name : Touches(w, {Snapshot(n)})
    BY <1>7, TouchesOpenSnapshot
  <2>2. o \in live[w]
    BY <1>7 DEF OpenSnapshot
  <2> QED
    BY <1>1, <1>2, <2>1, <2>2, FilesApart
<1>8. CASE WriteSnapshot(w)
  <2>1. Touches(w, {job[w].file}) /\ job[w].file = Snapshot(job[w].name) /\ job[w].name \in Name
    BY <1>8, TouchesWriteSnapshot
  <2>2. o \in live[w]
    BY <1>8 DEF WriteSnapshot
  <2> QED
    BY <1>1, <1>2, <2>1, <2>2, FilesApart
<1>9. CASE MakeRoot(w) \/ OpenMockFails(w) \/ RemoveDir(w) \/ Compare(w)
  BY <1>9 DEF MakeRoot, OpenMockFails, RemoveDir, Compare, MockFileReads
<1>10. CASE Restart(w)
  BY <1>10, OwnMocks
<1> QED
  BY <1>4, <1>5, <1>6, <1>7, <1>8, <1>9, <1>10 DEF Step

LEMMA ReadsStep ==
    ASSUME FilesAssumption, Shape, Alone, Numbered, MockFileReads, NEW w \in Worker, Step(w)
    PROVE  MockFileReads'
<1>1. PICK fs : Touches(w, fs)
  BY StepTouches
<1>2. \A v \in Worker : v = w \/ v \in Others(w)
  BY DEF Others
<1> QED
  BY <1>1, <1>2, ReadsOwn, ReadsOthers DEF MockFileReads
----------------------------------------------------------------------------
(* Snapshots.                                                              *)

\* Only updates touch snapshots.
LEMMA SnapshotsKept ==
    ASSUME FilesAssumption, Shape, NEW w \in Worker, Step(w), ~OpenSnapshot(w), ~WriteSnapshot(w)
    PROVE  /\ UNCHANGED <<spoiled, golden>> /\ \A n \in Name : disk'[Snapshot(n)] = disk[Snapshot(n)]
           /\ job'[w].kind # "snapshot"
<1>1. UNCHANGED <<spoiled, golden>>
  BY DEF Step, MakeRoot, OpenMock, OpenMockFails, WriteMock, RemoveFiles, RemoveDir, Compare, Restart
<1>2. job'[w].kind # "snapshot"
  BY OwnJob
<1>3. ASSUME NEW fs, Touches(w, fs), fs \subseteq MockFile, NEW n \in Name
      PROVE  disk'[Snapshot(n)] = disk[Snapshot(n)]
  <2>1. Snapshot(n) \in File /\ Snapshot(n) \notin MockFile
    BY FilesApart DEF File
  <2> QED
    BY <1>3, <2>1 DEF Touches
<1>4. \E fs : Touches(w, fs) /\ fs \subseteq MockFile
  <2>1. CASE OpenMock(w) \/ WriteMock(w)
    <3>1. Touches(w, {job[w].file}) /\ job[w].file \in MockFile
      BY <2>1, TouchesOpenMock, TouchesWriteMock
    <3>2. {job[w].file} \subseteq MockFile
      BY <3>1
    <3> QED
      BY <3>1, <3>2
  <2>2. CASE RemoveFiles(w)
    <3>1. PICK m \in live[w] : Touches(w, In(DirOf(m.file)))
      BY <2>2, TouchesRemoveFiles
    <3>2. In(DirOf(m.file)) \subseteq MockFile
      BY DEF In
    <3> QED
      BY <3>1, <3>2
  <2>3. CASE MakeRoot(w) \/ OpenMockFails(w) \/ RemoveDir(w) \/ Compare(w) \/ Restart(w)
    BY <2>3, TouchesQuiet
  <2> QED
    BY <2>1, <2>2, <2>3 DEF Step
<1> QED
  BY <1>1, <1>2, <1>3, <1>4

LEMMA SnapshotsOpened ==
    ASSUME FilesAssumption, Shape, Snapshots, NEW w \in Worker, OpenSnapshot(w)
    PROVE  Snapshots'
<1>1. PICK n \in Name, t \in Text :
              /\ Touches(w, {Snapshot(n)})
              /\ disk' = [disk EXCEPT ![Snapshot(n)] = Empty]
              /\ spoiled' = spoiled \cup {Snapshot(n)}
              /\ job'[w] = WritingSnapshot(n, t, \A v \in Others(w) : ~IsWriting(v, Snapshot(n)))
  BY TouchesOpenSnapshot
<1> DEFINE first == \A v \in Others(w) : ~IsWriting(v, Snapshot(n))
<1> HIDE DEF first
<1>0. job'[w] = WritingSnapshot(n, t, first)
  BY <1>1 DEF first
<1>2. job'[w].file = Snapshot(n)
  BY <1>0 DEF WritingSnapshot
<1>3. ASSUME NEW v \in Others(w), job'[v].kind = "snapshot" PROVE job'[v].file \in spoiled
  <2>1. SameJob(job[v], job'[v]) /\ v \in Worker
    BY <1>1 DEF Touches, Others
  <2> QED
    BY <1>3, <2>1 DEF SameJob, Snapshots
<1>4. \A v \in Worker : job'[v].kind = "snapshot" => job'[v].file \in spoiled'
  BY <1>1, <1>2, <1>3 DEF Others
<1>5. \A o \in Name : Snapshot(o) \notin spoiled' => disk'[Snapshot(o)] = disk[Snapshot(o)]
  BY <1>1 DEF Shape, File
<1>6. golden' = golden
  BY DEF OpenSnapshot
<1> QED
  BY <1>1, <1>4, <1>5, <1>6 DEF Snapshots, Shared

LEMMA SnapshotsWritten ==
    ASSUME FilesAssumption, Shape, Alone, Snapshots, NEW w \in Worker, WriteSnapshot(w)
    PROVE  Snapshots'
<1> DEFINE f == job[w].file
<1> DEFINE name == job[w].name
<1>1. /\ job[w] \in Snapping /\ f = Snapshot(name) /\ name \in Name
      /\ Touches(w, {f}) /\ job'[w] = Idle /\ f \in File
  BY TouchesWriteSnapshot DEF File
<1>2. PICK lost \in BOOLEAN :
          /\ \E text \in After(f, job[w].text, lost) : disk' = [disk EXCEPT ![f] = text]
          /\ spoiled' = IF job[w].alone /\ ~lost THEN spoiled \ {f} ELSE spoiled
          /\ golden' = [golden EXCEPT ![name] = job[w].text]
  BY DEF WriteSnapshot
<1>3. job[w].kind = "snapshot" /\ f \in spoiled
  BY DEF WriteSnapshot, Snapshots
<1>4. job[w].alone => disk[f] = Empty /\ \A v \in Others(w) : ~IsWriting(v, f)
  BY <1>3 DEF Alone, FindsItsFile
<1> HIDE DEF f, name
<1>5. ASSUME NEW v \in Worker, job'[v].kind = "snapshot" PROVE job'[v].file \in spoiled'
  <2>1. v \in Others(w)
    BY <1>1, <1>5 DEF Others, Idle
  <2>2. job[v].kind = "snapshot" /\ job'[v].file = job[v].file
    BY <1>1, <1>5, <2>1 DEF Touches, SameJob
  <2>3. job[v].file \in spoiled
    BY <2>2 DEF Snapshots
  <2>4. job[w].alone => job[v].file # f
    BY <1>4, <2>1, <2>2 DEF IsWriting
  <2> QED
    BY <1>2, <2>2, <2>3, <2>4
<1>6. ASSUME NEW n \in Name, Snapshot(n) \notin spoiled', ~Shared(n)
      PROVE  disk'[Snapshot(n)] = golden'[n]
  <2>1. CASE Snapshot(n) = f
    <3>1. n = name
      BY <1>1, <1>6, <2>1 DEF Snapshot, Shared
    <3>2. job[w].alone /\ ~lost
      BY <1>2, <1>3, <1>6, <2>1
    <3>3. After(f, job[w].text, lost) = {job[w].text}
      BY <1>4, <3>2 DEF After
    <3> QED
      BY <1>1, <1>2, <2>1, <3>1, <3>3 DEF Shape
  <2>2. CASE Snapshot(n) # f
    <3>1. Snapshot(n) \notin spoiled /\ n # name
      BY <1>1, <1>2, <1>6, <2>2
    <3>2. disk'[Snapshot(n)] = disk[Snapshot(n)] /\ golden'[n] = golden[n]
      BY <1>2, <2>2, <3>1 DEF Shape, File
    <3> QED
      BY <1>6, <3>1, <3>2 DEF Snapshots
  <2> QED
    BY <2>1, <2>2
<1> QED
  BY <1>5, <1>6 DEF Snapshots, Shared

LEMMA SnapshotsStep ==
    ASSUME FilesAssumption, Shape, Alone, Snapshots, NEW w \in Worker, Step(w)
    PROVE  Snapshots'
<1>1. CASE ~OpenSnapshot(w) /\ ~WriteSnapshot(w)
  <2>1. /\ UNCHANGED <<spoiled, golden>> /\ \A n \in Name : disk'[Snapshot(n)] = disk[Snapshot(n)]
        /\ job'[w].kind # "snapshot"
    BY <1>1, SnapshotsKept
  <2>2. PICK fs : Touches(w, fs)
    BY StepTouches
  <2>3. ASSUME NEW v \in Worker, job'[v].kind = "snapshot" PROVE job'[v].file \in spoiled
    <3>1. v \in Others(w)
      BY <2>1, <2>3 DEF Others
    <3> QED
      BY <2>2, <2>3, <3>1 DEF Touches, SameJob, Snapshots
  <2> QED
    BY <2>1, <2>3 DEF Snapshots, Shared
<1> QED
  BY <1>1, SnapshotsOpened, SnapshotsWritten

LEMMA VerdictStep ==
    ASSUME FilesAssumption, Shape, Snapshots, NEW w \in Worker, Step(w)
    PROVE  SnapshotVerdict'
<1>1. CASE Compare(w)
  <2>1. PICK n \in Name, t \in Text \cup {Empty} :
            verdict' = [name |-> n, text |-> t, pass |-> disk[Snapshot(n)] = t]
    BY <1>1 DEF Compare
  <2>2. verdict'.name = n /\ verdict'.text = t /\ verdict'.pass = (disk[Snapshot(n)] = t)
    BY <2>1
  <2>3. UNCHANGED <<spoiled, golden>>
    BY <1>1 DEF Compare
  <2>4. Snapshot(n) \notin spoiled /\ ~Shared(n) => disk[Snapshot(n)] = golden[n]
    BY DEF Snapshots
  <2> QED
    BY <2>2, <2>3, <2>4 DEF SnapshotVerdict, Shared
<1>2. CASE ~Compare(w)
  <2>1. verdict' = NoVerdict
    BY <1>2 DEF Step, MakeRoot, OpenMock, OpenMockFails, WriteMock, RemoveFiles, RemoveDir,
                OpenSnapshot, WriteSnapshot, Restart
  <2> QED
    BY <2>1 DEF SnapshotVerdict, NoVerdict
<1> QED
  BY <1>1, <1>2
----------------------------------------------------------------------------
(* Mock directories.                                                       *)

\* Who is to remove a directory still is after a step, or does it now.
LEMMA KeptStep ==
    ASSUME FilesAssumption, Shape, Alone, NEW w \in Worker, Step(w), NEW dir, Kept(dir)
    PROVE  Kept(dir)' \/ (RemoveFiles(w) /\ job'[w].dir = dir)
<1>1. PICK fs : Touches(w, fs)
  BY StepTouches
<1>2. leaked \subseteq leaked'
  BY DEF Step, MakeRoot, OpenMock, OpenMockFails, WriteMock, RemoveFiles, RemoveDir,
         OpenSnapshot, WriteSnapshot, Compare, Restart
<1>3. CASE dir \in leaked
  BY <1>2, <1>3 DEF Kept
<1>4. ASSUME NEW v \in Others(w), job[v].kind = "mock", dir = DirOf(job[v].file)
      PROVE  Kept(dir)'
  BY <1>1, <1>4 DEF Touches, SameJob, Kept, Others
<1>5. ASSUME NEW v \in Others(w), NEW m \in live[v], m.kept, dir = DirOf(m.file)
      PROVE  Kept(dir)'
  <2>1. PICK o \in live'[v] : o.file = m.file /\ o.kept = m.kept
    BY <1>1, OtherMocks
  <2> QED
    BY <1>5, <2>1 DEF Kept, Others
<1>6. ASSUME job[w].kind = "mock", dir = DirOf(job[w].file)
      PROVE  Kept(dir)'
  <2>1. WriteMock(w) \/ Restart(w)
    BY <1>6, KindBefore DEF Step
  <2>2. CASE WriteMock(w)
    <3>1. PICK kept, m :
             /\ kept \in BOOLEAN
             /\ m.file = job[w].file /\ m.kept = kept /\ live'[w] = live[w] \cup {m}
             /\ leaked' = IF kept THEN leaked ELSE leaked \cup {DirOf(job[w].file)}
      BY <2>2, OwnMocks
    <3> QED
      BY <1>6, <3>1 DEF Kept
  <2>3. CASE Restart(w)
    BY <1>6, <2>3 DEF Restart, Kept
  <2> QED
    BY <2>1, <2>2, <2>3
<1>7. ASSUME NEW m \in live[w], m.kept, dir = DirOf(m.file)
      PROVE  Kept(dir)' \/ (RemoveFiles(w) /\ job'[w].dir = dir)
  <2>1. CASE RemoveFiles(w)
    <3>1. PICK o \in live[w] : job'[w] = Removing(DirOf(o.file)) /\ live'[w] = live[w] \ {o}
      BY <2>1, TouchesRemoveFiles
    <3>2. job'[w].dir = DirOf(o.file)
      BY <3>1 DEF Removing
    <3> QED
      BY <1>7, <2>1, <3>1, <3>2 DEF Kept
  <2>2. CASE Restart(w)
    BY <1>7, <2>2 DEF Restart, Kept
  <2>3. CASE ~RemoveFiles(w) /\ ~Restart(w)
    <3>1. m \in live'[w]
      BY <2>3, OwnMocks
    <3> QED
      BY <1>7, <3>1 DEF Kept
  <2> QED
    BY <2>1, <2>2, <2>3
<1>8. \A v \in Worker : v = w \/ v \in Others(w)
  BY DEF Others
<1> QED
  BY <1>3, <1>4, <1>5, <1>6, <1>7, <1>8 DEF Kept

LEMMA ComingOthers ==
    ASSUME NEW w \in Worker, NEW fs, Touches(w, fs), NEW v \in Others(w), NEW dir,
           \/ job[v].kind = "opening" /\ dir = DirOf(job[v].file)
           \/ job[v].kind = "removing" /\ dir = job[v].dir
    PROVE  Coming(dir)'
<1>1. SameJob(job[v], job'[v]) /\ v \in Worker
  BY DEF Touches, Others
<1> QED
  BY <1>1 DEF SameJob, Coming

\* A file that a step leaves behind has somebody to remove it.
LEMMA OwnedFiles ==
    ASSUME FilesAssumption, Shape, Alone, Owned, NEW w \in Worker, Step(w),
           NEW f \in MockFile, disk'[f] # NoFile
    PROVE  Kept(DirOf(f))'
<1>1. f \in File
  BY DEF File
<1>2. CASE RemoveFiles(w)
  <2>1. PICK m \in live[w] :
              /\ Touches(w, In(DirOf(m.file))) /\ job'[w] = Removing(DirOf(m.file))
              /\ \A g \in In(DirOf(m.file)) : disk'[g] = NoFile
    BY <1>2, TouchesRemoveFiles
  <2>2. f \notin In(DirOf(m.file)) /\ disk'[f] = disk[f]
    BY <1>1, <2>1 DEF Touches
  <2>3. job'[w].dir = DirOf(m.file) /\ DirOf(f) # DirOf(m.file)
    BY <2>1, <2>2 DEF Removing, In
  <2> QED
    BY <2>2, <2>3, KeptStep DEF Owned
<1>3. CASE OpenMock(w) /\ f = job[w].file
  <2>1. job'[w].kind = "mock" /\ job'[w].file = job[w].file
    BY <1>3, OwnJob
  <2> QED
    BY <1>3, <2>1 DEF Kept
<1>4. CASE WriteMock(w) /\ f = job[w].file
  <2>1. Kept(DirOf(f))
    BY <1>4 DEF WriteMock, Kept
  <2>2. ~RemoveFiles(w)
    BY <1>4, KindBefore
  <2> QED
    BY <2>1, <2>2, KeptStep
<1>5. CASE ~RemoveFiles(w) /\ ~(OpenMock(w) /\ f = job[w].file) /\ ~(WriteMock(w) /\ f = job[w].file)
  <2>1. disk'[f] = disk[f]
    <3>1. CASE OpenMock(w)
      <4>1. Touches(w, {job[w].file})
        BY <3>1, TouchesOpenMock
      <4> QED
        BY <1>1, <1>5, <3>1, <4>1 DEF Touches
    <3>2. CASE WriteMock(w)
      <4>1. Touches(w, {job[w].file})
        BY <3>2, TouchesWriteMock
      <4> QED
        BY <1>1, <1>5, <3>2, <4>1 DEF Touches
    <3>3. CASE OpenSnapshot(w)
      <4>1. PICK n \in Name : Touches(w, {Snapshot(n)})
        BY <3>3, TouchesOpenSnapshot
      <4> QED
        BY <1>1, <4>1, FilesApart DEF Touches
    <3>4. CASE WriteSnapshot(w)
      <4>1. Touches(w, {job[w].file}) /\ job[w].file = Snapshot(job[w].name) /\ job[w].name \in Name
        BY <3>4, TouchesWriteSnapshot
      <4> QED
        BY <1>1, <4>1, FilesApart DEF Touches
    <3>5. CASE MakeRoot(w) \/ OpenMockFails(w) \/ RemoveDir(w) \/ Compare(w) \/ Restart(w)
      BY <1>1, <3>5, TouchesQuiet DEF Touches
    <3> QED
      BY <1>5, <3>1, <3>2, <3>3, <3>4, <3>5 DEF Step
  <2> QED
    BY <1>5, <2>1, KeptStep DEF Owned
<1> QED
  BY <1>2, <1>3, <1>4, <1>5

LEMMA OwnedDirs ==
    ASSUME FilesAssumption, Shape, Alone, Owned, NEW w \in Worker, Step(w), NEW dir \in dirs'
    PROVE  Kept(dir)' \/ Coming(dir)'
<1>1. PICK fs : Touches(w, fs)
  BY StepTouches
<1>2. CASE dir \notin dirs
  <2>1. MakeRoot(w)
    BY <1>2 DEF Step, OpenMock, OpenMockFails, WriteMock, RemoveFiles, RemoveDir,
                OpenSnapshot, WriteSnapshot, Compare, Restart
  <2>2. PICK p \in Path, t \in Text :
             /\ dirs' = dirs \cup {DirOf(<<counter'[w], p>>)}
             /\ job'[w] = Opening(<<counter'[w], p>>, t)
    BY <2>1 DEF MakeRoot, Shape
  <2>3. job'[w].kind = "opening" /\ dir = DirOf(job'[w].file)
    BY <1>2, <2>2 DEF Opening
  <2> QED
    BY <2>3 DEF Coming
<1>3. ASSUME Kept(dir) PROVE Kept(dir)' \/ Coming(dir)'
  <2>1. RemoveFiles(w) => job'[w].kind = "removing"
    BY OwnJob
  <2> QED
    BY <1>3, <2>1, KeptStep DEF Coming
<1>4. ASSUME NEW v \in Others(w),
             \/ job[v].kind = "opening" /\ dir = DirOf(job[v].file)
             \/ job[v].kind = "removing" /\ dir = job[v].dir
      PROVE  Coming(dir)'
  BY <1>1, <1>4, ComingOthers
<1>5. ASSUME job[w].kind = "opening", dir = DirOf(job[w].file)
      PROVE  Kept(dir)'
  <2>1. OpenMock(w) \/ OpenMockFails(w) \/ Restart(w)
    BY <1>5, KindBefore DEF Step
  <2>2. CASE OpenMock(w)
    <3>1. job'[w].kind = "mock" /\ job'[w].file = job[w].file
      BY <2>2, OwnJob
    <3> QED
      BY <1>5, <3>1 DEF Kept
  <2>3. CASE OpenMockFails(w) \/ Restart(w)
    BY <1>5, <2>3 DEF OpenMockFails, Restart, Kept
  <2> QED
    BY <2>1, <2>2, <2>3
<1>6. ASSUME job[w].kind = "removing", dir = job[w].dir, dir \in dirs
      PROVE  Kept(dir)' \/ Coming(dir)'
  <2>1. RemoveDir(w) \/ Restart(w)
    BY <1>6, KindBefore DEF Step
  <2>2. CASE RemoveDir(w)
    <3>1. PICK f \in In(dir) : disk[f] # NoFile
      BY <1>6, <2>2 DEF RemoveDir
    <3>2. f \in MockFile /\ DirOf(f) = dir
      BY DEF In
    <3>3. Kept(dir)
      BY <3>1, <3>2 DEF Owned
    <3> QED
      BY <1>3, <3>3
  <2>3. CASE Restart(w)
    BY <1>6, <2>3 DEF Restart, Kept
  <2> QED
    BY <2>1, <2>2, <2>3
<1>7. \A v \in Worker : v = w \/ v \in Others(w)
  BY DEF Others
<1> QED
  BY <1>2, <1>3, <1>4, <1>5, <1>6, <1>7 DEF Owned, Coming

LEMMA OwnedStep ==
    ASSUME FilesAssumption, Shape, Alone, Owned, NEW w \in Worker, Step(w)
    PROVE  Owned'
BY OwnedFiles, OwnedDirs DEF Owned
----------------------------------------------------------------------------
(* The invariant and what it gives.                                        *)

Inv ==
    /\ Shape /\ Numbered /\ Alone
    /\ MockFileReads /\ Owned /\ Snapshots /\ SnapshotVerdict

LEMMA InitInv == FilesAssumption /\ Init => Inv
<1> SUFFICES ASSUME FilesAssumption, Init PROVE Inv
  OBVIOUS
<1>1. \A w \in Worker : job[w].kind = "idle" /\ live[w] = {}
  BY DEF Init, Idle
<1>2. \A n \in Name : disk[Snapshot(n)] = golden[n]
  BY DEF Init, File
<1>3. \A f \in MockFile : disk[f] = NoFile
  BY DEF Init, File
<1>4. Numbered /\ Alone /\ MockFileReads
  BY <1>1 DEF Numbered, NumbersOf, Alone, FindsItsFile, MockFileReads
<1>5. Snapshots /\ Owned
  BY <1>1, <1>2, <1>3 DEF Init, Snapshots, Owned
<1>6. SnapshotVerdict
  BY DEF Init, SnapshotVerdict
<1> QED
  BY <1>4, <1>5, <1>6, InitShape DEF Inv

LEMMA InvStep == FilesAssumption /\ Inv /\ [Next]_vars => Inv'
<1> SUFFICES ASSUME FilesAssumption, Inv, [Next]_vars PROVE Inv'
  OBVIOUS
<1>1. ASSUME NEW w \in Worker, Step(w) PROVE Inv'
  BY <1>1, ShapeStep, NumberedStep, AloneStep, ReadsStep, OwnedStep, SnapshotsStep, VerdictStep DEF Inv
<1>2. CASE UNCHANGED vars
  <2> USE <1>2 DEF vars, Inv
  <2>1. Shape'
    BY DEF Shape
  <2>2. Numbered' /\ Alone'
    BY DEF Numbered, NumbersOf, Alone, FindsItsFile, IsWriting
  <2>3. MockFileReads' /\ SnapshotVerdict'
    BY DEF MockFileReads, SnapshotVerdict
  <2>4. Owned'
    BY DEF Owned, Kept, Coming
  <2>5. Snapshots'
    BY DEF Snapshots
  <2> QED
    BY <2>1, <2>2, <2>3, <2>4, <2>5
<1> QED
  BY <1>1, <1>2 DEF Next, Step

LEMMA FilesInvariant == ASSUME FilesAssumption PROVE Spec => []Inv
BY InitInv, InvStep, PTL DEF Spec

\* A mock file reads as the content it was made with while its test runs,
\* unless another process touched it or a write failed.
THEOREM MockFilesRead == ASSUME FilesAssumption PROVE Spec => []MockFileReads
<1>1. Inv => MockFileReads
  BY DEF Inv
<1> QED
  BY <1>1, FilesInvariant, PTL

\* When all tests are over the mock directories left are those of processes
\* that ended early, of calls that raised and of calls outside every test.
THEOREM MockDirsRemoved == ASSUME FilesAssumption PROVE Spec => []MockFilesCleaned
<1>1. Inv => MockFilesCleaned
  <2> SUFFICES ASSUME Owned, \A w \in Worker : job[w] = Idle /\ \A m \in live[w] : ~m.kept,
                      NEW dir \in dirs
               PROVE  dir \in leaked
    BY DEF Inv, MockFilesCleaned
  <2>1. \A w \in Worker : job[w].kind = "idle"
    BY DEF Idle
  <2> QED
    BY <2>1 DEF Owned, Kept, Coming
<1> QED
  BY <1>1, FilesInvariant, PTL

\* A comparison passes when the text is that of the name's last update, for
\* names whose file is their own and was written whole.
THEOREM VerdictsOfSnapshots == ASSUME FilesAssumption PROVE Spec => []SnapshotVerdict
<1>1. Inv => SnapshotVerdict
  BY DEF Inv
<1> QED
  BY <1>1, FilesInvariant, PTL
============================================================================
