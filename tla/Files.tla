------------------------------- MODULE Files -------------------------------
(***************************************************************************)
(* The files that tests leave on disk through assertions: mock files in    *)
(* directories of the system's temporary directory (src/mock_file.cpp) and *)
(* snapshots (src/runner.cpp).  A mock directory is named after a counter  *)
(* that every worker process starts at 0, and a snapshot may be asked for  *)
(* by its path, so that workers that run at the same time, and one that    *)
(* was killed and its successor, meet in them.  A file is truncated when   *)
(* it is opened; its text is written when it is closed.                    *)
(***************************************************************************)
EXTENDS Naturals, FiniteSets

CONSTANTS
    Worker,         \* worker processes that run at the same time
    Path,           \* relative paths given to mock_file
    LeafOf,         \* [Path -> the file name at the end of the path]
    Unwritable,     \* the paths that end as a directory: they cannot be opened
    Name,           \* snapshot names, with their root
    KeyOf,          \* [Name -> the file of a snapshot, after sanitizing]
    Text,           \* what tests write and compare
    MaxMocks,       \* bound on the mock files of one process
    MaxCalls,       \* bound on the calls of mock_file, update and compare
    MaxRestarts     \* bound on the processes that end and are replaced

NoFile == "no file"
Empty == ""                 \* what is left of a file that is truncated
Garbled == "garbled"        \* a part of a text, or parts of two

ASSUME FilesAssumption ==
    /\ MaxMocks \in Nat /\ MaxCalls \in Nat /\ MaxRestarts \in Nat
    /\ Unwritable \subseteq Path
    /\ {NoFile, Empty, Garbled} \cap Text = {}

VARIABLES
    counter,    \* [Worker -> g_mock_file_counter]
    update,     \* [Worker -> whether TEEZ_UPDATE_SNAPSHOTS is set]
    job,        \* [Worker -> the call it is in the middle of]
    live,       \* [Worker -> its mock files that are not cleaned up yet]
    dirs,       \* the mock directories there are
    disk,       \* [file -> what is in it]
    calls, restarts,
    verdict,    \* the comparison just made, or NoVerdict
    golden,     \* history: [Name -> the text its last update reported]
    spoiled,    \* history: snapshots whose last update was cut short, met
                \* another one, or could not write
    leaked      \* history: directories of mock files whose clean-up never comes

vars == <<counter, update, job, live, dirs, disk, calls, restarts, verdict,
          golden, spoiled, leaked>>
----------------------------------------------------------------------------
MockFile == (1..MaxMocks) \X Path
Snapshot(n) == <<0, KeyOf[n]>>
File == MockFile \cup {Snapshot(n) : n \in Name}

\* root of a mock file, and what is in a root
DirOf(file) == <<file[1], LeafOf[file[2]]>>
In(dir) == {f \in MockFile : DirOf(f) = dir}

Idle == [kind |-> "idle"]
\* alone: no other process has touched the file since it was opened;
\* linked: the open file is still the one in the directory.
Opening(f, t)     == [kind |-> "opening", file |-> f, text |-> t]
WritingMock(f, t) == [kind |-> "mock", file |-> f, text |-> t, alone |-> TRUE, linked |-> TRUE]
WritingSnapshot(n, t, first) ==
    [kind |-> "snapshot", file |-> Snapshot(n), name |-> n, text |-> t, alone |-> first]
Removing(dir) == [kind |-> "removing", dir |-> dir]

NoVerdict == [name |-> NoFile]

Init ==
    /\ counter = [w \in Worker |-> 0]
    /\ update \in [Worker -> BOOLEAN]
    /\ job = [w \in Worker |-> Idle]
    /\ live = [w \in Worker |-> {}]
    /\ dirs = {}
    /\ disk = [f \in File |-> NoFile]
    /\ calls = 0 /\ restarts = 0
    /\ verdict = NoVerdict
    /\ golden = [n \in Name |-> NoFile]
    /\ spoiled = {} /\ leaked = {}
----------------------------------------------------------------------------
\* A worker that is not in a call makes one.
Calls(w) == job[w] = Idle /\ calls < MaxCalls /\ calls' = calls + 1

IsWriting(w, f) == job[w].kind \in {"mock", "snapshot"} /\ job[w].file = f
Others(w) == Worker \ {w}

\* What an action of w on the files in fs does to the others: to what they
\* are writing, and to the mock files they have.
Disturbed(w, fs, unlink) ==
    [v \in Worker |->
        IF v # w /\ \E f \in fs : IsWriting(v, f)
        THEN IF unlink THEN [job[v] EXCEPT !.alone = FALSE, !.linked = FALSE]
                       ELSE [job[v] EXCEPT !.alone = FALSE]
        ELSE job[v]]
Shaken(w, fs) ==
    [v \in Worker |->
        IF v = w THEN live[v]
        ELSE {[m EXCEPT !.intact = m.intact /\ m.file \notin fs] : m \in live[v]}]

\* What is in a file after a text was written to it at its start.  Where
\* another process has written since it was truncated, more may remain; and
\* nobody looks at whether the write succeeded.
After(f, text, lost) ==
    IF lost THEN {disk[f], Garbled}
    ELSE IF disk[f] = Empty THEN {text} ELSE {text, Garbled}

(* Mock files.                                                             *)

\* Mutant: the directory is named without the counter.
MakeRoot_fixed(w) ==
    /\ Calls(w) /\ counter[w] < MaxMocks
    /\ counter' = [counter EXCEPT ![w] = 1]
    /\ \E p \in Path, t \in Text :
          /\ dirs' = dirs \cup {DirOf(<<1, p>>)}
          /\ job' = [job EXCEPT ![w] = Opening(<<1, p>>, t)]
    /\ verdict' = NoVerdict
    /\ UNCHANGED <<update, live, disk, restarts, golden, spoiled, leaked>>

\* create_mock_root and the file's parent directories.  What an earlier
\* process left in the directory stays there.
MakeRoot(w) ==
    /\ Calls(w) /\ counter[w] < MaxMocks
    /\ counter' = [counter EXCEPT ![w] = @ + 1]
    /\ \E p \in Path, t \in Text :
          /\ dirs' = dirs \cup {DirOf(<<counter'[w], p>>)}
          /\ job' = [job EXCEPT ![w] = Opening(<<counter'[w], p>>, t)]
    /\ verdict' = NoVerdict
    /\ UNCHANGED <<update, live, disk, restarts, golden, spoiled, leaked>>

\* The file is opened, and truncated.
OpenMock(w) ==
    /\ job[w].kind = "opening"
    /\ LET f == job[w].file IN
       /\ DirOf(f) \in dirs /\ f[2] \notin Unwritable
       /\ disk' = [disk EXCEPT ![f] = Empty]
       /\ job' = [Disturbed(w, {f}, FALSE) EXCEPT ![w] =
                    [WritingMock(f, job[w].text) EXCEPT
                        !.alone = \A v \in Others(w) : ~IsWriting(v, f)]]
       /\ live' = Shaken(w, {f})
    /\ verdict' = NoVerdict
    /\ UNCHANGED <<counter, update, dirs, calls, restarts, golden, spoiled, leaked>>

\* Nothing was registered yet that would remove the directory.
OpenMockFails(w) ==
    /\ job[w].kind = "opening"
    /\ DirOf(job[w].file) \notin dirs \/ job[w].file[2] \in Unwritable
    /\ job' = [job EXCEPT ![w] = Idle]
    /\ leaked' = leaked \cup {DirOf(job[w].file)}
    /\ verdict' = NoVerdict
    /\ UNCHANGED <<counter, update, live, dirs, disk, calls, restarts, golden, spoiled>>

\* The file is closed and its clean-up deferred: to the end of the test, or,
\* where no test is under way, to a list that is dropped (kept = FALSE).
WriteMock(w) ==
    /\ job[w].kind = "mock"
    /\ LET f == job[w].file IN
       \E lost, kept \in BOOLEAN :
          /\ IF job[w].linked
             THEN \E text \in After(f, job[w].text, lost) : disk' = [disk EXCEPT ![f] = text]
             ELSE UNCHANGED disk
          /\ live' = [Shaken(w, {f}) EXCEPT ![w] = @ \cup
                {[file |-> f, text |-> job[w].text, kept |-> kept,
                  intact |-> job[w].alone /\ ~lost]}]
          /\ leaked' = IF kept THEN leaked ELSE leaked \cup {DirOf(f)}
          /\ job' = [Disturbed(w, {f}, FALSE) EXCEPT ![w] = Idle]
    /\ verdict' = NoVerdict
    /\ UNCHANGED <<counter, update, dirs, calls, restarts, golden, spoiled>>

\* cleanup_mock_file, when the deferred functions run: first what is in the
\* directory is removed, ...
RemoveFiles(w) ==
    /\ job[w] = Idle
    /\ \E m \in live[w] :
          LET gone == In(DirOf(m.file)) IN
          /\ m.kept
          /\ live' = [Shaken(w, gone) EXCEPT ![w] = @ \ {m}]
          /\ disk' = [f \in File |-> IF f \in gone THEN NoFile ELSE disk[f]]
          /\ job' = [Disturbed(w, gone, TRUE) EXCEPT ![w] = Removing(DirOf(m.file))]
    /\ verdict' = NoVerdict
    /\ UNCHANGED <<counter, update, dirs, calls, restarts, golden, spoiled, leaked>>

\* Mutant: only the files are removed.
RemoveDir_never(w) ==
    /\ job[w].kind = "removing"
    /\ job' = [job EXCEPT ![w] = Idle]
    /\ verdict' = NoVerdict
    /\ UNCHANGED <<counter, update, live, dirs, disk, calls, restarts, golden, spoiled, leaked>>

\* ... then the directory, if nobody has put something in it meanwhile.  The
\* error code is not looked at.
RemoveDir(w) ==
    /\ job[w].kind = "removing"
    /\ dirs' = IF \A f \in In(job[w].dir) : disk[f] = NoFile THEN dirs \ {job[w].dir} ELSE dirs
    /\ job' = [job EXCEPT ![w] = Idle]
    /\ verdict' = NoVerdict
    /\ UNCHANGED <<counter, update, live, disk, calls, restarts, golden, spoiled, leaked>>
----------------------------------------------------------------------------
(* Snapshots.                                                              *)

\* Mutant: the file is opened without truncating it.
OpenSnapshot_appends(w) ==
    /\ Calls(w) /\ update[w]
    /\ \E n \in Name, t \in Text :
          /\ disk' = [disk EXCEPT ![Snapshot(n)] = IF @ = NoFile THEN Empty ELSE @]
          /\ job' = [Disturbed(w, {Snapshot(n)}, FALSE) EXCEPT ![w] =
                WritingSnapshot(n, t, \A v \in Others(w) : ~IsWriting(v, Snapshot(n)))]
          /\ spoiled' = spoiled \cup {Snapshot(n)}
    /\ verdict' = NoVerdict
    /\ UNCHANGED <<counter, update, live, dirs, restarts, golden, leaked>>

\* write_snapshot_file: the file is opened, and truncated; ...
OpenSnapshot(w) ==
    /\ Calls(w) /\ update[w]
    /\ \E n \in Name, t \in Text :
          /\ disk' = [disk EXCEPT ![Snapshot(n)] = Empty]
          /\ job' = [Disturbed(w, {Snapshot(n)}, FALSE) EXCEPT ![w] =
                WritingSnapshot(n, t, \A v \in Others(w) : ~IsWriting(v, Snapshot(n)))]
          /\ spoiled' = spoiled \cup {Snapshot(n)}
    /\ verdict' = NoVerdict
    /\ UNCHANGED <<counter, update, live, dirs, restarts, golden, leaked>>

\* ... closed, and the assertion passes whether or not the text is there.
WriteSnapshot(w) ==
    /\ job[w].kind = "snapshot"
    /\ LET f == job[w].file IN
       \E lost \in BOOLEAN :
          /\ \E text \in After(f, job[w].text, lost) : disk' = [disk EXCEPT ![f] = text]
          /\ spoiled' = IF job[w].alone /\ ~lost THEN spoiled \ {f} ELSE spoiled
          /\ golden' = [golden EXCEPT ![job[w].name] = job[w].text]
          /\ job' = [job EXCEPT ![w] = Idle]
    /\ verdict' = NoVerdict
    /\ UNCHANGED <<counter, update, live, dirs, calls, restarts, leaked>>

\* compare_snapshot_file.  Nobody removes a snapshot, so that looking for the
\* file and reading it are one step.
Compare(w) ==
    /\ Calls(w) /\ ~update[w]
    /\ \E n \in Name, t \in Text \cup {Empty} :
          verdict' = [name |-> n, text |-> t, pass |-> disk[Snapshot(n)] = t]
    /\ UNCHANGED <<counter, update, job, live, dirs, disk, restarts, golden, spoiled, leaked>>
----------------------------------------------------------------------------
\* A process ends, orderly or not, wherever it is, and another is started.
Restart(w) ==
    /\ restarts < MaxRestarts /\ restarts' = restarts + 1
    /\ counter' = [counter EXCEPT ![w] = 0]
    /\ update' \in {[update EXCEPT ![w] = u] : u \in BOOLEAN}
    /\ job' = [job EXCEPT ![w] = Idle]
    /\ live' = [live EXCEPT ![w] = {}]
    /\ leaked' = leaked \cup {DirOf(m.file) : m \in live[w]}
                  \cup (IF job[w].kind \in {"opening", "mock"} THEN {DirOf(job[w].file)}
                        ELSE IF job[w].kind = "removing" THEN {job[w].dir} ELSE {})
    /\ verdict' = NoVerdict
    /\ UNCHANGED <<dirs, disk, calls, golden, spoiled>>

Next ==
    \E w \in Worker :
        \/ MakeRoot(w) \/ OpenMock(w) \/ OpenMockFails(w) \/ WriteMock(w)
        \/ RemoveFiles(w) \/ RemoveDir(w)
        \/ OpenSnapshot(w) \/ WriteSnapshot(w) \/ Compare(w)
        \/ Restart(w)

Spec == Init /\ [][Next]_vars
----------------------------------------------------------------------------
(* Properties.                                                             *)

\* A mock file reads as the content it was made with for as long as its test
\* runs, whatever earlier processes left in its directory; only a process
\* that runs at the same time, and a write that failed, can change that.
MockFileReads ==
    \A w \in Worker : \A m \in live[w] : m.intact => disk[m.file] = m.text

\* Once all tests are over no mock directory is left, those that two workers
\* shared included, but the ones of a process that ended too early, of a
\* mock_file that raised, and of one that was called outside every test.
MockFilesCleaned ==
    (\A w \in Worker : job[w] = Idle /\ \A m \in live[w] : ~m.kept) => dirs \subseteq leaked

\* What a comparison decides is whether the text is the one that the last
\* update of that name reported, unless another name is the same file, or
\* the last update of the file was cut short, met another one or could not
\* write: those updates pass, and the texts they leave decide.
SnapshotVerdict ==
    verdict # NoVerdict /\ Snapshot(verdict.name) \notin spoiled
        /\ (\A n \in Name : KeyOf[n] = KeyOf[verdict.name] => n = verdict.name)
    => (verdict.pass <=> verdict.text = golden[verdict.name])
============================================================================
