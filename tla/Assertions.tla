----------------------------- MODULE Assertions -----------------------------
(***************************************************************************)
(* The assertions and harness functions that call Lua code while they are  *)
(* at work (src/runner.cpp, src/harness.cpp): comparisons, whose operands  *)
(* are handed over in Lua globals and whose metamethods are code of the    *)
(* test; assert_throws; the polling loops assert_eventually and            *)
(* probe.until; and capture.for_duration.  Each may be called again from   *)
(* the code it calls.  frames is that nesting.                             *)
(***************************************************************************)
EXTENDS Integers, Sequences, Functions

CONSTANTS
    Item,           \* what tables hold and == compares
    Timeouts,       \* what loops are given, in ticks of the clock
    Sleep,          \* the 50 ms between two attempts, in ticks, and between samples
    MaxDepth,       \* bound on the nesting
    MaxCalls,       \* bound on the calls
    MaxTime,        \* bound on the clock
    MaxSamples,     \* bound on the samples of all captures
    Parts           \* the pieces a line may be written in, the newline among them

ASSUME AssertionsAssumption ==
    /\ Timeouts \subseteq Int /\ MaxDepth \in Nat /\ MaxCalls \in Nat
    /\ Sleep \in Nat \ {0} /\ MaxTime \in Nat /\ MaxSamples \in Nat /\ "nil" \notin Item
    /\ Parts \in Nat \ {0, 1}

VARIABLES
    frames,     \* the functions at work, outermost first
    raising,    \* whether an error is under way
    scratch,    \* the globals __teez_table_has_e, __teez_in_list, __teez_in_value;
                \* same: whether __teez_assert_lhs equals __teez_assert_rhs
    clock,
    since,      \* the time since when what the polls wait for is the case
    file,       \* the file that captures append to: pieces of lines
    exists,     \* whether there is such a file
    told,       \* the harness_capture events
    overlapped, \* history: a capture was made inside another one
    failed,     \* history: a write of a capture's stream has failed
    calls,
    verdict     \* what the last step decided, or Undecided

vars == <<frames, raising, scratch, clock, since, file, exists, told, overlapped, failed,
          calls, verdict>>

captured == <<file, exists, told, overlapped, failed>>

Nil == "nil"
Never == MaxTime + 1
Undecided == [fn |-> "none"]
\* A sample is its capture's number, its own, and whether it is a text, a text
\* that is not UTF-8, or another value.  A text and its newline are a line of
\* the file, and so is a capture's header.
Kinds == {"text", "bytes", "value"}
HeaderOf(capture) == <<capture, 0, "text">>
Piece(line, p) == <<line[1], line[2], line[3], p>>
Pieces(line) == [p \in 1..Parts |-> Piece(line, p)]

Init ==
    /\ frames = <<>> /\ raising = FALSE
    /\ scratch = [e |-> Nil, list |-> {}, value |-> Nil, same |-> FALSE]
    /\ clock = 0 /\ since = Never
    /\ file = <<>> /\ exists \in BOOLEAN /\ told = <<>>
    /\ overlapped = FALSE /\ failed = FALSE
    /\ calls = 0 /\ verdict = Undecided
----------------------------------------------------------------------------
Top == frames[Len(frames)]
Popped == SubSeq(frames, 1, Len(frames) - 1)
Replaced(frame) == Append(Popped, frame)
In(fn) == frames # <<>> /\ Top.fn = fn
IsLoop(frame) == frame.fn \in {"poll", "capture"}
Sleeping == frames # <<>> /\ IsLoop(Top) /\ Top.sleeping

\* Lua code runs: the test's, or what the function on top has called.
InCode == ~raising /\ ~Sleeping
Calls == InCode /\ calls < MaxCalls /\ Len(frames) < MaxDepth /\ calls' = calls + 1

\* A function that uses globals is called: whoever uses the same ones and is
\* at work further out will find what this call leaves there.
Enter(frame) ==
    frames' = Append([i \in 1..Len(frames) |->
                        IF frames[i].fn = frame.fn THEN [frames[i] EXCEPT !.nested = TRUE]
                        ELSE frames[i]], frame)

Quiet == verdict' = Undecided

\* lua_equal of two tables with __eq, for assert_eq and assert_not_eq.  Both
\* globals are read before the metamethod is called with what they hold.
CallEqual ==
    /\ Calls
    /\ \E same, wanted \in BOOLEAN :
          /\ scratch' = [scratch EXCEPT !.same = same]
          /\ Enter([fn |-> "equal", same |-> same, read |-> scratch'.same,
                 wanted |-> wanted, nested |-> FALSE])
    /\ Quiet /\ UNCHANGED <<raising, clock, since, captured>>

\* assert_table_has of a table with __index, with or without (Nil) a value.
CallTableHas ==
    /\ Calls
    /\ \E e \in Item \cup {Nil} :
          LET frame == [fn |-> "table_has", e |-> e, nested |-> FALSE] IN
          IF e = Nil THEN frames' = Append(frames, frame) /\ UNCHANGED scratch
                     ELSE Enter(frame) /\ scratch' = [scratch EXCEPT !.e = e]
    /\ Quiet /\ UNCHANGED <<raising, clock, since, captured>>

\* assert_in of a list with __index.
CallIn ==
    /\ Calls
    /\ \E list \in SUBSET Item, value \in Item :
          /\ scratch' = [scratch EXCEPT !.list = list, !.value = value]
          /\ Enter([fn |-> "in", list |-> list, value |-> value, found |-> FALSE, nested |-> FALSE])
    /\ Quiet /\ UNCHANGED <<raising, clock, since, captured>>

CallThrows ==
    /\ Calls
    /\ frames' = Append(frames, [fn |-> "throws"])
    /\ Quiet /\ UNCHANGED <<raising, scratch, clock, since, captured>>
----------------------------------------------------------------------------
(* Comparisons.                                                            *)

Decide(fn, pass, own) ==
    /\ verdict' = [fn |-> fn, pass |-> pass, own |-> own, nested |-> Top.nested]
    /\ frames' = Popped
    /\ raising' = ~pass

\* Mutant: the operands are taken from the globals when they are needed.
EqualReturns_late ==
    /\ InCode /\ In("equal")
    /\ Decide("equal", scratch.same = Top.wanted, Top.same = Top.wanted)
    /\ UNCHANGED <<scratch, clock, since, captured, calls>>

EqualReturns ==
    /\ InCode /\ In("equal")
    /\ Decide("equal", Top.read = Top.wanted, Top.same = Top.wanted)
    /\ UNCHANGED <<scratch, clock, since, captured, calls>>

\* __index has returned; the global is read only now.
IndexReturns ==
    /\ InCode /\ In("table_has")
    /\ \E actual \in Item \cup {Nil} :
          Decide("table_has", actual # Nil /\ (Top.e # Nil => actual = scratch.e),
                              actual # Nil /\ (Top.e # Nil => actual = Top.e))
    /\ UNCHANGED <<scratch, clock, since, captured, calls>>

\* ipairs asks __index for the next item; after the last one (Nil) pairs goes
\* over the list that the global holds then.
ItemReturns ==
    /\ InCode /\ In("in")
    /\ \E item \in Item \cup {Nil} :
          LET found == Top.found \/ item = Top.value
              own   == found \/ Top.value \in Top.list
          IN  IF item = Nil \/ item = scratch.value
              THEN Decide("in", item # Nil \/ scratch.value \in scratch.list, own)
              ELSE frames' = Replaced([Top EXCEPT !.found = found]) /\ Quiet /\ UNCHANGED raising
    /\ UNCHANGED <<scratch, clock, since, captured, calls>>

\* A metamethod raised: so does the assertion.
ComparisonRaises ==
    /\ raising /\ frames # <<>> /\ Top.fn \in {"equal", "table_has", "in"}
    /\ frames' = Popped
    /\ Quiet /\ UNCHANGED <<raising, scratch, clock, since, captured, calls>>

\* assert_throws: an error is what it waits for, perhaps with a given text.
ThrowsEnds ==
    /\ In("throws")
    /\ frames' = Popped
    /\ \E found \in BOOLEAN : raising' = ~(raising /\ found)
    /\ Quiet /\ UNCHANGED <<scratch, clock, since, captured, calls>>
----------------------------------------------------------------------------
(* The clock, and loops with a deadline.  A loop has strayed when its      *)
(* callback took time or failed for a reason of its own, or its sleep was  *)
(* longer than it asked for.                                               *)

Strayed(n) == [i \in 1..Len(frames) |->
              IF i <= n /\ IsLoop(frames[i]) THEN [frames[i] EXCEPT !.strayed = TRUE] ELSE frames[i]]

\* Time passes, in the Lua code or while the function on top sleeps.
Tick ==
    /\ frames # <<>> /\ ~raising /\ clock < MaxTime
    /\ clock' = clock + 1
    /\ frames' = Strayed(IF Sleeping /\ clock < Top.wake THEN Len(frames) - 1 ELSE Len(frames))
    /\ Quiet /\ UNCHANGED <<raising, scratch, since, captured, calls>>

\* What the polls wait for becomes, or is no longer, the case.
Change ==
    /\ \E i \in 1..Len(frames) : frames[i].fn = "poll"
    /\ since' = IF since = Never THEN clock ELSE Never
    /\ Quiet /\ UNCHANGED <<frames, raising, scratch, clock, captured, calls>>

Loop(fn, timeout, sleep) ==
    [fn |-> fn, deadline |-> clock + timeout, called |-> clock, every |-> sleep,
     sleeping |-> FALSE, wake |-> clock, strayed |-> FALSE, id |-> calls + 1, index |-> 0,
     buf |-> <<>>, bad |-> FALSE]
\* Mutant: the loop sleeps twice.
Asleep_twice(loop) == [loop EXCEPT !.sleeping = TRUE, !.wake = clock + 2 * loop.every]
Asleep(loop) == [loop EXCEPT !.sleeping = TRUE, !.wake = clock + loop.every]

\* A sleep ends before the deadline: the callback is called again.
Wakes ==
    /\ Sleeping /\ clock >= Top.wake /\ clock < Top.deadline
    /\ frames' = Replaced([Top EXCEPT !.sleeping = FALSE, !.called = clock])
    /\ Quiet /\ UNCHANGED <<raising, scratch, clock, since, captured, calls>>

(* assert_eventually and probe.until.                                      *)

Polled(poll, pass) == [fn |-> "poll", pass |-> pass, loop |-> poll]

\* With no time left the callback is not called at all.
CallPoll ==
    /\ Calls
    /\ \E timeout \in Timeouts :
          LET poll == Loop("poll", timeout, Sleep) IN
          IF timeout > 0
          THEN frames' = Append(frames, poll) /\ Quiet /\ UNCHANGED raising
          ELSE raising' = TRUE /\ verdict' = Polled(poll, FALSE) /\ UNCHANGED frames
    /\ UNCHANGED <<scratch, clock, since, captured>>

\* The callback looks whether it is the case: anything it returns but false
\* ends the loop.
PollReturns ==
    /\ InCode /\ In("poll")
    /\ IF since <= clock
       THEN frames' = Popped /\ verdict' = Polled(Top, TRUE)
       ELSE frames' = Replaced(Asleep(Top)) /\ Quiet
    /\ UNCHANGED <<raising, scratch, clock, since, captured, calls>>

\* An error in the callback is kept for the message.
PollRaises ==
    /\ raising /\ In("poll")
    /\ raising' = FALSE
    /\ frames' = Replaced([Asleep(Top) EXCEPT !.strayed = @ \/ since <= clock])
    /\ Quiet /\ UNCHANGED <<scratch, clock, since, captured, calls>>

PollGivesUp ==
    /\ Sleeping /\ In("poll") /\ clock >= Top.wake /\ clock >= Top.deadline
    /\ frames' = Popped /\ raising' = TRUE
    /\ verdict' = Polled(Top, FALSE)
    /\ UNCHANGED <<scratch, clock, since, captured, calls>>

(* capture.for_duration.  A text and its newline are two insertions into a *)
(* stream, which holds what it was given (buf) until it is full or closed. *)

\* What can become of more in a stream.  As long as writing works, the file
\* gets nothing, or all that the stream held and any part of what is new.  A
\* write that fails gets some of it to the file, and the stream is bad: it
\* keeps what it held, perhaps with some of what is new, and takes nothing else.
Works(all, n) ==
    [written |-> SubSeq(all, 1, n), buf |-> SubSeq(all, n + 1, Len(all)), bad |-> FALSE]
Fails(all, n, m) ==
    [written |-> SubSeq(all, 1, n), buf |-> SubSeq(all, 1, m), bad |-> TRUE]

Inserted(buf, bad, more) ==
    LET all == buf \o more IN
    IF bad THEN {[written |-> <<>>, buf |-> buf, bad |-> TRUE]}
    ELSE {Works(all, n) : n \in {0} \cup (Len(buf)..Len(all))}
         \cup {Fails(all, n, m) : n \in 0..(Len(all) - 1), m \in Len(buf)..(Len(all) - 1)}

Write(stream) == file' = file \o stream.written /\ failed' = (failed \/ stream.bad)

\* A stream that is closed writes what it holds, and if that fails some of it;
\* nobody is told.
WriteAndClose(stream) ==
    \E n \in 0..Len(stream.buf) :
        /\ file' = (file \o stream.written) \o SubSeq(stream.buf, 1, n)
        /\ failed' = (failed \/ stream.bad \/ n < Len(stream.buf))

Capture(seconds, every, header) ==
    \E stream \in Inserted(<<>>, FALSE, header) :
        IF seconds > 0
        THEN /\ frames' = Append(frames, [Loop("capture", seconds, every) EXCEPT
                                            !.buf = stream.buf, !.bad = stream.bad])
             /\ Write(stream)
        ELSE WriteAndClose(stream) /\ UNCHANGED frames

Header == Pieces(HeaderOf(calls + 1))

\* Mutant: the header is written whether or not there is a file.
CallCapture_always ==
    /\ Calls
    /\ \E seconds \in Timeouts, every \in {0, Sleep}, header \in BOOLEAN :
          Capture(seconds, every, IF header THEN Header ELSE <<>>)
    /\ exists' = TRUE
    /\ overlapped' = (overlapped \/ \E i \in 1..Len(frames) : frames[i].fn = "capture")
    /\ Quiet /\ UNCHANGED <<raising, scratch, clock, since, told>>

\* Whether there is a file is looked at before the stream creates it.
CallCapture ==
    /\ Calls
    /\ \E seconds \in Timeouts, every \in {0, Sleep}, header \in BOOLEAN :
          Capture(seconds, every, IF header /\ ~exists THEN Header ELSE <<>>)
    /\ exists' = TRUE
    /\ overlapped' = (overlapped \/ \E i \in 1..Len(frames) : frames[i].fn = "capture")
    /\ Quiet /\ UNCHANGED <<raising, scratch, clock, since, told>>

\* The file cannot be opened.
CallCaptureFails ==
    /\ Calls
    /\ raising' = TRUE
    /\ Quiet /\ UNCHANGED <<frames, scratch, clock, since, captured>>

Unwritten(capture) == [written |-> <<>>, buf |-> capture.buf, bad |-> capture.bad]

\* collect has returned a sample: one that is a text is written first.  Telling
\* it raises when it is not UTF-8, which ends the capture.
CollectReturns ==
    /\ InCode /\ In("capture") /\ Len(told) < MaxSamples
    /\ \E kind \in Kinds :
          LET sample == <<Top.id, Top.index + 1, kind>> IN
          \E stream \in IF kind = "value" THEN {Unwritten(Top)}
                        ELSE Inserted(Top.buf, Top.bad, Pieces(sample)) :
              IF kind = "bytes"
              THEN /\ WriteAndClose(stream)
                   /\ frames' = Popped /\ raising' = TRUE /\ UNCHANGED told
              ELSE /\ Write(stream)
                   /\ told' = Append(told, sample)
                   /\ frames' = Replaced([Asleep(Top) EXCEPT !.index = @ + 1,
                                            !.buf = stream.buf, !.bad = stream.bad])
                   /\ UNCHANGED raising
    /\ Quiet /\ UNCHANGED <<scratch, clock, since, exists, overlapped, calls>>

\* The capture is over, or collect has raised: the stream is closed.
CaptureEnds ==
    /\ In("capture")
    /\ raising \/ (Sleeping /\ clock >= Top.wake /\ clock >= Top.deadline)
    /\ frames' = Popped /\ WriteAndClose(Unwritten(Top))
    /\ Quiet /\ UNCHANGED <<raising, scratch, clock, since, exists, told, overlapped, calls>>
----------------------------------------------------------------------------
\* Lua code raises an error, or catches one that reached it.
Raise ==
    /\ InCode /\ frames # <<>> /\ raising' = TRUE
    /\ Quiet /\ UNCHANGED <<frames, scratch, clock, since, captured, calls>>

Catch ==
    /\ raising /\ raising' = FALSE
    /\ Quiet /\ UNCHANGED <<frames, scratch, clock, since, captured, calls>>

Next ==
    \/ CallEqual \/ CallTableHas \/ CallIn \/ CallThrows \/ CallPoll \/ CallCapture \/ CallCaptureFails
    \/ EqualReturns \/ IndexReturns \/ ItemReturns \/ ComparisonRaises \/ ThrowsEnds
    \/ Tick \/ Change \/ Wakes
    \/ PollReturns \/ PollRaises \/ PollGivesUp \/ CollectReturns \/ CaptureEnds
    \/ Raise \/ Catch

Spec == Init /\ [][Next]_vars
----------------------------------------------------------------------------
(* Properties.                                                             *)

\* A comparison decides on the operands it was called with, whatever its
\* metamethods call meanwhile: assert_eq always, assert_table_has and
\* assert_in unless the same assertion was called from inside them.
OwnOperands ==
    verdict.fn \in {"equal", "table_has", "in"} =>
        (verdict.fn # "equal" /\ verdict.nested) \/ verdict.pass = verdict.own

\* A polling loop passes only when what it waits for was seen by a callback
\* that was called before the deadline.  One that was given time gives up
\* only if that became the case no earlier than one sleep before the deadline,
\* provided that callbacks and sleeps did and took what they should.
PollHonest ==
    verdict.fn = "poll" =>
        LET loop == verdict.loop IN
        IF verdict.pass THEN since <= clock /\ loop.called < loop.deadline
        ELSE /\ clock >= loop.deadline
             /\ loop.deadline > loop.called /\ ~loop.strayed => since >= loop.deadline - Sleep

LineOf(piece) == <<piece[1], piece[2], piece[3]>>
IsHeader(piece) == piece[2] = 0
Precedes(a, b) == a[2] < b[2] \/ (a[2] = b[2] /\ a[4] < b[4])

\* The pieces of a capture are in the order they were given to its stream, each
\* once, and only one capture has a header.
InSequence(pieces) ==
    \A i, j \in 1..Len(pieces) :
        /\ i < j /\ pieces[i][1] = pieces[j][1] => Precedes(pieces[i], pieces[j])
        /\ IsHeader(pieces[i]) /\ IsHeader(pieces[j]) => pieces[i][1] = pieces[j][1]

\* Nothing comes between the pieces of a line, none of them is missing, those
\* that are in lines are in its order, and a header is the first line.
InLines(pieces, lines) ==
    \A i \in 1..Len(pieces) :
        LET piece == pieces[i] IN
        /\ piece[4] > 1 => i > 1 /\ pieces[i - 1] = Piece(piece, piece[4] - 1)
        /\ piece[4] < Parts =>
              i < Len(pieces) /\ pieces[i + 1] = Piece(piece, piece[4] + 1)
        /\ \A j \in 1..i, k, l \in 1..Len(lines) :
              lines[k] = LineOf(pieces[j]) /\ lines[l] = LineOf(piece) => k <= l
        /\ IsHeader(piece) => \A j \in 1..i : IsHeader(pieces[j])

\* Once the captures are over, those that an error has ended included, the file
\* has nothing but headers, texts that were told in events, and what was
\* written before telling it failed.  Unless a write has failed, every text
\* that was told is there, each piece of it once, and the pieces of a capture
\* are in order; captures that were made inside one another may tear each
\* other's lines, but if there were none the file consists of whole lines, in
\* the order they were told, with at most one header, at the beginning.
CaptureFile ==
    frames = <<>> =>
        /\ \A i \in 1..Len(file) : \/ LineOf(file[i]) \in Range(told)
                                   \/ IsHeader(file[i]) \/ file[i][3] = "bytes"
        /\ ~failed =>
              /\ InSequence(file)
              /\ \A k \in 1..Len(told), p \in 1..Parts :
                    told[k][3] = "text" => Piece(told[k], p) \in Range(file)
              /\ ~overlapped => InLines(file, told)
============================================================================
