-------------------------- MODULE AssertionsProofs --------------------------
(***************************************************************************)
(* Proofs about Assertions, for every set of items and timeouts, every     *)
(* sleep and every bound: that comparisons decide on their own operands,   *)
(* that polling loops are honest, and that captures write what they tell.  *)
(*                                                                         *)
(* The first two are properties of the step that decides, and what is      *)
(* needed is a statement about each function still at work (Fine): the     *)
(* globals hold the operands of a comparison that was not entered again    *)
(* from inside (Operands), and a loop that sleeps and has not strayed will *)
(* wake no later than now, and what it waits for has not been the case     *)
(* before it went to sleep (Timely).  None of it depends on what the       *)
(* streams of captures hold: a frame's shape (IsFrame) leaves that open,   *)
(* and frames is only known to be a sequence of something.                 *)
(*                                                                         *)
(* The third is proved of the file, the events and the captures at work as *)
(* a set (Written).  What holds whether writes fail or not is Base: whose  *)
(* the pieces in the file and in the streams are, and their numbers.  As   *)
(* long as no write has failed (Good), each stream is one more piece of    *)
(* the file: what was written behind it could go on with what it holds     *)
(* (Ordered), and as long as no captures have met, the file and the one    *)
(* stream there can be are whole lines (Alone).                            *)
(***************************************************************************)
EXTENDS Assertions, SequenceTheorems, TLAPS

Sequence(s) == \E S : s \in Seq(S)

EqualFrame == [fn : {"equal"}, same : BOOLEAN, read : BOOLEAN, wanted : BOOLEAN,
               nested : BOOLEAN]
HasFrame == [fn : {"table_has"}, e : Item \cup {Nil}, nested : BOOLEAN]
InFrame == [fn : {"in"}, list : SUBSET Item, value : Item, found : BOOLEAN, nested : BOOLEAN]
LoopFrame(f) ==
    [fn : {"poll", "capture"}, deadline : Int, called : Nat, every : {0, Sleep},
     sleeping : BOOLEAN, wake : Nat, strayed : BOOLEAN, id : Nat, index : Nat, buf : {f.buf},
     bad : {f.bad}]

IsFrame(f) ==
    \/ f \in EqualFrame \/ f \in HasFrame \/ f \in InFrame \/ f \in [fn : {"throws"}]
    \/ f \in LoopFrame(f)

Operands(f) ==
    /\ f.fn = "equal" => f.read = f.same
    /\ f.fn = "table_has" /\ f.e # Nil /\ ~f.nested => scratch.e = f.e
    /\ f.fn = "in" /\ ~f.nested => scratch.list = f.list /\ scratch.value = f.value /\ ~f.found

Timely(f) ==
    f.fn = "poll" =>
        /\ f.every = Sleep /\ f.called < f.deadline
        /\ f.sleeping /\ ~f.strayed =>
              clock <= f.wake /\ f.wake <= clock + Sleep /\ since >= f.wake - Sleep

Fine(f) == IsFrame(f) /\ Operands(f) /\ Timely(f)

Globals ==
    /\ scratch \in [e : Item \cup {Nil}, list : SUBSET Item, value : Item \cup {Nil}, same : BOOLEAN]
    /\ clock \in Nat /\ clock <= MaxTime /\ since \in Nat /\ calls \in Nat

Frames == Sequence(frames) /\ \A i \in 1..Len(frames) : Fine(frames[i])

Inv == Globals /\ Frames /\ OwnOperands /\ PollHonest
----------------------------------------------------------------------------
(* Sequences and frames.                                                   *)

LEMMA AppendIs ==
    ASSUME NEW s, Sequence(s), NEW e
    PROVE  /\ Sequence(Append(s, e)) /\ Len(s) \in Nat
           /\ Len(Append(s, e)) = Len(s) + 1
           /\ \A i \in 1..Len(s) : Append(s, e)[i] = s[i]
           /\ Append(s, e)[Len(s) + 1] = e
<1>1. PICK S : s \in Seq(S)  BY DEF Sequence
<1>2. s \in Seq(S \cup {e}) /\ e \in S \cup {e}
  <2>1. /\ Len(s) \in Nat /\ s = [i \in 1..Len(s) |-> s[i]]
        /\ \A i \in 1..Len(s) : s[i] \in S
    BY <1>1
  <2> QED  BY <2>1
<1>3. Append(s, e) \in Seq(S \cup {e})  BY <1>2
<1> QED  BY <1>2, <1>3 DEF Sequence

LEMMA FrontIs ==
    ASSUME NEW s, Sequence(s), s # <<>>
    PROVE  /\ Len(s) \in Nat /\ Len(s) > 0
           /\ Sequence(SubSeq(s, 1, Len(s) - 1))
           /\ Len(SubSeq(s, 1, Len(s) - 1)) = Len(s) - 1
           /\ \A i \in 1..(Len(s) - 1) : SubSeq(s, 1, Len(s) - 1)[i] = s[i]
<1>1. PICK S : s \in Seq(S)  BY DEF Sequence
<1>2. Len(s) \in Nat /\ Len(s) > 0  BY <1>1
<1> DEFINE j == Len(s) - 1
<1>3. j \in 0..Len(s)  BY <1>2
<1>4. \A m \in 0..Len(s) : /\ SubSeq(s, 1, m) \in Seq(S)
                           /\ Len(SubSeq(s, 1, m)) = m
                           /\ \A i \in 1..m : SubSeq(s, 1, m)[i] = s[i]
  BY <1>1
<1> HIDE DEF j
<1>5. /\ SubSeq(s, 1, j) \in Seq(S) /\ Len(SubSeq(s, 1, j)) = j
      /\ \A i \in 1..j : SubSeq(s, 1, j)[i] = s[i]
  BY <1>3, <1>4
<1> QED  BY <1>2, <1>5 DEF j, Sequence

\* A function on 1..n is a sequence.
LEMMA TupleIs ==
    ASSUME NEW n \in Nat, NEW s, s = [i \in 1..n |-> s[i]]
    PROVE  Sequence(s) /\ Len(s) = n
<1> DEFINE S == {s[i] : i \in 1..n}
<1>1. s \in [1..n -> S]  OBVIOUS
<1> HIDE DEF S
<1>2. s \in Seq(S) /\ Len(s) = n  BY <1>1
<1> QED  BY <1>2 DEF Sequence

LEMMA FrameIs ==
    ASSUME NEW f, IsFrame(f)
    PROVE  /\ f.fn \in {"equal", "table_has", "in", "throws", "poll", "capture"}
           /\ f.fn = "equal" <=> f \in EqualFrame
           /\ f.fn = "table_has" <=> f \in HasFrame
           /\ f.fn = "in" <=> f \in InFrame
           /\ IsLoop(f) <=> f \in LoopFrame(f)
  BY DEF IsFrame, EqualFrame, HasFrame, InFrame, LoopFrame, IsLoop

LEMMA LoopIs ==
    ASSUME NEW f, f \in LoopFrame(f)
    PROVE  /\ f.fn \in {"poll", "capture"} /\ f.deadline \in Int /\ f.called \in Nat
           /\ f.every \in {0, Sleep} /\ f.wake \in Nat
           /\ f.sleeping \in BOOLEAN /\ f.strayed \in BOOLEAN
  BY DEF LoopFrame

\* A loop whose callback, sleep or deadline went wrong is only marked.
LEMMA StrayedIs ==
    ASSUME NEW f, f \in LoopFrame(f)
    PROVE  LET g == [f EXCEPT !.strayed = TRUE] IN
           /\ g \in LoopFrame(g) /\ g.fn = f.fn /\ g.strayed
           /\ g.every = f.every /\ g.called = f.called /\ g.deadline = f.deadline
           /\ g.id = f.id /\ g.index = f.index /\ g.buf = f.buf /\ g.bad = f.bad
  BY DEF LoopFrame

LEMMA AsleepIs ==
    ASSUME AssertionsAssumption, Globals, NEW f, f \in LoopFrame(f), NEW b \in BOOLEAN
    PROVE  LET g == [Asleep(f) EXCEPT !.strayed = b] IN
           /\ Asleep(f) \in LoopFrame(Asleep(f)) /\ Asleep(f).strayed = f.strayed
           /\ Asleep(f).fn = f.fn /\ Asleep(f).sleeping /\ Asleep(f).wake = clock + f.every
           /\ Asleep(f).every = f.every /\ Asleep(f).called = f.called
           /\ Asleep(f).deadline = f.deadline
           /\ Asleep(f).id = f.id /\ Asleep(f).index = f.index /\ Asleep(f).buf = f.buf
           /\ Asleep(f).bad = f.bad
           /\ g \in LoopFrame(g) /\ g.fn = f.fn /\ g.sleeping /\ g.wake = clock + f.every
           /\ g.every = f.every /\ g.called = f.called /\ g.deadline = f.deadline
           /\ g.strayed = b /\ g.id = f.id /\ g.index = f.index /\ g.buf = f.buf
<1>1. f.every \in Nat  BY LoopIs DEF AssertionsAssumption
<1>2. clock + f.every \in Nat  BY <1>1 DEF Globals
<1> QED  BY <1>2 DEF LoopFrame, Asleep

\* A loop with another stream, and after another sample.
Streaming(f, b, x) == [f EXCEPT !.buf = b, !.bad = x]
Sampled(f, b, x) == [f EXCEPT !.index = @ + 1, !.buf = b, !.bad = x]

LEMMA SampledIs ==
    ASSUME NEW f, f \in LoopFrame(f), NEW b, NEW x
    PROVE  LET g == Sampled(f, b, x) h == Streaming(f, b, x) IN
           /\ g \in LoopFrame(g) /\ g.fn = f.fn
           /\ g.id = f.id /\ g.index = f.index + 1 /\ g.buf = b /\ g.bad = x
           /\ h \in LoopFrame(h) /\ h.fn = f.fn
           /\ h.id = f.id /\ h.index = f.index /\ h.buf = b /\ h.bad = x
<1>1. f.index + 1 \in Nat  BY DEF LoopFrame
<1> QED  BY <1>1 DEF LoopFrame, Sampled, Streaming

LEMMA WakeIs ==
    ASSUME Globals, NEW f, f \in LoopFrame(f)
    PROVE  LET g == [f EXCEPT !.sleeping = FALSE, !.called = clock] IN
           /\ g \in LoopFrame(g) /\ g.fn = f.fn /\ ~g.sleeping /\ g.called = clock
           /\ g.every = f.every /\ g.deadline = f.deadline
           /\ g.id = f.id /\ g.index = f.index /\ g.buf = f.buf /\ g.bad = f.bad
  BY DEF LoopFrame, Globals

LEMMA NewLoopIs ==
    ASSUME AssertionsAssumption, Globals, NEW fn \in {"poll", "capture"},
           NEW timeout \in Timeouts, NEW every \in {0, Sleep},
           NEW f, f = Loop(fn, timeout, every)
    PROVE  /\ f \in LoopFrame(f) /\ f.fn = fn /\ f.every = every /\ ~f.sleeping
           /\ f.called = clock /\ f.deadline = clock + timeout
           /\ f.id = calls + 1 /\ f.index = 0
<1>1. timeout \in Int /\ clock \in Nat /\ calls + 1 \in Nat /\ clock + timeout \in Int
  BY DEF AssertionsAssumption, Globals
<1> QED  BY <1>1 DEF LoopFrame, Loop

\* The function on top, and the stack without it.
LEMMA TopIs ==
    ASSUME Frames, frames # <<>>
    PROVE  /\ Len(frames) \in Nat /\ Len(frames) > 0 /\ Len(frames) \in 1..Len(frames)
           /\ Top = frames[Len(frames)] /\ Fine(Top)
           /\ Sequence(Popped) /\ Len(Popped) = Len(frames) - 1
           /\ \A i \in 1..(Len(frames) - 1) : Popped[i] = frames[i] /\ Fine(frames[i])
<1>1. /\ Len(frames) \in Nat /\ Len(frames) > 0 /\ Sequence(Popped)
      /\ Len(Popped) = Len(frames) - 1
      /\ \A i \in 1..(Len(frames) - 1) : Popped[i] = frames[i]
  BY FrontIs DEF Frames, Popped
<1> QED  BY <1>1 DEF Frames, Top
----------------------------------------------------------------------------
(* What the steps do to the frames.                                        *)

LEMMA FineKept ==
    ASSUME UNCHANGED <<scratch, clock, since>>, NEW f, Fine(f)
    PROVE  Fine(f)'
  BY DEF Fine, Operands, Timely

LEMMA SameFrames ==
    ASSUME Frames, UNCHANGED <<frames, scratch, clock, since>>
    PROVE  Frames'
  BY DEF Frames, Fine, Operands, Timely

LEMMA PushStep ==
    ASSUME Frames, UNCHANGED <<scratch, clock, since>>, NEW f, Fine(f),
           frames' = Append(frames, f)
    PROVE  Frames'
<1> PICK n \in Nat : n = Len(frames)  BY AppendIs DEF Frames
<1>1. /\ Sequence(frames') /\ Len(frames') = n + 1
      /\ (\A i \in 1..n : frames'[i] = frames[i]) /\ frames'[n + 1] = f
  BY AppendIs DEF Frames
<1>2. ASSUME NEW i \in 1..(n + 1) PROVE Fine(frames[i])'
  <2>1. CASE i = n + 1
    <3>1. Fine(f)'  BY FineKept
    <3> QED  BY <2>1, <3>1, <1>1 DEF Fine, Operands, Timely
  <2>2. CASE i \in 1..n
    <3>1. PICK g : g = frames[i]  OBVIOUS
    <3>2. Fine(g)'  BY <2>2, <3>1, FineKept DEF Frames
    <3>3. frames'[i] = g  BY <2>2, <3>1, <1>1
    <3> QED  BY <3>2, <3>3 DEF Fine, Operands, Timely
  <2> QED  BY <2>1, <2>2
<1> QED  BY <1>1, <1>2 DEF Frames

LEMMA PopStep ==
    ASSUME Frames, frames # <<>>, UNCHANGED <<scratch, clock, since>>, frames' = Popped
    PROVE  Frames'
<1> PICK n \in Nat : n = Len(frames)  BY TopIs
<1>1. /\ Sequence(frames') /\ Len(frames') = n - 1
      /\ \A i \in 1..(n - 1) : frames'[i] = frames[i] /\ Fine(frames[i])
  BY TopIs
<1>2. ASSUME NEW i \in 1..(n - 1) PROVE Fine(frames[i])'
  <2>1. PICK g : g = frames[i]  OBVIOUS
  <2>2. Fine(g)'  BY <2>1, <1>1, FineKept
  <2>3. frames'[i] = g  BY <2>1, <1>1
  <2> QED  BY <2>2, <2>3 DEF Fine, Operands, Timely
<1> QED  BY <1>1, <1>2 DEF Frames

LEMMA ReplaceStep ==
    ASSUME Frames, frames # <<>>, UNCHANGED <<scratch, clock, since>>, NEW g, Fine(g),
           frames' = Replaced(g)
    PROVE  Frames'
<1> PICK n \in Nat : n = Len(frames)  BY TopIs
<1>1. /\ Sequence(Popped) /\ Len(Popped) = n - 1 /\ n > 0
      /\ \A i \in 1..(n - 1) : Popped[i] = frames[i] /\ Fine(frames[i])
  BY TopIs
<1>2. /\ Sequence(frames') /\ Len(frames') = (n - 1) + 1
      /\ (\A i \in 1..(n - 1) : frames'[i] = Popped[i]) /\ frames'[(n - 1) + 1] = g
  BY <1>1, AppendIs DEF Replaced
<1>3. /\ Len(frames') = n /\ frames'[n] = g
      /\ \A i \in 1..(n - 1) : frames'[i] = frames[i] /\ Fine(frames[i])
  BY <1>1, <1>2
<1>4. ASSUME NEW i \in 1..n PROVE Fine(frames[i])'
  <2>1. CASE i = n
    <3>1. Fine(g)'  BY FineKept
    <3> QED  BY <2>1, <3>1, <1>3 DEF Fine, Operands, Timely
  <2>2. CASE i \in 1..(n - 1)
    <3>1. PICK h : h = frames[i]  OBVIOUS
    <3>2. Fine(h)'  BY <2>2, <3>1, <1>3, FineKept
    <3>3. frames'[i] = h  BY <2>2, <3>1, <1>3
    <3> QED  BY <3>2, <3>3 DEF Fine, Operands, Timely
  <2> QED  BY <2>1, <2>2, <1>1
<1> QED  BY <1>2, <1>3, <1>4 DEF Frames

\* A comparison that uses globals is called: the same comparisons further out
\* are marked as nested, and the globals of the others stay.
LEMMA EnterStep ==
    ASSUME Frames, UNCHANGED <<clock, since>>, NEW f, IsFrame(f),
           f.fn \in {"equal", "table_has", "in"}, Operands(f)', Enter(f),
           f.fn # "table_has" => scratch'.e = scratch.e,
           f.fn # "in" => scratch'.list = scratch.list /\ scratch'.value = scratch.value
    PROVE  Frames'
<1> PICK n \in Nat : n = Len(frames)  BY AppendIs DEF Frames
<1> DEFINE mark(g) == IF g.fn = f.fn THEN [g EXCEPT !.nested = TRUE] ELSE g
           s == [i \in 1..n |-> mark(frames[i])]
<1>1. Sequence(s) /\ Len(s) = n
  <2>1. s = [i \in 1..n |-> s[i]]  OBVIOUS
  <2> HIDE DEF s
  <2> QED  BY <2>1, TupleIs
<1>2. frames' = Append(s, f)  BY DEF Enter
<1>3. \A i \in 1..n : s[i] = mark(frames[i])  OBVIOUS
<1> HIDE DEF s
<1>4. /\ Sequence(frames') /\ Len(frames') = n + 1
      /\ (\A i \in 1..n : frames'[i] = s[i]) /\ frames'[n + 1] = f
  BY <1>1, <1>2, AppendIs
<1>5. ASSUME NEW g, Fine(g) PROVE Fine(mark(g))'
  <2>1. CASE g.fn # f.fn
    <3>1. Operands(g)'
      BY <2>1, <1>5 DEF Fine, Operands
    <3>2. Timely(g)'  BY <1>5 DEF Fine, Timely
    <3> QED  BY <2>1, <3>1, <3>2, <1>5 DEF Fine
  <2>2. CASE g.fn = f.fn
    <3> DEFINE h == [g EXCEPT !.nested = TRUE]
    <3>1. g \in EqualFrame \cup HasFrame \cup InFrame
      BY <2>2, <1>5, FrameIs DEF Fine
    <3>2. /\ h \in EqualFrame \cup HasFrame \cup InFrame /\ h.nested /\ h.fn = g.fn
          /\ g.fn = "equal" => h.read = g.read /\ h.same = g.same
      BY <3>1 DEF EqualFrame, HasFrame, InFrame
    <3> HIDE DEF h
    <3>3. IsFrame(h)  BY <3>2 DEF IsFrame
    <3>4. Operands(h)'  BY <3>2, <1>5 DEF Fine, Operands
    <3>5. Timely(h)'  BY <2>2, <3>2 DEF Timely
    <3> QED  BY <2>2, <3>3, <3>4, <3>5 DEF Fine, h
  <2> QED  BY <2>1, <2>2
<1>6. ASSUME NEW i \in 1..(n + 1) PROVE Fine(frames[i])'
  <2>1. CASE i = n + 1
    <3>1. Fine(f)'  BY DEF Fine, Timely
    <3> QED  BY <2>1, <3>1, <1>4 DEF Fine, Operands, Timely
  <2>2. CASE i \in 1..n
    <3>1. PICK g : g = frames[i]  OBVIOUS
    <3>2. PICK h : h = mark(g)  OBVIOUS
    <3>3. Fine(g)  BY <2>2, <3>1 DEF Frames
    <3>4. Fine(mark(g))'  BY <3>3, <1>5
    <3>5. Fine(h)'  BY <3>2, <3>4
    <3>6. frames'[i] = h  BY <2>2, <3>1, <3>2, <1>3, <1>4
    <3> QED  BY <3>5, <3>6 DEF Fine, Operands, Timely
  <2> QED  BY <2>1, <2>2
<1> QED  BY <1>4, <1>6 DEF Frames

\* A loop is fine when it is timely.
LEMMA LoopFine ==
    ASSUME NEW f, f \in LoopFrame(f), Timely(f)
    PROVE  Fine(f)
<1>1. f.fn \in {"poll", "capture"}  BY LoopIs
<1> QED  BY <1>1 DEF Fine, IsFrame, Operands

\* Time passes: every loop strays but one that sleeps on top until later.
LEMMA TickStep ==
    ASSUME AssertionsAssumption, Globals, Frames, Tick
    PROVE  Globals' /\ Frames'
<1> PICK n \in Nat : n = Len(frames)  BY AppendIs DEF Frames
<1>1. /\ clock' = clock + 1 /\ clock < MaxTime /\ frames # <<>>
      /\ UNCHANGED <<scratch, since, calls>>
      /\ clock \in Nat /\ since \in Nat /\ Sleep \in Nat /\ MaxTime \in Nat
  BY DEF Tick, Globals, AssertionsAssumption
<1>2. Globals'  BY <1>1 DEF Globals
<1> DEFINE k == IF Sleeping /\ clock < Top.wake THEN n - 1 ELSE n
           stray(i) == IF i <= k /\ IsLoop(frames[i])
                       THEN [frames[i] EXCEPT !.strayed = TRUE] ELSE frames[i]
           s == [i \in 1..n |-> stray(i)]
<1>3. frames' = s  BY DEF Tick, Strayed
<1>4. Sequence(s) /\ Len(s) = n
  <2>1. s = [i \in 1..n |-> s[i]]  OBVIOUS
  <2> HIDE DEF s
  <2> QED  BY <2>1, TupleIs
<1>5. \A i \in 1..n : s[i] = stray(i)  OBVIOUS
<1> HIDE DEF s
<1>6. ASSUME NEW i \in 1..n PROVE Fine(frames[i])'
  <2>1. PICK f : f = frames[i]  OBVIOUS
  <2>2. Fine(f)  BY <2>1 DEF Frames
  <2>3. PICK g : g = stray(i)  OBVIOUS
  <2>4. frames'[i] = g  BY <2>3, <1>3, <1>5
  <2>5. Fine(g)'
    <3>1. CASE ~IsLoop(f)
      <4>1. g = f /\ f.fn # "poll"  BY <3>1, <2>1, <2>3 DEF IsLoop
      <4> QED  BY <4>1, <2>2, <1>1 DEF Fine, Operands, Timely
    <3>2. CASE IsLoop(f) /\ i <= k
      <4>1. g = [f EXCEPT !.strayed = TRUE]  BY <3>2, <2>1, <2>3
      <4>2. f \in LoopFrame(f)  BY <3>2, <2>2, FrameIs DEF Fine
      <4>3. /\ g \in LoopFrame(g) /\ g.fn = f.fn /\ g.strayed
            /\ g.every = f.every /\ g.called = f.called /\ g.deadline = f.deadline
        BY <4>1, <4>2, StrayedIs
      <4>4. g.fn \in {"poll", "capture"}  BY <4>3, LoopIs
      <4>5. Timely(g)'  BY <4>3, <2>2 DEF Fine, Timely
      <4>6. IsFrame(g) /\ Operands(g)'  BY <4>3, <4>4 DEF IsFrame, Operands
      <4> QED  BY <4>5, <4>6 DEF Fine
    <3>3. CASE IsLoop(f) /\ ~(i <= k)
      <4>1. g = f /\ f \in LoopFrame(f)  BY <3>3, <2>1, <2>2, <2>3, FrameIs DEF Fine
      <4>2. clock < Top.wake /\ i = n
        <5>1. CASE Sleeping /\ clock < Top.wake  BY <5>1, <3>3
        <5>2. CASE ~(Sleeping /\ clock < Top.wake)  BY <5>2, <3>3
        <5> QED  BY <5>1, <5>2
      <4>3. f = Top  BY <4>2, <2>1 DEF Top
      <4>4. f.wake \in Nat /\ clock < f.wake  BY <4>1, <4>2, <4>3, LoopIs
      <4>5. clock + 1 <= f.wake /\ (f.wake <= clock + Sleep => f.wake <= clock + 1 + Sleep)
        BY <4>4, <1>1
      <4>6. Timely(f)'  BY <4>5, <2>2, <1>1 DEF Fine, Timely
      <4>7. Operands(f)'  BY <2>2, <1>1 DEF Fine, Operands
      <4> QED  BY <4>1, <4>6, <4>7, <2>2 DEF Fine
    <3> QED  BY <3>1, <3>2, <3>3
  <2> QED  BY <2>4, <2>5 DEF Fine, Operands, Timely
<1> QED  BY <1>2, <1>3, <1>4, <1>6 DEF Frames

\* What the polls wait for changes: at the earliest now, and no loop that is
\* on time went to sleep later than that.
LEMMA ChangeStep ==
    ASSUME AssertionsAssumption, Globals, Frames, Change
    PROVE  Globals' /\ Frames'
<1>1. /\ since' = IF since = Never THEN clock ELSE Never
      /\ UNCHANGED <<frames, scratch, clock, calls>>
      /\ clock \in Nat /\ clock <= MaxTime /\ MaxTime \in Nat /\ Sleep \in Nat
  BY DEF Change, Globals, AssertionsAssumption
<1>2. since' \in Nat /\ since' >= clock  BY <1>1 DEF Never
<1>3. Globals'  BY <1>1, <1>2 DEF Globals
<1>4. ASSUME NEW f, Fine(f) PROVE Fine(f)'
  <2>1. IsFrame(f) /\ Operands(f)'  BY <1>1, <1>4 DEF Fine, Operands
  <2>2. ASSUME f.fn = "poll", f.sleeping, ~f.strayed PROVE since' >= f.wake - Sleep
    <3>1. f.wake \in Nat  BY <2>2, <1>4, FrameIs, LoopIs DEF Fine, IsLoop
    <3>2. f.wake <= clock + Sleep  BY <2>2, <1>4 DEF Fine, Timely
    <3> QED  BY <3>1, <3>2, <1>1, <1>2
  <2>3. Timely(f)'  BY <2>2, <1>1, <1>4 DEF Fine, Timely
  <2> QED  BY <2>1, <2>3 DEF Fine
<1>5. ASSUME NEW i \in 1..Len(frames) PROVE Fine(frames[i])'
  <2>1. PICK f : f = frames[i]  OBVIOUS
  <2>2. Fine(f)'  BY <2>1, <1>4 DEF Frames
  <2>3. frames'[i] = f  BY <2>1, <1>1
  <2> QED  BY <2>2, <2>3 DEF Fine, Operands, Timely
<1> QED  BY <1>1, <1>3, <1>5 DEF Frames
----------------------------------------------------------------------------
(* The steps.                                                              *)

\* A step that decides nothing is honest.
LEMMA UndecidedStep ==
    ASSUME Quiet
    PROVE  OwnOperands' /\ PollHonest'
  BY DEF Quiet, Undecided, OwnOperands, PollHonest

LEMMA CallEqualStep ==
    ASSUME Globals, Frames, CallEqual
    PROVE  Globals' /\ Frames'
<1>1. PICK same \in BOOLEAN, wanted \in BOOLEAN :
          /\ scratch' = [scratch EXCEPT !.same = same]
          /\ Enter([fn |-> "equal", same |-> same, read |-> scratch'.same,
                    wanted |-> wanted, nested |-> FALSE])
  BY DEF CallEqual
<1>2. UNCHANGED <<clock, since>> /\ calls' = calls + 1  BY DEF CallEqual, Calls
<1>3. /\ scratch'.same = same /\ scratch'.e = scratch.e /\ scratch'.list = scratch.list
      /\ scratch'.value = scratch.value
      /\ scratch' \in [e : Item \cup {Nil}, list : SUBSET Item, value : Item \cup {Nil},
                       same : BOOLEAN]
  BY <1>1 DEF Globals
<1>4. PICK f : f = [fn |-> "equal", same |-> same, read |-> same, wanted |-> wanted,
                    nested |-> FALSE]
  OBVIOUS
<1>5. /\ f \in EqualFrame /\ f.fn = "equal" /\ f.read = f.same  BY <1>4 DEF EqualFrame
<1>6. Enter(f)  BY <1>1, <1>3, <1>4
<1>7. IsFrame(f) /\ Operands(f)'  BY <1>5 DEF IsFrame, Operands
<1>8. Frames'  BY <1>2, <1>3, <1>5, <1>6, <1>7, EnterStep
<1>9. Globals'  BY <1>2, <1>3 DEF Globals
<1> QED  BY <1>8, <1>9

LEMMA CallTableHasStep ==
    ASSUME Globals, Frames, CallTableHas
    PROVE  Globals' /\ Frames'
<1>1. PICK e, f :
          /\ e \in Item \cup {Nil}
          /\ f = [fn |-> "table_has", e |-> e, nested |-> FALSE]
          /\ IF e = Nil THEN frames' = Append(frames, f) /\ UNCHANGED scratch
                        ELSE Enter(f) /\ scratch' = [scratch EXCEPT !.e = e]
  BY DEF CallTableHas
<1>2. UNCHANGED <<clock, since>> /\ calls' = calls + 1  BY DEF CallTableHas, Calls
<1>3. f \in HasFrame /\ f.fn = "table_has" /\ f.e = e /\ e \in Item \cup {Nil}
  BY <1>1 DEF HasFrame
<1>4. IsFrame(f)  BY <1>3 DEF IsFrame
<1>5. CASE e = Nil
  <2>1. Fine(f)  BY <1>3, <1>4, <1>5 DEF Fine, Operands, Timely
  <2>2. frames' = Append(frames, f) /\ UNCHANGED scratch  BY <1>1, <1>5
  <2>3. Frames'  BY <2>1, <2>2, <1>2, PushStep
  <2> QED  BY <2>2, <2>3, <1>2 DEF Globals
<1>6. CASE e # Nil
  <2>1. Enter(f) /\ scratch' = [scratch EXCEPT !.e = e]  BY <1>1, <1>6
  <2>2. /\ scratch'.e = e /\ scratch'.list = scratch.list /\ scratch'.value = scratch.value
        /\ scratch' \in [e : Item \cup {Nil}, list : SUBSET Item, value : Item \cup {Nil},
                         same : BOOLEAN]
    BY <2>1, <1>3 DEF Globals
  <2>3. Operands(f)'  BY <2>2, <1>3 DEF Operands
  <2>4. Frames'  BY <2>1, <2>2, <2>3, <1>2, <1>3, <1>4, EnterStep
  <2> QED  BY <2>2, <2>4, <1>2 DEF Globals
<1> QED  BY <1>5, <1>6

LEMMA CallInStep ==
    ASSUME Globals, Frames, CallIn
    PROVE  Globals' /\ Frames'
<1>1. PICK list, value, f :
          /\ list \in SUBSET Item /\ value \in Item
          /\ scratch' = [scratch EXCEPT !.list = list, !.value = value]
          /\ f = [fn |-> "in", list |-> list, value |-> value, found |-> FALSE,
                  nested |-> FALSE]
          /\ Enter(f)
  BY DEF CallIn
<1>2. UNCHANGED <<clock, since>> /\ calls' = calls + 1  BY DEF CallIn, Calls
<1>3. /\ scratch'.list = list /\ scratch'.value = value /\ scratch'.e = scratch.e
      /\ scratch' \in [e : Item \cup {Nil}, list : SUBSET Item, value : Item \cup {Nil},
                       same : BOOLEAN]
  BY <1>1 DEF Globals
<1>4. /\ f \in InFrame /\ f.fn = "in" /\ f.list = list /\ f.value = value /\ ~f.found
  BY <1>1 DEF InFrame
<1>5. IsFrame(f) /\ Operands(f)'  BY <1>3, <1>4 DEF IsFrame, Operands
<1>6. Frames'  BY <1>1, <1>2, <1>3, <1>4, <1>5, EnterStep
<1> QED  BY <1>2, <1>3, <1>6 DEF Globals

\* A call that leaves the globals alone.
LEMMA OtherCallStep ==
    ASSUME AssertionsAssumption, Globals, Frames, CallThrows \/ CallCapture \/ CallCaptureFails
    PROVE  Globals' /\ Frames'
<1>1. UNCHANGED <<scratch, clock, since>> /\ calls' = calls + 1
  BY DEF CallThrows, CallCapture, CallCaptureFails, Calls
<1>2. Globals'  BY <1>1 DEF Globals
<1>3. CASE UNCHANGED frames  BY <1>1, <1>2, <1>3, SameFrames
<1>4. CASE CallThrows
  <2>1. PICK f : f = [fn |-> "throws"]  OBVIOUS
  <2>2. f \in [fn : {"throws"}] /\ f.fn = "throws"  BY <2>1
  <2>3. Fine(f)  BY <2>2 DEF Fine, IsFrame, Operands, Timely
  <2>4. frames' = Append(frames, f)  BY <2>1, <1>4 DEF CallThrows
  <2> QED  BY <2>3, <2>4, <1>1, <1>2, PushStep
<1>5. CASE CallCapture
  <2>1. PICK seconds, every, b, x :
            /\ seconds \in Timeouts /\ every \in {0, Sleep}
            /\ \/ frames' = Append(frames, Streaming(Loop("capture", seconds, every), b, x))
               \/ UNCHANGED frames
    BY <1>5 DEF CallCapture, Capture, Streaming
  <2>2. PICK f : f = Streaming(Loop("capture", seconds, every), b, x)  OBVIOUS
  <2>3. seconds \in Timeouts /\ every \in {0, Sleep}  BY <2>1
  <2>4. f \in LoopFrame(f) /\ f.fn = "capture"
    <3> PICK loop : loop = Loop("capture", seconds, every)  OBVIOUS
    <3>1. loop \in LoopFrame(loop) /\ loop.fn = "capture"  BY <2>3, NewLoopIs
    <3> QED  BY <3>1, <2>2, SampledIs
  <2>5. Fine(f)  BY <2>4, LoopFine DEF Timely
  <2> QED  BY <2>1, <2>2, <2>5, <1>1, <1>2, <1>3, PushStep
<1> QED  BY <1>3, <1>4, <1>5 DEF CallCaptureFails

LEMMA CallPollStep ==
    ASSUME AssertionsAssumption, Globals, Frames, CallPoll
    PROVE  Globals' /\ Frames' /\ OwnOperands' /\ PollHonest'
<1>1. UNCHANGED <<scratch, clock, since>> /\ calls' = calls + 1
  BY DEF CallPoll, Calls
<1>2. Globals'  BY <1>1 DEF Globals
<1>3. PICK timeout, f :
          /\ timeout \in Timeouts
          /\ f = Loop("poll", timeout, Sleep)
          /\ IF timeout > 0
             THEN frames' = Append(frames, f) /\ Quiet /\ UNCHANGED raising
             ELSE raising' = TRUE /\ verdict' = Polled(f, FALSE) /\ UNCHANGED frames
  BY DEF CallPoll
<1>4. /\ f \in LoopFrame(f) /\ f.fn = "poll" /\ f.every = Sleep /\ ~f.sleeping
      /\ f.called = clock /\ f.deadline = clock + timeout
  BY <1>3, NewLoopIs
<1>5. timeout \in Int /\ clock \in Nat  BY <1>3 DEF AssertionsAssumption, Globals
<1>6. CASE timeout > 0
  <2>1. f.called < f.deadline  BY <1>4, <1>5, <1>6
  <2>2. Fine(f)  BY <2>1, <1>4, LoopFine DEF Timely
  <2>3. frames' = Append(frames, f) /\ Quiet  BY <1>3, <1>6
  <2> QED  BY <2>2, <2>3, <1>1, <1>2, PushStep, UndecidedStep
<1>7. CASE ~(timeout > 0)
  <2>1. verdict' = Polled(f, FALSE) /\ UNCHANGED frames  BY <1>3, <1>7
  <2>2. verdict'.fn = "poll" /\ verdict'.pass = FALSE /\ verdict'.loop = f
    BY <2>1 DEF Polled
  <2>3. clock >= f.deadline /\ ~(f.deadline > f.called)  BY <1>4, <1>5, <1>7
  <2>4. OwnOperands'  BY <2>2 DEF OwnOperands
  <2>5. PollHonest'  BY <2>2, <2>3, <1>1 DEF PollHonest
  <2>6. Frames'  BY <2>1, <1>1, SameFrames
  <2> QED  BY <2>4, <2>5, <2>6, <1>2
<1> QED  BY <1>6, <1>7

\* The operands it decides on are its own.
LEMMA EqualReturnsStep ==
    ASSUME Globals, Frames, EqualReturns
    PROVE  Globals' /\ Frames' /\ OwnOperands' /\ PollHonest'
<1>1. /\ frames # <<>> /\ Top.fn = "equal" /\ frames' = Popped
      /\ verdict' = [fn |-> "equal", pass |-> Top.read = Top.wanted,
                     own |-> Top.same = Top.wanted, nested |-> Top.nested]
      /\ UNCHANGED <<scratch, clock, since, calls>>
  BY DEF EqualReturns, In, Decide
<1>2. Globals' /\ Frames'  BY <1>1, PopStep DEF Globals
<1>3. Top.read = Top.same  BY <1>1, TopIs DEF Fine, Operands
<1>4. verdict'.fn = "equal" /\ verdict'.pass = verdict'.own  BY <1>1, <1>3
<1> QED  BY <1>2, <1>4 DEF OwnOperands, PollHonest

LEMMA IndexReturnsStep ==
    ASSUME Globals, Frames, IndexReturns
    PROVE  Globals' /\ Frames' /\ OwnOperands' /\ PollHonest'
<1>1. frames # <<>> /\ Top.fn = "table_has" /\ UNCHANGED <<scratch, clock, since, calls>>
  BY DEF IndexReturns, In
<1>2. PICK actual \in Item \cup {Nil} :
          /\ frames' = Popped
          /\ verdict' = [fn |-> "table_has",
                         pass |-> actual # Nil /\ (Top.e # Nil => actual = scratch.e),
                         own |-> actual # Nil /\ (Top.e # Nil => actual = Top.e),
                         nested |-> Top.nested]
  BY DEF IndexReturns, Decide
<1>3. Globals' /\ Frames'  BY <1>1, <1>2, PopStep DEF Globals
<1>4. Top.e # Nil /\ ~Top.nested => scratch.e = Top.e
  BY <1>1, TopIs DEF Fine, Operands
<1>5. verdict'.fn = "table_has" /\ verdict'.nested = Top.nested  BY <1>2
<1>6. ~Top.nested => verdict'.pass = verdict'.own
  <2>1. CASE Top.e = Nil  BY <2>1, <1>2
  <2>2. CASE Top.e # Nil /\ ~Top.nested
    <3>1. scratch.e = Top.e  BY <2>2, <1>4
    <3> QED  BY <3>1, <1>2
  <2> QED  BY <2>1, <2>2
<1>7. OwnOperands'  BY <1>5, <1>6 DEF OwnOperands
<1>8. PollHonest'  BY <1>5 DEF PollHonest
<1> QED  BY <1>3, <1>7, <1>8

\* As long as it is not called again from inside, assert_in decides when an
\* item is the value, or at the end.
LEMMA ItemReturnsStep ==
    ASSUME AssertionsAssumption, Globals, Frames, ItemReturns
    PROVE  Globals' /\ Frames' /\ OwnOperands' /\ PollHonest'
<1>1. frames # <<>> /\ Top.fn = "in" /\ UNCHANGED <<scratch, clock, since, calls>>
  BY DEF ItemReturns, In
<1>2. Globals'  BY <1>1 DEF Globals
<1>3. Fine(Top) /\ Top \in InFrame  BY <1>1, TopIs, FrameIs DEF Fine
<1>4. ~Top.nested => scratch.list = Top.list /\ scratch.value = Top.value /\ ~Top.found
  BY <1>1, <1>3 DEF Fine, Operands
<1>5. PICK item, found :
          /\ item \in Item \cup {Nil}
          /\ found = (Top.found \/ item = Top.value)
          /\ IF item = Nil \/ item = scratch.value
             THEN Decide("in", item # Nil \/ scratch.value \in scratch.list,
                         found \/ Top.value \in Top.list)
             ELSE frames' = Replaced([Top EXCEPT !.found = found]) /\ Quiet
  BY DEF ItemReturns
<1>6. found \in BOOLEAN /\ Top.value \in Item /\ Nil \notin Item /\ Top.found \in BOOLEAN
  BY <1>3, <1>5 DEF InFrame, AssertionsAssumption, Nil
<1>7. CASE item = Nil \/ item = scratch.value
  <2>1. /\ frames' = Popped
        /\ verdict' = [fn |-> "in", pass |-> item # Nil \/ scratch.value \in scratch.list,
                       own |-> found \/ Top.value \in Top.list, nested |-> Top.nested]
    BY <1>5, <1>7 DEF Decide
  <2>2. Frames'  BY <2>1, <1>1, PopStep
  <2>3. /\ verdict'.fn = "in" /\ verdict'.nested = Top.nested
        /\ verdict'.pass = (item # Nil \/ scratch.value \in scratch.list)
        /\ verdict'.own = (found \/ Top.value \in Top.list)
    BY <2>1
  <2>4. ASSUME ~Top.nested PROVE verdict'.pass = verdict'.own
    <3>1. scratch.list = Top.list /\ scratch.value = Top.value /\ ~Top.found
      BY <2>4, <1>4
    <3>2. found <=> item = Top.value  BY <3>1, <1>5
    <3>3. item # Nil <=> item = Top.value
      <4>1. item = Top.value => item # Nil  BY <1>6
      <4>2. item # Nil => item = Top.value  BY <3>1, <1>7
      <4> QED  BY <4>1, <4>2
    <3>4. (item # Nil \/ scratch.value \in scratch.list) <=> (found \/ Top.value \in Top.list)
      BY <3>1, <3>2, <3>3
    <3> QED  BY <2>3, <3>4, <1>6
  <2>5. OwnOperands'  BY <2>3, <2>4 DEF OwnOperands
  <2>6. PollHonest'  BY <2>3 DEF PollHonest
  <2> QED  BY <2>2, <2>5, <2>6, <1>2
<1>8. CASE ~(item = Nil \/ item = scratch.value)
  <2>1. PICK g : g = [Top EXCEPT !.found = found]  OBVIOUS
  <2>2. frames' = Replaced(g) /\ Quiet  BY <2>1, <1>5, <1>8
  <2>3. /\ g \in InFrame /\ g.fn = "in" /\ g.nested = Top.nested /\ g.list = Top.list
        /\ g.value = Top.value /\ g.found = found
    BY <2>1, <1>3, <1>6 DEF InFrame
  <2>4. ~Top.nested => ~found  BY <1>4, <1>5, <1>8
  <2>5. Fine(g)  BY <2>3, <2>4, <1>4 DEF Fine, IsFrame, Operands, Timely
  <2>6. Frames'  BY <2>2, <2>5, <1>1, ReplaceStep
  <2> QED  BY <2>2, <2>6, <1>2, UndecidedStep
<1> QED  BY <1>7, <1>8

LEMMA ComparisonRaisesStep ==
    ASSUME Globals, Frames, ComparisonRaises
    PROVE  Globals' /\ Frames'
  BY PopStep DEF ComparisonRaises, Globals

LEMMA ThrowsEndsStep ==
    ASSUME Globals, Frames, ThrowsEnds
    PROVE  Globals' /\ Frames'
  BY PopStep DEF ThrowsEnds, In, Globals

\* The callback is called again, in time.
LEMMA WakesStep ==
    ASSUME Globals, Frames, Wakes
    PROVE  Globals' /\ Frames'
<1>1. /\ frames # <<>> /\ IsLoop(Top) /\ clock < Top.deadline
      /\ UNCHANGED <<scratch, clock, since, calls>>
  BY DEF Wakes, Sleeping
<1>2. Globals'  BY <1>1 DEF Globals
<1>3. Fine(Top) /\ Top \in LoopFrame(Top)  BY <1>1, TopIs, FrameIs DEF Fine
<1>4. PICK g : g = [Top EXCEPT !.sleeping = FALSE, !.called = clock]  OBVIOUS
<1>5. /\ g \in LoopFrame(g) /\ g.fn = Top.fn /\ ~g.sleeping /\ g.called = clock
      /\ g.every = Top.every /\ g.deadline = Top.deadline
  BY <1>3, <1>4, WakeIs
<1>6. Timely(g)  BY <1>1, <1>3, <1>5 DEF Fine, Timely
<1>7. frames' = Replaced(g)  BY <1>4 DEF Wakes
<1> QED  BY <1>1, <1>2, <1>5, <1>6, <1>7, LoopFine, ReplaceStep

\* The loop goes to sleep: what it waits for was not the case, or it strayed.
LEMMA SleepStep ==
    ASSUME AssertionsAssumption, Globals, Frames, In("poll"), NEW b \in BOOLEAN,
           ~b => since > clock,
           UNCHANGED <<scratch, clock, since>>,
           frames' = Replaced([Asleep(Top) EXCEPT !.strayed = b])
    PROVE  Frames'
<1>1. frames # <<>> /\ Top.fn = "poll"  BY DEF In
<1>2. Fine(Top) /\ Top \in LoopFrame(Top)  BY <1>1, TopIs, FrameIs DEF Fine, IsLoop
<1>3. PICK g : g = [Asleep(Top) EXCEPT !.strayed = b]  OBVIOUS
<1>4. /\ g \in LoopFrame(g) /\ g.fn = Top.fn /\ g.wake = clock + Top.every
      /\ g.every = Top.every /\ g.called = Top.called /\ g.deadline = Top.deadline
      /\ g.strayed = b
  BY <1>2, <1>3, AsleepIs
<1>5. Top.every = Sleep /\ Top.called < Top.deadline  BY <1>1, <1>2 DEF Fine, Timely
<1>6. /\ clock <= clock + Sleep /\ clock + Sleep <= clock + Sleep
      /\ ~b => since >= (clock + Sleep) - Sleep
  BY DEF AssertionsAssumption, Globals
<1>7. Timely(g)  BY <1>1, <1>4, <1>5, <1>6 DEF Timely
<1> QED  BY <1>1, <1>3, <1>4, <1>7, LoopFine, ReplaceStep

LEMMA PollReturnsStep ==
    ASSUME AssertionsAssumption, Globals, Frames, PollReturns
    PROVE  Globals' /\ Frames' /\ OwnOperands' /\ PollHonest'
<1>1. /\ In("poll") /\ frames # <<>> /\ Top.fn = "poll"
      /\ UNCHANGED <<scratch, clock, since, calls>>
  BY DEF PollReturns, In
<1>2. Globals'  BY <1>1 DEF Globals
<1>3. Fine(Top) /\ Top \in LoopFrame(Top)  BY <1>1, TopIs, FrameIs DEF Fine, IsLoop
<1>4. CASE since <= clock
  <2>1. frames' = Popped /\ verdict' = Polled(Top, TRUE)  BY <1>4 DEF PollReturns
  <2>2. Frames'  BY <2>1, <1>1, PopStep
  <2>3. PICK top : top = Top  OBVIOUS
  <2>4. verdict'.fn = "poll" /\ verdict'.pass = TRUE /\ verdict'.loop = top
    BY <2>1, <2>3 DEF Polled
  <2>5. top.called < top.deadline  BY <2>3, <1>1, <1>3 DEF Fine, Timely
  <2>6. OwnOperands' /\ PollHonest'  BY <2>4, <2>5, <1>1, <1>4 DEF OwnOperands, PollHonest
  <2> QED  BY <2>2, <2>6, <1>2
<1>5. CASE ~(since <= clock)
  <2>1. frames' = Replaced(Asleep(Top)) /\ Quiet  BY <1>5 DEF PollReturns
  <2>2. since > clock  BY <1>5 DEF Globals
  <2>3. Asleep(Top) = [Asleep(Top) EXCEPT !.strayed = Top.strayed]
    BY <1>3 DEF Asleep, LoopFrame
  <2>4. Top.strayed \in BOOLEAN  BY <1>3, LoopIs
  <2>5. frames' = Replaced([Asleep(Top) EXCEPT !.strayed = Top.strayed])  BY <2>1, <2>3
  <2>6. Frames'  BY <2>2, <2>4, <2>5, <1>1, SleepStep
  <2> QED  BY <2>1, <2>6, <1>2, UndecidedStep
<1> QED  BY <1>4, <1>5

LEMMA PollRaisesStep ==
    ASSUME AssertionsAssumption, Globals, Frames, PollRaises
    PROVE  Globals' /\ Frames'
<1>1. /\ In("poll") /\ frames # <<>> /\ Top.fn = "poll"
      /\ UNCHANGED <<scratch, clock, since, calls>>
  BY DEF PollRaises, In
<1>2. Globals'  BY <1>1 DEF Globals
<1>3. Top \in LoopFrame(Top)  BY <1>1, TopIs, FrameIs DEF Fine, IsLoop
<1>4. PICK b : b = (Top.strayed \/ since <= clock)  OBVIOUS
<1>5. Asleep(Top).strayed = Top.strayed  BY <1>3, AsleepIs
<1>6. frames' = Replaced([Asleep(Top) EXCEPT !.strayed = b])
  BY <1>4, <1>5 DEF PollRaises
<1>7. b \in BOOLEAN  BY <1>3, <1>4, LoopIs
<1>8. ~b => since > clock
  <2>1. ~b => ~(since <= clock)  BY <1>4
  <2> QED  BY <2>1 DEF Globals
<1> QED  BY <1>1, <1>2, <1>6, <1>7, <1>8, SleepStep

\* It gives up when it wakes after the deadline: it went to sleep one sleep
\* before that, and what it waits for has not been the case any earlier.
LEMMA PollGivesUpStep ==
    ASSUME AssertionsAssumption, Globals, Frames, PollGivesUp
    PROVE  Globals' /\ Frames' /\ OwnOperands' /\ PollHonest'
<1>1. /\ frames # <<>> /\ Top.fn = "poll" /\ Top.sleeping
      /\ clock >= Top.wake /\ clock >= Top.deadline
      /\ UNCHANGED <<scratch, clock, since, calls>>
      /\ frames' = Popped /\ verdict' = Polled(Top, FALSE)
  BY DEF PollGivesUp, In, Sleeping
<1>2. Globals' /\ Frames'  BY <1>1, PopStep DEF Globals
<1>3. PICK top : top = Top  OBVIOUS
<1>4. Fine(top) /\ top \in LoopFrame(top)
  BY <1>1, <1>3, TopIs, FrameIs DEF Fine, IsLoop
<1>5. ASSUME ~top.strayed PROVE since >= top.deadline - Sleep
  <2>1. clock <= top.wake /\ since >= top.wake - Sleep
    BY <1>1, <1>3, <1>4, <1>5 DEF Fine, Timely
  <2>2. /\ top.wake \in Nat /\ top.deadline \in Int /\ clock \in Nat /\ since \in Nat
        /\ Sleep \in Nat
    BY <1>4, LoopIs DEF Globals, AssertionsAssumption
  <2>3. clock >= top.deadline  BY <1>1, <1>3
  <2> QED  BY <2>1, <2>2, <2>3
<1>6. verdict'.fn = "poll" /\ verdict'.pass = FALSE /\ verdict'.loop = top
  BY <1>1, <1>3 DEF Polled
<1>7. OwnOperands' /\ PollHonest'
  BY <1>1, <1>3, <1>5, <1>6 DEF OwnOperands, PollHonest
<1> QED  BY <1>2, <1>7

LEMMA CollectReturnsStep ==
    ASSUME AssertionsAssumption, Globals, Frames, CollectReturns
    PROVE  Globals' /\ Frames'
<1>1. /\ frames # <<>> /\ Top.fn = "capture"
      /\ UNCHANGED <<scratch, clock, since, calls>>
  BY DEF CollectReturns, In
<1>2. Globals'  BY <1>1 DEF Globals
<1>3. Top \in LoopFrame(Top)  BY <1>1, TopIs, FrameIs DEF Fine, IsLoop
<1>4. PICK b, x : frames' = Popped \/ frames' = Replaced(Sampled(Asleep(Top), b, x))
  BY DEF CollectReturns, Sampled
<1>5. PICK g : g = Sampled(Asleep(Top), b, x)  OBVIOUS
<1>6. Asleep(Top) \in LoopFrame(Asleep(Top)) /\ Asleep(Top).fn = "capture"
  BY <1>1, <1>3, AsleepIs
<1>7. g \in LoopFrame(g) /\ g.fn = "capture"  BY <1>5, <1>6, SampledIs
<1>8. Fine(g)  BY <1>7, LoopFine DEF Timely
<1> QED  BY <1>1, <1>2, <1>4, <1>5, <1>8, PopStep, ReplaceStep

LEMMA CaptureEndsStep ==
    ASSUME Globals, Frames, CaptureEnds
    PROVE  Globals' /\ Frames'
  BY PopStep DEF CaptureEnds, In, Globals
----------------------------------------------------------------------------
LEMMA InitInv == ASSUME AssertionsAssumption, Init PROVE Inv
<1>1. Globals
  <2>1. scratch \in [e : Item \cup {Nil}, list : SUBSET Item, value : Item \cup {Nil},
                     same : BOOLEAN]
    BY DEF Init
  <2> QED  BY <2>1 DEF AssertionsAssumption, Init, Globals, Never
<1>2. Frames
  <2>1. frames \in Seq({}) /\ Len(frames) = 0  BY DEF Init
  <2> QED  BY <2>1 DEF Frames, Sequence
<1>3. OwnOperands /\ PollHonest  BY DEF Init, Undecided, OwnOperands, PollHonest
<1> QED  BY <1>1, <1>2, <1>3 DEF Inv

LEMMA NextInv == ASSUME AssertionsAssumption, Inv, [Next]_vars PROVE Inv'
<1> USE DEF Inv
<1>1. CASE CallEqual
  BY <1>1, CallEqualStep, UndecidedStep DEF CallEqual
<1>2. CASE CallTableHas
  BY <1>2, CallTableHasStep, UndecidedStep DEF CallTableHas
<1>3. CASE CallIn
  BY <1>3, CallInStep, UndecidedStep DEF CallIn
<1>4. CASE CallThrows \/ CallCapture \/ CallCaptureFails
  <2>1. Quiet  BY <1>4 DEF CallThrows, CallCapture, CallCaptureFails
  <2> QED  BY <2>1, <1>4, OtherCallStep, UndecidedStep
<1>5. CASE CallPoll  BY <1>5, CallPollStep
<1>6. CASE EqualReturns  BY <1>6, EqualReturnsStep
<1>7. CASE IndexReturns  BY <1>7, IndexReturnsStep
<1>8. CASE ItemReturns  BY <1>8, ItemReturnsStep
<1>9. CASE ComparisonRaises
  BY <1>9, ComparisonRaisesStep, UndecidedStep DEF ComparisonRaises
<1>10. CASE ThrowsEnds
  BY <1>10, ThrowsEndsStep, UndecidedStep DEF ThrowsEnds
<1>11. CASE Tick
  BY <1>11, TickStep, UndecidedStep DEF Tick
<1>12. CASE Change
  BY <1>12, ChangeStep, UndecidedStep DEF Change
<1>13. CASE Wakes
  BY <1>13, WakesStep, UndecidedStep DEF Wakes
<1>14. CASE PollReturns  BY <1>14, PollReturnsStep
<1>15. CASE PollRaises
  BY <1>15, PollRaisesStep, UndecidedStep DEF PollRaises
<1>16. CASE PollGivesUp  BY <1>16, PollGivesUpStep
<1>17. CASE CollectReturns
  BY <1>17, CollectReturnsStep, UndecidedStep DEF CollectReturns
<1>18. CASE CaptureEnds
  BY <1>18, CaptureEndsStep, UndecidedStep DEF CaptureEnds
<1>19. CASE Raise \/ Catch
  <2>1. Quiet /\ UNCHANGED <<frames, scratch, clock, since, calls>>  BY <1>19 DEF Raise, Catch
  <2> QED  BY <2>1, SameFrames, UndecidedStep DEF Globals
<1>20. CASE UNCHANGED vars
  <2>1. UNCHANGED <<frames, scratch, clock, since, calls, verdict>>  BY <1>20 DEF vars
  <2> QED  BY <2>1, SameFrames DEF Globals, OwnOperands, PollHonest
<1> QED
  BY <1>1, <1>2, <1>3, <1>4, <1>5, <1>6, <1>7, <1>8, <1>9, <1>10, <1>11, <1>12, <1>13,
     <1>14, <1>15, <1>16, <1>17, <1>18, <1>19, <1>20 DEF Next
----------------------------------------------------------------------------
\* The inductive invariant: the globals and every function at work are as Fine
\* says, and the last step decided honestly.
THEOREM AssertionsInvariant ==
    ASSUME AssertionsAssumption PROVE Spec => []Inv
  BY InitInv, NextInv, PTL DEF Spec

\* A comparison decides on the operands it was called with, whatever its
\* metamethods call meanwhile: assert_eq always, assert_table_has and
\* assert_in unless the same assertion was called from inside them.
THEOREM ComparisonsKeepOperands ==
    ASSUME AssertionsAssumption PROVE Spec => []OwnOperands
<1>1. Inv => OwnOperands  BY DEF Inv
<1> QED  BY <1>1, AssertionsInvariant, PTL

\* A polling loop passes only on what a callback saw that was called before
\* the deadline; and one that was given time gives up only if it became the
\* case no earlier than one sleep before the deadline, whatever the sleep and
\* the timeouts are.
THEOREM PollsAreHonest ==
    ASSUME AssertionsAssumption PROVE Spec => []PollHonest
<1>1. Inv => PollHonest  BY DEF Inv
<1> QED  BY <1>1, AssertionsInvariant, PTL
----------------------------------------------------------------------------
(* The pieces of lines that captures write.  What follows is about the     *)
(* file, the events and the captures at work, however they are called: f,  *)
(* t and C stand for file, told and Captures, e, o and x for exists,       *)
(* overlapped and failed, n for calls.                                     *)

Line == Nat \X Nat \X Kinds
PieceSet == Nat \X Nat \X Kinds \X (1..Parts)

\* What a capture at work has: its number, its last sample's, its stream.
Held(f) == [id |-> f.id, index |-> f.index, buf |-> f.buf, bad |-> f.bad]
CapturesOf(s) == {Held(s[i]) : i \in {j \in 1..Len(s) : s[j].fn = "capture"}}
Captures == CapturesOf(frames)
Apart(s) ==
    \A i, j \in 1..Len(s) :
        s[i].fn = "capture" /\ s[j].fn = "capture" /\ s[i].id = s[j].id => i = j

Has(t, line) == \E k \in 1..Len(t) : t[k] = line
Inside(s, piece) == \E i \in 1..Len(s) : s[i] = piece

Shapes(f, t, C, n) ==
    /\ f \in Seq(PieceSet) /\ t \in Seq(Line)
    /\ \A c \in C : c.id \in 1..n /\ c.index \in Nat /\ c.buf \in Seq(PieceSet)
    /\ \A c, d \in C : c.id = d.id => c = d

\* Pieces are of captures that there were, and are told, bytes, or a header.
Owned(s, t, n) ==
    \A i \in 1..Len(s) :
        /\ s[i][1] \in 1..n
        /\ Has(t, LineOf(s[i])) \/ IsHeader(s[i]) \/ s[i][3] = "bytes"

\* Those of a capture at work, and what it told, are numbered up to its last
\* sample, and its stream has no others.
Numbered(f, t, C) ==
    \A c \in C :
        /\ \A i \in 1..Len(f) : f[i][1] = c.id => f[i][2] <= c.index
        /\ \A i \in 1..Len(c.buf) : c.buf[i][1] = c.id /\ c.buf[i][2] <= c.index
        /\ \A k \in 1..Len(t) : t[k][1] = c.id => t[k][2] <= c.index

\* Nothing is told twice, and no header.
Told(t, n) ==
    /\ \A k \in 1..Len(t) : t[k][1] \in 1..n /\ t[k][2] > 0
    /\ \A k, l \in 1..Len(t) : t[k] = t[l] => k = l

\* Whether writes fail or not.
Base(f, t, C, e, n) ==
    /\ Shapes(f, t, C, n) /\ Numbered(f, t, C) /\ Told(t, n)
    /\ Owned(f, t, n) /\ \A c \in C : Owned(c.buf, t, n)
    /\ ~e => f = <<>> /\ C = {}

Ordered(s) == \A i, j \in 1..Len(s) : i < j /\ s[i][1] = s[j][1] => Precedes(s[i], s[j])

\* The headers are of capture h.
HeadersOf(s, h) == \A i \in 1..Len(s) : IsHeader(s[i]) => s[i][1] = h

\* Of captures that do not meet at most one is at work, and its stream goes on
\* where the file ends.
Alone(f, t, C) ==
    /\ \A c, d \in C : c = d
    /\ C = {} => InLines(f, t)
    /\ \A c \in C : InLines(f \o c.buf, t)

\* What was told is in the file or in a stream.
Kept(f, t, C) ==
    \A k \in 1..Len(t), p \in 1..Parts : t[k][3] = "text" =>
        Inside(f, Piece(t[k], p)) \/ \E c \in C : Inside(c.buf, Piece(t[k], p))

\* As long as no write has failed: each stream is one more piece of the file.
Good(f, t, C, o) ==
    /\ \A c \in C : ~c.bad
    /\ Ordered(f) /\ \A c \in C : Ordered(f \o c.buf)
    /\ \E h : HeadersOf(f, h) /\ \A c \in C : HeadersOf(c.buf, h)
    /\ Kept(f, t, C)
    /\ ~o => Alone(f, t, C)

Written(f, t, C, e, o, x, n) == Base(f, t, C, e, n) /\ (~x => Good(f, t, C, o))

Lines ==
    /\ Apart(frames)
    /\ Written(file, told, Captures, exists, overlapped, failed, calls)
----------------------------------------------------------------------------
(* Sequences of pieces.                                                    *)

LEMMA CatIs ==
    ASSUME NEW S, NEW a \in Seq(S), NEW b \in Seq(S)
    PROVE  /\ a \o b \in Seq(S) /\ Len(a) \in Nat /\ Len(b) \in Nat
           /\ Len(a \o b) = Len(a) + Len(b)
           /\ \A i \in 1..Len(a) : (a \o b)[i] = a[i] /\ i \in 1..Len(a \o b)
           /\ \A i \in 1..Len(b) : (a \o b)[Len(a) + i] = b[i] /\ Len(a) + i \in 1..Len(a \o b)
           /\ \A i \in 1..Len(a \o b) :
                 \/ i \in 1..Len(a) /\ (a \o b)[i] = a[i]
                 \/ i > Len(a) /\ i - Len(a) \in 1..Len(b) /\ (a \o b)[i] = b[i - Len(a)]
<1>1. /\ a \o b \in Seq(S) /\ Len(a) \in Nat /\ Len(b) \in Nat
      /\ Len(a \o b) = Len(a) + Len(b)
      /\ \A i \in 1..(Len(a) + Len(b)) :
            (a \o b)[i] = IF i <= Len(a) THEN a[i] ELSE b[i - Len(a)]
  OBVIOUS
<1> QED  BY <1>1

LEMMA CatAgain ==
    ASSUME NEW S, NEW a \in Seq(S), NEW b \in Seq(S), NEW c \in Seq(S)
    PROVE  (a \o b) \o c = a \o (b \o c) /\ a \o <<>> = a /\ <<>> \o a = a
  BY ConcatAssociative, ConcatEmptySeq

\* A sequence is what it begins with, and the rest.
LEMMA SplitIs ==
    ASSUME NEW S, NEW s \in Seq(S), NEW n \in 0..Len(s)
    PROVE  /\ SubSeq(s, 1, n) \in Seq(S) /\ SubSeq(s, n + 1, Len(s)) \in Seq(S)
           /\ SubSeq(s, 1, n) \o SubSeq(s, n + 1, Len(s)) = s
           /\ \A i \in 1..Len(SubSeq(s, 1, n)) : \E j \in 1..Len(s) : SubSeq(s, 1, n)[i] = s[j]
           /\ n = Len(s) => SubSeq(s, 1, n) = s
<1> PICK m \in Nat : m = Len(s)  OBVIOUS
<1> PICK a : a = SubSeq(s, 1, n)  OBVIOUS
<1> PICK b : b = SubSeq(s, n + 1, m)  OBVIOUS
<1>1. n \in Nat /\ n <= m  OBVIOUS
<1>2. a \in Seq(S) /\ Len(a) = n /\ \A i \in 1..n : a[i] = s[i]  BY <1>1
<1>3. b \in Seq(S) /\ Len(b) = m - n /\ \A i \in 1..(m - n) : b[i] = s[n + i]
  BY <1>1
<1>4. /\ a \o b \in Seq(S) /\ Len(a \o b) = n + (m - n)
      /\ \A i \in 1..Len(a \o b) :
            \/ i \in 1..n /\ (a \o b)[i] = a[i]
            \/ i > n /\ i - n \in 1..(m - n) /\ (a \o b)[i] = b[i - n]
  <2>1. a \in Seq(S) /\ b \in Seq(S)  BY <1>2, <1>3
  <2>2. /\ a \o b \in Seq(S) /\ Len(a \o b) = Len(a) + Len(b)
        /\ \A i \in 1..Len(a \o b) :
              \/ i \in 1..Len(a) /\ (a \o b)[i] = a[i]
              \/ i > Len(a) /\ i - Len(a) \in 1..Len(b) /\ (a \o b)[i] = b[i - Len(a)]
    BY ONLY <2>1, CatIs
  <2>3. Len(a) = n /\ Len(b) = m - n  BY <1>2, <1>3
  <2> QED  BY ONLY <2>2, <2>3
<1>5. Len(a \o b) = m /\ \A i \in 1..m : (a \o b)[i] = s[i]
  <2>1. n + (m - n) = m  BY <1>1
  <2>2. ASSUME NEW i \in 1..m PROVE (a \o b)[i] = s[i]
    <3>1. i \in 1..Len(a \o b)  BY <2>1, <1>4
    <3>2. n + (i - n) = i  BY <1>1
    <3>3. CASE i \in 1..n /\ (a \o b)[i] = a[i]  BY <3>3, <1>2
    <3>4. CASE i - n \in 1..(m - n) /\ (a \o b)[i] = b[i - n]
      <4>1. b[i - n] = s[n + (i - n)]  BY <3>4, <1>3
      <4> QED  BY <4>1, <3>2, <3>4
    <3> QED  BY <3>1, <3>3, <3>4, <1>4
  <2> QED  BY <2>1, <2>2, <1>4
<1>6. a \o b = s
  <2>1. a \o b \in Seq(S) /\ Len(s) = m  BY <1>4
  <2> QED  BY ONLY <2>1, s \in Seq(S), <1>5, SeqEqual
<1>7. \A i \in 1..n : i \in 1..m /\ a[i] = s[i]  BY <1>1, <1>2
<1>8. n = m => a = s  BY <1>2, SeqEqual
<1> QED  BY <1>2, <1>3, <1>6, <1>7, <1>8

LEMMA LineIs ==
    ASSUME NEW line \in Line
    PROVE  line[1] \in Nat /\ line[2] \in Nat /\ line[3] \in Kinds
  BY DEF Line

LEMMA PieceIs ==
    ASSUME NEW piece \in PieceSet
    PROVE  /\ piece[1] \in Nat /\ piece[2] \in Nat /\ piece[3] \in Kinds /\ piece[4] \in 1..Parts
           /\ LineOf(piece) \in Line /\ LineOf(piece)[1] = piece[1]
           /\ LineOf(piece)[2] = piece[2] /\ LineOf(piece)[3] = piece[3]
           /\ \A p : Piece(piece, p) = Piece(LineOf(piece), p)
  BY DEF PieceSet, LineOf, Line, Piece

LEMMA PiecesAre ==
    ASSUME AssertionsAssumption, NEW line \in Line
    PROVE  /\ Pieces(line) \in Seq(PieceSet) /\ Len(Pieces(line)) = Parts /\ Parts \in Nat
           /\ \A p \in 1..Parts : Pieces(line)[p] = Piece(line, p)
           /\ \A p : /\ LineOf(Piece(line, p)) = line
                     /\ Piece(line, p)[1] = line[1] /\ Piece(line, p)[2] = line[2]
                     /\ Piece(line, p)[3] = line[3] /\ Piece(line, p)[4] = p
                     /\ \A q : Piece(Piece(line, p), q) = Piece(line, q)
<1>1. Parts \in Nat  BY DEF AssertionsAssumption
<1>2. \A p \in 1..Parts : Piece(line, p) \in PieceSet  BY DEF Piece, PieceSet, Line
<1>3. Pieces(line) = [p \in 1..Parts |-> Piece(line, p)]  BY DEF Pieces
<1>4. Pieces(line) \in [1..Parts -> PieceSet]  BY <1>2, <1>3
<1>5. Pieces(line) \in Seq(PieceSet) /\ Len(Pieces(line)) = Parts  BY <1>1, <1>4
<1>6. \A p : /\ LineOf(Piece(line, p)) = line
             /\ Piece(line, p)[1] = line[1] /\ Piece(line, p)[2] = line[2]
             /\ Piece(line, p)[3] = line[3] /\ Piece(line, p)[4] = p
             /\ \A q : Piece(Piece(line, p), q) = Piece(line, q)
  BY DEF Piece, LineOf, Line
<1> QED  BY <1>1, <1>3, <1>5, <1>6

\* A new line of a capture is put behind what it has written.
LEMMA NextOrdered ==
    ASSUME AssertionsAssumption, NEW s \in Seq(PieceSet), Ordered(s), NEW line \in Line,
           \A i \in 1..Len(s) : s[i][1] = line[1] => s[i][2] < line[2]
    PROVE  Ordered(s \o Pieces(line))
<1> PICK q \in Nat : q = Len(s)  OBVIOUS
<1> PICK b : b = Pieces(line)  OBVIOUS
<1> PICK g : g = s \o b  OBVIOUS
<1>1. /\ b \in Seq(PieceSet) /\ Len(b) = Parts /\ Parts \in Nat
      /\ \A p \in 1..Parts : b[p][1] = line[1] /\ b[p][2] = line[2] /\ b[p][4] = p
  BY PiecesAre
<1>2. /\ Len(g) = q + Parts
      /\ \A i \in 1..Len(g) : \/ i \in 1..q /\ g[i] = s[i]
                              \/ i > q /\ i - q \in 1..Parts /\ g[i] = b[i - q]
  BY ONLY s \in Seq(PieceSet), q = Len(s), g = s \o b, <1>1, CatIs
<1>3. ASSUME NEW i \in 1..Len(g), NEW j \in 1..Len(g), i < j, g[i][1] = g[j][1]
      PROVE  Precedes(g[i], g[j])
  <2>1. i \in Nat /\ j \in Nat  BY <1>1, <1>2
  <2>2. CASE j \in 1..q /\ g[j] = s[j]
    <3>1. i \in 1..q /\ g[i] = s[i]  BY <2>1, <2>2, <1>2, <1>3
    <3> QED  BY <3>1, <2>2, <1>3 DEF Ordered
  <2>3. CASE i \in 1..q /\ g[i] = s[i] /\ j - q \in 1..Parts /\ g[j] = b[j - q]
    <3>1. s[i][1] = line[1]  BY <2>3, <1>1, <1>3
    <3>2. g[i][2] < g[j][2]  BY <3>1, <2>3, <1>1
    <3> QED  BY <3>2 DEF Precedes
  <2>4. CASE i - q \in 1..Parts /\ g[i] = b[i - q] /\ j - q \in 1..Parts /\ g[j] = b[j - q]
    <3>1. g[i][2] = g[j][2] /\ g[i][4] = i - q /\ g[j][4] = j - q  BY <2>4, <1>1
    <3>2. i - q < j - q  BY <2>1, <1>3
    <3> QED  BY <3>1, <3>2 DEF Precedes
  <2> QED  BY <2>2, <2>3, <2>4, <1>2
<1> QED  BY <1>3 DEF Ordered

\* The beginning of what is in order, and pieces of another capture behind it.
LEMMA BeginOrdered ==
    ASSUME NEW s \in Seq(PieceSet), NEW b \in Seq(PieceSet), Ordered(s \o b)
    PROVE  Ordered(s)
<1>1. /\ Len(s \o b) = Len(s) + Len(b)
      /\ \A i \in 1..Len(s) : (s \o b)[i] = s[i] /\ i \in 1..Len(s \o b)
  BY CatIs
<1> QED  BY <1>1 DEF Ordered

LEMMA OtherOrdered ==
    ASSUME NEW f \in Seq(PieceSet), NEW w \in Seq(PieceSet), NEW y \in Seq(PieceSet),
           Ordered(f \o w), Ordered(f \o y),
           \A i \in 1..Len(w), j \in 1..Len(y) : w[i][1] # y[j][1]
    PROVE  Ordered((f \o w) \o y)
<1> PICK fw : fw = f \o w  OBVIOUS
<1> PICK fy : fy = f \o y  OBVIOUS
<1> PICK g : g = fw \o y  OBVIOUS
<1>1. /\ fw \in Seq(PieceSet) /\ Len(f) \in Nat /\ Len(w) \in Nat /\ Len(fw) = Len(f) + Len(w)
      /\ \A i \in 1..Len(fw) : \/ i \in 1..Len(f) /\ fw[i] = f[i]
                               \/ i - Len(f) \in 1..Len(w) /\ fw[i] = w[i - Len(f)]
  BY ONLY f \in Seq(PieceSet), w \in Seq(PieceSet), fw = f \o w, CatIs
<1>2. /\ \A i \in 1..Len(f) : fy[i] = f[i] /\ i \in 1..Len(fy)
      /\ \A i \in 1..Len(y) : fy[Len(f) + i] = y[i] /\ Len(f) + i \in 1..Len(fy)
      /\ Len(y) \in Nat
  BY ONLY f \in Seq(PieceSet), y \in Seq(PieceSet), fy = f \o y, CatIs
<1>3. /\ Len(g) = Len(fw) + Len(y)
      /\ \A i \in 1..Len(g) : \/ i \in 1..Len(fw) /\ g[i] = fw[i]
                              \/ /\ i > Len(fw) /\ i - Len(fw) \in 1..Len(y)
                                 /\ g[i] = y[i - Len(fw)]
  <2>1. fw \in Seq(PieceSet)  BY <1>1
  <2> QED  BY ONLY <2>1, y \in Seq(PieceSet), g = fw \o y, CatIs
<1>4. ASSUME NEW i \in 1..Len(g), NEW j \in 1..Len(g), i < j, g[i][1] = g[j][1]
      PROVE  Precedes(g[i], g[j])
  <2>1. i \in Nat /\ j \in Nat  BY <1>1, <1>2, <1>3
  <2>2. CASE j \in 1..Len(fw) /\ g[j] = fw[j]
    <3>1. i \in 1..Len(fw) /\ g[i] = fw[i]  BY <2>1, <2>2, <1>1, <1>3, <1>4
    <3> QED  BY <3>1, <2>2, <1>4 DEF Ordered
  <2>3. CASE j > Len(fw) /\ j - Len(fw) \in 1..Len(y) /\ g[j] = y[j - Len(fw)]
    <3> PICK b : b = j - Len(fw)  OBVIOUS
    <3>1. b \in 1..Len(y) /\ g[j] = fy[Len(f) + b] /\ Len(f) + b \in 1..Len(fy)
      BY <2>3, <1>2
    <3>2. CASE i \in 1..Len(f) /\ g[i] = f[i]
      <4>1. g[i] = fy[i] /\ i \in 1..Len(fy) /\ i < Len(f) + b  BY <3>1, <3>2, <1>1, <1>2
      <4> QED  BY <4>1, <3>1, <1>4 DEF Ordered
    <3>3. CASE i - Len(f) \in 1..Len(w) /\ g[i] = w[i - Len(f)]
      BY <3>1, <3>3, <2>3, <1>4
    <3>4. CASE i > Len(fw) /\ i - Len(fw) \in 1..Len(y) /\ g[i] = y[i - Len(fw)]
      <4> PICK a : a = i - Len(fw)  OBVIOUS
      <4>1. a \in 1..Len(y) /\ g[i] = fy[Len(f) + a] /\ Len(f) + a \in 1..Len(fy)
        BY <3>4, <1>2
      <4>2. Len(f) + a < Len(f) + b  BY <4>1, <3>1, <2>1, <1>1, <1>2, <1>4
      <4> QED  BY <4>1, <4>2, <3>1, <1>4 DEF Ordered
    <3> QED  BY <3>2, <3>3, <3>4, <1>1, <1>3
  <2> QED  BY <2>2, <2>3, <1>3
<1> QED  BY <1>4 DEF Ordered

\* The line that is told is new, and put behind the others; so is one that is
\* not told, or that is a header behind nothing.
LEMMA NextLine ==
    ASSUME AssertionsAssumption, NEW s \in Seq(PieceSet), NEW t \in Seq(Line), InLines(s, t),
           NEW line \in Line, NEW u, u = t \/ u = Append(t, line),
           \A i \in 1..Len(s) : LineOf(s[i]) # line,
           \A k \in 1..Len(t) : t[k] # line,
           line[2] = 0 => Len(s) = 0
    PROVE  InLines(s \o Pieces(line), u)
<1> PICK q \in Nat : q = Len(s)  OBVIOUS
<1> PICK b : b = Pieces(line)  OBVIOUS
<1> PICK g : g = s \o b  OBVIOUS
<1>1. /\ b \in Seq(PieceSet) /\ Len(b) = Parts /\ Parts \in Nat
      /\ \A p \in 1..Parts : /\ b[p] = Piece(line, p) /\ LineOf(b[p]) = line
                             /\ b[p][2] = line[2] /\ b[p][4] = p
                             /\ \A r : Piece(b[p], r) = Piece(line, r)
  BY PiecesAre
<1>2. /\ Len(g) = q + Parts
      /\ \A i \in 1..q : g[i] = s[i]
      /\ \A i \in 1..Parts : g[q + i] = b[i]
      /\ \A i \in 1..Len(g) : \/ i \in 1..q /\ g[i] = s[i]
                              \/ i > q /\ i - q \in 1..Parts /\ g[i] = b[i - q]
  <2>1. b \in Seq(PieceSet) /\ Len(b) = Parts  BY <1>1
  <2>2. /\ \A i \in 1..Len(s) : g[i] = s[i] /\ i \in 1..Len(g)
        /\ \A i \in 1..Len(b) : g[Len(s) + i] = b[i] /\ Len(s) + i \in 1..Len(g)
    BY ONLY <2>1, s \in Seq(PieceSet), g = s \o b, CatIs
  <2>3. Len(g) = Len(s) + Len(b)
    BY ONLY <2>1, s \in Seq(PieceSet), g = s \o b, CatIs
  <2>4. \A i \in 1..Len(g) :
              \/ i \in 1..Len(s) /\ g[i] = s[i]
              \/ i > Len(s) /\ i - Len(s) \in 1..Len(b) /\ g[i] = b[i - Len(s)]
    BY ONLY <2>1, s \in Seq(PieceSet), g = s \o b, CatIs
  <2> QED  BY ONLY <2>1, <2>2, <2>3, <2>4, q = Len(s)
<1> PICK m \in Nat : m = Len(t)  OBVIOUS
<1>3. \A k \in 1..Len(u) : \/ k \in 1..m /\ u[k] = t[k] /\ u[k] # line
                           \/ k = m + 1 /\ u[k] = line
  <2>1. CASE u = t  BY <2>1
  <2>2. CASE u = Append(t, line)
    <3>1. Len(u) = m + 1 /\ u[m + 1] = line /\ \A k \in 1..m : u[k] = t[k]  BY <2>2
    <3> QED  BY <3>1
  <2> QED  BY <2>1, <2>2
<1>4. ASSUME NEW i \in 1..Len(g)
      PROVE  LET piece == g[i] IN
             /\ piece[4] > 1 => i > 1 /\ g[i - 1] = Piece(piece, piece[4] - 1)
             /\ piece[4] < Parts => i < Len(g) /\ g[i + 1] = Piece(piece, piece[4] + 1)
             /\ \A j \in 1..i, k, l \in 1..Len(u) :
                   u[k] = LineOf(g[j]) /\ u[l] = LineOf(piece) => k <= l
             /\ IsHeader(piece) => \A j \in 1..i : IsHeader(g[j])
  <2>1. i \in Nat /\ i > 0  BY <1>1, <1>2
  <2>2. CASE i \in 1..q /\ g[i] = s[i]
    <3>1. /\ s[i][4] > 1 => i > 1 /\ s[i - 1] = Piece(s[i], s[i][4] - 1)
          /\ s[i][4] < Parts => i < q /\ s[i + 1] = Piece(s[i], s[i][4] + 1)
          /\ \A j \in 1..i, k, l \in 1..m :
                t[k] = LineOf(s[j]) /\ t[l] = LineOf(s[i]) => k <= l
          /\ IsHeader(s[i]) => \A j \in 1..i : IsHeader(s[j])
      BY <2>2 DEF InLines
    <3>2. \A j \in 1..i : j \in 1..q /\ g[j] = s[j]  BY <2>2, <1>2
    <3>3. g[i][4] > 1 => i > 1 /\ g[i - 1] = Piece(g[i], g[i][4] - 1)
      <4>1. i > 1 => g[i - 1] = s[i - 1]  BY <2>2, <1>2
      <4> QED  BY <4>1, <3>1, <2>2
    <3>4. g[i][4] < Parts => i < Len(g) /\ g[i + 1] = Piece(g[i], g[i][4] + 1)
      <4>1. i < q => g[i + 1] = s[i + 1] /\ i < Len(g)  BY <2>2, <1>1, <1>2
      <4> QED  BY <4>1, <3>1, <2>2
    <3>5. ASSUME NEW j \in 1..i, NEW k \in 1..Len(u), NEW l \in 1..Len(u),
                 u[k] = LineOf(g[j]), u[l] = LineOf(g[i])
          PROVE  k <= l
      <4>1. u[k] # line /\ u[l] # line  BY <3>2, <3>5, <2>2
      <4>2. k \in 1..m /\ l \in 1..m /\ u[k] = t[k] /\ u[l] = t[l]  BY <4>1, <1>3
      <4> QED  BY <4>2, <3>1, <3>2, <3>5, <2>2
    <3>6. IsHeader(g[i]) => \A j \in 1..i : IsHeader(g[j])  BY <3>1, <3>2, <2>2
    <3> QED  BY <3>3, <3>4, <3>5, <3>6
  <2>3. CASE i > q /\ i - q \in 1..Parts /\ g[i] = b[i - q]
    <3> PICK p : p = i - q  OBVIOUS
    <3>1. p \in 1..Parts /\ i = q + p /\ p \in Nat  BY <2>1, <2>3, <1>1
    <3>2. g[i][4] = p /\ LineOf(g[i]) = line /\ g[i][2] = line[2]
          /\ \A r : Piece(g[i], r) = Piece(line, r)
      BY <3>1, <2>3, <1>1
    <3>3. p > 1 => i > 1 /\ g[i - 1] = Piece(line, p - 1)
      <4>1. p > 1 => p - 1 \in 1..Parts /\ i - 1 = q + (p - 1) /\ i > 1  BY ONLY <3>1, <1>1, q \in Nat
      <4> QED  BY <4>1, <1>1, <1>2
    <3>4. p < Parts => i < Len(g) /\ g[i + 1] = Piece(line, p + 1)
      <4>1. p < Parts => p + 1 \in 1..Parts /\ i + 1 = q + (p + 1) /\ i < q + Parts
        BY ONLY <3>1, <1>1, q \in Nat
      <4> QED  BY <4>1, <1>1, <1>2
    <3>5. ASSUME NEW j \in 1..i, NEW k \in 1..Len(u), NEW l \in 1..Len(u),
                 u[k] = LineOf(g[j]), u[l] = LineOf(g[i])
          PROVE  k <= l
      <4>1. l = m + 1  BY <3>2, <3>5, <1>3
      <4>2. k <= m + 1  BY <1>3
      <4> QED  BY <4>1, <4>2
    <3>6. ASSUME IsHeader(g[i]), NEW j \in 1..i PROVE IsHeader(g[j])
      <4>1. line[2] = 0 /\ q = 0  BY <3>2, <3>6 DEF IsHeader
      <4>2. j \in 1..Len(g)  BY <1>1, <1>2
      <4>3. j - q \in 1..Parts /\ g[j] = b[j - q]  BY <4>1, <4>2, <1>2
      <4> QED  BY <4>1, <4>3, <1>1 DEF IsHeader
    <3> QED  BY <3>2, <3>3, <3>4, <3>5, <3>6
  <2> QED  BY <2>2, <2>3, <1>2
<1> QED  BY <1>4 DEF InLines
----------------------------------------------------------------------------
(* The pieces and the captures, whether writes fail or not.                *)

\* A call that is no capture leaves all as it is.
LEMMA MoreCalls ==
    ASSUME NEW f, NEW t, NEW C, NEW e, NEW o, NEW x, NEW n \in Nat, Written(f, t, C, e, o, x, n)
    PROVE  Written(f, t, C, e, o, x, n + 1)
<1>1. \A i \in 1..n : i \in 1..(n + 1)  OBVIOUS
<1>2. Base(f, t, C, e, n)  BY DEF Written
<1>3. Shapes(f, t, C, n + 1)  BY <1>1, <1>2 DEF Base, Shapes
<1>4. Told(t, n + 1)  BY <1>1, <1>2 DEF Base, Told
<1>5. Owned(f, t, n + 1) /\ \A c \in C : Owned(c.buf, t, n + 1)
  BY <1>1, <1>2 DEF Base, Owned
<1> QED  BY <1>2, <1>3, <1>4, <1>5 DEF Written, Base

\* The pieces of s are from f, from b, or of the line.
Among(s, f, b, line) ==
    \A i \in 1..Len(s) : Inside(f, s[i]) \/ Inside(b, s[i]) \/ LineOf(s[i]) = line

\* A capture begins, and perhaps is over at once: it has written nothing but
\* its header.
LEMMA BeginBase ==
    ASSUME NEW f, NEW t, NEW C, NEW e, NEW n \in Nat, Base(f, t, C, e, n),
           NEW c, c.id = n + 1, c.index = 0, c.buf \in Seq(PieceSet),
           Among(c.buf, <<>>, <<>>, HeaderOf(n + 1)),
           NEW g \in Seq(PieceSet), Among(g, f, <<>>, HeaderOf(n + 1)),
           NEW D, D \subseteq C \cup {c}
    PROVE  Base(g, t, D, TRUE, n + 1)
<1>1. /\ Shapes(f, t, C, n) /\ Numbered(f, t, C) /\ Told(t, n)
      /\ Owned(f, t, n) /\ \A x \in C : Owned(x.buf, t, n)
  BY DEF Base
<1>2. \A i \in 1..n : i \in 1..(n + 1) /\ i # n + 1  OBVIOUS
<1>3. \A s : ~Inside(<<>>, s)  BY DEF Inside
<1>4. /\ HeaderOf(n + 1)[1] = n + 1 /\ HeaderOf(n + 1)[2] = 0
      /\ \A piece \in PieceSet : LineOf(piece) = HeaderOf(n + 1) =>
            piece[1] = n + 1 /\ piece[2] = 0 /\ IsHeader(piece)
  BY DEF HeaderOf, PieceSet, LineOf, IsHeader
<1>5. \A x \in D : x = c \/ (x \in C /\ x.id \in 1..n)  BY <1>1 DEF Shapes
<1>6. \A i \in 1..Len(c.buf) : c.buf[i][1] = n + 1 /\ c.buf[i][2] = 0 /\ IsHeader(c.buf[i])
  BY <1>3, <1>4 DEF Among
<1>7. \A i \in 1..Len(g) : \/ Inside(f, g[i])
                           \/ g[i][1] = n + 1 /\ g[i][2] = 0 /\ IsHeader(g[i])
  BY <1>3, <1>4 DEF Among
<1>8. Shapes(g, t, D, n + 1)
  <2>1. \A x \in D : x.id \in 1..(n + 1) /\ x.index \in Nat /\ x.buf \in Seq(PieceSet)
    BY <1>1, <1>2, <1>5 DEF Shapes
  <2>2. \A x, y \in D : x.id = y.id => x = y  BY <1>1, <1>2, <1>5 DEF Shapes
  <2> QED  BY <2>1, <2>2, <1>1 DEF Shapes
<1>9. \A i \in 1..Len(f) : f[i][1] \in 1..n  BY <1>1 DEF Owned
<1>10. \A k \in 1..Len(t) : t[k][1] \in 1..n  BY <1>1 DEF Told
<1>11. Numbered(g, t, D)
  <2>1. ASSUME NEW x \in D
        PROVE  /\ \A i \in 1..Len(g) : g[i][1] = x.id => g[i][2] <= x.index
               /\ \A i \in 1..Len(x.buf) : x.buf[i][1] = x.id /\ x.buf[i][2] <= x.index
               /\ \A k \in 1..Len(t) : t[k][1] = x.id => t[k][2] <= x.index
    <3>1. CASE x = c
      <4>1. \A i \in 1..Len(g) : g[i][1] = n + 1 => g[i][2] = 0
        BY <1>2, <1>7, <1>9 DEF Inside
      <4>2. \A k \in 1..Len(t) : t[k][1] # n + 1  BY <1>2, <1>10
      <4> QED  BY <3>1, <4>1, <4>2, <1>6
    <3>2. CASE x \in C /\ x.id \in 1..n
      <4>1. x.id # n + 1  BY <3>2, <1>2
      <4>2. \A i \in 1..Len(f) : f[i][1] = x.id => f[i][2] <= x.index
        BY <3>2, <1>1 DEF Numbered
      <4>3. \A i \in 1..Len(g) : g[i][1] = x.id => g[i][2] <= x.index
        BY <4>1, <4>2, <1>7 DEF Inside
      <4> QED  BY <3>2, <4>3, <1>1 DEF Numbered
    <3> QED  BY <3>1, <3>2, <1>5
  <2> QED  BY <2>1 DEF Numbered
<1>12. Told(t, n + 1)  BY <1>1, <1>2 DEF Told
<1>13. Owned(g, t, n + 1)
  <2>1. n + 1 \in 1..(n + 1)  OBVIOUS
  <2> QED  BY <2>1, <1>1, <1>2, <1>7 DEF Owned, Inside
<1>14. ASSUME NEW x \in D PROVE Owned(x.buf, t, n + 1)
  <2>1. n + 1 \in 1..(n + 1)  OBVIOUS
  <2>2. CASE x = c  BY <2>1, <2>2, <1>6 DEF Owned
  <2>3. CASE x \in C  BY <2>3, <1>1, <1>2 DEF Owned
  <2> QED  BY <2>2, <2>3, <1>5
<1> QED  BY <1>8, <1>11, <1>12, <1>13, <1>14 DEF Base

\* A capture goes on, or ends: what the file and its stream get is from its
\* stream, or of its next sample.
LEMMA MoveBase ==
    ASSUME NEW f, NEW t, NEW C, NEW e, NEW n \in Nat, Base(f, t, C, e, n), NEW c \in C,
           NEW line \in Line, line[1] = c.id, line[2] = c.index + 1,
           NEW u, u = t \/ u = Append(t, line), line[3] = "bytes" \/ Has(u, line),
           NEW g \in Seq(PieceSet), Among(g, f, c.buf, line),
           NEW d, d.id = c.id, d.index = c.index + 1, d.buf \in Seq(PieceSet),
           Among(d.buf, c.buf, c.buf, line),
           NEW D, D \subseteq (C \ {c}) \cup {d}
    PROVE  Base(g, u, D, e, n)
<1>1. /\ Shapes(f, t, C, n) /\ Numbered(f, t, C) /\ Told(t, n)
      /\ Owned(f, t, n) /\ \A x \in C : Owned(x.buf, t, n)
      /\ ~e => f = <<>> /\ C = {}
  BY DEF Base
<1>2. c.id \in 1..n /\ c.index \in Nat /\ t \in Seq(Line)  BY <1>1 DEF Shapes
<1> PICK m \in Nat : m = Len(t)  BY <1>2
<1>3. /\ u \in Seq(Line)
      /\ \A k \in 1..Len(u) : (k \in 1..m /\ u[k] = t[k]) \/ (k = m + 1 /\ u[k] = line)
      /\ \A z : Has(t, z) => Has(u, z)
  <2>1. CASE u = t  BY <2>1, <1>2
  <2>2. CASE u = Append(t, line)
    <3>1. u \in Seq(Line) /\ Len(u) = m + 1 /\ u[m + 1] = line /\ \A k \in 1..m : u[k] = t[k]
      BY <2>2, <1>2
    <3>2. \A k \in 1..m : k \in 1..Len(u)  BY <3>1
    <3> QED  BY <3>1, <3>2 DEF Has
  <2> QED  BY <2>1, <2>2
<1>4. \A piece : LineOf(piece) = line =>
          piece[1] = line[1] /\ piece[2] = line[2] /\ piece[3] = line[3]
  BY DEF LineOf
<1>5. \A x \in D : x = d \/ (x \in C /\ x # c /\ x.id # c.id)  BY <1>1 DEF Shapes
<1>6. \A i \in 1..Len(g) : \/ Inside(f, g[i]) \/ Inside(c.buf, g[i])
                           \/ /\ LineOf(g[i]) = line /\ g[i][1] = c.id
                              /\ g[i][2] = c.index + 1 /\ g[i][3] = line[3]
  BY <1>4 DEF Among
<1>7. \A i \in 1..Len(d.buf) :
          \/ Inside(c.buf, d.buf[i])
          \/ /\ LineOf(d.buf[i]) = line /\ d.buf[i][1] = c.id
             /\ d.buf[i][2] = c.index + 1 /\ d.buf[i][3] = line[3]
  BY <1>4 DEF Among
<1>8. Shapes(g, u, D, n)
  <2>1. \A x \in D : x.id \in 1..n /\ x.index \in Nat /\ x.buf \in Seq(PieceSet)
    BY <1>1, <1>2, <1>5 DEF Shapes
  <2>2. \A x, y \in D : x.id = y.id => x = y  BY <1>1, <1>5 DEF Shapes
  <2> QED  BY <2>1, <2>2, <1>3 DEF Shapes
\* What is numbered up to a sample is numbered up to the next.
<1>9. /\ \A i \in 1..Len(f) : f[i][1] = c.id => f[i][2] <= c.index + 1
      /\ \A i \in 1..Len(c.buf) : c.buf[i][1] = c.id /\ c.buf[i][2] <= c.index + 1
      /\ \A k \in 1..m : t[k][1] = c.id => t[k][2] <= c.index + 1
  <2>1. f \in Seq(PieceSet) /\ c.buf \in Seq(PieceSet)  BY <1>1 DEF Shapes
  <2>2. /\ \A i \in 1..Len(f) : f[i][2] \in Nat
        /\ \A i \in 1..Len(c.buf) : c.buf[i][2] \in Nat
        /\ \A k \in 1..m : t[k][2] \in Nat
    <3>1. \A piece \in PieceSet : piece[2] \in Nat  BY PieceIs
    <3>2. \A z \in Line : z[2] \in Nat  BY LineIs
    <3> QED  BY <3>1, <3>2, <2>1, <1>2
  <2>3. \A z \in Nat : z <= c.index => z <= c.index + 1  BY <1>2
  <2> QED  BY <2>2, <2>3, <1>1 DEF Numbered
<1>10. Numbered(g, u, D)
  <2>1. ASSUME NEW x \in D
        PROVE  /\ \A i \in 1..Len(g) : g[i][1] = x.id => g[i][2] <= x.index
               /\ \A i \in 1..Len(x.buf) : x.buf[i][1] = x.id /\ x.buf[i][2] <= x.index
               /\ \A k \in 1..Len(u) : u[k][1] = x.id => u[k][2] <= x.index
    <3>0. c.index + 1 <= c.index + 1  BY <1>2
    <3>1. CASE x = d
      <4>1. \A i \in 1..Len(g) : g[i][1] = c.id => g[i][2] <= c.index + 1
        BY <3>0, <1>6, <1>9 DEF Inside
      <4>2. \A i \in 1..Len(d.buf) : d.buf[i][1] = c.id /\ d.buf[i][2] <= c.index + 1
        BY <3>0, <1>7, <1>9 DEF Inside
      <4>3. \A k \in 1..Len(u) : u[k][1] = c.id => u[k][2] <= c.index + 1
        BY <3>0, <1>3, <1>9
      <4> QED  BY <3>1, <4>1, <4>2, <4>3
    <3>2. CASE x \in C /\ x # c /\ x.id # c.id
      <4>1. /\ \A i \in 1..Len(f) : f[i][1] = x.id => f[i][2] <= x.index
            /\ \A i \in 1..Len(x.buf) : x.buf[i][1] = x.id /\ x.buf[i][2] <= x.index
            /\ \A k \in 1..m : t[k][1] = x.id => t[k][2] <= x.index
        BY <3>2, <1>1 DEF Numbered
      <4>2. \A i \in 1..Len(g) : g[i][1] = x.id => g[i][2] <= x.index
        BY <3>2, <4>1, <1>6, <1>9 DEF Inside
      <4>3. \A k \in 1..Len(u) : u[k][1] = x.id => u[k][2] <= x.index
        BY <3>2, <4>1, <1>3
      <4> QED  BY <4>1, <4>2, <4>3
    <3> QED  BY <3>1, <3>2, <1>5
  <2> QED  BY <2>1 DEF Numbered
<1>11. Told(u, n)
  <2>1. \A k \in 1..m : t[k] # line
    <3>1. \A k \in 1..m : t[k][1] = c.id => t[k][2] <= c.index  BY <1>1 DEF Numbered
    <3>2. ~(c.index + 1 <= c.index)  BY <1>2
    <3> QED  BY <3>1, <3>2
  <2>2. \A k \in 1..Len(u) : u[k][1] \in 1..n /\ u[k][2] > 0
    <3>1. c.index + 1 > 0  BY <1>2
    <3> QED  BY <3>1, <1>1, <1>2, <1>3 DEF Told
  <2>3. \A k, l \in 1..Len(u) : u[k] = u[l] => k = l  BY <2>1, <1>1, <1>3 DEF Told
  <2> QED  BY <2>2, <2>3 DEF Told
<1>12. \A s : Owned(s, t, n) => Owned(s, u, n)  BY <1>3 DEF Owned
<1>13. /\ Owned(g, u, n)
       /\ Owned(d.buf, u, n)
  <2>1. Owned(f, u, n) /\ Owned(c.buf, u, n)  BY <1>1, <1>12
  <2> QED  BY <2>1, <1>2, <1>6, <1>7 DEF Owned, Inside
<1>14. \A x \in D : Owned(x.buf, u, n)  BY <1>1, <1>5, <1>12, <1>13
<1>15. e  BY <1>1
<1> QED  BY <1>8, <1>10, <1>11, <1>13, <1>14, <1>15 DEF Base
----------------------------------------------------------------------------
(* ... and as long as none has failed.                                     *)

\* The pieces of two sequences, one behind the other.
LEMMA CatInside ==
    ASSUME NEW S, NEW a \in Seq(S), NEW b \in Seq(S), NEW g, g = a \o b
    PROVE  /\ g \in Seq(S)
           /\ \A i \in 1..Len(g) : Inside(a, g[i]) \/ Inside(b, g[i])
           /\ \A z : Inside(a, z) \/ Inside(b, z) => Inside(g, z)
<1>1. g \in Seq(S)  BY CatIs
<1>2. \A i \in 1..Len(g) : \/ i \in 1..Len(a) /\ g[i] = a[i]
                           \/ i - Len(a) \in 1..Len(b) /\ g[i] = b[i - Len(a)]
  BY CatIs
<1>3. \A i \in 1..Len(a) : g[i] = a[i] /\ i \in 1..Len(g)  BY CatIs
<1>4. \A i \in 1..Len(b) : g[Len(a) + i] = b[i] /\ Len(a) + i \in 1..Len(g)  BY CatIs
<1> QED  BY ONLY <1>1, <1>2, <1>3, <1>4 DEF Inside

LEMMA HeadersFrom ==
    ASSUME NEW a, NEW b, NEW h, HeadersOf(a, h), HeadersOf(b, h),
           NEW s, \A i \in 1..Len(s) : Inside(a, s[i]) \/ Inside(b, s[i])
    PROVE  HeadersOf(s, h)
  BY DEF HeadersOf, Inside

LEMMA BeginGood ==
    ASSUME AssertionsAssumption, NEW f, NEW t, NEW C, NEW e, NEW n \in Nat, Base(f, t, C, e, n),
           NEW o, Good(f, t, C, o),
           NEW c, c.id = n + 1, c.index = 0, ~c.bad,
           c.buf = <<>> \/ (c.buf = Pieces(HeaderOf(n + 1)) /\ ~e),
           NEW v, ~v => ~o /\ C = {}
    PROVE  Good(f, t, C \cup {c}, v)
<1> PICK b : b = c.buf  OBVIOUS
<1> PICK line : line = HeaderOf(n + 1)  OBVIOUS
<1>1. f \in Seq(PieceSet) /\ t \in Seq(Line)  BY DEF Base, Shapes
<1>2. line \in Line /\ line[1] = n + 1 /\ line[2] = 0  BY DEF HeaderOf, Line, Kinds
<1>3. b = <<>> \/ (b = Pieces(line) /\ f = <<>> /\ C = {})  BY DEF Base
<1>4. b = Pieces(line) => \A i \in 1..Len(b) : b[i][1] = n + 1  BY <1>2, PiecesAre
<1>5. f = <<>> => Len(f) = 0 /\ \A i \in 1..Len(f) : FALSE  OBVIOUS
<1>6. Ordered(f) /\ (\A x \in C : Ordered(f \o x.buf)) /\ (\A x \in C : ~x.bad)
  BY DEF Good
<1>7. Ordered(f \o b)
  <2>1. CASE b = <<>>
    <3>1. f \o b = f  BY <2>1, <1>1, CatAgain
    <3> QED  BY <3>1, <1>6
  <2>2. CASE b = Pieces(line) /\ f = <<>>
    <3>1. \A i \in 1..Len(f) : FALSE  BY <2>2, <1>5
    <3> QED  BY <3>1, <2>2, <1>1, <1>2, <1>6, NextOrdered
  <2> QED  BY <2>1, <2>2, <1>3
<1>8. \A i \in 1..Len(<<>>) : FALSE  OBVIOUS
<1>9. \E h : HeadersOf(f, h) /\ \A x \in C \cup {c} : HeadersOf(x.buf, h)
  <2>1. CASE b = <<>>
    <3>1. \A h : HeadersOf(c.buf, h)  BY <2>1, <1>8 DEF HeadersOf
    <3> QED  BY <3>1 DEF Good
  <2>2. CASE b = Pieces(line) /\ f = <<>> /\ C = {}
    <3>1. HeadersOf(f, n + 1) /\ HeadersOf(c.buf, n + 1)  BY <2>2, <1>4, <1>5 DEF HeadersOf
    <3> QED  BY <3>1, <2>2
  <2> QED  BY <2>1, <2>2, <1>3
<1>10. Kept(f, t, C \cup {c})
  <2>1. Kept(f, t, C)  BY DEF Good
  <2> QED  BY <2>1 DEF Kept
<1>11. ASSUME ~v PROVE Alone(f, t, C \cup {c})
  <2>1. ~o /\ C = {}  BY <1>11
  <2>2. InLines(f, t)  BY <2>1 DEF Good, Alone
  <2>3. InLines(f \o b, t)
    <3>1. CASE b = <<>>
      <4>1. f \o b = f  BY <3>1, <1>1, CatAgain
      <4> QED  BY <4>1, <2>2
    <3>2. CASE b = Pieces(line) /\ f = <<>>
      <4>1. \A i \in 1..Len(f) : LineOf(f[i]) # line  BY <3>2, <1>5
      <4>2. \A k \in 1..Len(t) : t[k] # line
        <5>1. \A k \in 1..Len(t) : t[k][2] > 0  BY DEF Base, Told
        <5> QED  BY <5>1, <1>2
      <4>3. Len(f) = 0  BY <3>2, <1>5
      <4>4. InLines(f \o Pieces(line), t)
        <5>1. t = t \/ t = Append(t, line)  OBVIOUS
        <5>2. line[2] = 0 => Len(f) = 0  BY <4>3
        <5> QED
          BY ONLY <5>1, <5>2, <4>1, <4>2, <2>2, <1>1, <1>2, AssertionsAssumption, NextLine
      <4> QED  BY <4>4, <3>2
    <3> QED  BY <3>1, <3>2, <1>3
  <2>4. C \cup {c} = {c}  BY <2>1
  <2> QED  BY <2>3, <2>4 DEF Alone
<1>12. \A x \in C \cup {c} : ~x.bad /\ Ordered(f \o x.buf)  BY <1>6, <1>7
<1> QED  BY <1>6, <1>9, <1>10, <1>11, <1>12 DEF Good

\* What a sample puts in the stream, and what it tells.
Says(b, u, t, line) ==
    \/ line[3] = "text" /\ b = Pieces(line) /\ u = Append(t, line)
    \/ line[3] = "bytes" /\ b = Pieces(line) /\ u = t
    \/ line[3] = "value" /\ b = <<>> /\ u = Append(t, line)

\* Lines that are not in s are told: it stays what it was.
LEMMA SameLines ==
    ASSUME NEW s \in Seq(PieceSet), NEW t \in Seq(Line), InLines(s, t), NEW line \in Line,
           \A i \in 1..Len(s) : LineOf(s[i]) # line
    PROVE  InLines(s, Append(t, line))
<1> PICK m \in Nat : m = Len(t)  OBVIOUS
<1> PICK u : u = Append(t, line)  OBVIOUS
<1>1. /\ Len(u) = m + 1 /\ u[m + 1] = line /\ \A k \in 1..m : u[k] = t[k]  OBVIOUS
<1>2. \A k \in 1..Len(u) : (k \in 1..m /\ u[k] = t[k]) \/ u[k] = line  BY <1>1
<1>3. ASSUME NEW i \in 1..Len(s), NEW j \in 1..i, NEW k \in 1..Len(u), NEW l \in 1..Len(u),
             u[k] = LineOf(s[j]), u[l] = LineOf(s[i])
      PROVE  k <= l
  <2>1. j \in 1..Len(s)  OBVIOUS
  <2>2. k \in 1..m /\ l \in 1..m /\ t[k] = LineOf(s[j]) /\ t[l] = LineOf(s[i])
    BY <2>1, <1>2, <1>3
  <2> QED  BY <2>2 DEF InLines
<1> QED  BY <1>3 DEF InLines

\* A sample is added to a capture's stream.
LEMMA InsertGood ==
    ASSUME AssertionsAssumption, NEW f, NEW t, NEW C, NEW e, NEW n \in Nat, Base(f, t, C, e, n),
           NEW o, Good(f, t, C, o), NEW c \in C,
           NEW line \in Line, line[1] = c.id, line[2] = c.index + 1,
           NEW b, NEW u, Says(b, u, t, line),
           NEW d, d.buf = c.buf \o b, ~d.bad
    PROVE  Good(f, u, (C \ {c}) \cup {d}, o)
<1> DEFINE D == (C \ {c}) \cup {d}
<1>1. /\ f \in Seq(PieceSet) /\ t \in Seq(Line) /\ c.buf \in Seq(PieceSet) /\ c.index \in Nat
      /\ \A x, y \in C : x.id = y.id => x = y
  BY DEF Base, Shapes
<1>2. /\ Ordered(f) /\ (\A x \in C : Ordered(f \o x.buf)) /\ (\A x \in C : ~x.bad)
      /\ Kept(f, t, C) /\ (~o => Alone(f, t, C))
  BY DEF Good
<1>3. \A x \in D : x = d \/ (x \in C /\ x # c)  OBVIOUS
<1> HIDE DEF D
<1>4. b \in Seq(PieceSet) /\ b \in {<<>>, Pieces(line)}
  <2>1. <<>> \in Seq(PieceSet)  OBVIOUS
  <2>2. Pieces(line) \in Seq(PieceSet)  BY PiecesAre
  <2> QED  BY <2>1, <2>2 DEF Says
<1> PICK s : s = f \o c.buf  OBVIOUS
<1>5. /\ s \in Seq(PieceSet)
      /\ \A i \in 1..Len(s) : Inside(f, s[i]) \/ Inside(c.buf, s[i])
  <2> PICK a : a = c.buf  OBVIOUS
  <2>1. f \in Seq(PieceSet) /\ a \in Seq(PieceSet) /\ s = f \o a  BY <1>1
  <2>2. /\ s \in Seq(PieceSet)
        /\ \A i \in 1..Len(s) : Inside(f, s[i]) \/ Inside(a, s[i])
    BY ONLY <2>1, CatInside
  <2> QED  BY <2>2
<1>6. f \o d.buf = s \o b /\ s \o <<>> = s
  <2> PICK a : a = c.buf  OBVIOUS
  <2>1. (f \o a) \o b = f \o (a \o b)
    <3>1. f \in Seq(PieceSet) /\ a \in Seq(PieceSet) /\ b \in Seq(PieceSet)  BY <1>1, <1>4
    <3> QED  BY ONLY <3>1, CatAgain
  <2>2. s \o <<>> = s  BY ONLY <1>5, CatAgain
  <2> QED  BY <2>1, <2>2
\* The line is new.
<1>7. \A i \in 1..Len(s) : s[i][1] = line[1] => s[i][2] <= c.index
  BY <1>5 DEF Base, Numbered, Inside
<1>8. \A i \in 1..Len(s) : s[i][2] \in Nat
  BY <1>5, PieceIs
<1>9. /\ \A i \in 1..Len(s) : s[i][1] = line[1] => s[i][2] < line[2]
      /\ \A i \in 1..Len(s) : LineOf(s[i]) # line
  <2>1. \A z \in Nat : z <= c.index => z < c.index + 1  BY <1>1
  <2>2. \A i \in 1..Len(s) : s[i][1] = line[1] => s[i][2] < line[2]  BY <2>1, <1>7, <1>8
  <2>3. \A i \in 1..Len(s) :
           LineOf(s[i]) = line => s[i][1] = line[1] /\ s[i][2] = line[2]
    BY DEF LineOf
  <2>4. ~(line[2] < line[2])  BY LineIs
  <2> QED  BY <2>2, <2>3, <2>4
<1>10. \A k \in 1..Len(t) : t[k] # line
  <2>1. \A k \in 1..Len(t) : t[k][1] = c.id => t[k][2] <= c.index  BY DEF Base, Numbered
  <2>2. ~(c.index + 1 <= c.index)  BY <1>1
  <2> QED  BY <2>1, <2>2
<1>11. Ordered(f \o d.buf)
  <2>1. Ordered(s)  BY <1>2
  <2>2. Ordered(s \o Pieces(line))  BY <2>1, <1>5, <1>9, NextOrdered
  <2> QED  BY <2>1, <2>2, <1>4, <1>6
<1> PICK g : g = d.buf  OBVIOUS
<1>12. /\ \A i \in 1..Len(g) : Inside(c.buf, g[i]) \/ Inside(b, g[i])
       /\ \A z : Inside(c.buf, z) \/ Inside(b, z) => Inside(g, z)
  BY ONLY g = d.buf, d.buf = c.buf \o b, <1>1, <1>4, CatInside
<1>13. \E h : HeadersOf(f, h) /\ \A x \in D : HeadersOf(x.buf, h)
  <2>1. PICK h : HeadersOf(f, h) /\ \A x \in C : HeadersOf(x.buf, h)  BY DEF Good
  <2>2. \A i \in 1..Len(b) : ~IsHeader(b[i])
    <3>1. \A i \in 1..Len(<<>>) : FALSE  OBVIOUS
    <3>2. line[2] # 0  BY <1>1
    <3>3. \A i \in 1..Len(Pieces(line)) : ~IsHeader(Pieces(line)[i])
      BY <3>2, PiecesAre DEF IsHeader
    <3> QED  BY <3>1, <3>3, <1>4
  <2>3. HeadersOf(g, h)
    <3>1. HeadersOf(c.buf, h) /\ HeadersOf(b, h)  BY <2>1, <2>2 DEF HeadersOf
    <3> QED  BY <3>1, <1>12, HeadersFrom
  <2> QED  BY <2>1, <2>3, <1>3
<1>14. \A k \in 1..Len(u) : (k \in 1..Len(t) /\ u[k] = t[k]) \/ (u[k] = line /\ line[3] # "bytes")
  <2>1. CASE u = t  BY <2>1
  <2>2. CASE u = Append(t, line)
    <3>1. Len(u) = Len(t) + 1 /\ u[Len(t) + 1] = line /\ \A k \in 1..Len(t) : u[k] = t[k]
      BY <2>2, <1>1
    <3>2. \A k \in 1..Len(u) : k \in 1..Len(t) \/ k = Len(t) + 1  BY <3>1, <1>1
    <3>3. line[3] # "bytes"
      <4>1. Len(Append(t, line)) # Len(t)  BY <1>1
      <4> QED  BY <4>1, <2>2 DEF Says
    <3> QED  BY <3>1, <3>2, <3>3
  <2> QED  BY <2>1, <2>2 DEF Says
<1>15. Kept(f, u, D)
  <2>1. ASSUME NEW k \in 1..Len(u), NEW p \in 1..Parts, u[k][3] = "text"
        PROVE  Inside(f, Piece(u[k], p)) \/ \E x \in D : Inside(x.buf, Piece(u[k], p))
    <3>1. d \in D /\ \A x \in C : x # c => x \in D  BY DEF D
    <3>2. CASE k \in 1..Len(t) /\ u[k] = t[k]
      <4>1. Inside(f, Piece(t[k], p)) \/ \E x \in C : Inside(x.buf, Piece(t[k], p))
        BY <2>1, <3>2, <1>2 DEF Kept
      <4>2. Inside(c.buf, Piece(t[k], p)) => Inside(d.buf, Piece(t[k], p))  BY <1>12
      <4> QED  BY <4>1, <4>2, <3>1, <3>2
    <3>3. CASE u[k] = line
      <4>1. b = Pieces(line)  BY <2>1, <3>3 DEF Says
      <4>2. Inside(b, Piece(line, p))
        <5>1. p \in 1..Len(b) /\ b[p] = Piece(line, p)  BY <4>1, PiecesAre
        <5> QED  BY <5>1 DEF Inside
      <4>3. Inside(d.buf, Piece(line, p))  BY <4>2, <1>12
      <4> QED  BY <4>3, <3>1, <3>3
    <3> QED  BY <3>2, <3>3, <1>14
  <2> QED  BY <2>1 DEF Kept
<1>16. ASSUME ~o PROVE Alone(f, u, D)
  <2>1. (\A x, y \in C : x = y) /\ InLines(s, t)  BY <1>2, <1>16 DEF Alone
  <2>2. D = {d}  BY <2>1 DEF D
  <2>3. InLines(s \o b, u)
    <3>1. CASE b = Pieces(line)
      <4>1. u = t \/ u = Append(t, line)  BY DEF Says
      <4>2. line[2] # 0  BY <1>1
      <4>3. InLines(s \o Pieces(line), u)
        <5>1. line[2] = 0 => Len(s) = 0  BY <4>2
        <5> QED
          BY ONLY <5>1, <4>1, <2>1, <1>1, <1>5, <1>9, <1>10, line \in Line,
                  AssertionsAssumption, NextLine
      <4> QED  BY <4>3, <3>1
    <3>2. CASE b = <<>> /\ u = Append(t, line)
      <4>1. InLines(s, u)  BY <3>2, <2>1, <1>1, <1>5, <1>9, SameLines
      <4> QED  BY <4>1, <3>2, <1>6
    <3> QED  BY <3>1, <3>2 DEF Says
  <2> QED  BY <2>2, <2>3, <1>6 DEF Alone
<1>17. \A x \in D : ~x.bad /\ Ordered(f \o x.buf)  BY <1>2, <1>3, <1>11
<1> QED  BY <1>2, <1>13, <1>15, <1>16, <1>17 DEF Good, D

\* The beginning of a stream gets to the end of the file.
LEMMA FlushGood ==
    ASSUME NEW f, NEW t, NEW C, NEW e, NEW n \in Nat, Base(f, t, C, e, n),
           NEW o, Good(f, t, C, o), NEW c \in C,
           NEW w \in Seq(PieceSet),
           NEW d, d.buf \in Seq(PieceSet), w \o d.buf = c.buf, ~d.bad
    PROVE  Good(f \o w, t, (C \ {c}) \cup {d}, o)
<1> DEFINE D == (C \ {c}) \cup {d}
<1>1. /\ f \in Seq(PieceSet) /\ c.buf \in Seq(PieceSet)
      /\ \A x \in C : x.buf \in Seq(PieceSet)
      /\ \A x, y \in C : x.id = y.id => x = y
  BY DEF Base, Shapes
<1>2. /\ Ordered(f) /\ (\A x \in C : Ordered(f \o x.buf)) /\ (\A x \in C : ~x.bad)
      /\ Kept(f, t, C) /\ (~o => Alone(f, t, C))
  BY DEF Good
<1>3. (\A x \in D : x = d \/ (x \in C /\ x # c)) /\ d \in D /\ (\A x \in C : x # c => x \in D)
  OBVIOUS
<1> HIDE DEF D
<1> PICK r : r = d.buf  OBVIOUS
<1> PICK b : b = c.buf  OBVIOUS
<1> PICK g : g = f \o w  OBVIOUS
<1>4. g \in Seq(PieceSet) /\ g \o r = f \o b
  <2>1. r \in Seq(PieceSet) /\ w \o r = b  OBVIOUS
  <2>2. f \in Seq(PieceSet) /\ w \in Seq(PieceSet) /\ r \in Seq(PieceSet)  BY <1>1
  <2>3. (f \o w) \o r = f \o (w \o r)  BY ONLY <2>2, CatAgain
  <2>4. f \o w \in Seq(PieceSet)  BY ONLY <2>2, CatIs
  <2> QED  BY <2>1, <2>3, <2>4
<1>5. /\ \A i \in 1..Len(w) : Inside(b, w[i])
      /\ \A i \in 1..Len(r) : Inside(b, r[i])
      /\ \A z : Inside(b, z) => Inside(w, z) \/ Inside(r, z)
  <2>1. b = w \o r /\ r \in Seq(PieceSet)  OBVIOUS
  <2>2. \A z : Inside(w, z) \/ Inside(r, z) => Inside(b, z)
    BY ONLY <2>1, w \in Seq(PieceSet), CatInside
  <2>3. \A i \in 1..Len(b) : Inside(w, b[i]) \/ Inside(r, b[i])
    BY ONLY <2>1, w \in Seq(PieceSet), CatInside
  <2> QED  BY ONLY <2>2, <2>3 DEF Inside
<1>6. /\ \A i \in 1..Len(g) : Inside(f, g[i]) \/ Inside(w, g[i])
      /\ \A z : Inside(f, z) \/ Inside(w, z) => Inside(g, z)
  BY ONLY g = f \o w, <1>1, w \in Seq(PieceSet), CatInside
<1>7. Ordered(g \o r)  BY <1>2, <1>4
<1>8. Ordered(g)  BY <1>4, <1>7, BeginOrdered
<1>9. ASSUME NEW x \in C, x # c PROVE Ordered(g \o x.buf)
  <2>1. Ordered(f \o x.buf) /\ x.buf \in Seq(PieceSet)  BY <1>1, <1>2
  <2>2. /\ \A i \in 1..Len(b) : b[i][1] = c.id
        /\ \A j \in 1..Len(x.buf) : x.buf[j][1] = x.id
    BY <1>9 DEF Base, Numbered
  <2>3. c.id # x.id  BY <1>1, <1>9
  <2>4. \A i \in 1..Len(w), j \in 1..Len(x.buf) : w[i][1] # x.buf[j][1]
    BY <2>2, <2>3, <1>5 DEF Inside
  <2> PICK y : y = x.buf  OBVIOUS
  <2>5. Ordered((f \o w) \o y)
    <3>1. Ordered(f \o w) /\ Ordered(f \o y)  BY <2>1, <1>8
    <3>2. \A i \in 1..Len(w), j \in 1..Len(y) : w[i][1] # y[j][1]  BY <2>4
    <3>3. y \in Seq(PieceSet)  BY <2>1
    <3> QED  BY ONLY <3>1, <3>2, <3>3, <1>1, w \in Seq(PieceSet), OtherOrdered
  <2> QED  BY <2>5
<1>10. \E h : HeadersOf(g, h) /\ \A x \in D : HeadersOf(x.buf, h)
  <2>1. PICK h : HeadersOf(f, h) /\ \A x \in C : HeadersOf(x.buf, h)  BY DEF Good
  <2>2. HeadersOf(b, h)  BY <2>1
  <2>3. HeadersOf(w, h) /\ HeadersOf(r, h)  BY <2>2, <1>5, HeadersFrom
  <2>4. HeadersOf(g, h)  BY <2>1, <2>3, <1>6, HeadersFrom
  <2> QED  BY <2>1, <2>3, <2>4, <1>3
<1>11. Kept(g, t, D)
  <2>1. ASSUME NEW k \in 1..Len(t), NEW p \in 1..Parts, t[k][3] = "text"
        PROVE  Inside(g, Piece(t[k], p)) \/ \E x \in D : Inside(x.buf, Piece(t[k], p))
    <3>1. Inside(f, Piece(t[k], p)) \/ \E x \in C : Inside(x.buf, Piece(t[k], p))
      BY <2>1, <1>2 DEF Kept
    <3>2. Inside(c.buf, Piece(t[k], p)) => Inside(g, Piece(t[k], p)) \/ Inside(d.buf, Piece(t[k], p))
      BY <1>5, <1>6
    <3> QED  BY <3>1, <3>2, <1>3, <1>6
  <2> QED  BY <2>1 DEF Kept
<1>12. ASSUME ~o PROVE Alone(g, t, D)
  <2>1. (\A x, y \in C : x = y) /\ InLines(f \o c.buf, t)  BY <1>2, <1>12 DEF Alone
  <2>2. D = {d}  BY <2>1 DEF D
  <2>3. InLines(g \o d.buf, t)  BY <2>1, <1>4
  <2> QED  BY <2>2, <2>3 DEF Alone
<1>13. \A x \in D : ~x.bad /\ Ordered(g \o x.buf)  BY <1>2, <1>3, <1>7, <1>9
<1> QED  BY <1>8, <1>10, <1>11, <1>12, <1>13 DEF Good, D

\* A capture whose stream is empty is over.
LEMMA DropGood ==
    ASSUME NEW f \in Seq(PieceSet), NEW t, NEW C, NEW o, Good(f, t, C, o),
           NEW c \in C, c.buf = <<>>
    PROVE  Good(f, t, C \ {c}, o)
<1>1. Kept(f, t, C \ {c})
  <2>1. \A z : ~Inside(c.buf, z)  BY DEF Inside
  <2> QED  BY <2>1 DEF Good, Kept
<1>2. ASSUME ~o PROVE Alone(f, t, C \ {c})
  <2>1. (\A x, y \in C : x = y) /\ InLines(f \o c.buf, t)  BY <1>2 DEF Good, Alone
  <2>2. f \o c.buf = f  BY CatAgain
  <2> QED  BY <2>1, <2>2 DEF Alone
<1> QED  BY <1>1, <1>2 DEF Good
----------------------------------------------------------------------------
(* Streams.                                                                *)

\* What becomes of a stream that held buf and is given more.
Outcome(r, buf, bad, more) ==
    /\ r.written \in Seq(PieceSet) /\ r.buf \in Seq(PieceSet)
    /\ \A i \in 1..Len(r.written) : Inside(buf, r.written[i]) \/ Inside(more, r.written[i])
    /\ \A i \in 1..Len(r.buf) : Inside(buf, r.buf[i]) \/ Inside(more, r.buf[i])
    /\ ~r.bad => ~bad /\ r.written \o r.buf = buf \o more

LEMMA InsertedIs ==
    ASSUME NEW buf \in Seq(PieceSet), NEW bad, NEW more \in Seq(PieceSet),
           NEW r \in Inserted(buf, bad, more)
    PROVE  Outcome(r, buf, bad, more)
<1> PICK all : all = buf \o more  OBVIOUS
<1>1. /\ all \in Seq(PieceSet) /\ Len(all) \in Nat /\ Len(buf) \in Nat /\ Len(buf) <= Len(all)
      /\ \A i \in 1..Len(all) : Inside(buf, all[i]) \/ Inside(more, all[i])
  <2>1. all \in Seq(PieceSet) /\ Len(buf) \in Nat /\ Len(more) \in Nat
        /\ Len(all) = Len(buf) + Len(more)
    BY CatIs
  <2>2. \A i \in 1..Len(all) : Inside(buf, all[i]) \/ Inside(more, all[i])  BY CatInside
  <2>3. Len(buf) <= Len(all)  BY ONLY <2>1
  <2> QED  BY <2>1, <2>2, <2>3
<1>2. \A m \in 0..Len(all) :
          /\ SubSeq(all, 1, m) \in Seq(PieceSet) /\ SubSeq(all, m + 1, Len(all)) \in Seq(PieceSet)
          /\ SubSeq(all, 1, m) \o SubSeq(all, m + 1, Len(all)) = all
          /\ \A i \in 1..Len(SubSeq(all, 1, m)) :
                \E j \in 1..Len(all) : SubSeq(all, 1, m)[i] = all[j]
  <2>1. all \in Seq(PieceSet)  BY <1>1
  <2> QED  BY ONLY <2>1, SplitIs
<1>3. \A i \in 1..Len(<<>>) : FALSE  OBVIOUS
<1>4. \A i \in 1..Len(buf) : Inside(buf, buf[i])  BY DEF Inside
<1>5. CASE bad
  <2>1. r = [written |-> <<>>, buf |-> buf, bad |-> TRUE]  BY <1>5 DEF Inserted
  <2>2. r.written = <<>> /\ r.buf = buf /\ r.bad = TRUE  BY <2>1
  <2> QED  BY <2>2, <1>3, <1>4 DEF Outcome
<1>6. CASE ~bad /\ \E m \in {0} \cup (Len(buf)..Len(all)) :
                      r = [written |-> SubSeq(all, 1, m), buf |-> SubSeq(all, m + 1, Len(all)),
                           bad |-> FALSE]
  <2> PICK m \in {0} \cup (Len(buf)..Len(all)) :
          r = [written |-> SubSeq(all, 1, m), buf |-> SubSeq(all, m + 1, Len(all)), bad |-> FALSE]
    BY <1>6
  <2>1. m \in 0..Len(all)  BY <1>1
  <2>2. r.written = SubSeq(all, 1, m) /\ r.buf = SubSeq(all, m + 1, Len(all)) /\ ~r.bad
    OBVIOUS
  <2>3. /\ r.written \in Seq(PieceSet) /\ r.buf \in Seq(PieceSet)
        /\ r.written \o r.buf = all
    BY <2>1, <2>2, <1>2
  <2> PICK a : a = r.written  OBVIOUS
  <2> PICK b : b = r.buf  OBVIOUS
  <2>4. \A z : Inside(a, z) \/ Inside(b, z) => Inside(all, z)
    <3>1. a \in Seq(PieceSet) /\ b \in Seq(PieceSet) /\ all = a \o b  BY <2>3
    <3> QED  BY ONLY <3>1, CatInside
  <2>5. \A z : Inside(all, z) => Inside(buf, z) \/ Inside(more, z)  BY <1>1 DEF Inside
  <2>6. /\ \A i \in 1..Len(a) : Inside(a, a[i])
        /\ \A i \in 1..Len(b) : Inside(b, b[i])
    BY DEF Inside
  <2> QED  BY <2>2, <2>3, <2>4, <2>5, <2>6, <1>6 DEF Outcome
<1>7. CASE \E k \in 0..(Len(all) - 1), m \in Len(buf)..(Len(all) - 1) :
              r = [written |-> SubSeq(all, 1, k), buf |-> SubSeq(all, 1, m), bad |-> TRUE]
  <2> PICK k \in 0..(Len(all) - 1), m \in Len(buf)..(Len(all) - 1) :
          r = [written |-> SubSeq(all, 1, k), buf |-> SubSeq(all, 1, m), bad |-> TRUE]
    BY <1>7
  <2>1. k \in 0..Len(all) /\ m \in 0..Len(all)  BY <1>1
  <2>2. r.written = SubSeq(all, 1, k) /\ r.buf = SubSeq(all, 1, m) /\ r.bad  OBVIOUS
  <2> PICK a : a = SubSeq(all, 1, k)  OBVIOUS
  <2> PICK b : b = SubSeq(all, 1, m)  OBVIOUS
  <2>3. /\ a \in Seq(PieceSet) /\ b \in Seq(PieceSet)
        /\ \A i \in 1..Len(a) : \E j \in 1..Len(all) : a[i] = all[j]
        /\ \A i \in 1..Len(b) : \E j \in 1..Len(all) : b[i] = all[j]
    BY <2>1, <1>2
  <2>4. r.written = a /\ r.buf = b /\ r.bad  BY <2>2
  <2>5. /\ \A i \in 1..Len(a) : Inside(buf, a[i]) \/ Inside(more, a[i])
        /\ \A i \in 1..Len(b) : Inside(buf, b[i]) \/ Inside(more, b[i])
    <3>1. ASSUME NEW i \in 1..Len(a) PROVE Inside(buf, a[i]) \/ Inside(more, a[i])
      BY <3>1, <2>3, <1>1
    <3>2. ASSUME NEW i \in 1..Len(b) PROVE Inside(buf, b[i]) \/ Inside(more, b[i])
      BY <3>2, <2>3, <1>1
    <3> QED  BY <3>1, <3>2
  <2> QED  BY <2>3, <2>4, <2>5 DEF Outcome
<1>8. \/ bad
      \/ ~bad /\ \E m \in {0} \cup (Len(buf)..Len(all)) :
                   r = [written |-> SubSeq(all, 1, m), buf |-> SubSeq(all, m + 1, Len(all)),
                        bad |-> FALSE]
      \/ \E k \in 0..(Len(all) - 1), m \in Len(buf)..(Len(all) - 1) :
            r = [written |-> SubSeq(all, 1, k), buf |-> SubSeq(all, 1, m), bad |-> TRUE]
  <2>1. \/ bad
        \/ \E m \in {0} \cup (Len(buf)..Len(buf \o more)) : ~bad /\ r = Works(buf \o more, m)
        \/ \E k \in 0..(Len(buf \o more) - 1), m \in Len(buf)..(Len(buf \o more) - 1) :
              r = Fails(buf \o more, k, m)
    BY DEF Inserted
  <2>2. \/ bad
        \/ \E m \in {0} \cup (Len(buf)..Len(all)) : ~bad /\ r = Works(all, m)
        \/ \E k \in 0..(Len(all) - 1), m \in Len(buf)..(Len(all) - 1) : r = Fails(all, k, m)
    BY ONLY <2>1, all = buf \o more
  <2> QED  BY ONLY <2>2 DEF Works, Fails
<1> QED  BY <1>5, <1>6, <1>7, <1>8

\* Whether a capture met another one.
Met(v, o, C) == ~v => ~o /\ C = {}

\* What the stream of capture n is given first.
Heading(b, e, n) == b = <<>> \/ (b = Pieces(HeaderOf(n)) /\ ~e)

\* A capture begins, and writes nothing but its header.
LEMMA Beginning ==
    ASSUME AssertionsAssumption, NEW f, NEW t, NEW C, NEW e, NEW o, NEW n \in Nat,
           Base(f, t, C, e, n),
           NEW b, Heading(b, e, n + 1),
           NEW r, Outcome(r, <<>>, FALSE, b),
           NEW c, c.id = n + 1, c.index = 0, c.buf = r.buf, c.bad = r.bad,
           NEW v, Met(v, o, C)
    PROVE  /\ Base(f \o r.written, t, C \cup {c}, TRUE, n + 1) /\ c \notin C
           /\ Good(f, t, C, o) /\ ~r.bad => Good(f \o r.written, t, C \cup {c}, v)
<1> PICK w : w = r.written  OBVIOUS
<1>1. Base(f, t, C, e, n)  OBVIOUS
<1>2. f \in Seq(PieceSet) /\ \A z \in C : z.id \in 1..n  BY <1>1 DEF Base, Shapes
<1>3. HeaderOf(n + 1) \in Line  BY DEF HeaderOf, Line, Kinds
<1>4. b \in Seq(PieceSet) /\ \A z : Inside(b, z) => LineOf(z) = HeaderOf(n + 1)
  <2>1. <<>> \in Seq(PieceSet) /\ \A z : ~Inside(<<>>, z)  BY DEF Inside
  <2>2. /\ Pieces(HeaderOf(n + 1)) \in Seq(PieceSet)
        /\ \A z : Inside(Pieces(HeaderOf(n + 1)), z) => LineOf(z) = HeaderOf(n + 1)
    BY <1>3, PiecesAre DEF Inside
  <2> QED  BY <2>1, <2>2 DEF Heading
<1>5. w \in Seq(PieceSet) /\ r.buf \in Seq(PieceSet)  BY DEF Outcome
<1> PICK g : g = f \o w  OBVIOUS
<1>6. g \in Seq(PieceSet) /\ Among(g, f, <<>>, HeaderOf(n + 1))
  <2>1. g \in Seq(PieceSet) /\ \A i \in 1..Len(g) : Inside(f, g[i]) \/ Inside(w, g[i])
    BY ONLY g = f \o w, <1>2, <1>5, CatInside
  <2>2. \A z : Inside(w, z) => Inside(b, z)
    <3>1. \A i \in 1..Len(w) : Inside(<<>>, w[i]) \/ Inside(b, w[i])  BY DEF Outcome
    <3>2. \A z : Inside(w, z) => \E i \in 1..Len(w) : w[i] = z  BY DEF Inside
    <3>3. \A z : ~Inside(<<>>, z)  BY DEF Inside
    <3> QED  BY <3>1, <3>2, <3>3
  <2> QED  BY <2>1, <2>2, <1>4 DEF Among
<1>7. Among(c.buf, <<>>, <<>>, HeaderOf(n + 1))
  <2>1. \A z : ~Inside(<<>>, z)  BY DEF Inside
  <2> QED  BY <2>1, <1>4 DEF Outcome, Among
<1>8. Base(g, t, C \cup {c}, TRUE, n + 1)  BY <1>1, <1>5, <1>6, <1>7, BeginBase
<1>9. c \notin C  BY <1>2
<1>10. ASSUME Good(f, t, C, o), ~r.bad PROVE Good(g, t, C \cup {c}, v)
  <2>1. Good(f, t, C, o) /\ w \o c.buf = b /\ ~c.bad
    <3>1. <<>> \o b = b  BY <1>4, CatAgain
    <3> QED  BY <3>1, <1>1, <1>10 DEF Outcome
  <2> DEFINE Full(z) == [id |-> n + 1, index |-> 0, buf |-> z, bad |-> FALSE]
  <2>2. \A z : Full(z).id = n + 1 /\ Full(z).index = 0 /\ Full(z).buf = z /\ ~Full(z).bad
    OBVIOUS
  <2> HIDE DEF Full
  <2> PICK m : m = Full(b)  OBVIOUS
  <2>3. m.id = n + 1 /\ m.index = 0 /\ m.buf = b /\ ~m.bad  BY <2>2
  <2>4. Good(f, t, C \cup {m}, v)  BY <1>1, <2>1, <2>3, BeginGood DEF Met, Heading
  <2> PICK M : M = C \cup {m}  OBVIOUS
  <2>5. Base(f, t, M, TRUE, n + 1)
    <3>1. Among(m.buf, <<>>, <<>>, HeaderOf(n + 1))
      <4>1. \A i \in 1..Len(b) : Inside(b, b[i])  BY DEF Inside
      <4> QED  BY <4>1, <2>3, <1>4 DEF Among
    <3>2. Among(f, f, <<>>, HeaderOf(n + 1))  BY DEF Among, Inside
    <3>3. M \subseteq C \cup {m} /\ m.buf \in Seq(PieceSet)  BY <2>3, <1>4
    <3> QED  BY ONLY <3>1, <3>2, <3>3, <2>3, <1>1, <1>2, n \in Nat, BeginBase
  <2>6. M \ {m} = C  BY <2>3, <1>2
  <2>7. Good(f \o w, t, (M \ {m}) \cup {c}, v)
    <3>1. n + 1 \in Nat /\ m \in M /\ c.buf \in Seq(PieceSet) /\ w \o c.buf = m.buf  
      BY <2>1, <2>3, <1>5
    <3>2. Base(f, t, M, TRUE, n + 1) /\ Good(f, t, M, v)  BY <2>4, <2>5
    <3> QED  BY ONLY <3>1, <3>2, <1>5, <2>1, FlushGood
  <2> QED  BY <2>6, <2>7
<1> QED  BY <1>8, <1>9, <1>10

\* The same capture, with another stream.
LEMMA Other ==
    ASSUME NEW f, NEW t, NEW C, NEW n, Shapes(f, t, C, n), NEW c \in C, NEW d, d.id = c.id
    PROVE  ((C \ {c}) \cup {d}) \ {d} = C \ {c}
<1>1. \A x \in C \ {c} : x # d  BY DEF Shapes
<1> QED  BY <1>1

\* A capture has a sample: a text goes to its stream, which may write.
LEMMA NextSample ==
    ASSUME AssertionsAssumption, NEW f, NEW t, NEW C, NEW e, NEW o, NEW n \in Nat,
           Base(f, t, C, e, n), NEW c \in C,
           NEW line \in Line, line[1] = c.id, line[2] = c.index + 1,
           NEW b, NEW u, Says(b, u, t, line),
           NEW r, Outcome(r, c.buf, c.bad, b),
           NEW d, d.id = c.id, d.index = c.index + 1, d.buf = r.buf, d.bad = r.bad
    PROVE  /\ Base(f \o r.written, u, (C \ {c}) \cup {d}, e, n)
           /\ Good(f, t, C, o) /\ ~r.bad => Good(f \o r.written, u, (C \ {c}) \cup {d}, o)
<1> PICK w : w = r.written  OBVIOUS
<1>1. Base(f, t, C, e, n)  OBVIOUS
<1>2. Shapes(f, t, C, n) /\ f \in Seq(PieceSet) /\ c.buf \in Seq(PieceSet) /\ t \in Seq(Line)
  BY <1>1 DEF Base, Shapes
<1>3. b \in Seq(PieceSet) /\ \A z : Inside(b, z) => LineOf(z) = line
  <2>1. <<>> \in Seq(PieceSet) /\ \A z : ~Inside(<<>>, z)  BY DEF Inside
  <2>2. /\ Pieces(line) \in Seq(PieceSet)
        /\ \A z : Inside(Pieces(line), z) => LineOf(z) = line
    BY PiecesAre DEF Inside
  <2> QED  BY <2>1, <2>2 DEF Says
<1>4. (u = t \/ u = Append(t, line)) /\ (line[3] = "bytes" \/ Has(u, line))
  <2>1. Has(Append(t, line), line)
    <3>1. Len(t) + 1 \in 1..Len(Append(t, line)) /\ Append(t, line)[Len(t) + 1] = line
      BY <1>2
    <3> QED  BY <3>1 DEF Has
  <2> QED  BY <2>1 DEF Says
<1>5. w \in Seq(PieceSet) /\ r.buf \in Seq(PieceSet)  BY DEF Outcome
<1> PICK g : g = f \o w  OBVIOUS
<1>6. g \in Seq(PieceSet) /\ Among(g, f, c.buf, line)
  <2>1. g \in Seq(PieceSet) /\ \A i \in 1..Len(g) : Inside(f, g[i]) \/ Inside(w, g[i])
    <3>1. f \in Seq(PieceSet)  BY <1>2
    <3> QED  BY ONLY g = f \o w, <3>1, <1>5, CatInside
  <2>2. \A z : Inside(w, z) => Inside(c.buf, z) \/ Inside(b, z)
    <3>1. \A i \in 1..Len(w) : Inside(c.buf, w[i]) \/ Inside(b, w[i])  BY DEF Outcome
    <3>2. \A z : Inside(w, z) => \E i \in 1..Len(w) : w[i] = z  BY DEF Inside
    <3> QED  BY <3>1, <3>2
  <2> QED  BY <2>1, <2>2, <1>3 DEF Among
<1>7. Among(d.buf, c.buf, c.buf, line)  BY <1>3 DEF Outcome, Among
<1> PICK D : D = (C \ {c}) \cup {d}  OBVIOUS
<1>8. Base(g, u, D, e, n)
  <2>1. D \subseteq (C \ {c}) \cup {d} /\ d.buf \in Seq(PieceSet)  BY <1>5
  <2> QED
    BY ONLY <2>1, <1>1, <1>4, <1>6, <1>7, n \in Nat, c \in C, line \in Line, line[1] = c.id,
            line[2] = c.index + 1, d.id = c.id, d.index = c.index + 1, MoveBase
<1>9. ASSUME Good(f, t, C, o), ~r.bad PROVE Good(g, u, (C \ {c}) \cup {d}, o)
  <2>1. Good(f, t, C, o) /\ w \o d.buf = c.buf \o b /\ ~d.bad  BY <1>1, <1>9 DEF Outcome
  <2> DEFINE Full(z) == [id |-> c.id, index |-> c.index + 1, buf |-> z, bad |-> FALSE]
  <2>2. \A z : /\ Full(z).id = c.id /\ Full(z).index = c.index + 1
               /\ Full(z).buf = z /\ ~Full(z).bad
    OBVIOUS
  <2> HIDE DEF Full
  <2> PICK m : m = Full(c.buf \o b)  OBVIOUS
  <2>3. m.id = c.id /\ m.index = c.index + 1 /\ m.buf = c.buf \o b /\ ~m.bad  BY <2>2
  <2> PICK M : M = (C \ {c}) \cup {m}  OBVIOUS
  <2>4. Good(f, u, M, o)  BY <1>1, <2>1, <2>3, InsertGood
  <2>5. Base(f, u, M, e, n)
    <3>1. m.buf \in Seq(PieceSet) /\ Among(m.buf, c.buf, c.buf, line)
      <4> PICK a : a = c.buf  OBVIOUS
      <4> PICK s : s = m.buf  OBVIOUS
      <4>1. a \in Seq(PieceSet) /\ s = a \o b  BY <2>3, <1>2
      <4>2. s \in Seq(PieceSet) /\ \A i \in 1..Len(s) : Inside(a, s[i]) \/ Inside(b, s[i])
        BY ONLY <4>1, <1>3, CatInside
      <4> QED  BY <4>2, <1>3 DEF Among
    <3>2. f \in Seq(PieceSet) /\ Among(f, f, c.buf, line)  BY <1>2 DEF Among, Inside
    <3>3. M \subseteq (C \ {c}) \cup {m}  OBVIOUS
    <3> QED
      BY ONLY <3>1, <3>2, <3>3, <2>3, <1>1, <1>4, n \in Nat, c \in C, line \in Line,
              line[1] = c.id, line[2] = c.index + 1, MoveBase
  <2>6. M \ {m} = C \ {c}  BY <2>3, <1>2, Other
  <2>7. Good(f \o w, u, (M \ {m}) \cup {d}, o)
    <3>1. m \in M /\ d.buf \in Seq(PieceSet) /\ w \o d.buf = m.buf  BY <2>1, <2>3, <1>5
    <3> QED  BY ONLY <3>1, <2>1, <2>4, <2>5, <1>5, n \in Nat, FlushGood
  <2> QED  BY <2>6, <2>7
<1> QED  BY <1>8, <1>9

\* A stream is closed: it writes all that it holds, or some of it.
LEMMA Closed ==
    ASSUME NEW f, NEW t, NEW C, NEW e, NEW o, NEW n \in Nat,
           Base(f, t, C, e, n), NEW c \in C,
           NEW k \in 0..Len(c.buf)
    PROVE  /\ Base(f \o SubSeq(c.buf, 1, k), t, C \ {c}, e, n)
           /\ Good(f, t, C, o) /\ k = Len(c.buf) => Good(f \o SubSeq(c.buf, 1, k), t, C \ {c}, o)
<1> PICK w : w = SubSeq(c.buf, 1, k)  OBVIOUS
<1>1. Base(f, t, C, e, n)  OBVIOUS
<1>2. /\ Shapes(f, t, C, n) /\ f \in Seq(PieceSet) /\ c.buf \in Seq(PieceSet)
      /\ c.id \in Nat /\ c.index \in Nat
  <2>1. c.id \in 1..n  BY <1>1 DEF Base, Shapes
  <2> QED  BY <2>1, <1>1 DEF Base, Shapes
<1>3. /\ w \in Seq(PieceSet)
      /\ \A i \in 1..Len(w) : \E j \in 1..Len(c.buf) : w[i] = c.buf[j]
      /\ k = Len(c.buf) => w = c.buf
  BY <1>2, SplitIs
<1> PICK g : g = f \o w  OBVIOUS
<1> DEFINE Empty(i) == [id |-> c.id, index |-> i, buf |-> <<>>, bad |-> FALSE]
<1>4. \A i : Empty(i).id = c.id /\ Empty(i).index = i /\ Empty(i).buf = <<>> /\ ~Empty(i).bad
  OBVIOUS
<1> HIDE DEF Empty
<1>5. g \in Seq(PieceSet) /\ Base(g, t, C \ {c}, e, n)
  <2> PICK line : line = <<c.id, c.index + 1, "bytes">>  OBVIOUS
  <2>1. line \in Line /\ line[1] = c.id /\ line[2] = c.index + 1 /\ line[3] = "bytes"
    BY <1>2 DEF Line, Kinds
  <2>2. g \in Seq(PieceSet) /\ Among(g, f, c.buf, line)
    <3>1. f \in Seq(PieceSet)  BY <1>2
    <3>2. g \in Seq(PieceSet) /\ \A i \in 1..Len(g) : Inside(f, g[i]) \/ Inside(w, g[i])
      BY ONLY g = f \o w, <3>1, <1>3, CatInside
    <3>3. \A z : Inside(w, z) => Inside(c.buf, z)  BY <1>3 DEF Inside
    <3> QED  BY <3>2, <3>3 DEF Among
  <2> PICK d : d = Empty(c.index + 1)  OBVIOUS
  <2>3. d.id = c.id /\ d.index = c.index + 1 /\ d.buf = <<>>  BY <1>4
  <2>4. d.buf \in Seq(PieceSet) /\ Among(d.buf, c.buf, c.buf, line)
    <3>1. \A i \in 1..Len(<<>>) : FALSE  OBVIOUS
    <3>2. <<>> \in Seq(PieceSet) /\ Among(<<>>, c.buf, c.buf, line)  BY <3>1 DEF Among
    <3> QED  BY <3>2, <2>3
  <2> PICK D : D = C \ {c}  OBVIOUS
  <2>5. D \subseteq (C \ {c}) \cup {d} /\ (t = t \/ t = Append(t, line))
        /\ (line[3] = "bytes" \/ Has(t, line))
    BY <2>1
  <2>6. Base(g, t, D, e, n)
    BY ONLY <2>1, <2>2, <2>3, <2>4, <2>5, <1>1, n \in Nat, c \in C, MoveBase
  <2> QED  BY <2>2, <2>6
<1>6. ASSUME Good(f, t, C, o), k = Len(c.buf) PROVE Good(g, t, C \ {c}, o)
  <2>1. Good(f, t, C, o) /\ w = c.buf  BY <1>1, <1>3, <1>6
  <2> PICK d : d = Empty(c.index)  OBVIOUS
  <2>2. d.id = c.id /\ d.buf = <<>> /\ ~d.bad  BY <1>4
  <2> PICK D : D = (C \ {c}) \cup {d}  OBVIOUS
  <2>3. Good(f \o w, t, D, o)
    <3>1. d.buf \in Seq(PieceSet) /\ w \o d.buf = c.buf
      <4>1. <<>> \in Seq(PieceSet) /\ w \o <<>> = w  BY <1>3, CatAgain
      <4> QED  BY <4>1, <2>1, <2>2
    <3> QED  BY <3>1, <2>1, <2>2, <1>1, <1>3, FlushGood
  <2>4. Good(g, t, D \ {d}, o)
    <3>1. d \in D /\ Good(g, t, D, o)  BY <2>3
    <3> QED  BY <3>1, <2>2, <1>5, DropGood
  <2>5. D \ {d} = C \ {c}  BY <2>2, <1>2, Other
  <2> QED  BY <2>4, <2>5
<1> QED  BY <1>5, <1>6
----------------------------------------------------------------------------
(* The captures among the functions at work.                               *)

\* As a capture, g is what f is.
Keeps(f, g) ==
    /\ f.fn = "capture" <=> g.fn = "capture"
    /\ f.fn = "capture" => g.id = f.id /\ g.index = f.index /\ g.buf = f.buf /\ g.bad = f.bad

LEMMA HeldIs ==
    ASSUME NEW s, NEW c
    PROVE  c \in CapturesOf(s) <=> \E i \in 1..Len(s) : s[i].fn = "capture" /\ c = Held(s[i])
  BY DEF CapturesOf

LEMMA HeldHas ==
    ASSUME NEW f
    PROVE  Held(f).id = f.id /\ Held(f).index = f.index /\ Held(f).buf = f.buf
           /\ Held(f).bad = f.bad
  BY DEF Held

LEMMA CapturesKept ==
    ASSUME NEW r, NEW s, Len(s) = Len(r), \A i \in 1..Len(r) : Keeps(r[i], s[i]), Apart(r)
    PROVE  CapturesOf(s) = CapturesOf(r) /\ Apart(s)
<1>1. \A i \in 1..Len(r) : r[i].fn = "capture" => s[i].fn = "capture" /\ Held(s[i]) = Held(r[i])
  BY DEF Keeps, Held
<1>2. \A i \in 1..Len(r) : s[i].fn = "capture" => r[i].fn = "capture" /\ s[i].id = r[i].id
  BY DEF Keeps
<1>3. CapturesOf(r) \subseteq CapturesOf(s)  BY <1>1, HeldIs
<1>4. CapturesOf(s) \subseteq CapturesOf(r)  BY <1>1, <1>2, HeldIs
<1>5. Apart(s)  BY <1>2 DEF Apart
<1> QED  BY <1>3, <1>4, <1>5

\* s is r and one more, g.
AndOne(r, s, g, n) ==
    n \in Nat /\ Len(r) = n /\ Len(s) = n + 1 /\ (\A i \in 1..n : s[i] = r[i]) /\ s[n + 1] = g

LEMMA CapturesAndOne ==
    ASSUME NEW n, NEW r, NEW s, NEW g, AndOne(r, s, g, n)
    PROVE  /\ CapturesOf(s) =
                 IF g.fn = "capture" THEN CapturesOf(r) \cup {Held(g)} ELSE CapturesOf(r)
           /\ Apart(s) <=>
                 /\ Apart(r)
                 /\ g.fn = "capture" => \A i \in 1..n : r[i].fn = "capture" => r[i].id # g.id
<1> USE DEF AndOne
<1>1. /\ \A i \in 1..(n + 1) : i \in 1..n \/ i = n + 1
      /\ n + 1 \in 1..(n + 1) /\ \A i \in 1..n : i \in 1..(n + 1) /\ i # n + 1
  OBVIOUS
<1>2. ASSUME NEW c \in CapturesOf(r) PROVE c \in CapturesOf(s)
  <2>1. PICK i \in 1..n : r[i].fn = "capture" /\ c = Held(r[i])  BY HeldIs
  <2>2. i \in 1..(n + 1) /\ s[i].fn = "capture" /\ c = Held(s[i])  BY <2>1, <1>1
  <2> QED  BY <2>2, HeldIs
<1>3. ASSUME g.fn = "capture" PROVE Held(g) \in CapturesOf(s)
  <2>1. n + 1 \in 1..(n + 1) /\ s[n + 1].fn = "capture" /\ Held(g) = Held(s[n + 1])
    BY <1>1, <1>3
  <2> QED  BY <2>1, HeldIs
<1>4. ASSUME NEW c \in CapturesOf(s), c \notin CapturesOf(r)
      PROVE  g.fn = "capture" /\ c = Held(g)
  <2>1. PICK i \in 1..(n + 1) : s[i].fn = "capture" /\ c = Held(s[i])  BY HeldIs
  <2>2. CASE i \in 1..n
    <3>1. r[i].fn = "capture" /\ c = Held(r[i])  BY <2>1, <2>2
    <3> QED  BY <2>2, <3>1, <1>4, HeldIs
  <2>3. CASE i = n + 1  BY <2>1, <2>3
  <2> QED  BY <2>2, <2>3, <1>1
<1>5. CapturesOf(s) =
        IF g.fn = "capture" THEN CapturesOf(r) \cup {Held(g)} ELSE CapturesOf(r)
  BY <1>2, <1>3, <1>4
<1>6. Apart(s) <=>
        /\ Apart(r)
        /\ g.fn = "capture" => \A i \in 1..n : r[i].fn = "capture" => r[i].id # g.id
  BY <1>1 DEF Apart
<1> QED  BY <1>5, <1>6

LEMMA CapturesPushed ==
    ASSUME NEW s, Sequence(s), Apart(s), NEW g,
           g.fn = "capture" => \A i \in 1..Len(s) : s[i].fn = "capture" => s[i].id # g.id
    PROVE  /\ Apart(Append(s, g))
           /\ CapturesOf(Append(s, g)) =
                IF g.fn = "capture" THEN CapturesOf(s) \cup {Held(g)} ELSE CapturesOf(s)
<1>1. /\ Len(s) \in Nat /\ Len(Append(s, g)) = Len(s) + 1
      /\ \A i \in 1..Len(s) : Append(s, g)[i] = s[i]
      /\ Append(s, g)[Len(s) + 1] = g
  BY AppendIs
<1> PICK n : n = Len(s)  OBVIOUS
<1> PICK r : r = Append(s, g)  OBVIOUS
<1>2. AndOne(s, r, g, n)  BY <1>1 DEF AndOne
<1>3. /\ CapturesOf(r) =
            IF g.fn = "capture" THEN CapturesOf(s) \cup {Held(g)} ELSE CapturesOf(s)
      /\ Apart(r) <=>
            /\ Apart(s)
            /\ g.fn = "capture" => \A i \in 1..n : s[i].fn = "capture" => s[i].id # g.id
  BY <1>2, CapturesAndOne
<1> QED  BY <1>3

\* The front r of s, and the last of s, g.
Front(s, r, g) == r = SubSeq(s, 1, Len(s) - 1) /\ g = s[Len(s)]

LEMMA CapturesPopped ==
    ASSUME NEW s, Sequence(s), s # <<>>, Apart(s),
           NEW r, NEW g, Front(s, r, g)
    PROVE  /\ Apart(r) /\ Sequence(r)
           /\ CapturesOf(r) = IF g.fn = "capture" THEN CapturesOf(s) \ {Held(g)} ELSE CapturesOf(s)
           /\ g.fn = "capture" => /\ Held(g) \in CapturesOf(s)
                                  /\ \A i \in 1..Len(r) : r[i].fn = "capture" => r[i].id # g.id
<1>1. /\ Len(s) \in Nat /\ Len(s) > 0 /\ Sequence(r) /\ Len(r) = Len(s) - 1
      /\ \A i \in 1..(Len(s) - 1) : r[i] = s[i]
  BY FrontIs DEF Front
<1> PICK n : n = Len(s) - 1  OBVIOUS
<1>2. AndOne(r, s, g, n)  BY <1>1 DEF AndOne, Front
<1>3. /\ CapturesOf(s) =
            IF g.fn = "capture" THEN CapturesOf(r) \cup {Held(g)} ELSE CapturesOf(r)
      /\ Apart(s) <=>
            /\ Apart(r)
            /\ g.fn = "capture" => \A i \in 1..n : r[i].fn = "capture" => r[i].id # g.id
  <2> QED  BY ONLY <1>2, CapturesAndOne
<1>4. ASSUME g.fn = "capture" PROVE Held(g) \notin CapturesOf(r)
  <2> PICK c : c = Held(g)  OBVIOUS
  <2>1. Len(r) = n  BY <1>2 DEF AndOne
  <2>2. \A i \in 1..n : r[i].fn = "capture" => Held(r[i]).id # c.id
    BY <1>3, <1>4, HeldHas
  <2>3. c \notin CapturesOf(r)
    <3>1. c \in CapturesOf(r) => \E i \in 1..n : r[i].fn = "capture" /\ c = Held(r[i])
      BY ONLY <2>1, HeldIs
    <3> QED  BY <2>2, <3>1
  <2> QED  BY <2>3
<1> QED  BY <1>1, <1>2, <1>3, <1>4 DEF AndOne
----------------------------------------------------------------------------
(* Steps that leave the captures as they are.                              *)

LEMMA CapturesStay ==
    ASSUME Globals, Lines, calls' \in {calls, calls + 1}, UNCHANGED captured,
           Apart(frames'), CapturesOf(frames') = CapturesOf(frames)
    PROVE  Lines'
<1>1. UNCHANGED <<file, told, exists, overlapped, failed>>  BY DEF captured
<1>2. Captures' = Captures  BY DEF Captures
<1>3. Written(file, told, Captures, exists, overlapped, failed, calls')
  <2>1. Written(file, told, Captures, exists, overlapped, failed, calls) /\ calls \in Nat
    BY DEF Lines, Globals
  <2>2. CASE calls' = calls  BY <2>1, <2>2
  <2>3. CASE calls' = calls + 1  BY <2>1, <2>3, MoreCalls
  <2> QED  BY <2>2, <2>3
<1>4. Written(file, told, Captures, exists, overlapped, failed, calls)'  BY <1>1, <1>2, <1>3
<1>5. Apart(frames)'  OBVIOUS
<1> QED  BY <1>4, <1>5 DEF Lines

LEMMA SameCaptures ==
    ASSUME Globals, Lines, calls' \in {calls, calls + 1}, UNCHANGED <<frames, captured>>
    PROVE  Lines'
<1>1. Apart(frames) /\ frames' = frames  BY DEF Lines
<1> QED  BY <1>1, CapturesStay

LEMMA MarkedCaptures ==
    ASSUME Globals, Lines, calls' \in {calls, calls + 1}, UNCHANGED captured,
           Len(frames') = Len(frames), \A i \in 1..Len(frames) : Keeps(frames[i], frames'[i])
    PROVE  Lines'
<1>1. Apart(frames)  BY DEF Lines
<1> QED  BY <1>1, CapturesKept, CapturesStay

LEMMA OtherPushed ==
    ASSUME Globals, Frames, Lines, calls' \in {calls, calls + 1}, UNCHANGED captured,
           NEW s, Sequence(s), Len(s) = Len(frames),
           \A i \in 1..Len(frames) : Keeps(frames[i], s[i]),
           NEW g, g.fn # "capture", frames' = Append(s, g)
    PROVE  Lines'
<1>1. Apart(frames)  BY DEF Lines
<1>2. CapturesOf(s) = CapturesOf(frames) /\ Apart(s)  BY <1>1, CapturesKept
<1>3. CapturesOf(frames') = CapturesOf(s) /\ Apart(frames')  BY <1>2, CapturesPushed
<1> QED  BY <1>2, <1>3, CapturesStay

LEMMA OtherPopped ==
    ASSUME Globals, Frames, Lines, calls' \in {calls, calls + 1}, UNCHANGED captured,
           frames # <<>>, Top.fn # "capture", frames' = Popped
    PROVE  Lines'
<1>1. Sequence(frames) /\ Apart(frames)  BY DEF Frames, Lines
<1>2. CapturesOf(frames') = CapturesOf(frames) /\ Apart(frames')
  <2>1. Front(frames, frames', Top)  BY DEF Top, Popped, Front
  <2> QED  BY <1>1, <2>1, CapturesPopped
<1> QED  BY <1>2, CapturesStay

LEMMA TopKept ==
    ASSUME Globals, Frames, Lines, calls' \in {calls, calls + 1}, UNCHANGED captured,
           frames # <<>>, NEW g, Keeps(Top, g), frames' = Replaced(g)
    PROVE  Lines'
<1> PICK n \in Nat : n = Len(frames)  BY TopIs
<1>1. /\ Sequence(Popped) /\ Len(Popped) = n - 1 /\ n > 0
      /\ \A i \in 1..(n - 1) : Popped[i] = frames[i]
  BY TopIs
<1>2. /\ Len(frames') = (n - 1) + 1 /\ frames'[(n - 1) + 1] = g
      /\ \A i \in 1..(n - 1) : frames'[i] = Popped[i]
  BY <1>1, AppendIs DEF Replaced
<1>3. Len(frames') = n /\ frames'[n] = g /\ \A i \in 1..(n - 1) : frames'[i] = frames[i]
  BY <1>1, <1>2
<1>4. ASSUME NEW i \in 1..n PROVE Keeps(frames[i], frames'[i])
  <2>1. CASE i = n  BY <2>1, <1>3 DEF Top
  <2>2. CASE i \in 1..(n - 1)  BY <2>2, <1>3 DEF Keeps
  <2> QED  BY <2>1, <2>2
<1> QED  BY <1>3, <1>4, MarkedCaptures

\* A comparison that uses globals marks the same ones, which are no captures.
LEMMA EnterLines ==
    ASSUME Globals, Frames, Lines, calls' \in {calls, calls + 1}, UNCHANGED captured,
           NEW f, f.fn # "capture", Enter(f)
    PROVE  Lines'
<1> PICK n \in Nat : n = Len(frames)  BY AppendIs DEF Frames
<1> DEFINE mark(g) == IF g.fn = f.fn THEN [g EXCEPT !.nested = TRUE] ELSE g
           s == [i \in 1..n |-> mark(frames[i])]
<1>1. Sequence(s) /\ Len(s) = n
  <2>1. s = [i \in 1..n |-> s[i]]  OBVIOUS
  <2> HIDE DEF s
  <2> QED  BY <2>1, TupleIs
<1>2. frames' = Append(s, f)  BY DEF Enter
<1>3. \A i \in 1..n : s[i] = mark(frames[i])  OBVIOUS
<1> HIDE DEF s
<1>4. ASSUME NEW i \in 1..n PROVE Keeps(frames[i], s[i])
  <2> PICK g : g = frames[i]  OBVIOUS
  <2>1. Fine(g)  BY DEF Frames
  <2>2. CASE g.fn # f.fn
    <3>1. s[i] = g  BY <2>2, <1>3
    <3> QED  BY <3>1 DEF Keeps
  <2>3. CASE g.fn = f.fn
    <3> PICK h : h = [g EXCEPT !.nested = TRUE]  OBVIOUS
    <3>1. h.fn = g.fn
      BY <2>1, FrameIs DEF Fine, IsFrame, EqualFrame, HasFrame, InFrame, LoopFrame
    <3>2. s[i] = h  BY <2>3, <1>3
    <3>3. Keeps(g, h)  BY <2>3, <3>1 DEF Keeps
    <3> QED  BY <3>2, <3>3
  <2> QED  BY <2>2, <2>3
<1> QED  BY <1>1, <1>2, <1>4, OtherPushed

\* Another function is called.
LEMMA PushedLines ==
    ASSUME Globals, Frames, Lines, calls' \in {calls, calls + 1}, UNCHANGED captured,
           NEW f, f.fn # "capture", frames' = Append(frames, f)
    PROVE  Lines'
<1>1. Sequence(frames) /\ \A i \in 1..Len(frames) : Keeps(frames[i], frames[i])
  BY DEF Frames, Keeps
<1> QED  BY <1>1, OtherPushed

LEMMA CallsLines ==
    ASSUME Globals, Frames, Lines,
           CallEqual \/ CallTableHas \/ CallIn \/ CallThrows \/ CallCaptureFails
    PROVE  Lines'
<1>1. calls' \in {calls, calls + 1} /\ UNCHANGED captured
  BY DEF CallEqual, CallTableHas, CallIn, CallThrows, CallCaptureFails, Calls
<1>2. CASE CallEqual
  <2>1. PICK f : f.fn = "equal" /\ Enter(f)  BY <1>2 DEF CallEqual
  <2> QED  BY <2>1, <1>1, EnterLines
<1>3. CASE CallTableHas
  <2>1. PICK f : f.fn = "table_has" /\ (frames' = Append(frames, f) \/ Enter(f))
    BY <1>3 DEF CallTableHas
  <2> QED  BY <2>1, <1>1, EnterLines, PushedLines
<1>4. CASE CallIn
  <2>1. PICK f : f.fn = "in" /\ Enter(f)  BY <1>4 DEF CallIn
  <2> QED  BY <2>1, <1>1, EnterLines
<1>5. CASE CallThrows
  <2>1. PICK f : f.fn = "throws" /\ frames' = Append(frames, f)  BY <1>5 DEF CallThrows
  <2> QED  BY <2>1, <1>1, PushedLines
<1>6. CASE CallCaptureFails  BY <1>1, <1>6, SameCaptures DEF CallCaptureFails
<1> QED  BY <1>2, <1>3, <1>4, <1>5, <1>6

LEMMA CallPollLines ==
    ASSUME AssertionsAssumption, Globals, Frames, Lines, CallPoll
    PROVE  Lines'
<1>1. calls' \in {calls, calls + 1} /\ UNCHANGED captured
  BY DEF CallPoll, Calls
<1>2. PICK timeout, f :
          /\ timeout \in Timeouts /\ f = Loop("poll", timeout, Sleep)
          /\ frames' = Append(frames, f) \/ UNCHANGED frames
  BY DEF CallPoll
<1>3. f.fn = "poll"  BY <1>2, NewLoopIs
<1> QED  BY <1>1, <1>2, <1>3, PushedLines, SameCaptures

\* A function that is no capture returns.
LEMMA ReturnsLines ==
    ASSUME Globals, Frames, Lines,
           \/ EqualReturns \/ IndexReturns \/ ComparisonRaises \/ ThrowsEnds \/ PollGivesUp
    PROVE  Lines'
<1>1. /\ calls' \in {calls, calls + 1} /\ UNCHANGED captured
      /\ frames # <<>> /\ Top.fn # "capture" /\ frames' = Popped
  BY DEF EqualReturns, IndexReturns, ComparisonRaises, ThrowsEnds, PollGivesUp, Decide, In
<1> QED  BY <1>1, OtherPopped

LEMMA ItemReturnsLines ==
    ASSUME Globals, Frames, Lines, ItemReturns
    PROVE  Lines'
<1>1. /\ calls' \in {calls, calls + 1} /\ UNCHANGED captured
      /\ frames # <<>> /\ Top.fn = "in"
  BY DEF ItemReturns, In
<1>2. PICK found :
          \/ frames' = Popped
          \/ frames' = Replaced([Top EXCEPT !.found = found])
  BY DEF ItemReturns, Decide
<1> PICK g : g = [Top EXCEPT !.found = found]  OBVIOUS
<1>3. Top \in InFrame  BY <1>1, TopIs, FrameIs DEF Fine
<1>4. g.fn = "in"  BY <1>3 DEF InFrame
<1>5. Keeps(Top, g)  BY <1>1, <1>4 DEF Keeps
<1> QED  BY <1>1, <1>2, <1>5, OtherPopped, TopKept

\* A loop goes to sleep, wakes up, or is held up.
LEMMA LoopsLines ==
    ASSUME AssertionsAssumption, Globals, Frames, Lines, Wakes \/ PollReturns \/ PollRaises
    PROVE  Lines'
<1>1. /\ calls' \in {calls, calls + 1} /\ UNCHANGED captured
      /\ frames # <<>> /\ IsLoop(Top)
  BY DEF Wakes, PollReturns, PollRaises, In, Sleeping, IsLoop
<1>2. Top \in LoopFrame(Top)  BY <1>1, TopIs, FrameIs DEF Fine
<1>3. CASE Wakes
  <2> PICK g : g = [Top EXCEPT !.sleeping = FALSE, !.called = clock]  OBVIOUS
  <2>1. Keeps(Top, g)  BY <1>2, WakeIs DEF Keeps
  <2>2. frames' = Replaced(g)  BY <1>3 DEF Wakes
  <2> QED  BY <2>1, <2>2, <1>1, TopKept
<1>4. CASE PollReturns
  <2>1. Top.fn = "poll"  BY <1>4 DEF PollReturns, In
  <2> PICK g : g = Asleep(Top)  OBVIOUS
  <2>2. g.fn = "poll"  BY <2>1, <1>2, AsleepIs
  <2>3. Keeps(Top, g)  BY <2>1, <2>2 DEF Keeps
  <2>4. frames' = Popped \/ frames' = Replaced(g)  BY <1>4 DEF PollReturns
  <2> QED  BY <2>1, <2>3, <2>4, <1>1, OtherPopped, TopKept
<1>5. CASE PollRaises
  <2>1. Top.fn = "poll"  BY <1>5 DEF PollRaises, In
  <2> PICK b : b = (Asleep(Top).strayed \/ since <= clock)  OBVIOUS
  <2> PICK g : g = [Asleep(Top) EXCEPT !.strayed = b]  OBVIOUS
  <2>2. Asleep(Top) \in LoopFrame(Asleep(Top)) /\ Asleep(Top).fn = "poll"
    BY <2>1, <1>2, AsleepIs
  <2>3. g.fn = "poll"  BY <2>2 DEF LoopFrame
  <2>4. Keeps(Top, g)  BY <2>1, <2>3 DEF Keeps
  <2>5. frames' = Replaced(g)  BY <1>5 DEF PollRaises
  <2> QED  BY <2>4, <2>5, <1>1, TopKept
<1> QED  BY <1>3, <1>4, <1>5

LEMMA TickLines ==
    ASSUME Globals, Frames, Lines, Tick
    PROVE  Lines'
<1>1. /\ calls' \in {calls, calls + 1} /\ UNCHANGED captured
      /\ \E n : frames' = Strayed(n)
  BY DEF Tick
<1> PICK m : frames' = Strayed(m)  BY <1>1
<1> PICK n \in Nat : n = Len(frames)  BY AppendIs DEF Frames
<1>2. frames' = [i \in 1..n |-> frames'[i]]
  <2> DEFINE F(i) == IF i <= m /\ IsLoop(frames[i]) THEN [frames[i] EXCEPT !.strayed = TRUE]
                     ELSE frames[i]
  <2>1. frames' = [i \in 1..n |-> F(i)]  BY DEF Strayed
  <2> QED  BY <2>1
<1>3. Len(frames') = n  BY <1>2, TupleIs
<1>4. ASSUME NEW i \in 1..n PROVE Keeps(frames[i], frames'[i])
  <2> PICK f : f = frames[i]  OBVIOUS
  <2>1. Fine(f)  BY DEF Frames
  <2> PICK g : g = [f EXCEPT !.strayed = TRUE]  OBVIOUS
  <2>2. frames'[i] = f \/ (IsLoop(f) /\ frames'[i] = g)  BY DEF Strayed
  <2>3. Keeps(f, f)  BY DEF Keeps
  <2>4. IsLoop(f) => Keeps(f, g)
    <3>1. IsLoop(f) => f \in LoopFrame(f)  BY <2>1, FrameIs DEF Fine
    <3> QED  BY <3>1, StrayedIs DEF Keeps
  <2> QED  BY <2>2, <2>3, <2>4
<1> QED  BY <1>1, <1>3, <1>4, MarkedCaptures
----------------------------------------------------------------------------
(* Steps of the captures.                                                  *)

LEMMA CallCaptureLines ==
    ASSUME AssertionsAssumption, Globals, Frames, Lines, CallCapture
    PROVE  Lines'
<1>1. /\ Apart(frames) /\ calls \in Nat /\ Sequence(frames)
      /\ Base(file, told, Captures, exists, calls)
      /\ ~failed => Good(file, told, Captures, overlapped)
  BY DEF Lines, Written, Globals, Frames
<1>2. calls' = calls + 1 /\ exists' = TRUE /\ told' = told  BY DEF CallCapture, Calls
<1>3. Met(overlapped', overlapped, Captures)
  <2>1. Captures # {} => \E i \in 1..Len(frames) : frames[i].fn = "capture"
    BY HeldIs DEF Captures
  <2>2. overlapped' = (overlapped \/ \E i \in 1..Len(frames) : frames[i].fn = "capture")
    BY DEF CallCapture
  <2> QED  BY <2>1, <2>2 DEF Met
<1>4. PICK seconds, every, b, r :
          /\ seconds \in Timeouts /\ every \in {0, Sleep}
          /\ b = <<>> \/ (b = Pieces(HeaderOf(calls + 1)) /\ ~exists)
          /\ r \in Inserted(<<>>, FALSE, b)
          /\ \/ /\ frames' = Append(frames, Streaming(Loop("capture", seconds, every),
                                                      r.buf, r.bad))
                /\ Write(r)
             \/ WriteAndClose(r) /\ UNCHANGED frames
  BY DEF CallCapture, Capture, Header, Streaming
<1>5. Outcome(r, <<>>, FALSE, b) /\ r.buf \in Seq(PieceSet)
  <2>1. HeaderOf(calls + 1) \in Line  BY <1>1 DEF HeaderOf, Line, Kinds
  <2>2. <<>> \in Seq(PieceSet) /\ b \in Seq(PieceSet)
    <3>1. <<>> \in Seq(PieceSet) /\ Pieces(HeaderOf(calls + 1)) \in Seq(PieceSet)
      BY <2>1, PiecesAre
    <3>2. b = <<>> \/ b = Pieces(HeaderOf(calls + 1))  BY <1>4
    <3> QED  BY ONLY <3>1, <3>2
  <2>3. r \in Inserted(<<>>, FALSE, b)  BY <1>4
  <2>4. Outcome(r, <<>>, FALSE, b)  BY ONLY <2>2, <2>3, InsertedIs
  <2> QED  BY <2>4 DEF Outcome
<1> DEFINE Fresh(z, x) == [id |-> calls + 1, index |-> 0, buf |-> z, bad |-> x]
<1>6. \A z, x : /\ Fresh(z, x).id = calls + 1 /\ Fresh(z, x).index = 0
                /\ Fresh(z, x).buf = z /\ Fresh(z, x).bad = x
  OBVIOUS
<1>7. \A f : f.id = calls + 1 /\ f.index = 0 => Held(f) = Fresh(f.buf, f.bad)
  BY DEF Held
<1> HIDE DEF Fresh
<1> PICK c : c = Fresh(r.buf, r.bad)  OBVIOUS
<1>8. c.id = calls + 1 /\ c.index = 0 /\ c.buf = r.buf /\ c.bad = r.bad  BY <1>6
<1> PICK C : C = Captures \cup {c}  OBVIOUS
<1> PICK f : f = file \o r.written  OBVIOUS
<1>9. /\ Base(f, told, C, TRUE, calls + 1) /\ c \notin Captures
      /\ ~failed /\ ~r.bad => Good(f, told, C, overlapped')
  <2> PICK n \in Nat : n = calls  BY <1>1
  <2>1. /\ Heading(b, exists, n + 1) /\ Base(file, told, Captures, exists, n)
        /\ c.id = n + 1 /\ c.index = 0 /\ c.buf = r.buf /\ c.bad = r.bad
    BY <1>1, <1>4, <1>8 DEF Heading
  <2>2. /\ Base(file \o r.written, told, Captures \cup {c}, TRUE, n + 1)
        /\ c \notin Captures
        /\ Good(file, told, Captures, overlapped) /\ ~r.bad =>
              Good(file \o r.written, told, Captures \cup {c}, overlapped')
    BY ONLY AssertionsAssumption, <2>1, <1>3, <1>5, n \in Nat, Beginning
  <2> QED  BY <2>2, <1>1
<1>10. CASE /\ frames' = Append(frames, Streaming(Loop("capture", seconds, every), r.buf, r.bad))
            /\ Write(r)
  <2> PICK loop : loop = Loop("capture", seconds, every)  OBVIOUS
  <2> PICK g : g = Streaming(loop, r.buf, r.bad)  OBVIOUS
  <2>1. g.fn = "capture" /\ g.id = calls + 1 /\ g.index = 0 /\ g.buf = r.buf /\ g.bad = r.bad
    <3>1. loop \in LoopFrame(loop) /\ loop.fn = "capture" /\ loop.id = calls + 1 /\ loop.index = 0
      BY <1>4, NewLoopIs
    <3> QED  BY <3>1, SampledIs
  <2>2. Held(g) = c  BY <2>1, <1>7
  <2>3. \A i \in 1..Len(frames) : frames[i].fn = "capture" => frames[i].id # g.id
    <3>1. \A i \in 1..Len(frames) : frames[i].fn = "capture" => Held(frames[i]) \in Captures
      BY HeldIs DEF Captures
    <3>2. \A z \in Captures : z.id \in 1..calls  BY <1>1 DEF Base, Shapes
    <3>3. calls + 1 \notin 1..calls  BY <1>1
    <3> QED  BY <3>1, <3>2, <3>3, <2>1, HeldHas
  <2>4. frames' = Append(frames, g)  BY <1>10
  <2>5. Apart(frames') /\ CapturesOf(frames') = CapturesOf(frames) \cup {c}
    BY <2>1, <2>2, <2>3, <2>4, <1>1, CapturesPushed
  <2>6. Captures' = Captures \cup {c}  BY <2>5 DEF Captures
  <2>7. file' = file \o r.written /\ failed' = (failed \/ r.bad)  BY <1>10 DEF Write
  <2>8. Written(f, told, C, TRUE, overlapped', failed', calls + 1)
    BY <2>7, <1>9 DEF Written
  <2>9. Written(file, told, Captures, exists, overlapped, failed, calls)'
    BY <2>6, <2>7, <2>8, <1>2
  <2> QED  BY <2>5, <2>9 DEF Lines
<1>11. CASE WriteAndClose(r) /\ UNCHANGED frames
  <2>1. PICK k \in 0..Len(r.buf) :
            /\ file' = (file \o r.written) \o SubSeq(r.buf, 1, k)
            /\ failed' = (failed \/ r.bad \/ k < Len(r.buf))
    BY <1>11 DEF WriteAndClose
  <2> PICK y : y = (failed \/ r.bad)  OBVIOUS
  <2>2. ~y => Good(f, told, C, overlapped')  BY <1>9
  <2>3. Written(f \o SubSeq(c.buf, 1, k), told, C \ {c}, TRUE, overlapped', failed', calls + 1)
    <3>1. Len(c.buf) \in Nat  BY <1>5, <1>8, CatIs
    <3>2. k \in 0..Len(c.buf) /\ (~(k < Len(c.buf)) => k = Len(c.buf))  BY <3>1, <2>1, <1>8
    <3>3. calls + 1 \in Nat /\ c \in C  BY <1>1
    <3>4. ~failed' => ~y /\ ~(k < Len(c.buf))  BY <2>1, <1>8, Zenon
    <3>5. /\ Base(f \o SubSeq(c.buf, 1, k), told, C \ {c}, TRUE, calls + 1)
          /\ Good(f, told, C, overlapped') /\ k = Len(c.buf) =>
                Good(f \o SubSeq(c.buf, 1, k), told, C \ {c}, overlapped')
      BY ONLY <3>2, <3>3, <1>9, Closed
    <3> QED  BY <2>2, <3>2, <3>4, <3>5 DEF Written
  <2>4. C \ {c} = Captures  BY <1>9
  <2>5. Captures' = Captures  BY <1>11 DEF Captures
  <2>6. Written(file, told, Captures, exists, overlapped, failed, calls)'
    BY <2>1, <2>3, <2>4, <2>5, <1>2, <1>8
  <2>7. Apart(frames')  BY <1>1, <1>11
  <2> QED  BY <2>6, <2>7 DEF Lines
<1> QED  BY <1>4, <1>10, <1>11

\* The capture on top, and the functions under it.
LEMMA TopPopped ==
    ASSUME Sequence(frames), Apart(frames), frames # <<>>, Top.fn = "capture"
    PROVE  /\ Apart(Popped) /\ Sequence(Popped)
           /\ CapturesOf(Popped) = Captures \ {Held(Top)} /\ Held(Top) \in Captures
           /\ \A i \in 1..Len(Popped) : Popped[i].fn = "capture" => Popped[i].id # Top.id
<1> PICK r : r = Popped  OBVIOUS
<1> PICK g : g = Top  OBVIOUS
<1>1. Front(frames, r, g)  BY DEF Popped, Top, Front
<1>2. /\ Apart(r) /\ Sequence(r)
      /\ CapturesOf(r) = IF g.fn = "capture" THEN CapturesOf(frames) \ {Held(g)}
                                            ELSE CapturesOf(frames)
      /\ g.fn = "capture" => /\ Held(g) \in CapturesOf(frames)
                             /\ \A i \in 1..Len(r) : r[i].fn = "capture" => r[i].id # g.id
  BY ONLY <1>1, Sequence(frames), Apart(frames), frames # <<>>, CapturesPopped
<1> QED  BY <1>2 DEF Captures

LEMMA CaptureEndsLines ==
    ASSUME Globals, Frames, Lines, CaptureEnds
    PROVE  Lines'
<1>1. /\ Apart(frames) /\ calls \in Nat /\ Sequence(frames)
      /\ Base(file, told, Captures, exists, calls)
      /\ ~failed => Good(file, told, Captures, overlapped)
  BY DEF Lines, Written, Globals, Frames
<1>2. /\ frames # <<>> /\ Top.fn = "capture" /\ frames' = Popped
      /\ UNCHANGED <<exists, told, overlapped, calls>>
  BY DEF CaptureEnds, In
<1> PICK c : c = Held(Top)  OBVIOUS
<1>3. Apart(frames') /\ Captures' = Captures \ {c} /\ c \in Captures
  <2>1. /\ Apart(Popped) /\ CapturesOf(Popped) = Captures \ {Held(Top)}
        /\ Held(Top) \in Captures
    BY <1>1, <1>2, TopPopped
  <2>2. Captures' = CapturesOf(frames')  BY DEF Captures
  <2> QED  BY <2>1, <2>2, <1>2
<1>4. c.buf = Top.buf  BY HeldHas
<1>5. PICK k \in 0..Len(c.buf) :
          /\ file' = (file \o <<>>) \o SubSeq(c.buf, 1, k)
          /\ failed' = (failed \/ Top.bad \/ k < Len(c.buf))
  BY <1>4 DEF CaptureEnds, WriteAndClose, Unwritten
<1>6. file \in Seq(PieceSet) /\ c.buf \in Seq(PieceSet)  BY <1>1, <1>3 DEF Base, Shapes
<1>7. file \o <<>> = file /\ Len(c.buf) \in Nat  BY <1>6, CatAgain, CatIs
<1>8. Written(file \o SubSeq(c.buf, 1, k), told, Captures \ {c}, exists, overlapped, failed', calls)
  <2>1. ~(k < Len(c.buf)) => k = Len(c.buf)  BY <1>7
  <2>2. ~failed' => ~failed /\ ~(k < Len(c.buf))  BY <1>5, Zenon
  <2>3. /\ Base(file \o SubSeq(c.buf, 1, k), told, Captures \ {c}, exists, calls)
        /\ Good(file, told, Captures, overlapped) /\ k = Len(c.buf) =>
              Good(file \o SubSeq(c.buf, 1, k), told, Captures \ {c}, overlapped)
    BY ONLY <1>1, <1>3, k \in 0..Len(c.buf), Closed
  <2> QED  BY <1>1, <2>1, <2>2, <2>3 DEF Written
<1>9. Written(file, told, Captures, exists, overlapped, failed, calls)'
  BY <1>2, <1>3, <1>5, <1>7, <1>8
<1> QED  BY <1>3, <1>9 DEF Lines

LEMMA CollectReturnsLines ==
    ASSUME AssertionsAssumption, Globals, Frames, Lines, CollectReturns
    PROVE  Lines'
<1>1. /\ Apart(frames) /\ calls \in Nat /\ Sequence(frames)
      /\ Base(file, told, Captures, exists, calls)
      /\ ~failed => Good(file, told, Captures, overlapped)
  BY DEF Lines, Written, Globals, Frames
<1>2. frames # <<>> /\ Top.fn = "capture" /\ UNCHANGED <<exists, overlapped, calls>>
  BY DEF CollectReturns, In
<1> PICK c : c = Held(Top)  OBVIOUS
<1>3. /\ Apart(Popped) /\ Sequence(Popped) /\ CapturesOf(Popped) = Captures \ {c}
      /\ c \in Captures
      /\ \A i \in 1..Len(Popped) : Popped[i].fn = "capture" => Popped[i].id # Top.id
  BY <1>1, <1>2, TopPopped
<1>4. c.id = Top.id /\ c.index = Top.index /\ c.buf = Top.buf /\ c.bad = Top.bad  BY HeldHas
<1>5. PICK kind, line, r :
          /\ kind \in Kinds /\ line = <<Top.id, Top.index + 1, kind>>
          /\ r \in IF kind = "value" THEN {Unwritten(Top)}
                   ELSE Inserted(Top.buf, Top.bad, Pieces(line))
          /\ IF kind = "bytes"
             THEN WriteAndClose(r) /\ frames' = Popped /\ told' = told
             ELSE /\ Write(r) /\ told' = Append(told, line)
                  /\ frames' = Replaced(Sampled(Asleep(Top), r.buf, r.bad))
  BY DEF CollectReturns, Sampled
<1>6. /\ line \in Line /\ line[1] = c.id /\ line[2] = c.index + 1 /\ line[3] = kind
      /\ c.buf \in Seq(PieceSet) /\ file \in Seq(PieceSet)
  <2>1. c.id \in 1..calls /\ c.index \in Nat /\ c.buf \in Seq(PieceSet) /\ file \in Seq(PieceSet)
    BY <1>1, <1>3 DEF Base, Shapes
  <2>2. c.id \in Nat /\ c.index + 1 \in Nat  BY <2>1
  <2>3. line = <<c.id, c.index + 1, kind>> /\ kind \in Kinds  BY <1>4, <1>5
  <2> QED  BY <2>1, <2>2, <2>3 DEF Line
<1> PICK b : b = IF kind = "value" THEN <<>> ELSE Pieces(line)  OBVIOUS
<1>7. Says(b, told', told, line)  BY <1>5, <1>6 DEF Says, Kinds
<1>8. Outcome(r, c.buf, c.bad, b)
  <2>1. CASE kind = "value"
    <3>1. r = [written |-> <<>>, buf |-> c.buf, bad |-> c.bad]
      BY <2>1, <1>4, <1>5 DEF Unwritten
    <3>2. r.written = <<>> /\ r.buf = c.buf /\ r.bad = c.bad /\ b = <<>>  BY <3>1, <2>1
    <3>3. <<>> \in Seq(PieceSet) /\ \A i \in 1..Len(<<>>) : FALSE  OBVIOUS
    <3>4. <<>> \o c.buf = c.buf /\ c.buf \o <<>> = c.buf  BY <1>6, CatAgain
    <3>5. \A i \in 1..Len(c.buf) : Inside(c.buf, c.buf[i])  BY DEF Inside
    <3> QED  BY <3>2, <3>3, <3>4, <3>5, <1>6 DEF Outcome
  <2>2. CASE kind # "value"
    <3>1. r \in Inserted(c.buf, c.bad, b)  BY <2>2, <1>4, <1>5
    <3>2. b \in Seq(PieceSet)  BY <2>2, <1>6, PiecesAre
    <3> PICK a : a = c.buf  OBVIOUS
    <3>3. a \in Seq(PieceSet) /\ r \in Inserted(a, c.bad, b)  BY <3>1, <1>6
    <3>4. Outcome(r, a, c.bad, b)  BY ONLY <3>2, <3>3, InsertedIs
    <3> QED  BY <3>4
  <2> QED  BY <2>1, <2>2
<1>9. ASSUME NEW d, d.id = c.id, d.index = c.index + 1, d.buf = r.buf, d.bad = r.bad
      PROVE  /\ Base(file \o r.written, told', (Captures \ {c}) \cup {d}, exists, calls)
             /\ Good(file, told, Captures, overlapped) /\ ~r.bad =>
                   Good(file \o r.written, told', (Captures \ {c}) \cup {d}, overlapped)
  BY ONLY AssertionsAssumption, <1>1, <1>3, <1>6, <1>7, <1>8, <1>9, NextSample
<1>10. ASSUME kind = "bytes" PROVE Lines'
  <2>1. frames' = Popped /\ told' = told /\ WriteAndClose(r)  BY <1>5, <1>10
  <2>2. PICK k \in 0..Len(r.buf) :
            /\ file' = (file \o r.written) \o SubSeq(r.buf, 1, k)
            /\ failed' = (failed \/ r.bad \/ k < Len(r.buf))
    BY <2>1 DEF WriteAndClose
  <2> DEFINE Fresh(z, x) == [id |-> c.id, index |-> c.index + 1, buf |-> z, bad |-> x]
  <2>3. \A z, x : /\ Fresh(z, x).id = c.id /\ Fresh(z, x).index = c.index + 1
                  /\ Fresh(z, x).buf = z /\ Fresh(z, x).bad = x
    OBVIOUS
  <2> HIDE DEF Fresh
  <2> PICK d : d = Fresh(r.buf, r.bad)  OBVIOUS
  <2>4. d.id = c.id /\ d.index = c.index + 1 /\ d.buf = r.buf /\ d.bad = r.bad  BY <2>3
  <2> PICK y : y = (failed \/ r.bad)  OBVIOUS
  <2> PICK D : D = (Captures \ {c}) \cup {d}  OBVIOUS
  <2> PICK f : f = file \o r.written  OBVIOUS
  <2>5. Base(f, told', D, exists, calls) /\ (~y => Good(f, told', D, overlapped))
    <3>1. /\ Base(file \o r.written, told', (Captures \ {c}) \cup {d}, exists, calls)
          /\ Good(file, told, Captures, overlapped) /\ ~r.bad =>
                Good(file \o r.written, told', (Captures \ {c}) \cup {d}, overlapped)
      BY ONLY <2>4, <1>9
    <3> QED  BY <3>1, <1>1
  <2>6. Written(f \o SubSeq(d.buf, 1, k), told', D \ {d}, exists, overlapped, failed', calls)
    <3>1. r.buf \in Seq(PieceSet)  BY <1>8 DEF Outcome
    <3>2. Len(d.buf) \in Nat  BY <3>1, <2>4, CatIs
    <3>3. k \in 0..Len(d.buf) /\ (~(k < Len(d.buf)) => k = Len(d.buf))  BY <3>2, <2>2, <2>4
    <3>4. d \in D  OBVIOUS
    <3>5. ~failed' => ~y /\ ~(k < Len(d.buf))  BY <2>2, <2>4, Zenon
    <3>6. /\ Base(f \o SubSeq(d.buf, 1, k), told', D \ {d}, exists, calls)
          /\ Good(f, told', D, overlapped) /\ k = Len(d.buf) =>
                Good(f \o SubSeq(d.buf, 1, k), told', D \ {d}, overlapped)
      BY ONLY <3>3, <3>4, <2>5, <1>1, Closed
    <3> QED  BY <2>5, <3>3, <3>5, <3>6 DEF Written
  <2>7. D \ {d} = Captures \ {c}
    <3>1. Shapes(file, told, Captures, calls)  BY <1>1 DEF Base
    <3>2. ((Captures \ {c}) \cup {d}) \ {d} = Captures \ {c}
      BY ONLY <3>1, <2>4, <1>3, Other
    <3> QED  BY <3>2
  <2>8. Captures' = Captures \ {c}
    <3>1. Captures' = CapturesOf(frames')  BY DEF Captures
    <3> QED  BY <3>1, <2>1, <1>3
  <2>9. Written(file, told, Captures, exists, overlapped, failed, calls)'
    BY <2>2, <2>4, <2>6, <2>7, <2>8, <1>2
  <2> QED  BY <1>3, <2>1, <2>9 DEF Lines
<1>11. ASSUME kind # "bytes" PROVE Lines'
  <2> PICK f : f = Asleep(Top)  OBVIOUS
  <2> PICK g : g = Sampled(f, r.buf, r.bad)  OBVIOUS
  <2>1. g.fn = "capture" /\ g.id = c.id /\ g.index = c.index + 1 /\ g.buf = r.buf /\ g.bad = r.bad
    <3>1. Top \in LoopFrame(Top)  BY <1>2, TopIs, FrameIs DEF Fine, IsLoop
    <3>2. f \in LoopFrame(f) /\ f.fn = "capture" /\ f.id = Top.id /\ f.index = Top.index
      BY <3>1, <1>2, AsleepIs
    <3>3. g.fn = f.fn /\ g.id = f.id /\ g.index = f.index + 1 /\ g.buf = r.buf /\ g.bad = r.bad
      BY <3>2, SampledIs
    <3> QED  BY <3>2, <3>3, <1>4
  <2>2. frames' = Append(Popped, g) /\ Write(r)  BY <1>5, <1>11 DEF Replaced
  <2>3. Apart(frames') /\ CapturesOf(frames') = (Captures \ {c}) \cup {Held(g)}
    <3>1. \A i \in 1..Len(Popped) : Popped[i].fn = "capture" => Popped[i].id # g.id
      BY <1>3, <1>4, <2>1
    <3>2. /\ Apart(Append(Popped, g))
          /\ CapturesOf(Append(Popped, g)) = CapturesOf(Popped) \cup {Held(g)}
      BY ONLY <3>1, <2>1, <1>3, CapturesPushed
    <3> QED  BY <3>2, <2>2, <1>3
  <2>4. Captures' = CapturesOf(frames')  BY DEF Captures
  <2> PICK d : d = Held(g)  OBVIOUS
  <2>5. d.id = c.id /\ d.index = c.index + 1 /\ d.buf = r.buf /\ d.bad = r.bad
    BY <2>1, HeldHas
  <2>6. file' = file \o r.written /\ failed' = (failed \/ r.bad)  BY <2>2 DEF Write
  <2>7. Written(file \o r.written, told', (Captures \ {c}) \cup {d}, exists, overlapped, failed',
                calls)
    <3>1. ~failed' => ~failed /\ ~r.bad  BY <2>6
    <3>2. /\ Base(file \o r.written, told', (Captures \ {c}) \cup {d}, exists, calls)
          /\ Good(file, told, Captures, overlapped) /\ ~r.bad =>
                Good(file \o r.written, told', (Captures \ {c}) \cup {d}, overlapped)
      BY ONLY <2>5, <1>9
    <3> QED  BY <1>1, <3>1, <3>2 DEF Written
  <2>8. Written(file, told, Captures, exists, overlapped, failed, calls)'
    BY <2>3, <2>4, <2>6, <2>7, <1>2
  <2> QED  BY <2>3, <2>8 DEF Lines
<1> QED  BY <1>10, <1>11
----------------------------------------------------------------------------
LEMMA InitLines == ASSUME AssertionsAssumption, Init PROVE Lines
<1>1. /\ frames = <<>> /\ file = <<>> /\ told = <<>> /\ calls = 0 /\ overlapped = FALSE
  BY DEF Init
<1>2. \A i \in 1..Len(frames) : FALSE  BY <1>1
<1>3. Apart(frames)  BY <1>2 DEF Apart
<1>4. Captures = {}
  <2>1. \A c \in Captures : FALSE  BY <1>2, HeldIs DEF Captures
  <2> QED  BY <2>1
<1>5. <<>> \in Seq(Line) /\ <<>> \in Seq(PieceSet) /\ \A i \in 1..Len(<<>>) : FALSE  OBVIOUS
<1>6. \A e : Base(<<>>, <<>>, {}, e, 0)
  <2>1. Shapes(<<>>, <<>>, {}, 0) /\ Numbered(<<>>, <<>>, {})  BY <1>5 DEF Shapes, Numbered
  <2>2. Told(<<>>, 0) /\ Owned(<<>>, <<>>, 0)  BY <1>5 DEF Told, Owned
  <2> QED  BY <2>1, <2>2 DEF Base
<1>7. \A o : Good(<<>>, <<>>, {}, o)
  <2>1. Ordered(<<>>) /\ HeadersOf(<<>>, 0) /\ Kept(<<>>, <<>>, {})
    BY <1>5 DEF Ordered, HeadersOf, Kept
  <2>2. Alone(<<>>, <<>>, {})  BY <1>5 DEF Alone, InLines
  <2> QED  BY <2>1, <2>2 DEF Good
<1>8. Written(file, told, Captures, exists, overlapped, failed, calls)
  BY <1>1, <1>4, <1>6, <1>7 DEF Written
<1> QED  BY <1>3, <1>8 DEF Lines

LEMMA NextLines == ASSUME AssertionsAssumption, Inv, Lines, [Next]_vars PROVE Lines'
<1>0. Globals /\ Frames  BY DEF Inv
<1>1. CASE CallEqual \/ CallTableHas \/ CallIn \/ CallThrows \/ CallCaptureFails
  BY <1>0, <1>1, CallsLines
<1>2. CASE CallPoll  BY <1>0, <1>2, CallPollLines
<1>3. CASE CallCapture  BY <1>0, <1>3, CallCaptureLines
<1>4. CASE EqualReturns \/ IndexReturns \/ ComparisonRaises \/ ThrowsEnds \/ PollGivesUp
  BY <1>0, <1>4, ReturnsLines
<1>5. CASE ItemReturns  BY <1>0, <1>5, ItemReturnsLines
<1>6. CASE Wakes \/ PollReturns \/ PollRaises  BY <1>0, <1>6, LoopsLines
<1>7. CASE Tick  BY <1>0, <1>7, TickLines
<1>8. CASE CollectReturns  BY <1>0, <1>8, CollectReturnsLines
<1>9. CASE CaptureEnds  BY <1>0, <1>9, CaptureEndsLines
<1>10. CASE Change \/ Raise \/ Catch
  BY <1>0, <1>10, SameCaptures DEF Change, Raise, Catch
<1>11. CASE UNCHANGED vars
  BY <1>0, <1>11, SameCaptures DEF vars, captured
<1> QED
  BY <1>1, <1>2, <1>3, <1>4, <1>5, <1>6, <1>7, <1>8, <1>9, <1>10, <1>11 DEF Next

\* With no capture at work, all that was written is in the file.
LEMMA LinesWritten == ASSUME Lines PROVE CaptureFile
<1> SUFFICES ASSUME frames = <<>> PROVE CaptureFile  BY DEF CaptureFile
<1>1. Captures = {}
  <2>1. \A i \in 1..Len(frames) : FALSE  OBVIOUS
  <2>2. \A c \in Captures : FALSE  BY <2>1, HeldIs DEF Captures
  <2> QED  BY <2>2
<1>2. /\ Base(file, told, Captures, exists, calls)
      /\ ~failed => Good(file, told, Captures, overlapped)
  BY DEF Lines, Written
<1>3. /\ file \in Seq(PieceSet) /\ told \in Seq(Line)
      /\ DOMAIN file = 1..Len(file) /\ DOMAIN told = 1..Len(told)
  BY <1>2 DEF Base, Shapes
<1>4. /\ \A line : Has(told, line) => line \in Range(told)
      /\ \A piece : Inside(file, piece) => piece \in Range(file)
  BY <1>3 DEF Has, Inside, Range
<1>5. \A i \in 1..Len(file) : \/ LineOf(file[i]) \in Range(told)
                              \/ IsHeader(file[i]) \/ file[i][3] = "bytes"
  BY <1>2, <1>4 DEF Base, Owned
<1>6. ASSUME ~failed
      PROVE  /\ InSequence(file)
             /\ \A k \in 1..Len(told), p \in 1..Parts :
                   told[k][3] = "text" => Piece(told[k], p) \in Range(file)
             /\ ~overlapped => InLines(file, told)
  <2>1. Good(file, told, {}, overlapped)  BY <1>1, <1>2, <1>6
  <2>2. InSequence(file)
    <3>1. Ordered(file) /\ \E h : HeadersOf(file, h)  BY <2>1 DEF Good
    <3> QED  BY <3>1 DEF Ordered, HeadersOf, InSequence
  <2>3. \A k \in 1..Len(told), p \in 1..Parts :
            told[k][3] = "text" => Piece(told[k], p) \in Range(file)
    BY <2>1, <1>4 DEF Good, Kept
  <2>4. ~overlapped => InLines(file, told)  BY <2>1 DEF Good, Alone
  <2> QED  BY <2>2, <2>3, <2>4
<1> QED  BY <1>5, <1>6 DEF CaptureFile

\* Once the captures are over, those that were ended by an error included, the
\* file has nothing but headers, texts that were told in events, and what was
\* written before telling it failed; and unless a write has failed, all that
\* was told is there, each piece once and those of a capture in order, only
\* one capture has a header, and if no capture was made inside another the
\* file consists of whole lines, in the order they were told, the header first.
THEOREM CapturesAreToldOnce ==
    ASSUME AssertionsAssumption PROVE Spec => []CaptureFile
<1>1. Init => Inv /\ Lines  BY InitInv, InitLines
<1>2. (Inv /\ Lines) /\ [Next]_vars => (Inv /\ Lines)'  BY NextInv, NextLines
<1>3. Inv /\ Lines => CaptureFile  BY LinesWritten
<1> QED  BY <1>1, <1>2, <1>3, PTL DEF Spec
=============================================================================
