---------------------------- MODULE HarnessProofs ----------------------------
(***************************************************************************)
(* Proofs about Harness, for every set of plugins, every depth and every   *)
(* number of calls.                                                        *)
(*                                                                         *)
(* Phases: the numbers of the phases grow from one to the next, on the     *)
(* stack of functions as in the events (Ordered), so that the events are   *)
(* nested as the functions are.  A phase under way has no closing event    *)
(* yet and is not lost (Open), and one that has begun is under way, lost   *)
(* or closed (Accounted): so when a phase closes, every phase begun inside *)
(* it has been closed or lost.                                             *)
(*                                                                         *)
(* Plugins: a use that is under way began at an event after which alone    *)
(* its name can have been announced (Began), and the global register names *)
(* a use that is under way, unless a script raised after defining it       *)
(* (Definer).                                                              *)
(***************************************************************************)
EXTENDS Harness, TLAPS

Starts(k) == out[k].event = "harness_phase" /\ out[k].state = "start"
Ends(k)   == out[k].event = "harness_phase" /\ out[k].state \in {"end", "error"}
IsPhase(i) == frames[i].kind = "phase"

Numbered ==
    /\ \A k \in 1..Len(out) : out[k].event = "harness_phase" => out[k].id \in 1..calls
    /\ \A i \in 1..Len(frames) : IsPhase(i) => frames[i].id \in 1..calls
    /\ lost \subseteq 1..calls

Ordered ==
    /\ \A k, l \in 1..Len(out) : k < l /\ Starts(k) /\ Starts(l) => out[k].id < out[l].id
    /\ \A i, j \in 1..Len(frames) :
          i < j /\ IsPhase(i) /\ IsPhase(j) => frames[i].id < frames[j].id

Open ==
    \A i \in 1..Len(frames) : IsPhase(i) =>
        frames[i].id \notin lost /\ \A k \in 1..Len(out) : Ends(k) => out[k].id # frames[i].id

ClosedOnce ==
    \A k \in 1..Len(out) : Ends(k) =>
        /\ out[k].id \notin lost
        /\ \A l \in 1..Len(out) : Ends(l) /\ out[l].id = out[k].id => k = l

Accounted ==
    \A k \in 1..Len(out) : Starts(k) =>
        \/ out[k].id \in lost
        \/ \E i \in 1..Len(frames) : IsPhase(i) /\ frames[i].id = out[k].id
        \/ \E l \in 1..Len(out) : Ends(l) /\ out[l].id = out[k].id

\* What begins between the two events of a phase is over before the second.
Nested ==
    \A o, k, i \in 1..Len(out) :
        Starts(o) /\ Starts(k) /\ Ends(i) /\ out[o].id = out[i].id /\ o < k /\ k < i =>
            \/ out[k].id \in lost
            \/ \E c \in 1..Len(out) : Ends(c) /\ out[c].id = out[k].id /\ c < i

Phases == Numbered /\ Ordered /\ Open /\ ClosedOnce /\ Accounted /\ Nested

Announces(k) == out[k].event = "harness_loaded"

Began ==
    \A i \in 1..Len(frames) : ~IsPhase(i) =>
        /\ frames[i].began <= Len(out)
        /\ \A k \in 1..Len(out) :
              Announces(k) /\ out[k].name = frames[i].name => frames[i].began < k

\* frames[j] is at work for the plugin p.
WorksFor(j, p) == ~IsPhase(j) /\ frames[j].name = p

Definer ==
    ~stale =>
        /\ register # NoPlugin => \E j \in 1..Len(frames) : WorksFor(j, register)
        /\ \A i \in 1..Len(frames) :
              frames[i].kind = "register" /\ frames[i].definer # frames[i].name =>
                  \E j \in 1..(i - 1) : WorksFor(j, frames[i].definer)

Plugins == AnnouncedOnce /\ Began /\ Definer

Inv == TypeOK /\ Phases /\ Plugins
----------------------------------------------------------------------------
(* Frames, events and the sequences they are in.                           *)

LEMMA FrameIs ==
    ASSUME NEW f \in Frame
    PROVE  /\ f.kind \in {"chunk", "register", "phase"}
           /\ f.kind = "phase" => f.id \in Nat
           /\ f.kind # "phase" => f.name \in Plugin /\ f.began \in Nat
           /\ f.kind = "register" => f.definer \in Plugin
<1>1. CASE f \in [kind : {"chunk"}, name : Plugin, began : Nat]  BY <1>1
<1>2. CASE f \in [kind : {"register"}, name : Plugin, began : Nat, definer : Plugin]  BY <1>2
<1>3. CASE f \in [kind : {"phase"}, id : Nat]  BY <1>3
<1> QED  BY <1>1, <1>2, <1>3 DEF Frame

LEMMA EventIs ==
    ASSUME NEW e \in Events
    PROVE  /\ e.event \in {"harness_loaded", "harness_phase"}
           /\ e.event = "harness_phase" => e.id \in Nat /\ e.state \in {"start", "end", "error"}
           /\ e.event = "harness_loaded" => e.name \in Plugin /\ e.began \in Nat
<1>1. CASE e \in [event : {"harness_loaded"}, name : Plugin, began : Nat]  BY <1>1
<1>2. CASE e \in [event : {"harness_phase"}, id : Nat, state : {"start", "end", "error"}]
  BY <1>2
<1> QED  BY <1>1, <1>2 DEF Events

LEMMA AppendIs ==
    ASSUME NEW S, NEW s \in Seq(S), NEW e \in S
    PROVE  /\ Append(s, e) \in Seq(S)
           /\ Len(Append(s, e)) = Len(s) + 1 /\ Len(s) \in Nat
           /\ \A i \in 1..Len(s) : Append(s, e)[i] = s[i]
           /\ Append(s, e)[Len(s) + 1] = e
  OBVIOUS

LEMMA FrontIs ==
    ASSUME NEW S, NEW s \in Seq(S), s # <<>>
    PROVE  /\ Len(s) \in Nat /\ Len(s) > 0 /\ s[Len(s)] \in S
           /\ SubSeq(s, 1, Len(s) - 1) \in Seq(S)
           /\ Len(SubSeq(s, 1, Len(s) - 1)) = Len(s) - 1
           /\ \A i \in 1..(Len(s) - 1) : SubSeq(s, 1, Len(s) - 1)[i] = s[i]
<1>1. Len(s) \in Nat /\ Len(s) > 0  OBVIOUS
<1> DEFINE j == Len(s) - 1
<1>2. j \in 0..Len(s)  BY <1>1
<1>3. \A m \in 0..Len(s) : /\ SubSeq(s, 1, m) \in Seq(S)
                           /\ Len(SubSeq(s, 1, m)) = m
                           /\ \A i \in 1..m : SubSeq(s, 1, m)[i] = s[i]
  OBVIOUS
<1> HIDE DEF j
<1>4. /\ SubSeq(s, 1, j) \in Seq(S) /\ Len(SubSeq(s, 1, j)) = j
      /\ \A i \in 1..j : SubSeq(s, 1, j)[i] = s[i]
  BY <1>2, <1>3
<1> QED  BY <1>1, <1>4 DEF j

\* The function on top, and the stack without it.
LEMMA TopIs ==
    ASSUME TypeOK, frames # <<>>
    PROVE  /\ Len(frames) \in Nat /\ Len(frames) > 0 /\ Len(frames) <= MaxDepth
           /\ Top = frames[Len(frames)] /\ Top \in Frame
           /\ Popped \in Seq(Frame) /\ Len(Popped) = Len(frames) - 1
           /\ \A i \in 1..(Len(frames) - 1) : Popped[i] = frames[i]
  BY FrontIs DEF TypeOK, Top, Popped

LEMMA InitInv == ASSUME HarnessAssumption PROVE Init => Inv
<1> SUFFICES ASSUME Init PROVE Inv  OBVIOUS
<1> USE DEF Init
<1>1. TypeOK
  <2>1. (\A S : <<>> \in Seq(S)) /\ Len(<<>>) = 0  OBVIOUS
  <2>2. calls \in 0..MaxCalls /\ Len(frames) <= MaxDepth
    BY <2>1 DEF HarnessAssumption
  <2>3. frames \in Seq(Frame) /\ out \in Seq(Events)  BY <2>1
  <2> QED  BY <2>2, <2>3 DEF TypeOK
<1>2. Phases
  BY DEF Phases, Numbered, Ordered, Open, ClosedOnce, Accounted, Nested
<1>3. Plugins  BY DEF Plugins, AnnouncedOnce, Began, Definer
<1> QED  BY <1>1, <1>2, <1>3 DEF Inv
----------------------------------------------------------------------------
(* The shape of the state.                                                 *)

LEMMA TypePush ==
    ASSUME TypeOK, NEW f \in Frame, Len(frames) # MaxDepth, MaxDepth \in Nat,
           frames' = Append(frames, f)
    PROVE  frames' \in Seq(Frame) /\ Len(frames') <= MaxDepth
<1>1. frames \in Seq(Frame) /\ Len(frames) <= MaxDepth  BY DEF TypeOK
<1>2. Len(frames) \in Nat /\ Len(frames') = Len(frames) + 1 /\ frames' \in Seq(Frame)
  BY <1>1, AppendIs
<1> QED  BY <1>1, <1>2

LEMMA TypePop ==
    ASSUME TypeOK, frames # <<>>, MaxDepth \in Nat, frames' = Popped
    PROVE  frames' \in Seq(Frame) /\ Len(frames') <= MaxDepth
  BY TopIs

LEMMA TypeStep ==
    ASSUME HarnessAssumption, TypeOK, [Next]_vars
    PROVE  TypeOK'
<1> USE DEF TypeOK
<1>1. /\ MaxDepth \in Nat /\ MaxCalls \in Nat /\ calls \in Nat /\ Len(out) \in Nat
      /\ NoPlugin \notin Plugin
  BY DEF HarnessAssumption
<1>2. ASSUME NEW name \in Plugin \cup Broken, Use(name) PROVE TypeOK'
  <2>1. /\ calls < MaxCalls /\ calls' = calls + 1
        /\ UNCHANGED <<register, loaded, out, lost, stale>>
    BY <1>2 DEF Use
  <2>2. CASE frames' = Append(frames, Chunk(name, Len(out))) /\ UNCHANGED raising
             /\ name \notin Broken /\ Len(frames) # MaxDepth
    <3>1. Chunk(name, Len(out)) \in Frame  BY <2>2, <1>1 DEF Chunk, Frame
    <3>2. frames' \in Seq(Frame) /\ Len(frames') <= MaxDepth
      BY <2>2, <3>1, <1>1, TypePush
    <3> QED  BY <2>1, <2>2, <3>2, <1>1
  <2>3. CASE raising' \in {raising, "text"} /\ UNCHANGED frames
    BY <2>1, <2>3, <1>1 DEF Messages
  <2> QED  BY <1>2, <2>2, <2>3 DEF Use
<1>3. CASE CallPhase
  <2>1. /\ calls < MaxCalls /\ calls' = calls + 1 /\ Len(frames) < MaxDepth
        /\ out' = Append(out, Phase(calls', "start"))
        /\ frames' = Append(frames, PhaseFn(calls'))
        /\ UNCHANGED <<raising, register, loaded, lost, stale>>
    BY <1>3 DEF CallPhase
  <2>2. calls' \in Nat /\ calls' \in 0..MaxCalls  BY <2>1, <1>1
  <2>3. PhaseFn(calls') \in Frame  BY <2>2 DEF PhaseFn, Frame
  <2>4. Phase(calls', "start") \in Events  BY <2>2 DEF Phase, Events
  <2>5. Len(frames) # MaxDepth  BY <2>1, <1>1
  <2>6. frames' \in Seq(Frame) /\ Len(frames') <= MaxDepth
    BY <2>1, <2>3, <2>5, <1>1, TypePush
  <2>7. out' \in Seq(Events)  BY <2>1, <2>4
  <2> QED  BY <2>1, <2>2, <2>6, <2>7
<1>4. CASE Define
  <2>1. frames # <<>> /\ Top.kind = "chunk" /\ register' = Top.name
        /\ UNCHANGED <<frames, raising, loaded, out, calls, lost, stale>>
    BY <1>4 DEF Define, In
  <2>2. Top.name \in Plugin  BY <2>1, TopIs, FrameIs
  <2> QED  BY <2>1, <2>2
<1>5. ASSUME NEW name \in Plugin \cup Broken, Provide(name) PROVE TypeOK'
  BY <1>5 DEF Provide
<1>6. CASE Raise  BY <1>6 DEF Raise
<1>7. CASE Catch  BY <1>7 DEF Catch
<1>8. CASE ChunkReturns
  <2>1. /\ frames # <<>> /\ Top.kind = "chunk" /\ InCode
        /\ UNCHANGED <<register, loaded, out, calls, lost, stale>>
    BY <1>8 DEF ChunkReturns, In
  <2>2. Top \in Frame /\ Top.name \in Plugin /\ Top.began \in Nat  BY <2>1, TopIs, FrameIs
  <2>3. CASE register = NoPlugin
    <3>1. frames' = Popped /\ raising' = "text"  BY <1>8, <2>3 DEF ChunkReturns
    <3>2. frames' \in Seq(Frame) /\ Len(frames') <= MaxDepth  BY <3>1, <2>1, <1>1, TypePop
    <3> QED  BY <2>1, <3>1, <3>2 DEF Messages
  <2>4. CASE register # NoPlugin
    <3>1. frames' = Append(Popped, Register(Top, register)) /\ UNCHANGED raising
      BY <1>8, <2>4 DEF ChunkReturns
    <3>2. Register(Top, register) \in Frame  BY <2>2, <2>4 DEF Register, Frame
    <3>3. Popped \in Seq(Frame) /\ Len(Popped) = Len(frames) - 1  BY <2>1, TopIs
    <3>4. frames' \in Seq(Frame) /\ Len(frames') = Len(Popped) + 1
      BY <3>1, <3>2, <3>3, AppendIs
    <3>5. Len(frames') <= MaxDepth  BY <3>3, <3>4, <2>1, TopIs
    <3> QED  BY <2>1, <3>1, <3>4, <3>5
  <2> QED  BY <2>3, <2>4
<1>9. CASE RegisterReturns
  <2>1. /\ frames # <<>> /\ Top.kind = "register" /\ frames' = Popped /\ register' = NoPlugin
        /\ UNCHANGED <<loaded, calls, lost, stale>>
        /\ \/ out' = Append(out, Loaded(Top)) /\ UNCHANGED raising
           \/ raising' = "text" /\ UNCHANGED out
    BY <1>9 DEF RegisterReturns, In
  <2>2. Top.name \in Plugin /\ Top.began \in Nat  BY <2>1, TopIs, FrameIs
  <2>3. Loaded(Top) \in Events  BY <2>2 DEF Loaded, Events
  <2>4. frames' \in Seq(Frame) /\ Len(frames') <= MaxDepth  BY <2>1, <1>1, TypePop
  <2>5. out' \in Seq(Events) /\ raising' \in {"no"} \cup Messages
    BY <2>1, <2>3 DEF Messages
  <2> QED  BY <2>1, <2>4, <2>5
<1>10. CASE PhaseReturns \/ PhaseRaises
  <2>1. /\ frames # <<>> /\ Top.kind = "phase" /\ frames' = Popped
        /\ UNCHANGED <<register, loaded, calls, stale>>
    BY <1>10 DEF PhaseReturns, PhaseRaises, In
  <2>2. Top.id \in Nat  BY <2>1, TopIs, FrameIs
  <2>3. \A state \in {"end", "error"} : Phase(Top.id, state) \in Events
    BY <2>2 DEF Phase, Events
  <2>4. frames' \in Seq(Frame) /\ Len(frames') <= MaxDepth  BY <2>1, <1>1, TypePop
  <2>5. out' \in Seq(Events) /\ raising' \in {"no"} \cup Messages /\ lost' \subseteq Nat
    <3>1. CASE PhaseReturns
      <4>1. out' = Append(out, Phase(Top.id, "end")) /\ UNCHANGED <<raising, lost>>
        BY <3>1 DEF PhaseReturns
      <4> QED  BY <4>1, <2>3
    <3>2. CASE PhaseRaises
      <4>1. CASE raising' = "text" /\ lost' = lost \cup {Top.id} /\ UNCHANGED out
        BY <4>1, <2>2 DEF Messages
      <4>2. CASE out' = Append(out, Phase(Top.id, "error")) /\ UNCHANGED <<raising, lost>>
        BY <4>2, <2>3
      <4> QED  BY <4>1, <4>2, <3>2 DEF PhaseRaises
    <3> QED  BY <3>1, <3>2, <1>10
  <2> QED  BY <2>1, <2>4, <2>5
<1>11. CASE ChunkRaises
  <2>1. /\ frames # <<>> /\ frames' = Popped /\ stale' = (stale \/ register = Top.name)
        /\ UNCHANGED <<raising, register, loaded, out, calls, lost>>
    BY <1>11 DEF ChunkRaises, In
  <2>2. frames' \in Seq(Frame) /\ Len(frames') <= MaxDepth  BY <2>1, <1>1, TypePop
  <2>3. stale' \in BOOLEAN  BY <2>1
  <2> QED  BY <2>1, <2>2, <2>3
<1>12. CASE RegisterRaises
  <2>1. /\ frames # <<>> /\ frames' = Popped /\ register' = NoPlugin
        /\ UNCHANGED <<raising, loaded, out, calls, lost, stale>>
    BY <1>12 DEF RegisterRaises, In
  <2>2. frames' \in Seq(Frame) /\ Len(frames') <= MaxDepth  BY <2>1, <1>1, TypePop
  <2> QED  BY <2>1, <2>2
<1>13. CASE UNCHANGED vars  BY <1>13 DEF vars
<1> QED  BY <1>2, <1>3, <1>4, <1>5, <1>6, <1>7, <1>8, <1>9, <1>10, <1>11, <1>12, <1>13
         DEF Next, LuaCode
----------------------------------------------------------------------------
(* The phases.                                                             *)

\* A step that writes no phase event and touches no phase's frame.
SamePhases ==
    /\ UNCHANGED lost /\ calls' \in Nat /\ calls <= calls'
    /\ Len(out') \in Nat /\ Len(out) <= Len(out')
    /\ \A k \in 1..Len(out) : out'[k] = out[k]
    /\ \A k \in 1..Len(out') : out'[k].event = "harness_phase" => k \in 1..Len(out)
    /\ \A i \in 1..Len(frames') : IsPhase(i)' => i \in 1..Len(frames) /\ frames'[i] = frames[i]
    /\ \A i \in 1..Len(frames) : IsPhase(i) => i \in 1..Len(frames') /\ frames'[i] = frames[i]

LEMMA SamePhasesStep ==
    ASSUME TypeOK, Phases, SamePhases
    PROVE  Phases'
<1>1. calls \in Nat /\ calls' \in Nat /\ calls <= calls' /\ lost' = lost
      /\ Len(out) \in Nat /\ Len(out') \in Nat /\ Len(out) <= Len(out')
  BY DEF TypeOK, SamePhases
<1>2. \A k \in 1..Len(out) : k \in 1..Len(out') /\ out'[k] = out[k]
  BY <1>1 DEF SamePhases
<1>3. \A k \in 1..Len(out') : out'[k].event = "harness_phase" =>
          k \in 1..Len(out) /\ out[k] = out'[k]
  BY <1>2 DEF SamePhases
<1>4. \A k \in 1..Len(out') : Starts(k)' \/ Ends(k)' => k \in 1..Len(out) /\ out[k] = out'[k]
  BY <1>3 DEF Starts, Ends
<1>5. \A k \in 1..Len(out) : (Starts(k)' <=> Starts(k)) /\ (Ends(k)' <=> Ends(k))
  BY <1>2 DEF Starts, Ends
<1>6. \A i \in 1..Len(frames') : IsPhase(i)' =>
          i \in 1..Len(frames) /\ frames'[i] = frames[i] /\ IsPhase(i)
  BY DEF SamePhases, IsPhase
<1>7. \A i \in 1..Len(frames) : IsPhase(i) =>
          i \in 1..Len(frames') /\ frames'[i] = frames[i] /\ IsPhase(i)'
  BY DEF SamePhases, IsPhase
<1>8. Numbered'
  <2>1. Numbered /\ 1..calls \subseteq 1..calls'  BY <1>1 DEF Phases
  <2> QED  BY <2>1, <1>1, <1>3, <1>6 DEF Numbered
<1>9. Ordered'
  <2>1. Ordered  BY DEF Phases
  <2> QED  BY <2>1, <1>4, <1>5, <1>6 DEF Ordered
<1>10. Open'
  <2>1. Open  BY DEF Phases
  <2> QED  BY <2>1, <1>1, <1>4, <1>5, <1>6 DEF Open
<1>11. ClosedOnce'
  <2>1. ClosedOnce  BY DEF Phases
  <2> QED  BY <2>1, <1>1, <1>4, <1>5 DEF ClosedOnce
<1>12. Accounted'
  <2> SUFFICES ASSUME NEW k \in 1..Len(out'), Starts(k)'
               PROVE  \/ out'[k].id \in lost'
                      \/ \E i \in 1..Len(frames') : IsPhase(i)' /\ frames'[i].id = out'[k].id
                      \/ \E l \in 1..Len(out') : Ends(l)' /\ out'[l].id = out'[k].id
    BY DEF Accounted
  <2>1. k \in 1..Len(out) /\ Starts(k) /\ out'[k] = out[k]  BY <1>4, <1>5
  <2>2. CASE \E i \in 1..Len(frames) : IsPhase(i) /\ frames[i].id = out[k].id
    BY <2>1, <2>2, <1>7
  <2>3. CASE \E l \in 1..Len(out) : Ends(l) /\ out[l].id = out[k].id
    BY <2>1, <2>3, <1>2, <1>5
  <2> QED  BY <2>1, <2>2, <2>3, <1>1 DEF Phases, Accounted
<1>13. Nested'
  <2> SUFFICES ASSUME NEW o \in 1..Len(out'), NEW k \in 1..Len(out'), NEW i \in 1..Len(out'),
                      Starts(o)', Starts(k)', Ends(i)', out'[o].id = out'[i].id, o < k, k < i
               PROVE  \/ out'[k].id \in lost'
                      \/ \E c \in 1..Len(out') : Ends(c)' /\ out'[c].id = out'[k].id /\ c < i
    BY DEF Nested
  <2>1. /\ o \in 1..Len(out) /\ k \in 1..Len(out) /\ i \in 1..Len(out)
        /\ out'[o] = out[o] /\ out'[k] = out[k] /\ out'[i] = out[i]
    BY <1>4
  <2>2. Starts(o) /\ Starts(k) /\ Ends(i)  BY <2>1, <1>5
  <2>3. \/ out[k].id \in lost
        \/ \E c \in 1..Len(out) : Ends(c) /\ out[c].id = out[k].id /\ c < i
    BY <2>1, <2>2 DEF Phases, Nested
  <2> QED  BY <2>1, <2>3, <1>1, <1>2, <1>5
<1> QED  BY <1>8, <1>9, <1>10, <1>11, <1>12, <1>13 DEF Phases

\* A phase begins: its number is above all others.
LEMMA CallPhaseStep ==
    ASSUME TypeOK, Phases, CallPhase
    PROVE  Phases'
<1>0. PICK n \in Nat, m \in Nat : n = Len(out) /\ m = Len(frames)
  BY DEF TypeOK
<1>1. /\ calls' = calls + 1 /\ out' = Append(out, Phase(calls', "start"))
      /\ frames' = Append(frames, PhaseFn(calls')) /\ UNCHANGED lost
      /\ calls \in Nat /\ n \in Nat /\ m \in Nat /\ out \in Seq(Events) /\ frames \in Seq(Frame)
  BY <1>0 DEF CallPhase, TypeOK
<1>2. Phase(calls', "start") \in Events /\ PhaseFn(calls') \in Frame
  BY <1>1 DEF Phase, Events, PhaseFn, Frame
<1>3. /\ Len(out') = n + 1 /\ (\A k \in 1..n : out'[k] = out[k])
      /\ out'[n + 1] = Phase(calls', "start")
  BY <1>0, <1>1, <1>2, AppendIs
<1>4. /\ Len(frames') = m + 1 /\ (\A i \in 1..m : frames'[i] = frames[i])
      /\ frames'[m + 1] = PhaseFn(calls')
  BY <1>0, <1>1, <1>2, AppendIs
<1>5. Starts(n + 1)' /\ ~Ends(n + 1)' /\ out'[n + 1].id = calls + 1
      /\ out'[n + 1].event = "harness_phase"
  BY <1>1, <1>3 DEF Starts, Ends, Phase
<1>6. IsPhase(m + 1)' /\ frames'[m + 1].id = calls + 1
  BY <1>1, <1>4 DEF IsPhase, PhaseFn
<1>7. \A k \in 1..n : k \in 1..(n + 1) /\ (Starts(k)' <=> Starts(k)) /\ (Ends(k)' <=> Ends(k))
  BY <1>1, <1>3 DEF Starts, Ends
<1>8. \A i \in 1..m : i \in 1..(m + 1) /\ (IsPhase(i)' <=> IsPhase(i))
  BY <1>1, <1>4 DEF IsPhase
<1>9. /\ \A k \in 1..n : out[k].event = "harness_phase" => out[k].id \in 1..calls
      /\ \A i \in 1..m : IsPhase(i) => frames[i].id \in 1..calls
      /\ lost \subseteq 1..calls
  BY <1>0 DEF Phases, Numbered
<1>10. \A k \in 1..n : Starts(k) \/ Ends(k) => out[k].id \in 1..calls /\ out[k].id < calls + 1
  BY <1>1, <1>9 DEF Starts, Ends
<1>11. /\ \A k \in 1..(n + 1) : k \in 1..n \/ k = n + 1
       /\ \A i \in 1..(m + 1) : i \in 1..m \/ i = m + 1
       /\ 1..calls \subseteq 1..(calls + 1) /\ calls + 1 \in 1..(calls + 1)
       /\ calls + 1 \notin 1..calls
  BY <1>1
<1>12. \A k \in 1..(n + 1) : Ends(k)' => k \in 1..n /\ Ends(k) /\ out'[k] = out[k]
  BY <1>3, <1>5, <1>7, <1>11
<1>13. Numbered'
  <2>1. \A k \in 1..(n + 1) : out'[k].event = "harness_phase" => out'[k].id \in 1..(calls + 1)
    BY <1>3, <1>5, <1>9, <1>11
  <2>2. \A i \in 1..(m + 1) : IsPhase(i)' => frames'[i].id \in 1..(calls + 1)
    BY <1>4, <1>6, <1>8, <1>9, <1>11
  <2>3. lost' \subseteq 1..(calls + 1)  BY <1>1, <1>9, <1>11
  <2> QED  BY <2>1, <2>2, <2>3, <1>1, <1>3, <1>4 DEF Numbered
<1>14. Ordered'
  <2>1. ASSUME NEW k \in 1..(n + 1), NEW l \in 1..(n + 1), k < l, Starts(k)', Starts(l)'
        PROVE  out'[k].id < out'[l].id
    <3>1. k \in 1..n /\ Starts(k) /\ out'[k] = out[k]  BY <2>1, <1>1, <1>3, <1>7
    <3>2. CASE l = n + 1  BY <3>1, <3>2, <1>5, <1>10
    <3>3. CASE l \in 1..n
      <4>1. Starts(l) /\ out'[l] = out[l]  BY <3>3, <2>1, <1>3, <1>7
      <4> QED  BY <1>0, <2>1, <3>1, <3>3, <4>1 DEF Phases, Ordered
    <3> QED  BY <3>2, <3>3, <1>11
  <2>2. ASSUME NEW i \in 1..(m + 1), NEW j \in 1..(m + 1), i < j, IsPhase(i)', IsPhase(j)'
        PROVE  frames'[i].id < frames'[j].id
    <3>1. i \in 1..m /\ IsPhase(i) /\ frames'[i] = frames[i]  BY <2>2, <1>1, <1>4, <1>8
    <3>2. CASE j = m + 1
      <4>1. frames[i].id \in 1..calls  BY <3>1, <1>9
      <4>2. frames[i].id < calls + 1  BY <4>1, <1>1
      <4> QED  BY <3>1, <3>2, <4>2, <1>6
    <3>3. CASE j \in 1..m
      <4>1. IsPhase(j) /\ frames'[j] = frames[j]  BY <3>3, <2>2, <1>4, <1>8
      <4> QED  BY <1>0, <2>2, <3>1, <3>3, <4>1 DEF Phases, Ordered
    <3> QED  BY <3>2, <3>3, <1>11
  <2> QED  BY <2>1, <2>2, <1>3, <1>4 DEF Ordered
<1>15. Open'
  <2>1. ASSUME NEW i \in 1..(m + 1), IsPhase(i)'
        PROVE  frames'[i].id \notin lost'
               /\ \A k \in 1..(n + 1) : Ends(k)' => out'[k].id # frames'[i].id
    <3>1. CASE i = m + 1  BY <3>1, <1>1, <1>6, <1>9, <1>10, <1>11, <1>12
    <3>2. CASE i \in 1..m
      <4>1. IsPhase(i) /\ frames'[i] = frames[i]  BY <3>2, <2>1, <1>4, <1>8
      <4>2. frames[i].id \notin lost /\ \A k \in 1..n : Ends(k) => out[k].id # frames[i].id
        BY <1>0, <3>2, <4>1 DEF Phases, Open
      <4> QED  BY <4>1, <4>2, <1>1, <1>12
    <3> QED  BY <3>1, <3>2, <1>11
  <2> QED  BY <2>1, <1>3, <1>4 DEF Open
<1>16. ClosedOnce'
  <2>1. \A k \in 1..n : Ends(k) => out[k].id \notin lost
            /\ \A l \in 1..n : Ends(l) /\ out[l].id = out[k].id => k = l
    BY <1>0 DEF Phases, ClosedOnce
  <2>2. \A k \in 1..(n + 1) : Ends(k)' => out'[k].id \notin lost'
            /\ \A l \in 1..(n + 1) : Ends(l)' /\ out'[l].id = out'[k].id => k = l
    BY <2>1, <1>1, <1>12
  <2> QED  BY <2>2, <1>3 DEF ClosedOnce
<1>17. Accounted'
  <2>1. ASSUME NEW k \in 1..(n + 1), Starts(k)'
        PROVE  \/ out'[k].id \in lost'
               \/ \E i \in 1..(m + 1) : IsPhase(i)' /\ frames'[i].id = out'[k].id
               \/ \E l \in 1..(n + 1) : Ends(l)' /\ out'[l].id = out'[k].id
    <3>1. CASE k = n + 1
      <4>1. m + 1 \in 1..(m + 1)  BY <1>1
      <4> QED  BY <3>1, <4>1, <1>5, <1>6
    <3>2. CASE k \in 1..n
      <4>1. Starts(k) /\ out'[k] = out[k]  BY <3>2, <2>1, <1>3, <1>7
      <4>2. \/ out[k].id \in lost
            \/ \E i \in 1..m : IsPhase(i) /\ frames[i].id = out[k].id
            \/ \E l \in 1..n : Ends(l) /\ out[l].id = out[k].id
        BY <1>0, <3>2, <4>1 DEF Phases, Accounted
      <4>3. CASE \E i \in 1..m : IsPhase(i) /\ frames[i].id = out[k].id
        BY <4>1, <4>3, <1>4, <1>8
      <4>4. CASE \E l \in 1..n : Ends(l) /\ out[l].id = out[k].id
        BY <4>1, <4>4, <1>3, <1>7
      <4> QED  BY <4>1, <4>2, <4>3, <4>4, <1>1
    <3> QED  BY <3>1, <3>2, <1>11
  <2> QED  BY <2>1, <1>3, <1>4 DEF Accounted
<1>18. Nested'
  <2>1. ASSUME NEW o \in 1..(n + 1), NEW k \in 1..(n + 1), NEW i \in 1..(n + 1),
               Starts(o)', Starts(k)', Ends(i)', out'[o].id = out'[i].id, o < k, k < i
        PROVE  \/ out'[k].id \in lost'
               \/ \E c \in 1..(n + 1) : Ends(c)' /\ out'[c].id = out'[k].id /\ c < i
    <3>1. i \in 1..n /\ Ends(i) /\ out'[i] = out[i]  BY <2>1, <1>12
    <3>2. o \in 1..n /\ k \in 1..n  BY <2>1, <3>1, <1>1
    <3>3. /\ Starts(o) /\ Starts(k) /\ out'[o] = out[o] /\ out'[k] = out[k]
      BY <2>1, <3>2, <1>3, <1>7
    <3>4. \/ out[k].id \in lost
          \/ \E c \in 1..n : Ends(c) /\ out[c].id = out[k].id /\ c < i
      BY <1>0, <2>1, <3>1, <3>2, <3>3 DEF Phases, Nested
    <3> QED  BY <3>3, <3>4, <1>1, <1>3, <1>7
  <2> QED  BY <2>1, <1>3 DEF Nested
<1> QED  BY <1>13, <1>14, <1>15, <1>16, <1>17, <1>18 DEF Phases

\* A phase ends, with its end event or its error event: the phases that began
\* inside it have larger numbers and are not under way, so they are accounted
\* for.
LEMMA EndPhaseStep ==
    ASSUME TypeOK, Phases, frames # <<>>, Top.kind = "phase", frames' = Popped,
           NEW state \in {"end", "error"}, out' = Append(out, Phase(Top.id, state)),
           UNCHANGED <<lost, calls>>
    PROVE  Phases'
<1>0. PICK n \in Nat, m \in Nat, id \in Nat :
          n = Len(out) /\ m = Len(frames) /\ id = Top.id
  BY TopIs, FrameIs DEF TypeOK
<1>1. /\ m > 0 /\ m \in 1..m /\ Top = frames[m] /\ IsPhase(m) /\ frames[m].id = id
      /\ Len(frames') = m - 1 /\ \A i \in 1..(m - 1) : frames'[i] = frames[i]
  BY <1>0, TopIs DEF IsPhase
<1>2. Phase(id, state) \in Events  BY DEF Phase, Events
<1>3. /\ Len(out') = n + 1 /\ (\A k \in 1..n : out'[k] = out[k])
      /\ out'[n + 1] = Phase(id, state)
  BY <1>0, <1>2, AppendIs DEF TypeOK
<1>4. Ends(n + 1)' /\ ~Starts(n + 1)' /\ out'[n + 1].id = id
      /\ out'[n + 1].event = "harness_phase"
  BY <1>3 DEF Starts, Ends, Phase
<1>5. \A k \in 1..n : k \in 1..(n + 1) /\ (Starts(k)' <=> Starts(k)) /\ (Ends(k)' <=> Ends(k))
  BY <1>3 DEF Starts, Ends
<1>6. \A i \in 1..(m - 1) : i \in 1..m /\ i < m /\ (IsPhase(i)' <=> IsPhase(i))
  BY <1>1 DEF IsPhase
<1>7. \A k \in 1..(n + 1) : k \in 1..n \/ k = n + 1
  OBVIOUS
<1>8. \A k \in 1..(n + 1) : Starts(k)' => k \in 1..n /\ Starts(k) /\ out'[k] = out[k]
  BY <1>3, <1>4, <1>5, <1>7
<1>9. id \in 1..calls /\ id \notin lost /\ \A k \in 1..n : Ends(k) => out[k].id # id
  BY <1>0, <1>1 DEF Phases, Numbered, Open
<1>10. Numbered'
  <2>1. \A k \in 1..(n + 1) : out'[k].event = "harness_phase" => out'[k].id \in 1..calls
    <3>1. \A k \in 1..n : out[k].event = "harness_phase" => out[k].id \in 1..calls
      BY <1>0 DEF Phases, Numbered
    <3> QED  BY <3>1, <1>3, <1>4, <1>7, <1>9
  <2>2. \A i \in 1..(m - 1) : IsPhase(i)' => frames'[i].id \in 1..calls
    <3>1. \A i \in 1..m : IsPhase(i) => frames[i].id \in 1..calls
      BY <1>0 DEF Phases, Numbered
    <3> QED  BY <3>1, <1>1, <1>6
  <2>3. lost \subseteq 1..calls  BY DEF Phases, Numbered
  <2> QED  BY <2>1, <2>2, <2>3, <1>1, <1>3 DEF Numbered
<1>11. Ordered'
  <2>1. ASSUME NEW k \in 1..(n + 1), NEW l \in 1..(n + 1), k < l, Starts(k)', Starts(l)'
        PROVE  out'[k].id < out'[l].id
    <3>1. /\ k \in 1..n /\ Starts(k) /\ out'[k] = out[k]
          /\ l \in 1..n /\ Starts(l) /\ out'[l] = out[l]
      BY <2>1, <1>8
    <3> QED  BY <1>0, <2>1, <3>1 DEF Phases, Ordered
  <2>2. ASSUME NEW i \in 1..(m - 1), NEW j \in 1..(m - 1), i < j, IsPhase(i)', IsPhase(j)'
        PROVE  frames'[i].id < frames'[j].id
    <3>1. /\ i \in 1..m /\ IsPhase(i) /\ frames'[i] = frames[i]
          /\ j \in 1..m /\ IsPhase(j) /\ frames'[j] = frames[j]
      BY <2>2, <1>1, <1>6
    <3> QED  BY <1>0, <2>2, <3>1 DEF Phases, Ordered
  <2> QED  BY <2>1, <2>2, <1>1, <1>3 DEF Ordered
<1>12. Open'
  <2>1. ASSUME NEW i \in 1..(m - 1), IsPhase(i)'
        PROVE  frames'[i].id \notin lost
               /\ \A k \in 1..(n + 1) : Ends(k)' => out'[k].id # frames'[i].id
    <3>1. i \in 1..m /\ i < m /\ IsPhase(i) /\ frames'[i] = frames[i]  BY <2>1, <1>1, <1>6
    <3>2. frames[i].id \notin lost /\ \A k \in 1..n : Ends(k) => out[k].id # frames[i].id
      BY <1>0, <3>1 DEF Phases, Open
    <3>3. frames[i].id < id /\ frames[i].id \in 1..calls
      BY <1>0, <1>1, <3>1 DEF Phases, Ordered, Numbered
    <3>4. frames[i].id # id  BY <3>3, <1>9 DEF TypeOK
    <3> QED  BY <3>1, <3>2, <3>4, <1>3, <1>4, <1>5, <1>7
  <2> QED  BY <2>1, <1>1, <1>3 DEF Open
<1>13. ClosedOnce'
  <2>1. \A k \in 1..n : Ends(k) => out[k].id \notin lost
            /\ \A l \in 1..n : Ends(l) /\ out[l].id = out[k].id => k = l
    BY <1>0 DEF Phases, ClosedOnce
  <2>2. ASSUME NEW k \in 1..(n + 1), Ends(k)'
        PROVE  /\ out'[k].id \notin lost
               /\ \A l \in 1..(n + 1) : Ends(l)' /\ out'[l].id = out'[k].id => k = l
    BY <2>1, <2>2, <1>3, <1>4, <1>5, <1>7, <1>9
  <2> QED  BY <2>2, <1>3 DEF ClosedOnce
<1>14. ASSUME NEW k \in 1..n, Starts(k)
       PROVE  \/ out[k].id \in lost
              \/ out[k].id = id
              \/ \E i \in 1..(m - 1) : IsPhase(i) /\ frames[i].id = out[k].id
              \/ \E l \in 1..n : Ends(l) /\ out[l].id = out[k].id
  <2>1. \/ out[k].id \in lost
        \/ \E i \in 1..m : IsPhase(i) /\ frames[i].id = out[k].id
        \/ \E l \in 1..n : Ends(l) /\ out[l].id = out[k].id
    BY <1>0, <1>14 DEF Phases, Accounted
  <2>2. \A i \in 1..m : i \in 1..(m - 1) \/ i = m  BY <1>1
  <2> QED  BY <2>1, <2>2, <1>1
<1>15. Accounted'
  <2>1. ASSUME NEW k \in 1..(n + 1), Starts(k)'
        PROVE  \/ out'[k].id \in lost
               \/ \E i \in 1..(m - 1) : IsPhase(i)' /\ frames'[i].id = out'[k].id
               \/ \E l \in 1..(n + 1) : Ends(l)' /\ out'[l].id = out'[k].id
    <3>1. k \in 1..n /\ Starts(k) /\ out'[k] = out[k]  BY <2>1, <1>8
    <3>2. CASE out[k].id = id
      <4>1. n + 1 \in 1..(n + 1)  OBVIOUS
      <4> QED  BY <3>1, <3>2, <4>1, <1>4
    <3>3. CASE \E i \in 1..(m - 1) : IsPhase(i) /\ frames[i].id = out[k].id
      BY <3>1, <3>3, <1>1, <1>6
    <3>4. CASE \E l \in 1..n : Ends(l) /\ out[l].id = out[k].id
      BY <3>1, <3>4, <1>3, <1>5
    <3> QED  BY <3>1, <3>2, <3>3, <3>4, <1>14
  <2> QED  BY <2>1, <1>1, <1>3 DEF Accounted
<1>16. Nested'
  <2>1. ASSUME NEW o \in 1..(n + 1), NEW k \in 1..(n + 1), NEW i \in 1..(n + 1),
               Starts(o)', Starts(k)', Ends(i)', out'[o].id = out'[i].id, o < k, k < i
        PROVE  \/ out'[k].id \in lost
               \/ \E c \in 1..(n + 1) : Ends(c)' /\ out'[c].id = out'[k].id /\ c < i
    <3>1. /\ o \in 1..n /\ Starts(o) /\ out'[o] = out[o]
          /\ k \in 1..n /\ Starts(k) /\ out'[k] = out[k]
      BY <2>1, <1>8
    <3>2. CASE i \in 1..n
      <4>1. Ends(i) /\ out'[i] = out[i]  BY <2>1, <3>2, <1>3, <1>5
      <4>2. \/ out[k].id \in lost
            \/ \E c \in 1..n : Ends(c) /\ out[c].id = out[k].id /\ c < i
        BY <1>0, <2>1, <3>1, <3>2, <4>1 DEF Phases, Nested
      <4> QED  BY <3>1, <4>2, <1>3, <1>5
    <3>3. CASE i = n + 1
      <4>1. out[o].id = id  BY <2>1, <3>1, <3>3, <1>4
      <4>2. id < out[k].id  BY <1>0, <2>1, <3>1, <4>1 DEF Phases, Ordered
      <4>3. out[k].id \in 1..calls
        BY <1>0, <3>1 DEF Phases, Numbered, Starts
      <4>4. calls \in Nat  BY DEF TypeOK
      <4>5. out[k].id # id  BY <4>2, <4>3, <4>4
      <4>6. ~ \E j \in 1..(m - 1) : IsPhase(j) /\ frames[j].id = out[k].id
        <5> SUFFICES ASSUME NEW j \in 1..(m - 1), IsPhase(j), frames[j].id = out[k].id
                     PROVE  FALSE
          OBVIOUS
        <5>1. j \in 1..m /\ j < m  BY <1>6
        <5>2. frames[j].id < id  BY <1>0, <1>1, <5>1 DEF Phases, Ordered
        <5> QED  BY <5>2, <4>2, <4>3, <4>4
      <4>7. \/ out[k].id \in lost
            \/ \E l \in 1..n : Ends(l) /\ out[l].id = out[k].id
        BY <3>1, <4>5, <4>6, <1>14
      <4>8. \A l \in 1..n : l < i  BY <3>3
      <4> QED  BY <3>1, <4>7, <4>8, <1>3, <1>5
    <3> QED  BY <3>2, <3>3, <1>7
  <2>2. 1..Len(out') = 1..(n + 1)  BY <1>3
  <2>3. ASSUME NEW o \in 1..Len(out'), NEW k \in 1..Len(out'), NEW i \in 1..Len(out'),
               Starts(o)', Starts(k)', Ends(i)', out'[o].id = out'[i].id, o < k, k < i
        PROVE  \/ out'[k].id \in lost'
               \/ \E c \in 1..Len(out') : Ends(c)' /\ out'[c].id = out'[k].id /\ c < i
    <3>1. o \in 1..(n + 1) /\ k \in 1..(n + 1) /\ i \in 1..(n + 1)  BY <2>2
    <3> QED  BY <3>1, <2>1, <2>2, <2>3
  <2> QED  BY SMTT(30), <2>3 DEF Nested
<1> QED  BY <1>10, <1>11, <1>12, <1>13, <1>15, <1>16 DEF Phases

\* The error event of a phase could not be written.
LEMMA LosePhaseStep ==
    ASSUME TypeOK, Phases, frames # <<>>, Top.kind = "phase", frames' = Popped,
           lost' = lost \cup {Top.id}, UNCHANGED <<out, calls>>
    PROVE  Phases'
<1>0. PICK n \in Nat, m \in Nat, id \in Nat :
          n = Len(out) /\ m = Len(frames) /\ id = Top.id
  BY SMTT(30), TopIs, FrameIs DEF TypeOK
<1>1. /\ m > 0 /\ m \in 1..m /\ Top = frames[m] /\ IsPhase(m) /\ frames[m].id = id
      /\ Len(frames') = m - 1 /\ \A i \in 1..(m - 1) : frames'[i] = frames[i]
  BY <1>0, TopIs DEF IsPhase
<1>2. lost' = lost \cup {id} /\ out' = out /\ calls' = calls  BY <1>0
<1>3. \A k : (Starts(k)' <=> Starts(k)) /\ (Ends(k)' <=> Ends(k))
  BY <1>2 DEF Starts, Ends
<1>4. \A i \in 1..(m - 1) : i \in 1..m /\ i < m /\ (IsPhase(i)' <=> IsPhase(i))
  BY <1>1 DEF IsPhase
<1>5. id \in 1..calls /\ \A k \in 1..n : Ends(k) => out[k].id # id
  BY <1>0, <1>1 DEF Phases, Numbered, Open
<1>6. Numbered'
  <2>1. \A i \in 1..m : IsPhase(i) => frames[i].id \in 1..calls
    BY <1>0 DEF Phases, Numbered
  <2>2. \A i \in 1..(m - 1) : IsPhase(i)' => frames'[i].id \in 1..calls
    BY <2>1, <1>1, <1>4
  <2>3. lost' \subseteq 1..calls  BY <1>2, <1>5 DEF Phases, Numbered
  <2>4. \A k \in 1..n : out[k].event = "harness_phase" => out[k].id \in 1..calls
    BY <1>0 DEF Phases, Numbered
  <2> QED  BY <2>2, <2>3, <2>4, <1>0, <1>1, <1>2 DEF Numbered
<1>7. Ordered'
  <2>1. ASSUME NEW i \in 1..(m - 1), NEW j \in 1..(m - 1), i < j, IsPhase(i)', IsPhase(j)'
        PROVE  frames'[i].id < frames'[j].id
    <3>1. /\ i \in 1..m /\ IsPhase(i) /\ frames'[i] = frames[i]
          /\ j \in 1..m /\ IsPhase(j) /\ frames'[j] = frames[j]
      BY <2>1, <1>1, <1>4
    <3> QED  BY <1>0, <2>1, <3>1 DEF Phases, Ordered
  <2>2. \A k, l \in 1..n : k < l /\ Starts(k) /\ Starts(l) => out[k].id < out[l].id
    BY <1>0 DEF Phases, Ordered
  <2> QED  BY <2>1, <2>2, <1>0, <1>1, <1>2, <1>3 DEF Ordered
<1>8. Open'
  <2>1. ASSUME NEW i \in 1..(m - 1), IsPhase(i)'
        PROVE  frames'[i].id \notin lost'
               /\ \A k \in 1..n : Ends(k) => out[k].id # frames'[i].id
    <3>1. i \in 1..m /\ i < m /\ IsPhase(i) /\ frames'[i] = frames[i]  BY <2>1, <1>1, <1>4
    <3>2. frames[i].id \notin lost /\ \A k \in 1..n : Ends(k) => out[k].id # frames[i].id
      BY <1>0, <3>1 DEF Phases, Open
    <3>3. frames[i].id < id /\ frames[i].id \in 1..calls
      BY <1>0, <1>1, <3>1 DEF Phases, Ordered, Numbered
    <3>4. frames[i].id # id  BY <3>3, <1>5 DEF TypeOK
    <3> QED  BY <3>1, <3>2, <3>4, <1>2
  <2> QED  BY <2>1, <1>0, <1>1, <1>2, <1>3 DEF Open
<1>9. ClosedOnce'
  <2>1. \A k \in 1..n : Ends(k) => out[k].id \notin lost
            /\ \A l \in 1..n : Ends(l) /\ out[l].id = out[k].id => k = l
    BY <1>0 DEF Phases, ClosedOnce
  <2>2. \A k \in 1..n : Ends(k) => out[k].id \notin lost'  BY <2>1, <1>2, <1>5
  <2> QED  BY <2>1, <2>2, <1>0, <1>2, <1>3 DEF ClosedOnce
<1>10. Accounted'
  <2>1. ASSUME NEW k \in 1..n, Starts(k)
        PROVE  \/ out[k].id \in lost'
               \/ \E i \in 1..(m - 1) : IsPhase(i)' /\ frames'[i].id = out[k].id
               \/ \E l \in 1..n : Ends(l) /\ out[l].id = out[k].id
    <3>1. \/ out[k].id \in lost
          \/ \E i \in 1..m : IsPhase(i) /\ frames[i].id = out[k].id
          \/ \E l \in 1..n : Ends(l) /\ out[l].id = out[k].id
      BY <1>0, <2>1 DEF Phases, Accounted
    <3>2. CASE \E i \in 1..m : IsPhase(i) /\ frames[i].id = out[k].id
      <4>1. PICK i \in 1..m : IsPhase(i) /\ frames[i].id = out[k].id  BY <3>2
      <4>2. CASE i = m  BY <4>1, <4>2, <1>1, <1>2
      <4>3. CASE i \in 1..(m - 1)  BY <4>1, <4>3, <1>1, <1>4
      <4>4. i = m \/ i \in 1..(m - 1)  BY <1>1
      <4> QED  BY <4>2, <4>3, <4>4
    <3> QED  BY <3>1, <3>2, <1>2
  <2> QED  BY <2>1, <1>0, <1>1, <1>2, <1>3 DEF Accounted
<1>11. Nested'
  <2>1. \A o, k, i \in 1..n :
            Starts(o) /\ Starts(k) /\ Ends(i) /\ out[o].id = out[i].id /\ o < k /\ k < i =>
                \/ out[k].id \in lost
                \/ \E c \in 1..n : Ends(c) /\ out[c].id = out[k].id /\ c < i
    BY <1>0 DEF Phases, Nested
  <2> QED  BY <2>1, <1>0, <1>2, <1>3 DEF Nested
<1> QED  BY <1>6, <1>7, <1>8, <1>9, <1>10, <1>11 DEF Phases
----------------------------------------------------------------------------
(* The plugins.                                                            *)

OutKept ==
    /\ Len(out) \in Nat /\ Len(out') \in Nat /\ Len(out) <= Len(out')
    /\ \A k \in 1..Len(out) : out'[k] = out[k]

\* Nothing is announced: what was announced stays true, as nothing is unloaded.
LEMMA NotAnnounced ==
    ASSUME AnnouncedOnce, loaded \subseteq loaded', OutKept,
           \A k \in 1..Len(out') : out'[k].event = "harness_loaded" => k \in 1..Len(out)
    PROVE  AnnouncedOnce'
<1> SUFFICES ASSUME NEW j \in 1..Len(out'), out'[j].event = "harness_loaded"
             PROVE  /\ out'[j].name \in loaded'
                    /\ \A i \in 1..(j - 1) :
                          out'[i].event = "harness_loaded" /\ out'[i].name = out'[j].name
                              => out'[j].began < i
  BY DEF AnnouncedOnce
<1>1. j \in 1..Len(out) /\ out'[j] = out[j]  BY DEF OutKept
<1>2. \A i \in 1..(j - 1) : i \in 1..Len(out) /\ out'[i] = out[i]  BY <1>1 DEF OutKept
<1> QED  BY <1>1, <1>2 DEF AnnouncedOnce

\* frames'[i] is at work for the same use as frames[j].
SameUse(i, j) ==
    ~IsPhase(j) /\ frames[j].name = frames'[i].name /\ frames[j].began = frames'[i].began

\* The uses that are under way were before, and what is announced now comes
\* after all of them.
LEMMA BeganStep ==
    ASSUME TypeOK, TypeOK', Began, OutKept,
           \A i \in 1..Len(frames') : ~IsPhase(i)' => \E j \in 1..Len(frames) : SameUse(i, j)
    PROVE  Began'
<1> SUFFICES ASSUME NEW i \in 1..Len(frames'), ~IsPhase(i)'
             PROVE  /\ frames'[i].began <= Len(out')
                    /\ \A k \in 1..Len(out') :
                          Announces(k)' /\ out'[k].name = frames'[i].name => frames'[i].began < k
  BY DEF Began
<1>1. PICK j \in 1..Len(frames) : SameUse(i, j)  OBVIOUS
<1>2. /\ frames[j].began <= Len(out)
      /\ \A k \in 1..Len(out) :
            Announces(k) /\ out[k].name = frames[j].name => frames[j].began < k
  BY <1>1 DEF Began, SameUse
<1>3. frames[j].began \in Nat
  <2>1. frames[j] \in Frame /\ frames[j].kind # "phase"  BY <1>1 DEF TypeOK, SameUse, IsPhase
  <2> QED  BY <2>1, FrameIs
<1>4. ASSUME NEW k \in 1..Len(out'), Announces(k)', out'[k].name = frames[j].name
      PROVE  frames[j].began < k
  <2>1. CASE k \in 1..Len(out)
    <3>1. Announces(k) /\ out[k].name = frames[j].name
      BY <2>1, <1>4 DEF Announces, OutKept
    <3> QED  BY <2>1, <3>1, <1>2
  <2>2. CASE k \notin 1..Len(out)
    <3>1. Len(out) < k  BY <2>2 DEF OutKept
    <3> QED  BY <3>1, <1>2, <1>3 DEF OutKept
  <2> QED  BY <2>1, <2>2
<1>5. frames'[i].began = frames[j].began /\ frames'[i].name = frames[j].name
  BY <1>1 DEF SameUse
<1>6. frames[j].began <= Len(out')  BY <1>2, <1>3 DEF OutKept
<1> QED  BY <1>4, <1>5, <1>6

\* The frames up to n are as they were, and so are the definers they have.
LEMMA DefinersBelow ==
    ASSUME ~stale, Definer, NEW n \in Nat, n <= Len(frames),
           Len(frames) \in Nat, \A i \in 1..n : frames'[i] = frames[i]
    PROVE  \A i \in 1..n :
              frames'[i].kind = "register" /\ frames'[i].definer # frames'[i].name =>
                  \E j \in 1..(i - 1) : WorksFor(j, frames[i].definer)'
<1> SUFFICES ASSUME NEW i \in 1..n,
                    frames'[i].kind = "register", frames'[i].definer # frames'[i].name
             PROVE  \E j \in 1..(i - 1) : WorksFor(j, frames[i].definer)'
  OBVIOUS
<1>1. i \in 1..Len(frames) /\ frames'[i] = frames[i]  OBVIOUS
<1>2. PICK j \in 1..(i - 1) : WorksFor(j, frames[i].definer)  BY <1>1 DEF Definer
<1>3. frames'[j] = frames[j]  OBVIOUS
<1> QED  BY <1>1, <1>2, <1>3 DEF WorksFor, IsPhase

\* A use begins, or there is nothing to do, or it is refused.
LEMMA UseStep ==
    ASSUME TypeOK, TypeOK', Plugins, NEW name \in Plugin \cup Broken, Use(name)
    PROVE  Plugins' /\ SamePhases
<1>0. PICK n \in Nat, m \in Nat : n = Len(out) /\ m = Len(frames)
  BY DEF TypeOK
<1>1. UNCHANGED <<register, loaded, out, lost, stale>> /\ calls' = calls + 1 /\ calls \in Nat
  BY DEF Use, TypeOK
<1>2. OutKept  BY <1>0, <1>1 DEF OutKept
<1>3. AnnouncedOnce'  BY <1>1, <1>2, NotAnnounced DEF Plugins
<1>4. CASE UNCHANGED frames
  <2>1. Began' /\ Definer'
    BY <1>1, <1>4 DEF Plugins, Began, Definer, IsPhase, Announces, WorksFor
  <2>2. SamePhases  BY <1>0, <1>1, <1>4 DEF SamePhases, IsPhase
  <2> QED  BY <2>1, <2>2, <1>3 DEF Plugins
<1>5. CASE frames' = Append(frames, Chunk(name, Len(out))) /\ name \notin loaded
           /\ name \in Plugin
  <2> DEFINE f == Chunk(name, n)
  <2>1. f \in Frame /\ f.kind = "chunk" /\ f.name = name /\ f.began = n
    BY <1>0, <1>5 DEF Chunk, Frame
  <2>2. /\ Len(frames') = m + 1 /\ (\A i \in 1..m : frames'[i] = frames[i])
        /\ frames'[m + 1] = f
    BY <2>1, <1>0, <1>5, AppendIs DEF TypeOK
  <2> HIDE DEF f
  <2>3. \A i \in 1..m : i \in 1..(m + 1) /\ (IsPhase(i)' <=> IsPhase(i))
    BY <2>2 DEF IsPhase
  <2>4. ~IsPhase(m + 1)'  BY <2>1, <2>2 DEF IsPhase
  <2>5. \A i \in 1..(m + 1) : i \in 1..m \/ i = m + 1  OBVIOUS
  <2>6. \A k \in 1..n : Announces(k) => out[k].name # name
    BY <1>0, <1>5 DEF Plugins, AnnouncedOnce, Announces
  <2>7. Began'
    <3>1. ASSUME NEW i \in 1..(m + 1), ~IsPhase(i)'
          PROVE  /\ frames'[i].began <= n
                 /\ \A k \in 1..n :
                       Announces(k) /\ out[k].name = frames'[i].name => frames'[i].began < k
      <4>1. CASE i = m + 1  BY <4>1, <2>1, <2>2, <2>6
      <4>2. CASE i \in 1..m
        <5>1. ~IsPhase(i) /\ frames'[i] = frames[i]  BY <4>2, <3>1, <2>2, <2>3
        <5> QED  BY <4>2, <5>1, <1>0 DEF Plugins, Began
      <4> QED  BY <4>1, <4>2, <2>5
    <3>2. \A k : Announces(k)' <=> Announces(k)  BY <1>1 DEF Announces
    <3> QED  BY <3>1, <3>2, <2>2, <1>0, <1>1 DEF Began
  <2>8. Definer'
    <3> SUFFICES ASSUME ~stale
                 PROVE  /\ register # NoPlugin => \E j \in 1..(m + 1) : WorksFor(j, register)'
                        /\ \A i \in 1..(m + 1) :
                              frames'[i].kind = "register" /\ frames'[i].definer # frames'[i].name =>
                                  \E j \in 1..(i - 1) : WorksFor(j, frames[i].definer)'
      BY <1>1, <2>2 DEF Definer
    <3>1. register # NoPlugin => \E j \in 1..m : WorksFor(j, register)
      BY <1>0 DEF Plugins, Definer
    <3>2. \A j \in 1..m : WorksFor(j, register) => WorksFor(j, register)'
      BY <1>1, <2>2 DEF WorksFor, IsPhase
    <3>3. \A i \in 1..m :
              frames'[i].kind = "register" /\ frames'[i].definer # frames'[i].name =>
                  \E j \in 1..(i - 1) : WorksFor(j, frames[i].definer)'
      BY <1>0, <2>2, DefinersBelow DEF Plugins
    <3>4. frames'[m + 1].kind # "register"  BY <2>1, <2>2
    <3> QED  BY <3>1, <3>2, <3>3, <3>4, <2>3, <2>5
  <2>9. SamePhases
    BY <1>0, <1>1, <2>2, <2>3, <2>4, <2>5 DEF SamePhases
  <2> QED  BY <2>7, <2>8, <2>9, <1>3 DEF Plugins
<1> QED  BY <1>4, <1>5 DEF Use

\* A phase begins: no use is touched.
LEMMA CallPhasePlugins ==
    ASSUME TypeOK, TypeOK', Plugins, CallPhase
    PROVE  Plugins'
<1>0. PICK n \in Nat, m \in Nat : n = Len(out) /\ m = Len(frames)
  BY DEF TypeOK
<1>1. /\ calls' = calls + 1 /\ calls' \in Nat
      /\ out' = Append(out, Phase(calls', "start"))
      /\ frames' = Append(frames, PhaseFn(calls'))
      /\ UNCHANGED <<register, loaded, stale>>
  BY DEF CallPhase, TypeOK
<1>2. Phase(calls', "start") \in Events /\ PhaseFn(calls') \in Frame
  BY <1>1 DEF Phase, Events, PhaseFn, Frame
<1>3. /\ Len(out') = n + 1 /\ (\A k \in 1..n : out'[k] = out[k])
      /\ out'[n + 1] = Phase(calls', "start")
  BY <1>0, <1>1, <1>2, AppendIs DEF TypeOK
<1>4. /\ Len(frames') = m + 1 /\ (\A i \in 1..m : frames'[i] = frames[i])
      /\ frames'[m + 1] = PhaseFn(calls')
  BY <1>0, <1>1, <1>2, AppendIs DEF TypeOK
<1>5. IsPhase(m + 1)' /\ frames'[m + 1].kind = "phase"
  BY <1>4 DEF IsPhase, PhaseFn
<1>6. \A i \in 1..(m + 1) : i \in 1..m \/ i = m + 1  OBVIOUS
<1>7. OutKept  BY <1>0, <1>3 DEF OutKept
<1>8. AnnouncedOnce'
  <2>1. out'[n + 1].event = "harness_phase"  BY <1>3 DEF Phase
  <2>2. \A k \in 1..Len(out') : out'[k].event = "harness_loaded" => k \in 1..Len(out)
    BY <2>1, <1>0, <1>3
  <2> QED  BY <2>2, <1>1, <1>7, NotAnnounced DEF Plugins
<1>9. Began'
  <2>1. ASSUME NEW i \in 1..Len(frames'), ~IsPhase(i)'
        PROVE  \E j \in 1..Len(frames) : SameUse(i, j)
    <3>1. i \in 1..m /\ frames'[i] = frames[i]  BY <2>1, <1>4, <1>5, <1>6
    <3> QED  BY <3>1, <2>1, <1>0 DEF SameUse, IsPhase
  <2> QED  BY <2>1, <1>7, BeganStep DEF Plugins
<1>10. Definer'
  <2> SUFFICES ASSUME ~stale
               PROVE  /\ register # NoPlugin => \E j \in 1..(m + 1) : WorksFor(j, register)'
                      /\ \A i \in 1..(m + 1) :
                            frames'[i].kind = "register" /\ frames'[i].definer # frames'[i].name =>
                                \E j \in 1..(i - 1) : WorksFor(j, frames[i].definer)'
    BY <1>1, <1>4 DEF Definer
  <2>1. register # NoPlugin => \E j \in 1..m : WorksFor(j, register)
    BY <1>0 DEF Plugins, Definer
  <2>2. \A j \in 1..m : j \in 1..(m + 1) /\ (WorksFor(j, register) => WorksFor(j, register)')
    BY <1>1, <1>4 DEF WorksFor, IsPhase
  <2>3. \A i \in 1..m :
            frames'[i].kind = "register" /\ frames'[i].definer # frames'[i].name =>
                \E j \in 1..(i - 1) : WorksFor(j, frames[i].definer)'
    BY <1>0, <1>4, DefinersBelow DEF Plugins
  <2> QED  BY <2>1, <2>2, <2>3, <1>5, <1>6
<1> QED  BY <1>8, <1>9, <1>10 DEF Plugins

\* A function ends: what is on the stack still was there.
LEMMA PopIs ==
    ASSUME TypeOK, frames # <<>>, frames' = Popped
    PROVE  /\ Len(frames) \in Nat /\ Len(frames) > 0 /\ Len(frames') = Len(frames) - 1
           /\ Top = frames[Len(frames)] /\ Top \in Frame
           /\ \A i \in 1..Len(frames') :
                 i \in 1..Len(frames) /\ i < Len(frames) /\ frames'[i] = frames[i]
           /\ \A i \in 1..Len(frames) : i \in 1..Len(frames') \/ i = Len(frames)
<1>1. /\ Len(frames) \in Nat /\ Len(frames) > 0 /\ Top = frames[Len(frames)] /\ Top \in Frame
      /\ Len(Popped) = Len(frames) - 1
      /\ \A i \in 1..(Len(frames) - 1) : Popped[i] = frames[i]
  BY TopIs
<1> QED  BY <1>1

LEMMA PopBegan ==
    ASSUME TypeOK, TypeOK', Began, OutKept, frames # <<>>, frames' = Popped
    PROVE  Began'
<1>1. ASSUME NEW i \in 1..Len(frames'), ~IsPhase(i)'
      PROVE  \E j \in 1..Len(frames) : SameUse(i, j)
  <2>1. i \in 1..Len(frames) /\ frames'[i] = frames[i]  BY PopIs
  <2> QED  BY <2>1, <1>1 DEF SameUse, IsPhase
<1> QED  BY <1>1, BeganStep

LEMMA PopDefiner ==
    ASSUME TypeOK, Definer, frames # <<>>, frames' = Popped, stale' \in BOOLEAN,
           ~stale' => ~stale,
           \/ register' = NoPlugin
           \/ register' = register /\ (~stale' => Top.kind = "phase" \/ register # Top.name)
    PROVE  Definer'
<1> SUFFICES ASSUME ~stale'
             PROVE  /\ register' # NoPlugin =>
                          \E j \in 1..Len(frames') : WorksFor(j, register)'
                    /\ \A i \in 1..Len(frames') :
                          frames'[i].kind = "register" /\ frames'[i].definer # frames'[i].name =>
                              \E j \in 1..(i - 1) : WorksFor(j, frames[i].definer)'
  BY DEF Definer
<1>0. /\ Len(frames) \in Nat /\ Len(frames) > 0 /\ Len(frames') = Len(frames) - 1
      /\ Top = frames[Len(frames)]
      /\ \A i \in 1..Len(frames') : i \in 1..Len(frames) /\ frames'[i] = frames[i]
      /\ \A i \in 1..Len(frames) : i \in 1..Len(frames') \/ i = Len(frames)
  BY PopIs
<1>1. ASSUME register' # NoPlugin
      PROVE  \E j \in 1..Len(frames') : WorksFor(j, register)'
  <2>1. register' = register /\ (Top.kind = "phase" \/ register # Top.name)  BY <1>1
  <2>2. PICK j \in 1..Len(frames) : WorksFor(j, register)  BY <2>1, <1>1 DEF Definer
  <2>3. j # Len(frames)  BY <2>1, <2>2, <1>0 DEF WorksFor, IsPhase
  <2>4. j \in 1..Len(frames') /\ frames'[j] = frames[j]  BY <2>3, <1>0
  <2> QED  BY <2>1, <2>2, <2>4 DEF WorksFor, IsPhase
<1>2. PICK n \in Nat : n = Len(frames')  BY <1>0
<1>3. \A i \in 1..n :
          frames'[i].kind = "register" /\ frames'[i].definer # frames'[i].name =>
              \E j \in 1..(i - 1) : WorksFor(j, frames[i].definer)'
  <2>1. n <= Len(frames) /\ \A i \in 1..n : frames'[i] = frames[i]  BY <1>0, <1>2
  <2> QED  BY <2>1, <1>0, DefinersBelow
<1> QED  BY <1>1, <1>2, <1>3

\* What ends is not a phase.
LEMMA PopSamePhases ==
    ASSUME TypeOK, frames # <<>>, frames' = Popped, Top.kind # "phase", OutKept,
           \A k \in 1..Len(out') : out'[k].event = "harness_phase" => k \in 1..Len(out),
           UNCHANGED <<lost, calls>>
    PROVE  SamePhases
<1>1. \A i \in 1..Len(frames') : IsPhase(i)' => i \in 1..Len(frames) /\ frames'[i] = frames[i]
  BY PopIs
<1>2. ASSUME NEW i \in 1..Len(frames), IsPhase(i)
      PROVE  i \in 1..Len(frames') /\ frames'[i] = frames[i]
  <2>1. i # Len(frames)  BY <1>2, PopIs DEF IsPhase
  <2> QED  BY <2>1, PopIs
<1>3. calls \in Nat /\ calls' = calls  BY DEF TypeOK
<1> QED  BY <1>1, <1>2, <1>3 DEF SamePhases, OutKept

\* The script has returned: register is called in its place.
LEMMA ChunkReturnsStep ==
    ASSUME TypeOK, TypeOK', Plugins, ChunkReturns
    PROVE  Plugins' /\ SamePhases
<1>1. /\ frames # <<>> /\ Top.kind = "chunk"
      /\ UNCHANGED <<register, loaded, out, calls, lost, stale>>
  BY DEF ChunkReturns, In
<1>2. OutKept /\ stale \in BOOLEAN  BY <1>1 DEF OutKept, TypeOK
<1>3. AnnouncedOnce'  BY <1>1, <1>2, NotAnnounced DEF Plugins
<1>4. CASE register = NoPlugin /\ frames' = Popped
  <2>1. Began'  BY <1>1, <1>2, <1>4, PopBegan DEF Plugins
  <2>2. Definer'  BY <1>1, <1>2, <1>4, PopDefiner DEF Plugins
  <2>3. SamePhases  BY <1>1, <1>2, <1>4, PopSamePhases
  <2> QED  BY <2>1, <2>2, <2>3, <1>3 DEF Plugins
<1>5. CASE register # NoPlugin /\ frames' = Append(Popped, Register(Top, register))
  <2>0. PICK m \in Nat : m = Len(frames)  BY DEF TypeOK
  <2>1. /\ m > 0 /\ m \in 1..m /\ Top = frames[m] /\ Top \in Frame /\ Popped \in Seq(Frame)
        /\ Len(Popped) = m - 1 /\ \A i \in 1..(m - 1) : Popped[i] = frames[i]
    BY <2>0, <1>1, TopIs
  <2>2. Top.name \in Plugin /\ Top.began \in Nat /\ register \in Plugin
    BY <2>1, <1>1, <1>5, FrameIs DEF TypeOK
  <2> DEFINE f == Register(Top, register)
  <2>3. /\ f \in Frame /\ f.kind = "register" /\ f.name = Top.name /\ f.began = Top.began
        /\ f.definer = register
    BY <2>2 DEF Register, Frame
  <2> HIDE DEF f
  <2>4. /\ Len(frames') = (m - 1) + 1
        /\ \A i \in 1..(m - 1) : frames'[i] = Popped[i]
        /\ frames'[(m - 1) + 1] = f
    BY <2>1, <2>3, <1>5, AppendIs DEF f
  <2>5. /\ Len(frames') = m /\ frames'[m] = f
        /\ \A i \in 1..(m - 1) : frames'[i] = frames[i]
    BY <2>1, <2>4
  <2>6. \A i \in 1..m : i \in 1..(m - 1) \/ i = m  BY <2>1
  <2>7. ~IsPhase(m) /\ ~IsPhase(m)'
    <3>1. frames[m].kind # "phase" /\ frames'[m].kind # "phase"  BY <2>1, <2>3, <2>5, <1>1
    <3> QED  BY <3>1 DEF IsPhase
  <2>8. Began'
    <3>1. ASSUME NEW i \in 1..Len(frames'), ~IsPhase(i)'
          PROVE  \E j \in 1..Len(frames) : SameUse(i, j)
      <4>1. CASE i = m
        <5>1. SameUse(m, m)  BY <2>1, <2>3, <2>5, <2>7 DEF SameUse
        <5> QED  BY <5>1, <4>1, <2>0, <2>1
      <4>2. CASE i \in 1..(m - 1)
        <5>1. i \in 1..m /\ frames'[i] = frames[i]  BY <4>2, <2>1, <2>5
        <5> QED  BY <5>1, <3>1, <2>0 DEF SameUse, IsPhase
      <4> QED  BY <4>1, <4>2, <2>5, <2>6
    <3> QED  BY <3>1, <1>2, BeganStep DEF Plugins
  <2>9. Definer'
    <3> SUFFICES ASSUME ~stale
                 PROVE  /\ register # NoPlugin => \E j \in 1..m : WorksFor(j, register)'
                        /\ \A i \in 1..m :
                              frames'[i].kind = "register" /\ frames'[i].definer # frames'[i].name =>
                                  \E j \in 1..(i - 1) : WorksFor(j, frames[i].definer)'
      BY <1>1, <2>5 DEF Definer
    <3>1. PICK j \in 1..m : WorksFor(j, register)
      BY <1>5, <2>0 DEF Plugins, Definer
    <3>2. frames'[j].name = frames[j].name /\ ~IsPhase(j)'
      <4>1. CASE j = m  BY <4>1, <2>1, <2>3, <2>5, <2>7
      <4>2. CASE j \in 1..(m - 1)
        <5>1. frames'[j] = frames[j]  BY <4>2, <2>5
        <5> QED  BY <5>1, <3>1 DEF WorksFor, IsPhase
      <4> QED  BY <4>1, <4>2, <2>6
    <3>3. WorksFor(j, register)'  BY <3>1, <3>2, <1>1 DEF WorksFor
    <3>4. ASSUME frames'[m].definer # frames'[m].name
          PROVE  \E l \in 1..(m - 1) : WorksFor(l, frames[m].definer)'
      <4>1. frames'[m].definer = register /\ frames'[m].name = frames[m].name
        BY <2>1, <2>3, <2>5
      <4>2. j # m  BY <4>1, <3>1, <3>4 DEF WorksFor
      <4>3. j \in 1..(m - 1)  BY <4>2, <2>6
      <4>4. WorksFor(j, frames[m].definer)'  BY <4>1, <3>3, <1>1 DEF WorksFor
      <4> QED  BY <4>3, <4>4
    <3>5. \A i \in 1..(m - 1) :
              frames'[i].kind = "register" /\ frames'[i].definer # frames'[i].name =>
                  \E l \in 1..(i - 1) : WorksFor(l, frames[i].definer)'
      <4>1. m - 1 \in Nat /\ m - 1 <= Len(frames) /\ Len(frames) \in Nat  BY <2>0, <2>1
      <4> QED  BY <4>1, <2>5, DefinersBelow DEF Plugins
    <3> QED  BY <3>3, <3>4, <3>5, <2>6
  <2>10. SamePhases
    <3>1. calls \in Nat /\ calls' = calls  BY <1>1 DEF TypeOK
    <3>2. ASSUME NEW i \in 1..m, IsPhase(i) \/ IsPhase(i)'
          PROVE  frames'[i] = frames[i]
      BY <3>2, <2>5, <2>6, <2>7
    <3> QED  BY <3>1, <3>2, <1>1, <1>2, <2>0, <2>5 DEF SamePhases, OutKept
  <2> QED  BY <2>8, <2>9, <2>10, <1>3 DEF Plugins
<1> QED  BY <1>4, <1>5 DEF ChunkReturns

\* A use is over and announced: by Began, every announcement of this name was
\* written after the use had begun.
LEMMA RegisterReturnsStep ==
    ASSUME TypeOK, TypeOK', Plugins, RegisterReturns
    PROVE  Plugins' /\ SamePhases
<1>1. /\ frames # <<>> /\ Top.kind = "register" /\ frames' = Popped /\ register' = NoPlugin
      /\ UNCHANGED <<loaded, calls, lost, stale>>
  BY DEF RegisterReturns, In
<1>2. stale \in BOOLEAN  BY DEF TypeOK
<1>3. Definer'  BY <1>1, <1>2, PopDefiner DEF Plugins
<1>4. CASE UNCHANGED out
  <2>1. OutKept  BY <1>4 DEF OutKept, TypeOK
  <2>2. AnnouncedOnce'  BY <2>1, <1>1, <1>4, NotAnnounced DEF Plugins
  <2>3. Began'  BY <2>1, <1>1, PopBegan DEF Plugins
  <2>4. SamePhases  BY <2>1, <1>1, <1>4, PopSamePhases
  <2> QED  BY <2>2, <2>3, <2>4, <1>3 DEF Plugins
<1>5. CASE out' = Append(out, Loaded(Top)) /\ Top.name \in loaded
  <2>0. PICK n \in Nat, m \in Nat : n = Len(out) /\ m = Len(frames)  BY DEF TypeOK
  <2>1. m > 0 /\ m \in 1..m /\ Top = frames[m] /\ Top \in Frame  BY <2>0, <1>1, TopIs
  <2>2. Top.name \in Plugin /\ Top.began \in Nat  BY <2>1, <1>1, FrameIs
  <2>3. Loaded(Top) \in Events  BY <2>2 DEF Loaded, Events
  <2>4. /\ Len(out') = n + 1 /\ (\A k \in 1..n : out'[k] = out[k])
        /\ out'[n + 1] = Loaded(Top)
    BY <2>0, <2>3, <1>5, AppendIs DEF TypeOK
  <2>5. /\ out'[n + 1].event = "harness_loaded" /\ out'[n + 1].name = Top.name
        /\ out'[n + 1].began = Top.began
    BY <2>4 DEF Loaded
  <2>6. \A k \in 1..(n + 1) : k \in 1..n \/ k = n + 1  OBVIOUS
  <2>7. OutKept  BY <2>0, <2>4 DEF OutKept
  <2>8. Began'  BY <2>7, <1>1, PopBegan DEF Plugins
  <2>9. SamePhases
    <3>1. \A k \in 1..Len(out') : out'[k].event = "harness_phase" => k \in 1..Len(out)
      BY <2>0, <2>4, <2>5, <2>6
    <3> QED  BY <3>1, <2>7, <1>1, PopSamePhases
  <2>10. AnnouncedOnce'
    <3>1. \A k \in 1..n : out[k].event = "harness_loaded" /\ out[k].name = Top.name =>
              Top.began < k
      <4>1. ~IsPhase(m)  BY <2>1, <1>1 DEF IsPhase
      <4> QED  BY <4>1, <2>0, <2>1 DEF Plugins, Began, Announces
    <3>2. ASSUME NEW j \in 1..(n + 1), out'[j].event = "harness_loaded"
          PROVE  /\ out'[j].name \in loaded
                 /\ \A i \in 1..(j - 1) :
                       out'[i].event = "harness_loaded" /\ out'[i].name = out'[j].name
                           => out'[j].began < i
      <4>1. CASE j = n + 1
        <5>1. \A i \in 1..(j - 1) : i \in 1..n /\ out'[i] = out[i]  BY <4>1, <2>4
        <5> QED  BY <4>1, <5>1, <3>1, <2>5, <1>5
      <4>2. CASE j \in 1..n
        <5>1. out'[j] = out[j] /\ \A i \in 1..(j - 1) : i \in 1..n /\ out'[i] = out[i]
          BY <4>2, <2>4
        <5> QED  BY <4>2, <5>1, <3>2, <2>0 DEF Plugins, AnnouncedOnce
      <4> QED  BY <4>1, <4>2, <2>6
    <3> QED  BY <3>2, <2>4, <1>1 DEF AnnouncedOnce
  <2> QED  BY <2>8, <2>9, <2>10, <1>3 DEF Plugins
<1> QED  BY <1>4, <1>5 DEF RegisterReturns

\* A phase has ended one way or the other: the uses are as they were.
LEMMA PhaseOverPlugins ==
    ASSUME TypeOK, TypeOK', Plugins, frames # <<>>, Top.kind = "phase", frames' = Popped,
           UNCHANGED <<register, loaded, stale>>,
           \/ UNCHANGED out
           \/ \E state \in {"end", "error"} : out' = Append(out, Phase(Top.id, state))
    PROVE  Plugins'
<1>0. PICK n \in Nat : n = Len(out)  BY DEF TypeOK
<1>1. OutKept /\ \A k \in 1..Len(out') : out'[k].event = "harness_loaded" => k \in 1..Len(out)
  <2>1. CASE UNCHANGED out  BY <2>1 DEF OutKept, TypeOK
  <2>2. ASSUME NEW state \in {"end", "error"}, out' = Append(out, Phase(Top.id, state))
        PROVE  OutKept
               /\ \A k \in 1..Len(out') : out'[k].event = "harness_loaded" => k \in 1..Len(out)
    <3>1. Top.id \in Nat  BY TopIs, FrameIs
    <3>2. Phase(Top.id, state) \in Events  BY <3>1 DEF Phase, Events
    <3>3. /\ Len(out') = n + 1 /\ (\A k \in 1..n : out'[k] = out[k])
          /\ out'[n + 1] = Phase(Top.id, state)
      BY <1>0, <2>2, <3>2, AppendIs DEF TypeOK
    <3>4. out'[n + 1].event = "harness_phase"  BY <3>3 DEF Phase
    <3>5. \A k \in 1..(n + 1) : k \in 1..n \/ k = n + 1  OBVIOUS
    <3> QED  BY <1>0, <3>3, <3>4, <3>5 DEF OutKept
  <2> QED  BY <2>1, <2>2
<1>2. AnnouncedOnce'  BY <1>1, NotAnnounced DEF Plugins
<1>3. Began'  BY <1>1, PopBegan DEF Plugins
<1>4. stale \in BOOLEAN  BY DEF TypeOK
<1>5. Definer'  BY <1>4, PopDefiner DEF Plugins
<1> QED  BY <1>2, <1>3, <1>5 DEF Plugins

\* A script or a register function has raised.
LEMMA UseRaisesStep ==
    ASSUME TypeOK, TypeOK', Plugins, ChunkRaises \/ RegisterRaises
    PROVE  Plugins' /\ SamePhases
<1>1. /\ frames # <<>> /\ frames' = Popped /\ Top.kind # "phase"
      /\ UNCHANGED <<loaded, out, calls, lost>> /\ stale \in BOOLEAN /\ stale' \in BOOLEAN
  BY DEF ChunkRaises, RegisterRaises, In, TypeOK
<1>2. OutKept  BY <1>1 DEF OutKept, TypeOK
<1>3. AnnouncedOnce'  BY <1>1, <1>2, NotAnnounced DEF Plugins
<1>4. Began'  BY <1>1, <1>2, PopBegan DEF Plugins
<1>5. /\ ~stale' => ~stale
      /\ \/ register' = NoPlugin
         \/ register' = register /\ (~stale' => Top.kind = "phase" \/ register # Top.name)
  <2>1. CASE ChunkRaises
    <3>1. stale' = (stale \/ register = Top.name) /\ register' = register
      BY <2>1 DEF ChunkRaises
    <3> QED  BY <3>1
  <2>2. CASE RegisterRaises  BY <2>2, <1>1 DEF RegisterRaises
  <2> QED  BY <2>1, <2>2
<1>6. Definer'  BY <1>1, <1>5, PopDefiner DEF Plugins
<1>7. SamePhases  BY <1>1, <1>2, PopSamePhases
<1> QED  BY <1>3, <1>4, <1>6, <1>7 DEF Plugins

\* Lua code that calls neither use nor phase.
LEMMA OtherCodeStep ==
    ASSUME TypeOK, TypeOK', Plugins,
           \/ Define \/ Raise \/ Catch
           \/ \E name \in Plugin \cup Broken : Provide(name)
    PROVE  Plugins' /\ SamePhases
<1>1. UNCHANGED <<frames, out, calls, lost, stale>> /\ loaded \subseteq loaded'
  BY DEF Define, Raise, Catch, Provide
<1>2. OutKept  BY <1>1 DEF OutKept, TypeOK
<1>3. AnnouncedOnce'  BY <1>1, <1>2, NotAnnounced DEF Plugins
<1>4. Began'  BY <1>1 DEF Plugins, Began, Announces, IsPhase
<1>5. SamePhases  BY <1>1, <1>2 DEF SamePhases, OutKept, TypeOK, IsPhase
<1>6. Definer'
  <2>1. CASE Define
    <3>1. frames # <<>> /\ Top.kind = "chunk" /\ register' = Top.name
      BY <2>1 DEF Define, In
    <3>2. Len(frames) \in 1..Len(frames) /\ Top = frames[Len(frames)]  BY <3>1, TopIs
    <3>3. WorksFor(Len(frames), register)'
      BY <3>1, <3>2, <1>1 DEF WorksFor, IsPhase
    <3>4. \E j \in 1..Len(frames') : WorksFor(j, register)'
      <4>1. PICK n \in 1..Len(frames) : n = Len(frames)  BY <3>2
      <4>2. WorksFor(n, register)'  BY <4>1, <3>1, <3>2, <1>1 DEF WorksFor, IsPhase
      <4> QED  BY <4>2, <1>1
    <3> QED  BY <3>4, <1>1 DEF Plugins, Definer, WorksFor, IsPhase
  <2>2. CASE UNCHANGED register
    BY <2>2, <1>1 DEF Plugins, Definer, WorksFor, IsPhase
  <2> QED  BY <2>1, <2>2 DEF Raise, Catch, Provide
<1> QED  BY <1>3, <1>4, <1>5, <1>6 DEF Plugins

LEMMA NextInv ==
    ASSUME HarnessAssumption
    PROVE  Inv /\ [Next]_vars => Inv'
<1> SUFFICES ASSUME Inv, [Next]_vars PROVE Inv'  OBVIOUS
<1>1. TypeOK /\ Phases /\ Plugins /\ TypeOK'  BY TypeStep DEF Inv
<1>2. ASSUME NEW name \in Plugin \cup Broken, Use(name) PROVE Inv'
  BY <1>1, <1>2, UseStep, SamePhasesStep DEF Inv
<1>3. CASE CallPhase  BY <1>1, <1>3, CallPhaseStep, CallPhasePlugins DEF Inv
<1>4. CASE \/ Define \/ Raise \/ Catch
           \/ \E name \in Plugin \cup Broken : Provide(name)
  BY <1>1, <1>4, OtherCodeStep, SamePhasesStep DEF Inv
<1>5. CASE ChunkReturns  BY <1>1, <1>5, ChunkReturnsStep, SamePhasesStep DEF Inv
<1>6. CASE RegisterReturns  BY <1>1, <1>6, RegisterReturnsStep, SamePhasesStep DEF Inv
<1>7. CASE ChunkRaises \/ RegisterRaises  BY <1>1, <1>7, UseRaisesStep, SamePhasesStep DEF Inv
<1>8. CASE PhaseReturns
  <2>1. /\ frames # <<>> /\ Top.kind = "phase" /\ frames' = Popped
        /\ out' = Append(out, Phase(Top.id, "end"))
        /\ UNCHANGED <<register, loaded, calls, lost, stale>>
    BY <1>8 DEF PhaseReturns, In
  <2>2. Phases'  BY <2>1, <1>1, EndPhaseStep
  <2>3. Plugins'  BY <2>1, <1>1, PhaseOverPlugins
  <2> QED  BY <2>2, <2>3, <1>1 DEF Inv
<1>9. CASE PhaseRaises
  <2>1. /\ frames # <<>> /\ Top.kind = "phase" /\ frames' = Popped
        /\ UNCHANGED <<register, loaded, calls, stale>>
    BY <1>9 DEF PhaseRaises, In
  <2>2. CASE lost' = lost \cup {Top.id} /\ UNCHANGED out
    <3>1. Phases'  BY <2>1, <2>2, <1>1, LosePhaseStep
    <3>2. Plugins'  BY <2>1, <2>2, <1>1, PhaseOverPlugins
    <3> QED  BY <3>1, <3>2, <1>1 DEF Inv
  <2>3. CASE out' = Append(out, Phase(Top.id, "error")) /\ UNCHANGED lost
    <3>1. Phases'  BY <2>1, <2>3, <1>1, EndPhaseStep
    <3>2. Plugins'  BY <2>1, <2>3, <1>1, PhaseOverPlugins
    <3> QED  BY <3>1, <3>2, <1>1 DEF Inv
  <2> QED  BY <2>2, <2>3, <1>9 DEF PhaseRaises
<1>10. CASE UNCHANGED vars
  <2>1. UNCHANGED <<frames, register, loaded, out, calls, lost, stale>>  BY <1>10 DEF vars
  <2>2. Phases'
    BY <2>1, <1>1 DEF Phases, Numbered, Ordered, Open, ClosedOnce, Accounted, Nested, Starts,
       Ends, IsPhase
  <2>3. Plugins'
    BY <2>1, <1>1 DEF Plugins, AnnouncedOnce, Began, Definer, Announces, WorksFor, IsPhase
  <2> QED  BY <2>2, <2>3, <1>1 DEF Inv
<1> QED  BY <1>2, <1>3, <1>4, <1>5, <1>6, <1>7, <1>8, <1>9, <1>10 DEF Next, LuaCode
----------------------------------------------------------------------------
(* What follows.                                                           *)

\* The functions under way, the events and the global are what Inv says at
\* every moment.
THEOREM HarnessInvariant == ASSUME HarnessAssumption PROVE Spec => []Inv
<1>1. Init => Inv  BY InitInv
<1>2. Inv /\ [Next]_vars => Inv'  BY NextInv
<1> QED  BY <1>1, <1>2, PTL DEF Spec

LEMMA PhasesNestFromInv == Inv => PhasesNest
<1> SUFFICES ASSUME Inv, NEW id \in 1..calls
             PROVE  LET opened == Position(id, {"start"})
                        closed == Position(id, {"end", "error"})
                        active == \E i \in 1..Len(frames) : frames[i].kind = "phase"
                                                            /\ frames[i].id = id
                    IN  opened # {} =>
                          /\ active \/ id \in lost <=> closed = {}
                          /\ \A i, j \in closed : i = j
                          /\ \A inner \in 1..calls : \A i \in closed :
                                \A j \in Position(inner, {"start"}) :
                                    (\E o \in opened : o < j) /\ j < i =>
                                        inner \in lost
                                        \/ \E c \in Position(inner, {"end", "error"}) : c < i
  BY DEF PhasesNest
<1> DEFINE opened == Position(id, {"start"})
           closed == Position(id, {"end", "error"})
           active == \E i \in 1..Len(frames) : frames[i].kind = "phase" /\ frames[i].id = id
<1>1. Phases  BY DEF Inv
<1>2. \A x, k : k \in Position(x, {"start"}) <=>
                    k \in 1..Len(out) /\ Starts(k) /\ out[k].id = x
  BY DEF Position, Starts
<1>3. \A x, k : k \in Position(x, {"end", "error"}) <=>
                    k \in 1..Len(out) /\ Ends(k) /\ out[k].id = x
  BY DEF Position, Ends
<1> SUFFICES ASSUME NEW o \in opened
             PROVE  /\ active \/ id \in lost <=> closed = {}
                    /\ \A i, j \in closed : i = j
                    /\ \A inner \in 1..calls : \A i \in closed :
                          \A j \in Position(inner, {"start"}) :
                              (\E p \in opened : p < j) /\ j < i =>
                                  inner \in lost
                                  \/ \E c \in Position(inner, {"end", "error"}) : c < i
  OBVIOUS
<1>4. o \in 1..Len(out) /\ Starts(o) /\ out[o].id = id  BY <1>2
<1> HIDE DEF opened
<1>5. ASSUME active PROVE closed = {}  BY <1>1, <1>3, <1>5 DEF Phases, Open, IsPhase
<1>6. ASSUME id \in lost PROVE closed = {}  BY <1>1, <1>3, <1>6 DEF Phases, ClosedOnce
<1>7. ASSUME closed = {} PROVE active \/ id \in lost
  <2>1. ~ \E l \in 1..Len(out) : Ends(l) /\ out[l].id = id  BY <1>3, <1>7
  <2> QED  BY <2>1, <1>1, <1>4 DEF Phases, Accounted, IsPhase
<1>8. \A i, j \in closed : i = j  BY <1>1, <1>3 DEF Phases, ClosedOnce
<1>9. ASSUME NEW inner \in 1..calls, NEW i \in closed, NEW j \in Position(inner, {"start"}),
             NEW p \in opened, p < j, j < i
      PROVE  inner \in lost \/ \E c \in Position(inner, {"end", "error"}) : c < i
  <2>1. p \in 1..Len(out) /\ Starts(p) /\ out[p].id = id  BY <1>2 DEF opened
  <2>2. j \in 1..Len(out) /\ Starts(j) /\ out[j].id = inner  BY <1>2
  <2>3. i \in 1..Len(out) /\ Ends(i) /\ out[i].id = id  BY <1>3
  <2>4. \/ inner \in lost
        \/ \E c \in 1..Len(out) : Ends(c) /\ out[c].id = inner /\ c < i
    BY <2>1, <2>2, <2>3, <1>1, <1>9 DEF Phases, Nested
  <2> QED  BY <2>4, <1>3
<1> QED  BY <1>5, <1>6, <1>7, <1>8, <1>9

\* A phase that is over was closed once, after all that began inside it.
THEOREM PhasesAreNested == ASSUME HarnessAssumption PROVE Spec => []PhasesNest
  BY HarnessInvariant, PhasesNestFromInv, PTL

\* A plugin is announced with its module, and again only by a use that had
\* begun before the first was over.
THEOREM AnnouncedHonestly == ASSUME HarnessAssumption PROVE Spec => []AnnouncedOnce
<1>1. Inv => AnnouncedOnce  BY DEF Inv, Plugins
<1> QED  BY <1>1, HarnessInvariant, PTL

\* use calls another plugin's register only where that one is still at work
\* further out, unless a script raised after it had defined one; and a use
\* that ended leaves none to later ones.
THEOREM NoRegisterLeft == ASSUME HarnessAssumption PROVE Spec => []RegisterNotLeftBehind
<1>1. Inv => RegisterNotLeftBehind
  <2> SUFFICES ASSUME Inv, ~stale
               PROVE  /\ frames = <<>> => register = NoPlugin
                      /\ \A i \in 1..Len(frames) :
                            frames[i].kind = "register" /\ frames[i].definer # frames[i].name
                              => \E j \in 1..(i - 1) : frames[j].kind # "phase"
                                                       /\ frames[j].name = frames[i].definer
    BY DEF RegisterNotLeftBehind
  <2>1. /\ register # NoPlugin => \E j \in 1..Len(frames) : WorksFor(j, register)
        /\ \A i \in 1..Len(frames) :
              frames[i].kind = "register" /\ frames[i].definer # frames[i].name =>
                  \E j \in 1..(i - 1) : WorksFor(j, frames[i].definer)
    BY DEF Inv, Plugins, Definer
  <2> QED  BY <2>1 DEF WorksFor, IsPhase
<1> QED  BY <1>1, HarnessInvariant, PTL

\* The state keeps its shape, and the nesting its bound.
THEOREM TypeCorrect == ASSUME HarnessAssumption PROVE Spec => []TypeOK
<1>1. Inv => TypeOK  BY DEF Inv
<1> QED  BY <1>1, HarnessInvariant, PTL
=============================================================================
