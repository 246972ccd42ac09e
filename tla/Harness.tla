------------------------------ MODULE Harness ------------------------------
(***************************************************************************)
(* Loading harness plugins and running harness phases (src/harness.cpp).   *)
(* use(name) runs a plugin's script, which is to define the global         *)
(* register, and calls register(api); both are Lua code that may call use  *)
(* and phase again, so that the calls nest.  frames is that nesting: the   *)
(* Lua functions that C++ has called and that have not returned, above the *)
(* test's own code.  An error goes from a function to its C++ caller,      *)
(* which does its bookkeeping and raises again, or is caught by the Lua    *)
(* function below.                                                         *)
(***************************************************************************)
EXTENDS Naturals, Sequences

CONSTANTS
    Plugin,     \* plugins that have a manifest and whose tools are installed
    Broken,     \* names without a manifest, or with a tool that is missing
    NoPlugin,   \* the value of register when it is nil
    MaxDepth,   \* the nesting at which Lua raises "C stack overflow"
    MaxCalls    \* bound on the calls of use and phase

ASSUME HarnessAssumption ==
    /\ MaxDepth \in Nat /\ MaxCalls \in Nat
    /\ NoPlugin \notin Plugin /\ Plugin \cap Broken = {}

VARIABLES
    frames,     \* the functions under way, outermost first
    raising,    \* "no", or the message of the error that is under way
    register,   \* the plugin whose script defined the global register
    loaded,     \* the names that loaded_ contains
    out,        \* the events written
    calls,      \* the calls of use and phase so far
    lost,       \* history: phases whose error event could not be written
    stale       \* history: a script defined register and then raised

vars == <<frames, raising, register, loaded, out, calls, lost, stale>>

Messages == {"text", "bytes"}       \* bytes: not UTF-8, cannot be written as JSON

\* A script (chunk) or a register function at work for use(name), the latter
\* defined by the script of plugin definer; or the function of phase number id.
\* began (history): the events that were written before use was called.
Chunk(name, began)       == [kind |-> "chunk", name |-> name, began |-> began]
Register(chunk, definer) == [kind |-> "register", name |-> chunk.name, began |-> chunk.began,
                             definer |-> definer]
PhaseFn(id)              == [kind |-> "phase", id |-> id]

Loaded(frame)    == [event |-> "harness_loaded", name |-> frame.name, began |-> frame.began]
Phase(id, state) == [event |-> "harness_phase", id |-> id, state |-> state]

Init ==
    /\ frames = <<>> /\ raising = "no" /\ register = NoPlugin
    /\ loaded = {} /\ out = <<>> /\ calls = 0 /\ lost = {} /\ stale = FALSE
----------------------------------------------------------------------------
Top == frames[Len(frames)]
InCode == raising = "no"
In(kind) == frames # <<>> /\ Top.kind = kind
Popped == SubSeq(frames, 1, Len(frames) - 1)

\* Mutant: a name that is loaded is loaded again.
Use_again(name) ==
    /\ InCode /\ calls < MaxCalls
    /\ calls' = calls + 1
    /\ IF name \in Broken \/ Len(frames) = MaxDepth
       THEN raising' = "text" /\ UNCHANGED frames
       ELSE frames' = Append(frames, Chunk(name, Len(out))) /\ UNCHANGED raising
    /\ UNCHANGED <<register, loaded, out, lost, stale>>

\* What Lua code may do: call use, ...
Use(name) ==
    /\ InCode /\ calls < MaxCalls
    /\ calls' = calls + 1
    /\ IF name \in loaded THEN UNCHANGED <<frames, raising>>
       ELSE IF name \in Broken \/ Len(frames) = MaxDepth
            THEN raising' = "text" /\ UNCHANGED frames
            ELSE frames' = Append(frames, Chunk(name, Len(out))) /\ UNCHANGED raising
    /\ UNCHANGED <<register, loaded, out, lost, stale>>

\* ... call phase, ...
CallPhase ==
    /\ InCode /\ calls < MaxCalls /\ Len(frames) < MaxDepth
    /\ calls' = calls + 1
    /\ out' = Append(out, Phase(calls', "start"))
    /\ frames' = Append(frames, PhaseFn(calls'))
    /\ UNCHANGED <<raising, register, loaded, lost, stale>>

\* ... define register, in a script, ...
Define ==
    /\ InCode /\ In("chunk")
    /\ register' = Top.name
    /\ UNCHANGED <<frames, raising, loaded, out, calls, lost, stale>>

\* ... provide a module, where it has the api, ...
Provide(name) ==
    /\ InCode /\ In("register")
    /\ loaded' = loaded \cup {name}
    /\ UNCHANGED <<frames, raising, register, out, calls, lost, stale>>

\* ... and raise an error.
Raise ==
    /\ InCode /\ frames # <<>>
    /\ raising' \in Messages
    /\ UNCHANGED <<frames, register, loaded, out, calls, lost, stale>>
----------------------------------------------------------------------------
(* What C++ does when a function it has called returns, ...                *)

\* The script has run: register is called, or there is none.
ChunkReturns ==
    /\ InCode /\ In("chunk")
    /\ IF register = NoPlugin
       THEN frames' = Popped /\ raising' = "text"
       ELSE frames' = Append(Popped, Register(Top, register)) /\ UNCHANGED raising
    /\ UNCHANGED <<register, loaded, out, calls, lost, stale>>

\* Mutant: register stays defined.
RegisterReturns_keeps ==
    /\ InCode /\ In("register")
    /\ frames' = Popped
    /\ IF Top.name \in loaded
       THEN out' = Append(out, Loaded(Top)) /\ UNCHANGED raising
       ELSE raising' = "text" /\ UNCHANGED out
    /\ UNCHANGED <<register, loaded, calls, lost, stale>>

RegisterReturns ==
    /\ InCode /\ In("register")
    /\ register' = NoPlugin
    /\ frames' = Popped
    /\ IF Top.name \in loaded
       THEN out' = Append(out, Loaded(Top)) /\ UNCHANGED raising
       ELSE raising' = "text" /\ UNCHANGED out
    /\ UNCHANGED <<loaded, calls, lost, stale>>

PhaseReturns ==
    /\ InCode /\ In("phase")
    /\ out' = Append(out, Phase(Top.id, "end"))
    /\ frames' = Popped
    /\ UNCHANGED <<raising, register, loaded, calls, lost, stale>>

(* ... or raises: the error goes on with C++'s words before its message.   *)

ChunkRaises ==
    /\ ~InCode /\ In("chunk")
    /\ frames' = Popped
    /\ stale' = (stale \/ register = Top.name)
    /\ UNCHANGED <<raising, register, loaded, out, calls, lost>>

\* register is cleared before the error is looked at.
RegisterRaises ==
    /\ ~InCode /\ In("register")
    /\ register' = NoPlugin
    /\ frames' = Popped
    /\ UNCHANGED <<raising, loaded, out, calls, lost, stale>>

\* Mutant: the error event is left to the caller.
PhaseRaises_silent ==
    /\ ~InCode /\ In("phase")
    /\ frames' = Popped
    /\ UNCHANGED <<raising, register, loaded, out, calls, lost, stale>>

\* An error event with a message that is not UTF-8 raises instead of being
\* written; what is raised then is text.
PhaseRaises ==
    /\ ~InCode /\ In("phase")
    /\ frames' = Popped
    /\ IF raising = "bytes"
       THEN raising' = "text" /\ lost' = lost \cup {Top.id} /\ UNCHANGED out
       ELSE out' = Append(out, Phase(Top.id, "error")) /\ UNCHANGED <<raising, lost>>
    /\ UNCHANGED <<register, loaded, calls, stale>>

\* The function on top catches an error that reached it (the test's own code
\* may be under a pcall, or end with the error, and the next test goes on).
Catch ==
    /\ ~InCode
    /\ raising' = "no"
    /\ UNCHANGED <<frames, register, loaded, out, calls, lost, stale>>

LuaCode ==
    \/ \E name \in Plugin \cup Broken : Use(name) \/ Provide(name)
    \/ CallPhase \/ Define \/ Raise \/ Catch

Next ==
    \/ LuaCode
    \/ ChunkReturns \/ RegisterReturns \/ PhaseReturns
    \/ ChunkRaises \/ RegisterRaises \/ PhaseRaises

Spec == Init /\ [][Next]_vars
----------------------------------------------------------------------------
(* Properties.                                                             *)

Frame == [kind : {"chunk"}, name : Plugin, began : Nat]
         \cup [kind : {"register"}, name : Plugin, began : Nat, definer : Plugin]
         \cup [kind : {"phase"}, id : Nat]
Events == [event : {"harness_loaded"}, name : Plugin, began : Nat]
          \cup [event : {"harness_phase"}, id : Nat, state : {"start", "end", "error"}]

\* The shape of the state.
TypeOK ==
    /\ frames \in Seq(Frame) /\ Len(frames) <= MaxDepth
    /\ raising \in {"no"} \cup Messages /\ register \in Plugin \cup {NoPlugin}
    /\ loaded \subseteq Plugin \cup Broken /\ out \in Seq(Events)
    /\ calls \in 0..MaxCalls /\ lost \subseteq Nat /\ stale \in BOOLEAN

Position(id, states) ==
    {i \in 1..Len(out) : out[i].event = "harness_phase" /\ out[i].id = id
                         /\ out[i].state \in states}

\* A phase that is no longer under way was closed once, by an end or an error
\* event, after everything that was written inside it: whatever raised in it,
\* loading plugins included.  Only an error that cannot be printed loses it.
PhasesNest ==
    \A id \in 1..calls :
        LET opened == Position(id, {"start"}) closed == Position(id, {"end", "error"})
            active == \E i \in 1..Len(frames) : frames[i].kind = "phase" /\ frames[i].id = id
        IN  opened # {} =>
                /\ active \/ id \in lost <=> closed = {}
                /\ \A i, j \in closed : i = j
                /\ \A inner \in 1..calls : \A i \in closed :
                      \A j \in Position(inner, {"start"}) :
                          (\E o \in opened : o < j) /\ j < i =>
                              inner \in lost \/ \E c \in Position(inner, {"end", "error"}) : c < i

\* A plugin that is announced as loaded has its module, and is announced a
\* second time only if that second load was begun before the first was over:
\* by the plugin's own code, or by a plugin that it uses.
AnnouncedOnce ==
    \A j \in 1..Len(out) : out[j].event = "harness_loaded" =>
        /\ out[j].name \in loaded
        /\ \A i \in 1..(j - 1) :
              out[i].event = "harness_loaded" /\ out[i].name = out[j].name => out[j].began < i

\* use calls another plugin's register only where that one is still at work
\* further out, or where a script raised after it had defined register: a
\* use that ended otherwise leaves nothing behind for later ones.
RegisterNotLeftBehind ==
    /\ frames = <<>> /\ ~stale => register = NoPlugin
    /\ \A i \in 1..Len(frames) :
          frames[i].kind = "register" /\ frames[i].definer # frames[i].name /\ ~stale
            => \E j \in 1..(i - 1) : frames[j].kind # "phase" /\ frames[j].name = frames[i].definer

\* A plugin that does not define register is refused, and never has another
\* plugin's register called for it.
OwnRegister ==
    \A i \in 1..Len(frames) : frames[i].kind = "register" => frames[i].definer = frames[i].name
============================================================================
