---------------------------- MODULE Registration ----------------------------
(***************************************************************************)
(* The registration half of the Lua runtime (runtime/teez-worker.lua):     *)
(* what a test file builds while it is loaded.  Three stacks, suite_stack, *)
(* type_stack and only_depth, are kept by describe_impl beside Lua's own   *)
(* call stack; a test or a hook takes its suites, type and only mark from  *)
(* them.  An error a file raises and catches itself unwinds Lua's stack    *)
(* and not the other three, and a block whose name is nil leaves a suite   *)
(* it never entered.                                                       *)
(*                                                                         *)
(* frames is Lua's call stack: the describe calls that have not returned.  *)
(* A frame remembers where its name went in suite_stack (at, 0 if it has   *)
(* none) and what only_depth was once it was entered (depth); both are     *)
(* history, like the variables that say what has gone by in the file.      *)
(***************************************************************************)
EXTENDS Naturals, Sequences, FiniteSets

CONSTANTS
    Name,       \* names of describe blocks
    Type,       \* values of the option type
    MaxDescribes,   \* bound on the describe calls
    MaxTests,   \* bound on the tests registered
    MaxHooks,   \* bound on the hooks registered
    MaxRows,    \* bound on the rows of a test.each
    NoName,     \* a name that is nil, which describe does not refuse
    NoType      \* an option type that is absent, or a type that is nil

ASSUME RegistrationAssumption ==
    /\ MaxDescribes \in Nat
    /\ MaxTests \in Nat /\ MaxHooks \in Nat /\ MaxRows \in Nat
    /\ NoName \notin Name /\ NoType \notin Type

\* skip, todo and fails register a test the way normal does.
Modes == {"normal", "only"}

VARIABLES
    status,         \* "loading", "loaded" or "failed"
    frames,         \* the describe calls that are under way, outermost first
    suite_stack, type_stack, only_depth,
    pending_tests,  \* the tests in the order they were registered
    suite_hooks,    \* the hooks in the order they were registered
    describes,      \* counts the describe calls, for MaxDescribes
    caught,         \* history: the file has caught an error
    left,           \* history: how many named blocks were left by errors it caught
    unnamed,        \* history: a block without a name has returned
    robbed          \* history: one has, inside a block that is under way

stacks == <<suite_stack, type_stack, only_depth>>
history == <<caught, left, unnamed, robbed>>
vars == <<status, frames, stacks, pending_tests, suite_hooks, describes, history>>

Frame == [name : Name \cup {NoName}, type : Type \cup {NoType}, only : BOOLEAN, at : Nat, depth : Nat]

Init ==
    /\ status = "loading" /\ frames = <<>>
    /\ suite_stack = <<>> /\ type_stack = <<>> /\ only_depth = 0
    /\ pending_tests = <<>> /\ suite_hooks = <<>>
    /\ describes = 0
    /\ caught = FALSE /\ left = 0 /\ unnamed = FALSE /\ robbed = FALSE
----------------------------------------------------------------------------
\* table.insert(stack, nil) adds nothing.
Pushed(stack, entry, nil) == IF entry = nil THEN stack ELSE Append(stack, entry)

\* table.remove takes the last entry, if there is one.
Removed(stack) == IF stack = <<>> THEN <<>> ELSE SubSeq(stack, 1, Len(stack) - 1)

Deeper(only) == IF only THEN only_depth + 1 ELSE only_depth

\* test.describe and test.describe.only, up to the call of fn.
Describe(name, type, only) ==
    /\ status = "loading" /\ describes < MaxDescribes
    /\ describes' = describes + 1
    /\ only_depth' = Deeper(only)
    /\ suite_stack' = Pushed(suite_stack, name, NoName)
    /\ type_stack' = Pushed(type_stack, type, NoType)
    /\ frames' = Append(frames, [name |-> name, type |-> type, only |-> only,
                                 at |-> IF name = NoName THEN 0 ELSE Len(suite_stack) + 1,
                                 depth |-> only_depth'])
    /\ UNCHANGED <<status, pending_tests, suite_hooks, history>>

\* What a describe that returns does beside its two table.remove.
Return ==
    LET last == frames[Len(frames)] IN
    /\ status = "loading" /\ frames # <<>>
    /\ only_depth' = IF last.only THEN only_depth - 1 ELSE only_depth
    /\ frames' = Removed(frames)
    /\ unnamed' = (unnamed \/ last.name = NoName)
    /\ robbed' = (frames' # <<>> /\ (robbed \/ last.name = NoName))
    /\ UNCHANGED <<status, pending_tests, suite_hooks, describes, caught, left>>

\* Mutants: describe_impl forgets to leave the suite, or the type.
EndDescribe_keeps_suite ==
    /\ Return
    /\ type_stack' = Removed(type_stack) /\ UNCHANGED suite_stack

EndDescribe_keeps_type ==
    /\ Return
    /\ suite_stack' = Removed(suite_stack) /\ UNCHANGED type_stack

\* fn returns: a name and a type are removed, whether any were added or not.
EndDescribe ==
    /\ Return
    /\ type_stack' = Removed(type_stack) /\ suite_stack' = Removed(suite_stack)

\* The blocks of fs that have a name.
Named(fs) == {i \in 1..Len(fs) : fs[i].name # NoName}

\* An error reaches the pcall of one of the functions under way (0 is the
\* file itself), or no pcall at all.
Unwind ==
    \/ /\ \E j \in 0..Len(frames) : frames' = SubSeq(frames, 1, j)
       /\ caught' = TRUE
       /\ left' = left + Cardinality(Named(frames)) - Cardinality(Named(frames'))
       /\ UNCHANGED status
    \/ /\ status' = "failed"
       /\ UNCHANGED <<frames, caught, left>>

\* Mutant: an error resets the stacks, as if no describe were under way.
Raise_resets ==
    /\ status = "loading"
    /\ Unwind
    /\ suite_stack' = <<>> /\ type_stack' = <<>> /\ only_depth' = 0
    /\ UNCHANGED <<pending_tests, suite_hooks, describes, unnamed, robbed>>

\* The file raises an error, or calls a test function with arguments that
\* the function refuses before it registers anything.
Raise ==
    /\ status = "loading"
    /\ Unwind
    /\ UNCHANGED <<stacks, pending_tests, suite_hooks, describes, unnamed, robbed>>

\* describe.only counts itself before describe_impl refuses its arguments.
DescribeOnlyRefused ==
    /\ status = "loading" /\ describes < MaxDescribes
    /\ describes' = describes + 1
    /\ only_depth' = only_depth + 1
    /\ Unwind
    /\ UNCHANGED <<suite_stack, type_stack, pending_tests, suite_hooks, unnamed, robbed>>
----------------------------------------------------------------------------
current_type == IF type_stack = <<>> THEN NoType ELSE type_stack[Len(type_stack)]

\* What register_test stores, and what a hook is stored under; as history, the
\* describe calls around it and what had gone by.
TestHere(mode) ==
    [mode |-> mode, stack |-> suite_stack, type |-> current_type,
     in_only_block |-> only_depth > 0, around |-> frames, clean |-> ~caught,
     left |-> left, unnamed |-> unnamed, robbed |-> robbed]

HookHere ==
    [stack |-> suite_stack, around |-> frames, clean |-> ~caught,
     left |-> left, unnamed |-> unnamed, robbed |-> robbed]

It(mode) ==
    /\ status = "loading" /\ Len(pending_tests) < MaxTests
    /\ pending_tests' = Append(pending_tests, TestHere(mode))
    /\ UNCHANGED <<status, frames, stacks, suite_hooks, describes, history>>

\* test.each registers a test per row, in order; a row with too few values
\* raises, and the rows before it stay registered.
Each(mode) ==
    /\ status = "loading"
    /\ \E rows \in 0..MaxRows :
         /\ Len(pending_tests) + rows <= MaxTests
         /\ pending_tests' = pending_tests \o [i \in 1..rows |-> TestHere(mode)]
    /\ Unwind \/ UNCHANGED <<status, frames, caught, left>>
    /\ UNCHANGED <<stacks, suite_hooks, describes, unnamed, robbed>>

\* beforeAll, beforeEach, afterEach and afterAll: each has a list of its own
\* in the suite suite_key(suite_stack), and which one does not matter here.
Hook ==
    /\ status = "loading" /\ Len(suite_hooks) < MaxHooks
    /\ suite_hooks' = Append(suite_hooks, HookHere)
    /\ UNCHANGED <<status, frames, stacks, pending_tests, describes, history>>

EndOfFile ==
    /\ status = "loading" /\ frames = <<>>
    /\ status' = "loaded"
    /\ UNCHANGED <<frames, stacks, pending_tests, suite_hooks, describes, history>>

Next ==
    \/ \E name \in Name \cup {NoName}, type \in Type \cup {NoType}, only \in BOOLEAN :
          Describe(name, type, only)
    \/ EndDescribe
    \/ Raise \/ DescribeOnlyRefused
    \/ \E mode \in Modes : It(mode) \/ Each(mode)
    \/ Hook
    \/ EndOfFile

Spec == Init /\ [][Next]_vars
----------------------------------------------------------------------------
(* The list a worker prints, and the tests it runs.                        *)

Marked(t) == t.mode = "only" \/ t.in_only_block

\* Mutant: the blocks are not looked at.
has_only_modes == \E i \in 1..Len(pending_tests) : pending_tests[i].mode = "only"

has_only == \E i \in 1..Len(pending_tests) : Marked(pending_tests[i])

\* The positions __teez_collect_all_tests returns when no filter is set.
Collected == {i \in 1..Len(pending_tests) : has_only => Marked(pending_tests[i])}
----------------------------------------------------------------------------
(* Properties.                                                             *)

Increasing(place) == \A i, j \in DOMAIN place : i < j => place[i] < place[j]
InOnly(fs) == \E i \in 1..Len(fs) : fs[i].only

Registered == {pending_tests[i] : i \in 1..Len(pending_tests)}
              \cup {suite_hooks[i] : i \in 1..Len(suite_hooks)}

Test == [mode : Modes, stack : Seq(Name), type : Type \cup {NoType},
         in_only_block : BOOLEAN, around : Seq(Frame), clean : BOOLEAN, left : Nat,
         unnamed : BOOLEAN, robbed : BOOLEAN]
HookEntry == [stack : Seq(Name), around : Seq(Frame), clean : BOOLEAN, left : Nat,
              unnamed : BOOLEAN, robbed : BOOLEAN]

\* The shape of the state; only_depth never goes below zero.
TypeOK ==
    /\ status \in {"loading", "loaded", "failed"} /\ describes \in Nat
    /\ caught \in BOOLEAN /\ left \in Nat /\ unnamed \in BOOLEAN /\ robbed \in BOOLEAN
    /\ frames \in Seq(Frame)
    /\ suite_stack \in Seq(Name) /\ type_stack \in Seq(Type) /\ only_depth \in Nat
    /\ pending_tests \in Seq(Test) /\ suite_hooks \in Seq(HookEntry)

\* As long as a file has caught no error, the suites of what it registers are
\* describe blocks it is written in, in order, and no block that was left
\* before.  They are all the blocks with a name, unless a block without a name
\* has returned inside one that is still under way: the name it took away is
\* missing until the outermost block ends, and no longer.
LexicalStack ==
    \A r \in Registered : r.clean =>
        \E place \in [1..Len(r.stack) -> Named(r.around)] :
            /\ Increasing(place)
            /\ \A i \in 1..Len(r.stack) : r.stack[i] = r.around[place[i]].name
            /\ ~r.robbed => Named(r.around) \subseteq {place[i] : i \in 1..Len(r.stack)}

\* Whatever errors a file has caught, as long as no block without a name has
\* returned: what it registers keeps the name of every describe block it is
\* written in, in order, and gets besides exactly as many names as there were
\* blocks that errors left, however many blocks have returned since.  An only
\* mark is kept in any case.
CaughtErrorsOnlyAdd ==
    /\ \A r \in Registered : ~r.unnamed =>
          /\ \E place \in [Named(r.around) -> 1..Len(r.stack)] :
                /\ Increasing(place)
                /\ \A i \in Named(r.around) : r.stack[place[i]] = r.around[i].name
          /\ Len(r.stack) = Cardinality(Named(r.around)) + r.left
    /\ \A i \in 1..Len(pending_tests) :
          InOnly(pending_tests[i].around) => pending_tests[i].in_only_block

\* As long as a file has caught no error, a test has the type of a block it
\* is written in, or none: a type never leaks to a test outside its block.
TypeFromEnclosing ==
    \A i \in 1..Len(pending_tests) : LET t == pending_tests[i] IN
        t.clean /\ t.type # NoType => \E j \in 1..Len(t.around) : t.around[j].type = t.type

\* When a file that caught no error is loaded, the tests that are listed and
\* run are those written as only or inside an only block, or all of them if
\* there is none.
FocusIsLexical ==
    LET Focused == {i \in 1..Len(pending_tests) :
                       pending_tests[i].mode = "only" \/ InOnly(pending_tests[i].around)}
    IN  status = "loaded" /\ ~caught =>
            Collected = IF Focused = {} THEN 1..Len(pending_tests) ELSE Focused

\* A test has the type of the innermost block around it that has one.
TypeOfInnermost ==
    \A i \in 1..Len(pending_tests) : LET t == pending_tests[i] IN
        t.clean =>
            \/ t.type = NoType /\ \A j \in 1..Len(t.around) : t.around[j].type = NoType
            \/ \E j \in 1..Len(t.around) :
                  /\ t.around[j].type = t.type
                  /\ \A k \in (j + 1)..Len(t.around) : t.around[k].type = NoType
============================================================================
