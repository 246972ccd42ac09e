----------------------------- MODULE MockBinary -----------------------------
(***************************************************************************)
(* Mock binaries (src/mock_binary.cpp): a worker creates a directory with  *)
(* a shell script in it, the programs under test call the script, every    *)
(* call appends itself to calls.log piece by piece, and get_calls reads    *)
(* the log back.  Calls run concurrently and may be killed; workers count  *)
(* their mocks from one, so that two workers name the same directories.    *)
(*                                                                         *)
(* The log is a sequence of tokens, what one printf of the script writes   *)
(* being one append of one or more of them: "[", ",", "]", a newline, the  *)
(* text of an argument, or Garbage for text that is no JSON string.        *)
(***************************************************************************)
EXTENDS Naturals, Sequences, Functions, FiniteSets

CONSTANTS
    Owner,      \* worker processes
    Call,       \* calls of mocks, each made once
    Arg,        \* arguments that are logged as they are
    Trailing,   \* arguments that end in newlines, which $(...) drops
    Inner,      \* arguments with a newline inside
    Control,    \* arguments with a control character or no UTF-8
    Kept,       \* what is left of an argument in Trailing
    MaxBinaries, \* bound on the mocks of a worker
    Args,       \* the argument lists of calls
    NL, Garbage

Brackets == {"[", ",", "]"}

ASSUME MockBinaryAssumption ==
    /\ Kept \in [Trailing -> Arg] /\ MaxBinaries \in Nat
    /\ Args \subseteq Seq(Arg \cup Trailing \cup Inner \cup Control)
    /\ Arg \cap (Trailing \cup Inner \cup Control) = {}
    /\ Trailing \cap (Inner \cup Control) = {} /\ Inner \cap Control = {}
    /\ (Arg \cup Brackets) \cap {NL, Garbage} = {} /\ Arg \cap Brackets = {} /\ NL # Garbage

VARIABLES
    mocks,      \* the directories of a worker's mocks, in order
    log,        \* calls.log of a directory
    call,       \* how far a call has got
    begun,      \* history: the calls of a mock that have written anything, in order
    mixed       \* history: the mocks two of whose calls were under way at once

binaryVars == <<mocks, log, call, begun, mixed>>

Directory == 1..MaxBinaries
Mock == Owner \X Directory

None == [state |-> "none"]

\* Earlier runs may have left directories, with logs that were not finished.
BinaryInit ==
    /\ mocks = [w \in Owner |-> <<>>]
    /\ log \in [Directory -> {<<>>, <<"[">>}]
    /\ call = [c \in Call |-> None]
    /\ begun = [mock \in Mock |-> <<>>] /\ mixed = {}
----------------------------------------------------------------------------
\* The counter names the directory; its log is truncated.
create_mock_binary(w) ==
    /\ Len(mocks[w]) < MaxBinaries
    /\ mocks' = [mocks EXCEPT ![w] = Append(@, Len(@) + 1)]
    /\ log' = [log EXCEPT ![Len(mocks[w]) + 1] = <<>>]
    /\ UNCHANGED <<call, begun, mixed>>

(* The script.                                                             *)

Directory_of(mock) == mocks[mock[1]][mock[2]]

Write(c, tokens) ==
    log' = [log EXCEPT ![Directory_of(call[c].mock)] = @ \o tokens]

Running(c) == call[c].state \in {"next", "comma"}

\* The program under test runs the mock; printf '['.
Begin(c, mock, args) ==
    /\ call[c] = None /\ mock[2] <= Len(mocks[mock[1]])
    /\ call' = [call EXCEPT ![c] = [state |-> "next", mock |-> mock, args |-> args, done |-> 0]]
    /\ log' = [log EXCEPT ![Directory_of(mock)] = Append(@, "[")]
    /\ begun' = [begun EXCEPT ![mock] = Append(@, c)]
    /\ mixed' = IF \E d \in Call : Running(d) /\ call[d].mock = mock
                THEN mixed \cup {mock} ELSE mixed
    /\ UNCHANGED mocks

\* What printf '"%s"' "$escaped" writes.
Logged(arg) ==
    CASE arg \in Arg      -> <<arg>>
      [] arg \in Trailing -> <<Kept[arg]>>
      [] arg \in Inner    -> <<Garbage, NL, Garbage>>
      [] arg \in Control  -> <<Garbage>>

\* Mutant: first is never reset.
Comma_never(c) ==
    /\ call[c].state = "next" /\ call[c].done \in 1..(Len(call[c].args) - 1)
    /\ call' = [call EXCEPT ![c].state = "comma"]
    /\ UNCHANGED <<mocks, log, begun, mixed>>

\* printf ',' between two arguments.
Comma(c) ==
    /\ call[c].state = "next" /\ call[c].done \in 1..(Len(call[c].args) - 1)
    /\ call' = [call EXCEPT ![c].state = "comma"]
    /\ Write(c, <<",">>)
    /\ UNCHANGED <<mocks, begun, mixed>>

Argument(c) ==
    /\ \/ call[c].state = "comma"
       \/ call[c].state = "next" /\ call[c].done = 0 /\ call[c].args # <<>>
    /\ call' = [call EXCEPT ![c].state = "next", ![c].done = @ + 1]
    /\ Write(c, Logged(call[c].args[call[c].done + 1]))
    /\ UNCHANGED <<mocks, begun, mixed>>

\* printf ']\n'
Close(c) ==
    /\ call[c].state = "next" /\ call[c].done = Len(call[c].args)
    /\ call' = [call EXCEPT ![c].state = "done"]
    /\ Write(c, <<"]", NL>>)
    /\ UNCHANGED <<mocks, begun, mixed>>

\* The test, a timeout or the program under test kills the script.
Kill(c) ==
    /\ Running(c)
    /\ call' = [call EXCEPT ![c].state = "killed"]
    /\ UNCHANGED <<mocks, log, begun, mixed>>

BinaryNext ==
    \/ \E w \in Owner : create_mock_binary(w)
    \/ \E c \in Call :
          \/ \E mock \in Mock, args \in Args : Begin(c, mock, args)
          \/ Comma(c) \/ Argument(c) \/ Close(c) \/ Kill(c)

BinarySpec == BinaryInit /\ [][BinaryNext]_binaryVars
----------------------------------------------------------------------------
(* read_mock_calls.  It changes nothing and can be called in any state.    *)

\* The lines that std::getline returns and that are not empty, as the places
\* where they begin and end.  The last one need not be complete.
IsLine(l, a, b) ==
    /\ a <= b /\ \A k \in a..b : l[k] # NL
    /\ a = 1 \/ l[a - 1] = NL
    /\ b = Len(l) \/ l[b + 1] = NL

Lines(l) == {line \in (1..Len(l)) \X (1..Len(l)) : IsLine(l, line[1], line[2])}
TextOf(l, line) == SubSeq(l, line[1], line[2])

Nth(lines, n) == CHOOSE line \in lines : Cardinality({m \in lines : m[1] < line[1]}) = n - 1

\* An array of n strings.
IsArrayOf(text, n) ==
    /\ Len(text) = IF n = 0 THEN 2 ELSE 2 * n + 1
    /\ text[1] = "[" /\ text[Len(text)] = "]"
    /\ \A k \in 1..n : text[2 * k] \in Arg
    /\ \A k \in 1..(n - 1) : text[2 * k + 1] = ","

\* Mutant: the array begins at some bracket of the line.
IsArray_from_last(text) ==
    \E b \in 1..Len(text), n \in 0..Len(text) : IsArrayOf(SubSeq(text, b, Len(text)), n)

\* nlohmann::json::parse accepts the line: an array of strings.
IsArray(text) == \E n \in 0..Len(text) : IsArrayOf(text, n)

Strings(text) == [k \in 1..((Len(text) - 1) \div 2) |-> text[2 * k]]

Raised == [raised |-> TRUE]
Returned(l, lines) ==
    [raised |-> FALSE,
     calls |-> [n \in 1..Cardinality(lines) |-> Strings(TextOf(l, Nth(lines, n)))]]

\* Mutant: lines that are no array are left out.
read_mock_calls_skips(l) == Returned(l, {line \in Lines(l) : IsArray(TextOf(l, line))})

read_mock_calls(l) ==
    IF \A line \in Lines(l) : IsArray(TextOf(l, line)) THEN Returned(l, Lines(l)) ELSE Raised
----------------------------------------------------------------------------
(* Properties.                                                             *)

\* No other mock has the directory of this one; another worker's may.
Sole(mock) ==
    /\ mock[2] <= Len(mocks[mock[1]])
    /\ \A w \in Owner \ {mock[1]} : \A i \in 1..Len(mocks[w]) :
          mocks[w][i] # Directory_of(mock)

get_calls(mock) == read_mock_calls(log[Directory_of(mock)])

Shown(args) == [i \in 1..Len(args) |-> IF args[i] \in Trailing THEN Kept[args[i]] ELSE args[i]]

\* At any moment get_calls of a mock whose directory no other worker shares
\* raises, or returns the calls of this mock, every one of them, in order and
\* with its arguments up to trailing newlines: calls that are under way, were
\* killed or got mixed up are never returned in part, nor left out, and what
\* earlier runs and other mocks of the worker have logged is not returned.
ReadHonest ==
    \A mock \in Mock : Sole(mock) /\ ~get_calls(mock).raised =>
        LET calls == begun[mock] IN
        /\ get_calls(mock).calls = [i \in 1..Len(calls) |-> Shown(call[calls[i]].args)]
        /\ \A i \in 1..Len(calls) : call[calls[i]].state = "done"

\* After calls that came one at a time, were not killed and had arguments
\* without control characters, get_calls does not raise.
OrderlyCallsRead ==
    \A mock \in Mock :
        /\ Sole(mock) /\ mock \notin mixed
        /\ \A i \in 1..Len(begun[mock]) : LET c == call[begun[mock][i]] IN
              c.state = "done" /\ Range(c.args) \subseteq Arg \cup Trailing
        => ~get_calls(mock).raised

\* Once two calls of a mock have overlapped, get_calls raises for good.
OverlapNoticed == \A mock \in mixed : Sole(mock) => get_calls(mock).raised
============================================================================
