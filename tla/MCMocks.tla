------------------------------ MODULE MCMocks ------------------------------
(* Two workers with mock files and snapshots; or two workers, of which     *)
(* each can create two mock binaries, and their calls.  Both draw          *)
(* directories from a counter of the process, each from its own, and share *)
(* no state: a behaviour is one of Files or one of MockBinary.             *)
EXTENDS Files, MockBinary, TLC

CONSTANTS x, y, e, i, k

KeptOf == [t \in {e} |-> y]
Lists == {<<>>, <<x, e>>, <<i>>, <<k>>}

\* Two paths with the same leaf and one that cannot be opened; two snapshot
\* names that are one file, and a third.
SomePaths == {"x", "sub/x", "dir/"}
Leaves == [p \in SomePaths |-> IF p = "dir/" THEN "" ELSE "x"]
Names == {"a/b", "a:b", "c"}
Keys == [n \in Names |-> IF n = "c" THEN "c.snap" ELSE "a_b.snap"]

\* Neither part starts where the other one's choices differ.
NoFiles == Init /\ update = [w \in Worker |-> FALSE]
NoBinaries ==
    /\ mocks = [w \in Owner |-> <<>>]
    /\ log = [d \in Directory |-> <<>>]

MCInit == Init /\ BinaryInit /\ (NoBinaries \/ update = [w \in Worker |-> FALSE])

MCNext ==
    \/ NoBinaries /\ Next /\ UNCHANGED binaryVars
    \/ NoFiles /\ BinaryNext /\ UNCHANGED vars

MCSpec == MCInit /\ [][MCNext]_<<vars, binaryVars>>

Symmetric == Permutations(Worker) \cup Permutations(Call)
============================================================================
