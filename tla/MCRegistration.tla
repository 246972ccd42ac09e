--------------------------- MODULE MCRegistration ---------------------------
(* Small files for the runs of Registration: those with a third describe   *)
(* have one test, no hook, and blocks of one type at a time.               *)
EXTENDS Registration, TLC

\* Names and types are only compared.
Symmetric == Permutations(Name) \cup Permutations(Type)

TypesInUse == {frames[i].type : i \in 1..Len(frames)} \cup {type_stack[i] : i \in 1..Len(type_stack)}

Small ==
    describes = 3 => /\ Len(pending_tests) <= 1 /\ suite_hooks = <<>>
                     /\ Cardinality(TypesInUse \ {NoType}) <= 1

MCSpec == Init /\ [][Next /\ Small']_vars
============================================================================
