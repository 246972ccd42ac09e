---------------------------- MODULE HttpService ----------------------------
(***************************************************************************)
(* What a test may rely on of a mock HTTP server or proxy: requests are    *)
(* served one at a time, each is logged and gets the answer of the first   *)
(* route for its target among the routes configured at that moment.        *)
(***************************************************************************)
EXTENDS Naturals, Sequences

CONSTANTS Request, Target, Response, TargetOf, NotFound, Unanswered

VARIABLES
    log,        \* the requests in the order they were served
    routes,     \* the configured routes, oldest first
    reply       \* the answer of each request

vars == <<log, routes, reply>>

Matches(table, t) == {i \in 1..Len(table) : table[i].target = t}

\* The answer a table of routes has for a target.
Lookup(table, t) ==
    IF Matches(table, t) = {} THEN NotFound
    ELSE table[CHOOSE i \in Matches(table, t) : \A j \in Matches(table, t) : i <= j].response

Init ==
    /\ log = <<>> /\ routes = <<>>
    /\ reply = [r \in Request |-> Unanswered]

AddRoute ==
    /\ \E t \in Target, x \in Response : routes' = Append(routes, [target |-> t, response |-> x])
    /\ UNCHANGED <<log, reply>>

Serve(r) ==
    /\ reply[r] = Unanswered
    /\ log' = Append(log, r)
    /\ reply' = [reply EXCEPT ![r] = Lookup(routes, TargetOf[r])]
    /\ UNCHANGED routes

Next == AddRoute \/ \E r \in Request : Serve(r)

Spec == Init /\ [][Next]_vars
============================================================================
