---------------------------- MODULE MCMockHttp ----------------------------
(* Two targets, the first with two requests.                               *)
EXTENDS MockHttp

CONSTANTS r1, r2, r3, a, b

Targets == [r \in Request |-> IF r = r3 THEN b ELSE a]
============================================================================
