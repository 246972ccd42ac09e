---------------------------- MODULE MCAssertions ----------------------------
(* A test either calls the assertions that call Lua code (Assertions) or   *)
(* states one expectation or assertion about values (Expect): the two      *)
(* share no state, and a behaviour is one of the first or one of the       *)
(* second.  Tests that have made a capture have less time, and compare     *)
(* nothing.                                                                *)
EXTENDS Assertions

CONSTANTS Values, Results, Paths, Mocks, CallArgs, Spell, MaxNots

VARIABLES pc, made, given, actual, negated, nots, asked, result

expectVars == <<pc, made, given, actual, negated, nots, asked, result>>

Some == INSTANCE MCExpect

SomeValues == Some!SomeValues
SomeResults == Some!SomeResults
SomePaths == Some!SomePaths
SomeMocks == Some!SomeMocks
Args == Some!Args
Spelling == Some!Spelling

Matchers == INSTANCE Expect

MCInit == Init /\ Matchers!Init

Captured ==
    exists => /\ clock <= 2
              /\ \A i \in 1..Len(frames) : frames[i].fn \in {"poll", "capture", "throws"}

MCNext ==
    \/ calls = 0 /\ Matchers!Next /\ UNCHANGED vars
    \/ pc = "start" /\ Next /\ Captured' /\ UNCHANGED expectVars

MCSpec == MCInit /\ [][MCNext]_<<vars, expectVars>>

EqualIsDeep == Matchers!EqualIsDeep
MatchersAgree == Matchers!MatchersAgree
AssertionsAgree == Matchers!AssertionsAgree
============================================================================
