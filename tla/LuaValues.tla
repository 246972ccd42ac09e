----------------------------- MODULE LuaValues -----------------------------
(* A Lua value is a record: its type, and what it is compared by.  Tables  *)
(* have an identity beside their contents; v of any other value is text.   *)

Nil == [type |-> "nil", v |-> "nil"]
Boolean(v) == [type |-> "boolean", v |-> v]
Number(v) == [type |-> "number", v |-> v]      \* "nan" is not equal to itself
Text(v) == [type |-> "string", v |-> v]
Table(id, at) == [type |-> "table", id |-> id, at |-> at]

============================================================================
