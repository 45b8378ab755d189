------------------------------ MODULE MCEventLog -----------------------------
(* Instances of EventLog for TLC. *)
EXTENDS EventLog

CONSTANTS d1, d2

Pair == {d1, d2}
Twice == {1, 2}
PushOnly == {"PUSH"}
Both == {"PUSH", "RESET"}
===============================================================================
