------------------------------ MODULE MCTimeSync ------------------------------
(* Instances of TimeSync for TLC. *)
EXTENDS TimeSync

CONSTANTS d1, d2

Pair == {d1, d2}
\* d2 has been switched on before d1: by less than half a turn of 32 bits, or by
\* nearly a whole one.
Apart == {[d \in Pair |-> IF d = d1 THEN 0 ELSE -5]}
TurnApart == Apart \union {[d \in Pair |-> IF d = d1 THEN 0 ELSE -15]}
===============================================================================
