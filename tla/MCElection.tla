------------------------------ MODULE MCElection ------------------------------
(* Instances of Election for TLC. *)
EXTENDS Election

CONSTANTS d1, d2

Pair == {d1, d2}

\* All devices have registered with each other before the run begins.
Registered ==
  /\ Init
  /\ active = [d \in Device |-> Neighbours(d)]

MCSpec == Registered /\ [][Next]_vars
MCFairSpec == MCSpec /\ Fairness
===============================================================================
