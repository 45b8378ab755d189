----------------------------- MODULE MCMembership -----------------------------
(* Instances of Membership for TLC. *)
EXTENDS Membership, TLC

CONSTANTS d1, d2, d3

Pair == {d1, d2}
Trio == {d1, d2, d3}

\* Who may lose power, and how often.
Immortal == [d \in Device |-> 0]
OneMortal == [d \in Device |-> IF d = d3 THEN 1 ELSE 0]
SpeakerLasts == [d \in Device |-> IF d = Speaker THEN 0 ELSE 1]
AllMortal == [d \in Device |-> 1]

\* Which tasks send.
AllTalk == [d \in Device |-> {"REQUEST", "NOTICE"}]
SpeakerNotifies == [d \in Device |-> IF d = Speaker THEN {"NOTICE"} ELSE {}]
Silence == [d \in Device |-> {}]

\* All devices have booted and found each other.
Settled ==
  /\ up = [d \in Device |-> TRUE]
  /\ announced = [d \in Device |-> TRUE]
  /\ status = [d \in Device |->
                 [n \in Device |-> IF n = d THEN "NOT_INITIALIZED" ELSE "ACTIVE"]]
  /\ peers = [d \in Device |-> Others(d)]
  /\ error_count = [d \in Device |-> [n \in Device |-> 0]]
  /\ air = [d \in Device |-> [n \in Device |-> <<>>]]
  /\ queue = [d \in Device |-> <<>>]
  /\ overrun = [d \in Device |-> FALSE]
  /\ crashes = [d \in Device |-> 0]

SettledFairSpec == Settled /\ [][Next]_vars /\ Fairness
===============================================================================
