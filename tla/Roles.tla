-------------------------------- MODULE Roles --------------------------------
(***************************************************************************)
(* What leader election promises about the role of each single device: the *)
(* role diagram of the algorithm, without messages, epochs or tasks.       *)
(* A device becomes MASTER only as a CANDIDATE that some other device has  *)
(* answered, and a MASTER becomes CANDIDATE again only by way of SLAVE.    *)
(***************************************************************************)

CONSTANT Device

VARIABLES
  role,      \* SLAVE, CANDIDATE or MASTER
  answered   \* another device has answered the latest campaign

vars == <<role, answered>>

Init ==
  /\ role = [d \in Device |-> "SLAVE"]
  /\ answered = [d \in Device |-> FALSE]

\* A follower opens a campaign nobody has answered yet.
Campaign(d) ==
  /\ role[d] = "SLAVE"
  /\ role' = [role EXCEPT ![d] = "CANDIDATE"]
  /\ answered' = [answered EXCEPT ![d] = FALSE]

\* An answer that does not decide the campaign.
Answer(d) ==
  /\ role[d] = "CANDIDATE"
  /\ answered' = [answered EXCEPT ![d] = TRUE]
  /\ UNCHANGED role

\* The deciding answer.
Win(d) ==
  /\ role[d] = "CANDIDATE"
  /\ role' = [role EXCEPT ![d] = "MASTER"]
  /\ answered' = [answered EXCEPT ![d] = TRUE]

\* A lost campaign, another leader heard of, or a restart.
Retreat(d) ==
  /\ role' = [role EXCEPT ![d] = "SLAVE"]
  /\ \E a \in BOOLEAN : answered' = [answered EXCEPT ![d] = a]

Next == \E d \in Device : Campaign(d) \/ Answer(d) \/ Win(d) \/ Retreat(d)

Spec == Init /\ [][Next]_vars

-------------------------------------------------------------------------------

TypeOK ==
  /\ role \in [Device -> {"SLAVE", "CANDIDATE", "MASTER"}]
  /\ answered \in [Device -> BOOLEAN]

\* Whoever leads has been answered by somebody: a device nobody hears does not
\* make itself MASTER.
NobodyLeadsAlone == \A d \in Device : role[d] = "MASTER" => answered[d]
===============================================================================
