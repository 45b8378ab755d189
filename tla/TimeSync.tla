------------------------------- MODULE TimeSync -------------------------------
(***************************************************************************)
(* The time of the distributed system, as the firmware of the buttons      *)
(* keeps it (code/dynamic-neighbors/main/rafting-button.c): every MASTER   *)
(* measures the round trips and sends the time, whoever receives TIME      *)
(* takes it over and becomes SLAVE, and an edge of the button is stamped   *)
(* with get_time().                                                        *)
(*                                                                         *)
(* Who becomes MASTER is left open here: module Election decides it.       *)
(* Every other device is taken to be an ACTIVE neighbour.                  *)
(***************************************************************************)
EXTENDS Clocks

CONSTANTS
  Starts,      \* bound: when the devices have been switched on
  MaxFrames,   \* bound: a task sends while there are fewer under way
  MaxReigns,   \* bound: how often a device becomes MASTER
  Overlap,     \* bound: whether another device may be MASTER then
  MaxFailures, \* bound: power failures
  MaxPresses   \* bound: edges of all buttons

ASSUME StartsAssumption == Starts \subseteq [Device -> Int]
ASSUME BoundsAssumption ==
  /\ MaxFrames \in Nat /\ MaxReigns \in Nat /\ Overlap \in BOOLEAN
  /\ MaxFailures \in Nat /\ MaxPresses \in Nat

VARIABLES
  title,     \* node.title
  reigns,    \* history: the starts of the timers of those who led, in order
  failures,  \* how much of MaxFailures has been used
  presses    \* history: the edges, with real time and timestamp

sessionVars == <<title, reigns, failures, presses>>
vars == <<clocksVars, sessionVars>>

\* There is room for another frame.
Room(d) == Cardinality(air) < MaxFrames /\ Len(queue[d]) < MaxFrames

-------------------------------------------------------------------------------
Init ==
  /\ ClocksInit(Starts)
  /\ title = [d \in Device |-> "SLAVE"]
  /\ reigns = <<>>
  /\ failures = 0
  /\ presses = {}

\* A majority has voted for d.
Elected(d) ==
  /\ up[d]
  /\ title[d] = "SLAVE"
  /\ Len(reigns) < MaxReigns
  /\ Overlap \/ \A m \in Device : title[m] = "SLAVE"
  /\ title' = [title EXCEPT ![d] = "MASTER"]
  /\ reigns' = Append(reigns, boot[d])
  /\ UNCHANGED <<clocksVars, failures, presses>>

\* send_rtt_cal_master_task, one round of its inner loop
Calibrate(d, r) ==
  /\ title[d] = "MASTER"
  /\ Room(r)
  /\ SendRttCal(d, r)
  /\ UNCHANGED sessionVars

\* send_time_task, one round of its inner loop: the timer, not get_time().
Announce(d, r) ==
  /\ title[d] = "MASTER"
  /\ Room(r)
  /\ SendTime(d, r, Timer(d))
  /\ UNCHANGED sessionVars

\* case TIME: the clock and the title
Follow(d) ==
  /\ TakeOverTime(d)
  /\ title' = [title EXCEPT ![d] = "SLAVE"]
  /\ UNCHANGED <<reigns, failures, presses>>

\* The other cases about time
Measure(d) ==
  /\ AnswerRtt(d) \/ ReturnRtt(d) \/ SaveRtt(d)
  /\ UNCHANGED sessionVars

Transmission(f) == (Arrive(f) \/ Lose(f)) /\ UNCHANGED sessionVars

\* Whose timestamps count: the leader's and those of synced devices, unless 32 bits
\* have taken a whole turn, or more, for nothing.
Fair(d) ==
  /\ up[d]
  /\ \/ title[d] = "MASTER"
     \/ synced[d] /\ Distance(Offset(d, reigns[1])) < Int32Limit

\* gpio_handler_isr; the history keeps what counts.
Press(d) ==
  /\ Fair(d)
  /\ Cardinality(presses) < MaxPresses
  /\ presses' = presses \union {[at |-> now, timestamp |-> get_time(d)]}
  /\ UNCHANGED <<clocksVars, title, reigns, failures>>

Fail(d) ==
  /\ failures < MaxFailures
  /\ PowerLoss(d)
  /\ failures' = failures + 1
  /\ title' = [title EXCEPT ![d] = "SLAVE"]
  /\ UNCHANGED <<reigns, presses>>

Return(d) == Boot(d) /\ UNCHANGED sessionVars

Passing == Tick /\ UNCHANGED sessionVars

Next ==
  \/ \E d \in Device : Elected(d) \/ Follow(d) \/ Measure(d) \/ Press(d)
  \/ \E d \in Device : Fail(d) \/ Return(d)
  \/ \E d \in Device : \E r \in Device \ {d} : Calibrate(d, r) \/ Announce(d, r)
  \/ \E f \in air : Transmission(f)
  \/ Passing

Spec == Init /\ [][Next]_vars

-------------------------------------------------------------------------------
(* Properties *)

TypeOK ==
  /\ now \in 0 .. Horizon
  /\ up \in [Device -> BOOLEAN]
  /\ boot \in [Device -> Int]
  /\ corr \in [Device -> Int]
  /\ synced \in [Device -> BOOLEAN]
  /\ fresh \in [Device -> BOOLEAN]
  /\ ring \in [Device -> [Slots -> Nat]]
  /\ index \in [Device -> Slots]
  /\ queue \in [Device -> Seq(Entry)]
  /\ air \subseteq Frame
  /\ title \in [Device -> {"MASTER", "SLAVE"}]
  /\ reigns \in Seq(Int)
  /\ failures \in Nat

\* Half a round trip, with the wait at the other end.
PossibleRtt == MinDelay .. MaxDelay + MaxWait \div 2

\* rtt_balancer holds nothing but halves of round trips that took place, also
\* while leaders change and devices restart: no answer to an earlier life, whose
\* unsigned difference would be astronomical.
RttMeasured ==
  \A d \in Device : ~fresh[d] => \A k \in Slots : ring[d][k] \in PossibleRtt

\* Taking over a time never takes a clock further from it than it was, or than
\* the error of the measurement, whichever sender the frame is from and whatever
\* its distance; a step may do so only where 32 bits do not tell the direction.
NeverWorse ==
  [][\A d \in Device : Follow(d) =>
       \A origin \in {Head(queue[d]).frame.origin} :
         \/ Distance(Offset(d, origin)') <= Error(d)
         \/ Distance(Offset(d, origin)') <= Distance(Offset(d, origin))
         \/ synced[d]' /\ ~Tellable(d, Offset(d, origin))]_vars

\* A synced clock comes nearer by exactly one step with every TIME, as far as 32
\* bits show how far it is off: by more than the error and a step, and not by
\* nearly half a turn.  So a clock less than 2^31 us away approaches the sender's.
Approaches ==
  [][\A d \in Device : Follow(d) /\ synced[d] =>
       \A origin \in {Head(queue[d]).frame.origin} :
         /\ Distance(Int32(Offset(d, origin))) > Error(d) + DeviationMax
         /\ Tellable(d, Int32(Offset(d, origin)))
         => /\ Distance(Int32(Offset(d, origin))') =
                 Distance(Int32(Offset(d, origin))) - DeviationMax
            /\ Tellable(d, Offset(d, origin)) =>
                 Distance(Offset(d, origin)') =
                   Distance(Offset(d, origin)) - DeviationMax]_vars

\* How far a clock is off when the code takes it for synced.
SyncError == DeviationLimit - 1 + MaxDelay + MaxWait

\* As long as one device has led, is_time_synced means what 32 bits can say: the
\* clock is off by less than the limit and the error of the measurement, or by
\* that much from a whole number of turns.
SyncedToLimit ==
  \A d \in Device : synced[d] /\ Len(reigns) = 1 =>
    Distance(Int32(Offset(d, reigns[1]))) <= SyncError

\* Under one leader a press that comes later than another one by more than two
\* synced clocks can differ has the later timestamp, whatever the devices: the
\* logs, sorted by timestamp, tell who was first.
FairOrder ==
  Len(reigns) = 1 =>
    \A p \in presses : \A d \in Device :
      Fair(d) /\ now > p.at + 2 * SyncError
        => p.timestamp < get_time(d)

\* The time of the distributed system is one (thesis, 05_algoritmus.tex): a
\* synced device and the leader it follows agree on it.
OneTime ==
  \A d, m \in Device :
    title[d] = "SLAVE" /\ synced[d] /\ title[m] = "MASTER" /\ up[m]
      => Distance(get_time(d) - get_time(m)) <= SyncError
===============================================================================
