------------------------------ MODULE Simulation ------------------------------
(***************************************************************************)
(* The simulation of the time synchronisation (code/simulation): nodes     *)
(* whose clocks drift, a pipe per sender that holds its messages back for  *)
(* their latency, a queue per receiver, and in every round the phases of   *)
(* the loop of main, node after node.                                      *)
(***************************************************************************)
EXTENDS Integers, Sequences, SequencesExt

CONSTANTS
  NodesCount,       \* simulation->nodes_count; node 0 is the MASTER
  BalancerSize,     \* BALANCER_SIZE_RTT
  DeviationMax,     \* DEVIATION_MAX_CONSTATN
  MinLatency, MaxLatency,   \* what get_rnd_between chooses a latency from
  RttPeriod,        \* rounds between two RTT synchronisations, 100000
  TimePeriod,       \* rounds between two TIME synchronisations, 500000
  DriftPeriod,      \* of each node: rounds between jumps of its clock, 1000 * cpu_drift
  StartTime,        \* the time of the slaves' clocks at the start
  Deadline          \* simulation->deadline, below 2^32

Node == 0 .. NodesCount - 1
Slave == Node \ {0}
Slots == 0 .. BalancerSize - 1

VARIABLES
  time,           \* simulation->time, the round
  phase,          \* the loop over the nodes that is running
  turn,           \* its counter
  clock,          \* Ni.time
  pipe,           \* the list from Ni.pipe_head
  queue,          \* the list from Ni.queue_head
  fresh,          \* Ni.is_first_setup_rtt
  ring,           \* Ni.balancer_RTT
  rtt_index,      \* Ni.rtt_index
  first,          \* Ni.is_first_setup_deviation
  deviation_avg   \* Ni.deviation_avg

rttVars == <<fresh, ring, rtt_index>>
slaveVars == <<rttVars, first, deviation_avg>>
vars == <<time, phase, turn, clock, pipe, queue, slaveVars>>

Latency == MinLatency .. MaxLatency

Phases == <<"clock", "pipe", "machine", "rtt", "time">>
FollowUp == [p \in ToSet(Phases) |->
               IF p = "time" THEN "clock"
               ELSE Phases[1 + CHOOSE k \in 1 .. 4 : Phases[k] = p]]

\* The loop over the nodes goes on, or the next loop begins.
NextNode ==
  /\ turn' = (turn + 1) % NodesCount
  /\ phase' = IF turn + 1 = NodesCount THEN FollowUp[phase] ELSE phase

\* The status machine and the reports read the mean.
get_rtt_avg(n) ==
  LET rtt[i \in 0 .. BalancerSize] == IF i = 0 THEN 0 ELSE rtt[i - 1] + ring[n][i - 1]
  IN  rtt[BalancerSize] \div BalancerSize

\* Faulty variant: appended, whatever its latency.
PushedLast(list, m) == Append(list, m)

\* push_to_pipe: before the head, or behind those that leave earlier.
Pushed(list, m) ==
  LET at == IF list = <<>> \/ Head(list).latency > m.latency THEN 1
            ELSE CHOOSE k \in 2 .. Len(list) + 1 :
                   /\ k <= Len(list) => list[k].latency >= m.latency
                   /\ \A l \in 2 .. k - 1 : list[l].latency < m.latency
  IN  InsertAt(list, at, m)

\* send_message
Message(type, source, target, content, latency) ==
  [type |-> type, source |-> source, target |-> target, content |-> content,
   latency |-> time + latency]

-------------------------------------------------------------------------------
Init ==
  /\ time = 0 /\ phase = "clock" /\ turn = 0
  /\ clock = [n \in Node |-> IF n = 0 THEN 0 ELSE StartTime]
  /\ pipe = [n \in Node |-> <<>>]
  /\ queue = [n \in Node |-> <<>>]
  /\ fresh = [n \in Node |-> n # 0]
  /\ ring = [n \in Node |-> [k \in Slots |-> 0]]
  /\ rtt_index = [n \in Node |-> 0]
  /\ first = [n \in Node |-> TRUE]
  /\ deviation_avg = [n \in Node |-> 0]

\* The clock runs, and drifts from time to time.
Advance ==
  /\ phase = "clock" /\ time < Deadline
  /\ \E drift \in IF time % DriftPeriod[turn] = 0 THEN {-1, 1} ELSE {0} :
       clock' = [clock EXCEPT ![turn] = @ + 1 + drift]
  /\ NextNode
  /\ UNCHANGED <<time, pipe, queue, slaveVars>>

\* The head of the pipe is to leave it.
Due == pipe[turn] # <<>> /\ Head(pipe[turn]).latency <= time

\* pop_from_pipe_to_queue
PopFromPipe ==
  /\ phase = "pipe" /\ Due
  /\ pipe' = [pipe EXCEPT ![turn] = Tail(@)]
  /\ queue' = [queue EXCEPT ![Head(pipe[turn]).target] = Append(@, Head(pipe[turn]))]
  /\ UNCHANGED <<time, phase, turn, clock, slaveVars>>

\* process_pipe has moved all that is due.
EndPipe ==
  /\ phase = "pipe" /\ ~Due
  /\ NextNode
  /\ UNCHANGED <<time, clock, pipe, queue, slaveVars>>

\* The status machine of a node whose queue is empty
EndMachine ==
  /\ phase = "machine" /\ queue[turn] = <<>>
  /\ NextNode
  /\ UNCHANGED <<time, clock, pipe, queue, slaveVars>>

Popped(type) ==
  /\ phase = "machine" /\ queue[turn] # <<>>
  /\ Head(queue[turn]).type = type
  /\ queue' = [queue EXCEPT ![turn] = Tail(@)]
  /\ UNCHANGED <<time, phase, turn>>

Answer(type, content) ==
  \E latency \in Latency :
    pipe' = [pipe EXCEPT ![turn] = Pushed(@,
      Message(type, turn, Head(queue[turn]).source, content, latency))]

\* RTT_CAL at a slave goes back, at the master it yields half the round trip.
AnswerRtt ==
  LET content == Head(queue[turn]).content IN
  /\ Popped("RTT_CAL")
  /\ \/ turn # 0 /\ Answer("RTT_CAL", content)
     \/ turn = 0 /\ Answer("RTT_VAL", (clock[turn] - content) \div 2)
  /\ UNCHANGED <<clock, slaveVars>>

\* RTT_VAL
SaveRtt ==
  LET content == Head(queue[turn]).content IN
  /\ Popped("RTT_VAL") /\ turn # 0
  /\ fresh' = [fresh EXCEPT ![turn] = FALSE]
  /\ \/ /\ fresh[turn]
        /\ ring' = [ring EXCEPT ![turn] = [k \in Slots |-> content]]
        /\ UNCHANGED rtt_index
     \/ /\ ~fresh[turn]
        /\ ring' = [ring EXCEPT ![turn][rtt_index[turn]] = content]
        /\ rtt_index' = [rtt_index EXCEPT ![turn] = (@ + 1) % BalancerSize]
  /\ UNCHANGED <<clock, pipe, first, deviation_avg>>

\* Division of C: towards zero.
Half(x) == IF x < 0 THEN -((-x) \div 2) ELSE x \div 2

\* O~: the first deviation, then the mean of the old and the new one.
Deviation(n, content) ==
  LET new == clock[n] - content - get_rtt_avg(n)
  IN  IF first[n] THEN new ELSE Half(deviation_avg[n] + new)

\* Faulty variant: the deviation is kept whatever its size.
Unclamped(x) == x

Clamped(x) ==
  IF x > DeviationMax THEN DeviationMax
  ELSE IF x < -DeviationMax THEN -DeviationMax
  ELSE x

\* TIME: the clock is set to the master's, but for the clamped deviation.
TakeOverTime ==
  LET content == Head(queue[turn]).content
      deviation == Deviation(turn, content)
  IN
  /\ Popped("TIME") /\ turn # 0
  /\ deviation_avg' = [deviation_avg EXCEPT ![turn] = deviation]
  /\ first' = [first EXCEPT ![turn] = FALSE]
  /\ clock' = [clock EXCEPT ![turn] =
                 content + get_rtt_avg(turn) + Clamped(deviation)]
  /\ UNCHANGED <<pipe, rttVars>>

\* The master's messages to the slaves, each with that slave's latency
SendToSlave(type) ==
  /\ turn # 0
  /\ \E latency \in Latency :
       pipe' = [pipe EXCEPT ![0] =
                  Pushed(@, Message(type, 0, turn, clock[0], latency))]

StartRtt ==
  /\ phase = "rtt"
  /\ IF time % RttPeriod = 0 /\ turn # 0 THEN SendToSlave("RTT_CAL")
     ELSE UNCHANGED pipe
  /\ NextNode
  /\ UNCHANGED <<time, clock, queue, slaveVars>>

\* The round ends with the last slave.
StartTimeSync ==
  /\ phase = "time"
  /\ IF time % TimePeriod = TimePeriod - 1 /\ turn # 0 THEN SendToSlave("TIME")
     ELSE UNCHANGED pipe
  /\ NextNode
  /\ time' = IF turn + 1 = NodesCount THEN time + 1 ELSE time
  /\ UNCHANGED <<clock, queue, slaveVars>>

Machine == EndMachine \/ AnswerRtt \/ SaveRtt \/ TakeOverTime

Next == Advance \/ PopFromPipe \/ EndPipe \/ Machine \/ StartRtt \/ StartTimeSync

Spec == Init /\ [][Next]_vars

-------------------------------------------------------------------------------
(* Properties *)

\* When the status machine runs, the pipes hold exactly the messages whose
\* latency is not over and the queues exactly those whose latency is: the
\* priority insertion keeps no message back behind a slower one.
OnTime ==
  phase = "machine" =>
    \A n \in Node :
      /\ \A k \in DOMAIN pipe[n] : pipe[n][k].latency > time
      /\ \A k \in DOMAIN queue[n] : queue[n][k].latency = time

\* How much the clock of n can gain or lose between two TIME messages.
DriftApart(n) == (TimePeriod + MaxLatency) \div DriftPeriod[n] + 1

\* How far half a round trip can be off for the drift of the master's clock.
Mismeasured == ((2 * MaxLatency) \div DriftPeriod[0] + 2) \div 2

\* Once a slave has taken a time over, it stays near the master, although the
\* averaged deviation is added back to its clock every time.
StaysNear ==
  \A n \in Slave : ~first[n] /\ phase # "clock" =>
    LET apart == clock[n] - clock[0]
        bound == DeviationMax + MaxLatency - MinLatency + Mismeasured
                   + DriftApart(0) + DriftApart(n)
    IN  apart <= bound /\ -apart <= bound
===============================================================================
