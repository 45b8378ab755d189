-------------------------------- MODULE Clocks --------------------------------
(***************************************************************************)
(* How a device takes over the time of another one                         *)
(* (code/sync-time/main/sync-time.c; the firmware of the buttons has the   *)
(* same handler).                                                          *)
(*                                                                         *)
(* The sender of the time measures the round trip with RTT_CAL_MASTER and  *)
(* RTT_CAL_SLAVE and tells the receiver half of it (RTT).  The receiver    *)
(* keeps the last samples in rtt_balancer, subtracts their mean from what  *)
(* TIME says, jumps to that time at first and approaches it in small steps *)
(* afterwards.                                                             *)
(*                                                                         *)
(* `now' is real time.  A frame is in the air between MinDelay and         *)
(* MaxDelay or is lost; the handler takes an event off espnow_queue at     *)
(* most MaxWait after the callback has stamped it.                         *)
(***************************************************************************)
EXTENDS Integers, Sequences, FiniteSets

CONSTANTS
  Device,          \* the devices
  BalancerSize,    \* BALANCER_SIZE, samples in rtt_balancer
  DeviationLimit,  \* DEVIATION_LIMIT, below it the clock is synced
  DeviationMax,    \* DEVIATION_MAX_CONSTANT, the step of a synced clock
  Int32Limit,      \* 2^31
  MinDelay,        \* bound: a frame takes at least this long
  MaxDelay,        \* bound: and at most this long
  MaxWait,         \* bound: the time an event waits in espnow_queue
  BootTime,        \* bound: a restart takes at least this long
  Horizon          \* bound: the end of real time

ASSUME DeviceAssumption == IsFiniteSet(Device)
ASSUME BalancerAssumption == BalancerSize \in Nat \ {0}
ASSUME DeviationAssumption ==
  DeviationLimit \in Nat \ {0} /\ DeviationMax \in Nat \ {0}
ASSUME DelayAssumption ==
  /\ MinDelay \in Nat /\ MaxDelay \in Nat /\ MaxWait \in Nat
  /\ MinDelay <= MaxDelay
\* Nothing sent before a restart is answered after it.
ASSUME BootAssumption ==
  BootTime \in Nat /\ BootTime > MaxDelay + MaxWait + MaxDelay
\* 32 bits are enough for the errors of a measurement.
ASSUME Int32Assumption ==
  /\ Int32Limit \in Nat \ {0}
  /\ DeviationLimit + 2 * (MaxDelay + MaxWait) < Int32Limit
ASSUME HorizonAssumption == Horizon \in Nat

VARIABLES
  now,       \* real time
  up,        \* the devices that have power
  boot,      \* when the esp_timer of a device started, or its power failed
  corr,      \* node.time_corection
  synced,    \* node.is_time_synced
  fresh,     \* node.is_firts_setup_rtt
  ring,      \* node.rtt_balancer
  index,     \* node.rtt_balancer_index
  queue,     \* espnow_queue, the received frames
  air        \* frames sent and not received

clockVars == <<corr, synced>>
rttVars == <<fresh, ring, index>>
radioVars == <<queue, air>>
clocksVars == <<now, up, boot, clockVars, rttVars, radioVars>>

Slots == 0 .. BalancerSize - 1
Kind == {"RTT_CAL_MASTER", "RTT_CAL_SLAVE", "RTT", "TIME"}

\* `sent' is real time; `origin' is the start of the clock the content of a
\* TIME or RTT_CAL frame is read from.
Frame == [type : Kind, from : Device, to : Device, content : Int, sent : Int,
          origin : Int]

\* espnow_recv_cb puts the timer value of its call next to the frame.
Entry == [frame : Frame, stamp : Int]

-------------------------------------------------------------------------------
(* The clock *)

\* esp_timer_get_time()
Timer(d) == now - boot[d]

get_time_with_timer(d, esp_time) == esp_time - corr[d]

get_time(d) == get_time_with_timer(d, Timer(d))

\* The sum of the samples, as the number of units they consist of.
Total(samples) == Cardinality(UNION {{k} \X (1 .. samples[k]) : k \in Slots})

\* Faulty variant: an index that has run past the end counts too.
MeanOfMore(samples) == Total(samples) \div (BalancerSize + 1)

get_rtt_avg(samples) == Total(samples) \div BalancerSize

\* The cast to int32_t: 2^32 us are 71 minutes and 35 seconds.
Int32(x) == ((x + Int32Limit) % (2 * Int32Limit)) - Int32Limit

-------------------------------------------------------------------------------
(* The radio and the callback *)

\* A frame that leaves now.
Made(type, from, to, content, origin) ==
  [type |-> type, from |-> from, to |-> to, content |-> content, sent |-> now,
   origin |-> origin]

\* esp_now_send and espnow_recv_cb, which stamps the event.
Arrive(f) ==
  /\ up[f.to]
  /\ now >= f.sent + MinDelay
  /\ air' = air \ {f}
  /\ queue' = [queue EXCEPT ![f.to] =
                 Append(@, [frame |-> f, stamp |-> Timer(f.to)])]
  /\ UNCHANGED <<now, up, boot, clockVars, rttVars>>

\* It has not come in time: lost in the air, or for lack of a receiver or of
\* room in espnow_queue.
Lose(f) ==
  /\ now >= f.sent + MaxDelay
  /\ air' = air \ {f}
  /\ UNCHANGED <<now, up, boot, clockVars, rttVars, queue>>

\* Real time goes on unless a frame or an event would be overdue.
Tick ==
  /\ now < Horizon
  /\ \A f \in air : now < f.sent + MaxDelay
  /\ \A d \in Device : \A n \in DOMAIN queue[d] :
       Timer(d) < queue[d][n].stamp + MaxWait
  /\ now' = now + 1
  /\ UNCHANGED <<up, boot, clockVars, rttVars, radioVars>>

-------------------------------------------------------------------------------
(* espnow_handler_task *)

Pending(d, type) == queue[d] # <<>> /\ Head(queue[d]).frame.type = type

Taken(d) == queue' = [queue EXCEPT ![d] = Tail(@)]

\* case RTT_CAL_MASTER: the content goes back as it is.
AnswerRtt(d) ==
  LET f == Head(queue[d]).frame IN
  /\ Pending(d, "RTT_CAL_MASTER")
  /\ Taken(d)
  /\ air' = air \union {Made("RTT_CAL_SLAVE", d, f.from, f.content, f.origin)}
  /\ UNCHANGED <<now, up, boot, clockVars, rttVars>>

\* Faulty variant: the whole round trip.
TripOf(e) == e.stamp - e.frame.content

\* From the timer value in the frame to the one the callback has put beside it.
HalfTrip(e) == (e.stamp - e.frame.content) \div 2

\* case RTT_CAL_SLAVE: half the round trip goes to the other side.
ReturnRtt(d) ==
  LET e == Head(queue[d]) IN
  /\ Pending(d, "RTT_CAL_SLAVE")
  /\ Taken(d)
  /\ air' = air \union {Made("RTT", d, e.frame.from, HalfTrip(e), 0)}
  /\ UNCHANGED <<now, up, boot, clockVars, rttVars>>

\* The first sample fills rtt_balancer.
FillRing(d, value) ==
  /\ fresh[d]
  /\ fresh' = [fresh EXCEPT ![d] = FALSE]
  /\ ring' = [ring EXCEPT ![d] = [k \in Slots |-> value]]
  /\ UNCHANGED index

\* Faulty variant: the index wraps one too late.
PutInRingPastEnd(d, value) ==
  /\ ~fresh[d]
  /\ ring' = [ring EXCEPT ![d] =
                [k \in Slots |-> IF k = index[d] THEN value ELSE @[k]]]
  /\ index' = [index EXCEPT ![d] = IF @ = BalancerSize THEN 0 ELSE @ + 1]
  /\ UNCHANGED fresh

\* The others replace the oldest one.
PutInRing(d, value) ==
  /\ ~fresh[d]
  /\ ring' = [ring EXCEPT ![d][index[d]] = value]
  /\ index' = [index EXCEPT ![d] = IF @ + 1 = BalancerSize THEN 0 ELSE @ + 1]
  /\ UNCHANGED fresh

\* case RTT_VAL (RTT in the firmware)
SaveRtt(d) ==
  LET value == Head(queue[d]).frame.content IN
  /\ Pending(d, "RTT")
  /\ Taken(d)
  /\ FillRing(d, value) \/ PutInRing(d, value)
  /\ UNCHANGED <<now, up, boot, clockVars, air>>

\* deviation_avg, in 32 bits
Deviation(d) ==
  LET e == Head(queue[d]) IN
  Int32(Int32(get_time_with_timer(d, e.stamp)) - Int32(e.frame.content)
          - Int32(get_rtt_avg(ring[d])))

\* Faulty variant: a clock that is far behind passes for synced.
WithinAbove(d) == Deviation(d) < DeviationLimit

WithinLimit(d) ==
  Deviation(d) < DeviationLimit /\ Deviation(d) > -DeviationLimit

\* Faulty variant: the correction has the wrong sign.
CorrectionBackwards(d) ==
  IF Deviation(d) > DeviationMax THEN -DeviationMax
  ELSE IF Deviation(d) < -DeviationMax THEN DeviationMax
  ELSE 0

Correction(d) ==
  IF Deviation(d) > DeviationMax THEN DeviationMax
  ELSE IF Deviation(d) < -DeviationMax THEN -DeviationMax
  ELSE 0

\* A synced clock, or one found to be within the limit, moves by one step.
StepClock(d) ==
  /\ synced[d] \/ WithinLimit(d)
  /\ synced' = [synced EXCEPT ![d] = TRUE]
  /\ corr' = [corr EXCEPT ![d] = @ + Correction(d)]

\* Another clock is set, by the timer of the moment it is set.
SetClock(d) ==
  LET content == Head(queue[d]).frame.content IN
  /\ ~synced[d] /\ ~WithinLimit(d)
  /\ corr' = [corr EXCEPT ![d] = Timer(d) - (content + get_rtt_avg(ring[d]))]
  /\ UNCHANGED synced

\* case TIME
TakeOverTime(d) ==
  /\ Pending(d, "TIME")
  /\ Taken(d)
  /\ StepClock(d) \/ SetClock(d)
  /\ UNCHANGED <<now, up, boot, rttVars, air>>

-------------------------------------------------------------------------------
(* The tasks of the sender *)

\* task_start_sync_rtt
SendRttCal(d, r) ==
  /\ up[d]
  /\ air' = air \union {Made("RTT_CAL_MASTER", d, r, Timer(d), boot[d])}
  /\ UNCHANGED <<now, up, boot, clockVars, rttVars, queue>>

\* task_start_sync_time; content is a reading of the sender's clock.
SendTime(d, r, content) ==
  /\ up[d]
  /\ air' = air \union {Made("TIME", d, r, content, now - content)}
  /\ UNCHANGED <<now, up, boot, clockVars, rttVars, queue>>

-------------------------------------------------------------------------------
(* app_main *)

\* Devices that have been switched on at different times.
ClocksInit(starts) ==
  /\ now = 0
  /\ up = [d \in Device |-> TRUE]
  /\ boot \in starts
  /\ corr = [d \in Device |-> 0]
  /\ synced = [d \in Device |-> FALSE]
  /\ fresh = [d \in Device |-> TRUE]
  /\ ring = [d \in Device |-> [k \in Slots |-> 0]]
  /\ index = [d \in Device |-> 0]
  /\ queue = [d \in Device |-> <<>>]
  /\ air = {}

\* The static memory is lost.
PowerLoss(d) ==
  /\ up[d]
  /\ up' = [up EXCEPT ![d] = FALSE]
  /\ boot' = [boot EXCEPT ![d] = now]
  /\ corr' = [corr EXCEPT ![d] = 0]
  /\ synced' = [synced EXCEPT ![d] = FALSE]
  /\ fresh' = [fresh EXCEPT ![d] = TRUE]
  /\ ring' = [ring EXCEPT ![d] = [k \in Slots |-> 0]]
  /\ index' = [index EXCEPT ![d] = 0]
  /\ queue' = [queue EXCEPT ![d] = <<>>]
  /\ UNCHANGED <<now, air>>

\* The timer starts from zero.
Boot(d) ==
  /\ ~up[d]
  /\ now >= boot[d] + BootTime
  /\ up' = [up EXCEPT ![d] = TRUE]
  /\ boot' = [boot EXCEPT ![d] = now]
  /\ UNCHANGED <<now, clockVars, rttVars, radioVars>>

-------------------------------------------------------------------------------
(* Measures of the clock, for the properties *)

\* How far the clock of d is ahead of the one that started at `origin'.
Offset(d, origin) == origin - boot[d] - corr[d]

Distance(x) == IF x < 0 THEN -x ELSE x

\* What TIME does not tell: the delay of the frame less its estimate, and the
\* wait in the queue.  Without a sample the estimate is zero.
Error(d) == MaxDelay + MaxWait - (IF fresh[d] THEN 0 ELSE MinDelay)

\* The clock of d is near enough for 32 bits to tell on which side of the other one
\* it is, although they are measured with an error.
Tellable(d, offset) == Distance(offset) + Error(d) < Int32Limit
===============================================================================
