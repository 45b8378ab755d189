--------------------------- MODULE EspNowParameters ---------------------------
(***************************************************************************)
(* The bench program that measures the latency of ESP-NOW without a common *)
(* clock (code/esp-now-parameters): one edge on the pins of all devices    *)
(* starts their stop watches, the master sends what its own shows, and the *)
(* receiver prints how much more its own shows.                            *)
(***************************************************************************)
EXTENDS Integers, Sequences, FiniteSets, Functions

CONSTANTS
  Master,       \* the device that is compiled with IS_MASTER
  Receivers,    \* the other ones, in the order they are sent to
  Pause,        \* the vTaskDelay between two frames
  MaxFlight,    \* bound: a frame is under way at most so long
  MaxEdges,     \* bound: edges
  LastInstant   \* bound: the end of real time

VARIABLES
  instant,       \* real time
  start_time,    \* start_time of each device
  time_reseted,  \* of the master; the others do not read it
  round,         \* sends of the batch that have been done
  resume,        \* when the master's loop goes on
  flying,        \* frames under way
  printed,       \* the lines printed, with the flight of their frame
  edges          \* history: when the edges came

loopVars == <<round, resume>>
vars == <<instant, start_time, time_reseted, loopVars, flying, printed, edges>>

Device == {Master} \union Range(Receivers)

\* Three times each receiver
BatchSize == 3 * Len(Receivers)

\* esp_timer_get_time() - start_time, on timers that run at the same pace
Shows(d) == instant - start_time[d]

-------------------------------------------------------------------------------
Init ==
  /\ instant = 0
  /\ start_time = [d \in Device |-> 0]
  /\ time_reseted = FALSE
  /\ round = 0 /\ resume = 0
  /\ flying = {} /\ printed = {} /\ edges = {}

\* Faulty variant: only the first edge starts the stop watch of the receivers.
FirstEdge ==
  /\ Cardinality(edges) < MaxEdges
  /\ start_time' = [d \in Device |->
                      IF edges = {} \/ d = Master THEN instant ELSE start_time[d]]
  /\ time_reseted' = TRUE
  /\ edges' = edges \union {instant}
  /\ UNCHANGED <<instant, loopVars, flying, printed>>

\* gpio_handler_isr, on every device
Edge ==
  /\ Cardinality(edges) < MaxEdges
  /\ start_time' = [d \in Device |-> instant]
  /\ time_reseted' = TRUE
  /\ edges' = edges \union {instant}
  /\ UNCHANGED <<instant, loopVars, flying, printed>>

\* One esp_now_send of the batch and the pause after it
Send ==
  /\ round > 0 \/ time_reseted
  /\ round < BatchSize /\ instant >= resume
  /\ flying' = flying \union
       {[to |-> Receivers[1 + (round % Len(Receivers))], message |-> Shows(Master),
         sent |-> instant]}
  /\ round' = round + 1
  /\ resume' = instant + Pause
  /\ UNCHANGED <<instant, start_time, time_reseted, printed, edges>>

\* Edges that came during the batch are forgotten.
EndBatch ==
  /\ round = BatchSize /\ instant >= resume
  /\ time_reseted' = FALSE
  /\ round' = 0
  /\ UNCHANGED <<instant, start_time, resume, flying, printed, edges>>

\* measure_espnow_recv_cb
PrintLatency(f) ==
  /\ flying' = flying \ {f}
  /\ printed' = printed \union
       {[value |-> Shows(f.to) - f.message, sent |-> f.sent, at |-> instant]}
  /\ UNCHANGED <<instant, start_time, time_reseted, loopVars, edges>>

Pass ==
  /\ instant < LastInstant
  /\ \A f \in flying : instant < f.sent + MaxFlight
  /\ instant' = instant + 1
  /\ UNCHANGED <<start_time, time_reseted, loopVars, flying, printed, edges>>

Next == Edge \/ Send \/ EndBatch \/ Pass \/ \E f \in flying : PrintLatency(f)

Spec == Init /\ [][Next]_vars

-------------------------------------------------------------------------------
(* Properties *)

\* What is printed is how long the frame was under way, however many edges have
\* restarted the stop watches, unless one came while it was.
PrintsFlight ==
  \A p \in printed :
    p.value = p.at - p.sent \/ \E e \in edges : e \in p.sent .. p.at
===============================================================================
