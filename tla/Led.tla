--------------------------------- MODULE Led ---------------------------------
(***************************************************************************)
(* The lamps of the bench program measure-esp-now.  The task of a blink    *)
(* switches two LEDs on and, after a delay, off.  Sending a frame switches *)
(* them on or starts a blink, its callback switches them off, a received   *)
(* frame starts a blink: all on the same two LEDs, without a lock.         *)
(***************************************************************************)
EXTENDS Integers

CONSTANTS
  Rounds,       \* frames sent
  MaxReceived   \* bound: frames received

VARIABLES
  task,      \* which task app_main has been compiled to call
  lit,       \* the LEDs that are on
  blinks,    \* how many blinks there are before each of their steps
  loop,      \* where the loop that sends is
  rounds,    \* frames sent
  callback,  \* where the callback of the last frame is
  heard      \* frames received

vars == <<task, lit, blinks, loop, rounds, callback, heard>>

Broadcast == task = "measure_broadcast_task_master"

EXT == "GPIO_NUM_23"
BUILDIN == "GPIO_NUM_2"
Steps == 1 .. 4

\* Faulty variant: a blink leaves the second LED on.
BlinkHalf == <<lit \union {EXT}, lit \union {BUILDIN}, lit \ {EXT}, lit \ {EXT}>>

\* What the steps of a blink make of the LEDs; the delay is before the third.
Blink == <<lit \union {EXT}, lit \union {BUILDIN}, lit \ {EXT}, lit \ {BUILDIN}>>

-------------------------------------------------------------------------------
Init ==
  /\ task \in {"measure_broadcast_task_master", "measure_unicast_task_master"}
  /\ lit = {} /\ blinks = [k \in Steps |-> 0]
  /\ loop = "pause" /\ rounds = 0 /\ callback = "none" /\ heard = 0

\* do_blick_task
BlinkStep(k) ==
  /\ blinks[k] > 0
  /\ lit' = Blink[k]
  /\ blinks' = [s \in Steps |->
       IF s = k THEN blinks[s] - 1 ELSE IF s = k + 1 THEN blinks[s] + 1 ELSE blinks[s]]
  /\ UNCHANGED <<task, loop, rounds, callback, heard>>

\* The next round; the callback of the last one came during the pause.
BeginBroadcast ==
  /\ Broadcast
  /\ loop = "pause" /\ rounds < Rounds /\ callback \in {"none", "refused"}
  /\ blinks' = [blinks EXCEPT ![1] = @ + 1]
  /\ loop' = "send"
  /\ UNCHANGED <<task, lit, rounds, callback, heard>>

BeginUnicast ==
  /\ ~Broadcast
  /\ loop = "pause" /\ rounds < Rounds /\ callback \in {"none", "refused"}
  /\ lit' = lit \union {BUILDIN}
  /\ loop' = "second"
  /\ UNCHANGED <<task, blinks, rounds, callback, heard>>

SecondLed ==
  /\ loop = "second"
  /\ lit' = lit \union {EXT}
  /\ loop' = "send"
  /\ UNCHANGED <<task, blinks, rounds, callback, heard>>

\* esp_now_send; nobody looks at its result.
Send ==
  /\ loop = "send"
  /\ callback' \in {"first", "refused"}
  /\ loop' = "pause"
  /\ rounds' = rounds + 1
  /\ UNCHANGED <<task, lit, blinks, heard>>

\* blick_espnow_send_cb
SendCallback ==
  /\ \/ callback = "first" /\ lit' = lit \ {BUILDIN} /\ callback' = "second"
     \/ callback = "second" /\ lit' = lit \ {EXT} /\ callback' = "none"
  /\ UNCHANGED <<task, blinks, loop, rounds, heard>>

\* blick_espnow_recv_cb
Receive ==
  /\ heard < MaxReceived
  /\ heard' = heard + 1
  /\ blinks' = [blinks EXCEPT ![1] = @ + 1]
  /\ UNCHANGED <<task, lit, loop, rounds, callback>>

Next ==
  \/ \E k \in Steps : BlinkStep(k)
  \/ BeginBroadcast \/ BeginUnicast \/ SecondLed \/ Send
  \/ SendCallback \/ Receive

Spec == Init /\ [][Next]_vars

-------------------------------------------------------------------------------
(* Properties *)

\* When nobody blinks and nothing is under way the LEDs are off, whatever the
\* overlaps of blinks and callbacks, unless a frame of its own was refused: then
\* the callback that would switch them off never comes.
AllDark ==
  /\ \A k \in Steps : blinks[k] = 0
  /\ loop = "pause" /\ (callback = "none" \/ (Broadcast /\ callback = "refused"))
  => lit = {}
===============================================================================
