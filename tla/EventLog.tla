------------------------------ MODULE EventLog -------------------------------
(***************************************************************************)
(* The log of button presses that every device keeps                       *)
(* (code/rafting-button/main/rafting-button.c).                            *)
(*                                                                         *)
(* gpio_handler_isr stamps a rising edge and leaves it in isr_event;       *)
(* handle_isr_event_task waits for the release and hands the press to      *)
(* log_event; handle_ds_event_task, the only writer of node.events, puts   *)
(* it into the log, sorts the log and sends the press to the ACTIVE        *)
(* neighbours, whose espnow_handler_task hands it to their own log_event.  *)
(*                                                                         *)
(* A long press makes a RESET.  The log treats it as a PUSH: it is entered,*)
(* sorted and sent, only the print-out tells them apart, nothing is erased.*)
(*                                                                         *)
(* Every other device is taken to be an ACTIVE neighbour: one that is not  *)
(* misses the frame, as if the radio had lost it.  An edge never carries   *)
(* the timestamp of an earlier edge of the same device.                    *)
(***************************************************************************)
EXTENDS Integers, Sequences, FiniteSets

CONSTANTS
  Device,         \* the devices of the distributed system
  Time,           \* the timestamps get_time() can return, bound: one edge each
  Press,          \* the types of event a button makes, of PUSH and RESET
  History,        \* EVENT_HISTORY, the slots of node.events
  LogQueueSize,   \* LOG_QUEUE_SIZE, the entries log_event takes
  MaxLosses,      \* bound: frames and queue entries lost on their way
  MaxRestarts     \* bound: restarts of all devices together

ASSUME DeviceAssumption == IsFiniteSet(Device)
ASSUME TimeAssumption == Time \subseteq Nat
ASSUME PressAssumption == Press \subseteq {"PUSH", "RESET"}
ASSUME SizeAssumption ==
  /\ History \in Nat \ {0}
  /\ LogQueueSize \in Nat \ {0}
ASSUME BoundsAssumption == MaxLosses \in Nat /\ MaxRestarts \in Nat

VARIABLES
  isr,        \* the edge in isr_event, a queue of one
  buttonPc,   \* where handle_isr_event_task is
  held,       \* the edge whose button that task sees held down
  log_event,  \* the queue of that name
  events,     \* node.events
  dsPc,       \* where handle_ds_event_task is
  data,       \* the queue entry it works on
  i, j,       \* its loop counters
  swapped,    \* whether the current pass of the sort has swapped entries
  air,        \* LOG frames sent and not yet handled
  edges,      \* history: the edges each device has seen
  pressed,    \* history: the events handed to log_event by a button
  missed,     \* history: who will never hold which event
  losses,     \* how much of MaxLosses has been used
  restarts    \* how much of MaxRestarts has been used

buttonVars == <<isr, buttonPc, held, edges>>
sortVars == <<i, j, swapped>>
taskVars == <<dsPc, data, sortVars>>
vars == <<buttonVars, log_event, events, taskVars, air, pressed, missed, losses,
          restarts>>

Event == [timestamp : Time, type : Press, mac_addr : Device]

\* Static memory is zero; app_main writes the type.
EmptySlot == [timestamp |-> 0, type |-> "EMPTY"]
Entry == [event : Event, task : {"SEND", "SAVE"}]
NoEntry == EmptySlot   \* what data holds between two entries
Frame == [from : Device, to : Device, event : Event]
Slots == 0 .. History - 1

\* What isr and held contain while there is no edge.
NoEdge == -1

\* Faulty variant: one neighbour is left out.
NeighboursButOne(d) == {r \in Device : \E s \in Device : s \notin {d, r}}

\* LOG towards every ACTIVE neighbour.
Neighbours(d) == Device \ {d}

-------------------------------------------------------------------------------
(* Where an event is *)

Used(d) == {k \in Slots : events[d][k].type # "EMPTY"}
Logged(d) == {events[d][k] : k \in Used(d)}
Queued(d) == {log_event[d][n] : n \in DOMAIN log_event[d]}

\* The entries handle_ds_event_task is not done with.
Busy(d) == Queued(d) \union (IF dsPc[d] = "wait" THEN {} ELSE {data[d]})

\* Taken from a button and not sent to the neighbours yet.
Unsent(d) == {e \in pressed : [event |-> e, task |-> "SEND"] \in Busy(d)}

\* On its way to the log of d: in its queue, in the air or not sent yet.
Coming(d) ==
  {e \in pressed :
     \/ \E q \in Queued(d) : q.event = e
     \/ \E f \in air : f.to = d /\ f.event = e
     \/ \E s \in Device \ {d} : e \in Unsent(s)}

HasRoom(d) == Len(log_event[d]) < LogQueueSize
CanLose == losses < MaxLosses /\ losses' = losses + 1

-------------------------------------------------------------------------------
(* app_main *)

Init ==
  /\ isr = [d \in Device |-> NoEdge]
  /\ buttonPc = [d \in Device |-> "idle"]
  /\ held = [d \in Device |-> NoEdge]
  /\ log_event = [d \in Device |-> <<>>]
  /\ events = [d \in Device |-> [k \in Slots |-> EmptySlot]]
  /\ dsPc = [d \in Device |-> "wait"]
  /\ data = [d \in Device |-> NoEntry]
  /\ i = [d \in Device |-> 0]
  /\ j = [d \in Device |-> 0]
  /\ swapped = [d \in Device |-> FALSE]
  /\ air = {}
  /\ edges = [d \in Device |-> {}]
  /\ pressed = {}
  /\ missed = {}
  /\ losses = 0
  /\ restarts = 0

\* Power loss and reboot: the log and the queues are in RAM.
Restart(d) ==
  /\ restarts < MaxRestarts
  /\ restarts' = restarts + 1
  /\ isr' = [isr EXCEPT ![d] = NoEdge]
  /\ buttonPc' = [buttonPc EXCEPT ![d] = "idle"]
  /\ held' = [held EXCEPT ![d] = NoEdge]
  /\ log_event' = [log_event EXCEPT ![d] = <<>>]
  /\ events' = [events EXCEPT ![d] = [k \in Slots |-> EmptySlot]]
  /\ dsPc' = [dsPc EXCEPT ![d] = "wait"]
  /\ data' = [data EXCEPT ![d] = NoEntry]
  /\ i' = [i EXCEPT ![d] = 0]
  /\ j' = [j EXCEPT ![d] = 0]
  /\ swapped' = [swapped EXCEPT ![d] = FALSE]
  /\ missed' = missed
       \union ({d} \X (Logged(d) \union {q.event : q \in Queued(d)}))
       \union (Neighbours(d) \X Unsent(d))
  /\ UNCHANGED <<air, edges, pressed, losses>>

-------------------------------------------------------------------------------
(* gpio_handler_isr and handle_isr_event_task *)

\* A rising edge, of a press or of a bounce; isr_event takes one.
Edge(d, t) ==
  /\ t \notin edges[d]
  /\ edges' = [edges EXCEPT ![d] = @ \union {t}]
  /\ isr' = [isr EXCEPT ![d] = IF @ = NoEdge THEN t ELSE @]
  /\ UNCHANGED <<buttonPc, held, log_event, events, taskVars, air, pressed,
                 missed, losses, restarts>>

TakeEdge(d) ==
  /\ buttonPc[d] = "idle"
  /\ isr[d] # NoEdge
  /\ buttonPc' = [buttonPc EXCEPT ![d] = "held"]
  /\ held' = [held EXCEPT ![d] = isr[d]]
  /\ isr' = [isr EXCEPT ![d] = NoEdge]
  /\ UNCHANGED <<edges, log_event, events, taskVars, air, pressed, missed,
                 losses, restarts>>

\* Faulty variant: the type is only written for a long press.
PressingUntyped(d, type) ==
  [timestamp |-> held[d], type |-> "EMPTY", mac_addr |-> d]

\* The press the task makes of the edge, by how long the button was held.
Pressing(d, type) == [timestamp |-> held[d], type |-> type, mac_addr |-> d]

Released(d, type) ==
  /\ buttonPc[d] = "held"
  /\ buttonPc' = [buttonPc EXCEPT ![d] = "clean"]
  /\ held' = [held EXCEPT ![d] = NoEdge]
  /\ pressed' = pressed \union {Pressing(d, type)}
  /\ UNCHANGED <<isr, edges, events, taskVars, air, restarts>>

\* Faulty variant: the press is only to be saved, as a received one.
ReleaseToSave(d, type) ==
  /\ Released(d, type)
  /\ HasRoom(d)
  /\ log_event' = [log_event EXCEPT ![d] =
                     Append(@, [event |-> Pressing(d, type), task |-> "SAVE"])]
  /\ UNCHANGED <<missed, losses>>

\* The pin is low again: xQueueSend to log_event.
Release(d, type) ==
  /\ Released(d, type)
  /\ HasRoom(d)
  /\ log_event' = [log_event EXCEPT ![d] =
                     Append(@, [event |-> Pressing(d, type), task |-> "SEND"])]
  /\ UNCHANGED <<missed, losses>>

\* xQueueSend gives up after ESPNOW_MAX_DELAY.
ReleaseInVain(d, type) ==
  /\ Released(d, type)
  /\ ~HasRoom(d)
  /\ CanLose
  /\ missed' = missed \union (Device \X {Pressing(d, type)})
  /\ UNCHANGED log_event

\* An edge that came meanwhile is a bounce.
DropBounce(d) ==
  /\ buttonPc[d] = "clean"
  /\ isr[d] # NoEdge
  /\ isr' = [isr EXCEPT ![d] = NoEdge]
  /\ UNCHANGED <<buttonPc, held, edges, log_event, events, taskVars, air,
                 pressed, missed, losses, restarts>>

\* No edge within CLEANING_DELAY.
Settle(d) ==
  /\ buttonPc[d] = "clean"
  /\ isr[d] = NoEdge
  /\ buttonPc' = [buttonPc EXCEPT ![d] = "idle"]
  /\ UNCHANGED <<isr, held, edges, log_event, events, taskVars, air, pressed,
                 missed, losses, restarts>>

-------------------------------------------------------------------------------
(* handle_ds_event_task: one entry of log_event at a time *)

\* Faulty variant: the search ends with the last slot without looking at it.
FirstEmptyOrLast(d, k) ==
  /\ k \in (Slots \ Used(d)) \union {History - 1}
  /\ \A l \in Slots : l < k => l \in Used(d)

FirstEmpty(d, k) ==
  /\ k \in Slots \ Used(d)
  /\ \A l \in Slots : l < k => l \in Used(d)

\* A full log does not change.
LogIsFull(d, e) ==
  /\ Used(d) = Slots
  /\ missed' = missed \union {<<d, e>>}
  /\ UNCHANGED events

Insert(d, e) ==
  /\ \E k \in Slots :
       FirstEmpty(d, k) /\ events' = [events EXCEPT ![d][k] = e]
  /\ UNCHANGED missed

\* xQueueReceive and the search for an EMPTY slot.
TakeEntry(d) ==
  /\ dsPc[d] = "wait"
  /\ log_event[d] # <<>>
  /\ LET e == Head(log_event[d]).event IN Insert(d, e) \/ LogIsFull(d, e)
  /\ data' = [data EXCEPT ![d] = Head(log_event[d])]
  /\ log_event' = [log_event EXCEPT ![d] = Tail(@)]
  /\ dsPc' = [dsPc EXCEPT ![d] = "pass"]
  /\ i' = [i EXCEPT ![d] = 0]
  /\ UNCHANGED <<buttonVars, j, swapped, air, pressed, losses, restarts>>

\* The head of the outer loop of the sort.
BeginPass(d) ==
  /\ dsPc[d] = "pass"
  /\ IF i[d] < History - 1 /\ i[d] \in Used(d)
       THEN /\ dsPc' = [dsPc EXCEPT ![d] = "compare"]
            /\ j' = [j EXCEPT ![d] = 0]
            /\ swapped' = [swapped EXCEPT ![d] = FALSE]
       ELSE /\ dsPc' = [dsPc EXCEPT ![d] = "send"]
            /\ UNCHANGED <<j, swapped>>
  /\ UNCHANGED <<buttonVars, log_event, events, data, i, air, pressed, missed,
                 losses, restarts>>

\* Entry j is later than the next one.
OutOfOrder(d) == events[d][j[d]].timestamp > events[d][j[d] + 1].timestamp

\* Faulty variant: the last pair is not compared.
PassGoesOnShort(d) ==
  /\ j[d] < History - 2 - i[d]
  /\ OutOfOrder(d) => j[d] \in Used(d)

\* The inner loop: until the sorted end, or an EMPTY entry it would swap.
PassGoesOn(d) ==
  /\ j[d] < History - 1 - i[d]
  /\ OutOfOrder(d) => j[d] \in Used(d)

\* Faulty variant: the entry is overwritten before it is saved in tmp.
CopyDown(d) == [events[d] EXCEPT ![j[d]] = events[d][j[d] + 1]]

Swapped(d) == [events[d] EXCEPT ![j[d]] = events[d][j[d] + 1],
                                ![j[d] + 1] = events[d][j[d]]]

Compare(d) ==
  /\ dsPc[d] = "compare"
  /\ PassGoesOn(d)
  /\ j' = [j EXCEPT ![d] = @ + 1]
  /\ IF OutOfOrder(d)
       THEN /\ events' = [events EXCEPT ![d] = Swapped(d)]
            /\ swapped' = [swapped EXCEPT ![d] = TRUE]
       ELSE UNCHANGED <<events, swapped>>
  /\ UNCHANGED <<buttonVars, log_event, dsPc, data, i, air, pressed, missed,
                 losses, restarts>>

\* A pass without a swap is the last one.
EndPass(d) ==
  /\ dsPc[d] = "compare"
  /\ ~PassGoesOn(d)
  /\ dsPc' = [dsPc EXCEPT ![d] = IF swapped[d] THEN "pass" ELSE "send"]
  /\ i' = [i EXCEPT ![d] = @ + 1]
  /\ UNCHANGED <<buttonVars, log_event, events, data, j, swapped, air, pressed,
                 missed, losses, restarts>>

\* Task SEND goes to the ACTIVE neighbours, task SAVE stays here.
Distribute(d) ==
  /\ dsPc[d] = "send"
  /\ dsPc' = [dsPc EXCEPT ![d] = "wait"]
  /\ air' = IF data[d].task = "SEND"
              THEN air \union {[from |-> d, to |-> r, event |-> data[d].event]
                                 : r \in Neighbours(d)}
              ELSE air
  /\ data' = [data EXCEPT ![d] = NoEntry]
  /\ UNCHANGED <<buttonVars, log_event, events, sortVars, pressed, missed,
                 losses, restarts>>

-------------------------------------------------------------------------------
(* The radio, and case LOG of espnow_handler_task *)

\* Faulty variant: a received event is sent on.
ReceiveToSend(f) ==
  /\ HasRoom(f.to)
  /\ log_event' = [log_event EXCEPT ![f.to] =
                     Append(@, [event |-> f.event, task |-> "SEND"])]
  /\ air' = air \ {f}
  /\ UNCHANGED <<buttonVars, events, taskVars, pressed, missed, losses, restarts>>

Receive(f) ==
  /\ HasRoom(f.to)
  /\ log_event' = [log_event EXCEPT ![f.to] =
                     Append(@, [event |-> f.event, task |-> "SAVE"])]
  /\ air' = air \ {f}
  /\ UNCHANGED <<buttonVars, events, taskVars, pressed, missed, losses, restarts>>

\* The radio loses the frame, or xQueueSend gives up after DS_MAX_DELAY.
Lose(f) ==
  /\ CanLose
  /\ air' = air \ {f}
  /\ missed' = missed \union {<<f.to, f.event>>}
  /\ UNCHANGED <<buttonVars, log_event, events, taskVars, pressed, restarts>>

-------------------------------------------------------------------------------
ButtonTask(d) ==
  \/ TakeEdge(d)
  \/ \E type \in Press : Release(d, type) \/ ReleaseInVain(d, type)
  \/ DropBounce(d)
  \/ Settle(d)

DsTask(d) ==
  \/ TakeEntry(d)
  \/ BeginPass(d)
  \/ Compare(d)
  \/ EndPass(d)
  \/ Distribute(d)

Radio(f) == Receive(f) \/ Lose(f)

Next ==
  \/ \E d \in Device : ButtonTask(d) \/ DsTask(d) \/ Restart(d)
  \/ \E d \in Device, t \in Time : Edge(d, t)
  \/ \E f \in air : Radio(f)

Spec == Init /\ [][Next]_vars

\* The tasks of FreeRTOS run whenever they can, and the radio delivers what it
\* does not lose.  Nobody has to press or release a button.
Fairness ==
  /\ \A d \in Device : WF_vars(DsTask(d))
  /\ \A d \in Device : WF_vars(\E f \in air : f.to = d /\ Receive(f))

FairSpec == Spec /\ Fairness

-------------------------------------------------------------------------------
(* Properties *)

Slot == Event \union {EmptySlot}

TypeOK ==
  /\ isr \in [Device -> Time \union {NoEdge}]
  /\ buttonPc \in [Device -> {"idle", "held", "clean"}]
  /\ held \in [Device -> Time \union {NoEdge}]
  /\ log_event \in [Device -> Seq(Entry)]
  /\ events \in [Device -> [Slots -> Slot]]
  /\ dsPc \in [Device -> {"wait", "pass", "compare", "send"}]
  /\ data \in [Device -> Entry \union {NoEntry}]
  /\ i \in [Device -> Nat]
  /\ j \in [Device -> Nat]
  /\ swapped \in [Device -> BOOLEAN]
  /\ air \subseteq Frame
  /\ edges \in [Device -> SUBSET Time]
  /\ pressed \subseteq Event
  /\ missed \subseteq Device \X Event
  /\ losses \in Nat
  /\ restarts \in Nat
  /\ \A d \in Device : buttonPc[d] = "held" => held[d] \in Time
  /\ \A d \in Device : dsPc[d] # "wait" => data[d] \in Entry

Ascending(d) ==
  \A k, l \in Used(d) : k < l => events[d][k].timestamp <= events[d][l].timestamp

\* When handle_ds_event_task turns to distribution and waits, the log is in the
\* order of the timestamps, in whatever order the events came.  The sort, with
\* its early exits, meets EMPTY entries whose timestamp is 0.
Ordered == \A d \in Device : dsPc[d] \in {"send", "wait"} => Ascending(d)

\* No event fills two slots of a log, although every device both hands presses
\* to its queue and receives those of others.
NoDuplicates ==
  \A d \in Device : \A k, l \in Used(d) : events[d][k] = events[d][l] => k = l

\* Every press is, for every device, in the log, on its way, or given up at a
\* point where the code reports it, the radio loses it or the power fails:
\* never dropped by the hand-over between tasks or by the sort.
Accounted ==
  \A d \in Device : \A e \in pressed :
    e \in Logged(d) \union Coming(d) \/ <<d, e>> \in missed

Quiet ==
  /\ air = {}
  /\ \A d \in Device : dsPc[d] = "wait" /\ log_event[d] = <<>>

\* If nothing was lost, nobody restarted and the presses fit, then as soon as
\* nothing is under way all devices hold the same log: all that was pressed.
Agreement ==
  Quiet /\ losses = 0 /\ restarts = 0 /\ Cardinality(pressed) <= History
    => \A d \in Device : Logged(d) = pressed

\* Each log only gains, by presses that happened and within its capacity, until
\* its device restarts: sorting neither loses nor changes an entry.  A RESET is
\* an entry as any other, and a full log keeps what it has.
Promise == INSTANCE SharedLog WITH
  Capacity <- History, log <- [d \in Device |-> Logged(d)]
ImplementsSharedLog == Promise!Spec

\* Again and again every press made until then is in the log of every device,
\* or has been given up: neither full queues nor endless traffic hold one back
\* for ever.
EveryPressArrives ==
  []<>(\A d \in Device : \A e \in pressed :
         e \in Logged(d) \/ <<d, e>> \in missed)

===============================================================================
