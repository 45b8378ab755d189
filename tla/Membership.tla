------------------------------ MODULE Membership ------------------------------
(***************************************************************************)
(* The neighbour table: registration of devices in the distributed system, *)
(* detection of dead ones and the lists that spread both                   *)
(* (code/dynamic-neighbors/main/rafting-button.c; the code of              *)
(* code/rafting-button is the same).                                       *)
(*                                                                         *)
(* A booted device broadcasts HELLO_DS.  Whoever hears it enters it as     *)
(* ACTIVE and answers with its own table in a NEIGHBORS frame, which the   *)
(* newcomer merges into its table.  The radio reports for every frame      *)
(* whether it was acknowledged; after ErrorLimit failures in a row the     *)
(* neighbour becomes INACTIVE and the table is sent to every ACTIVE one.   *)
(*                                                                         *)
(* Only espnow_handler_task writes the table and it takes one event at a   *)
(* time, so the handling of an event is one step.  Which slot of the array *)
(* a neighbour got does not matter: the table is a function of the device. *)
(* The column "title" of the table is only printed and is left out.        *)
(***************************************************************************)
EXTENDS Integers, Sequences, FiniteSets

CONSTANTS
  Device,         \* the devices, switched on or not
  Speaker,        \* the device whose tasks can be relied on to go on sending
  Capacity,       \* NEIGHBORS_COUNT, slots of the table
  QueueSize,      \* ESPNOW_QUEUE_SIZE, events waiting for the handler
  AirSize,        \* frames the radio driver holds for one receiver
  ErrorLimit,     \* COUNT_ERROR_MESSAGE_TO_INACTIVE
  CounterRange,   \* 2^8, values of the uint8_t neighbor_error_count
  Lossy,          \* whether the radio may lose frames or acknowledgements
  Traffic,        \* kinds of data frames the tasks of each device send
  Burst,          \* bound: frames of the tasks to one neighbour at a time
  MaxCrashes      \* bound: power losses of each device

ASSUME DeviceAssumption == IsFiniteSet(Device)

ASSUME SizesAssumption ==
  /\ Capacity \in Nat
  /\ QueueSize \in Nat
  /\ AirSize \in Nat
  /\ ErrorLimit \in Nat \ {0}
  /\ CounterRange \in Nat \ {0}
  /\ Lossy \in BOOLEAN
  /\ Traffic \in [Device -> SUBSET {"REQUEST", "NOTICE"}]
  /\ Burst \in Nat
  /\ MaxCrashes \in [Device -> Nat]

VARIABLES
  up,             \* the device is powered
  announced,      \* it has broadcast its HELLO_DS
  status,         \* node.neighbor[].status
  peers,          \* peers registered with the ESP-NOW driver
  error_count,    \* node.neighbor_error_count
  air,            \* frames handed to esp_now_send, per receiver
  queue,          \* espnow_queue
  overrun,        \* a search for a free slot has run past the table
  crashes         \* power losses so far

vars == <<up, announced, status, peers, error_count, air, queue, overrun, crashes>>

Status == {"NOT_INITIALIZED", "INACTIVE", "ACTIVE"}
Counter == 0 .. CounterRange - 1
Table == [Device -> Status]
Frame == [kind : {"NEIGHBORS", "REQUEST", "NOTICE"}, list : Table]
Event == [kind : {"HELLO_DS", "NEIGHBORS", "REQUEST", "SENT", "FAILED"},
          from : Device, list : Table]

Others(d) == Device \ {d}
EmptyTable == [n \in Device |-> "NOT_INITIALIZED"]

\* Only a NEIGHBORS frame carries a list that somebody reads.
Plain(kind) == [kind |-> kind, list |-> EmptyTable]

Known(d) == {n \in Device : status[d][n] # "NOT_INITIALIZED"}
ActiveIn(table) == {n \in Device : table[n] = "ACTIVE"}

-------------------------------------------------------------------------------
(* Queues *)

\* xQueueSend gives up when the queue stays full; the event is lost.
Put(q, e) == IF Len(q) < QueueSize THEN Append(q, e) ELSE q

\* esp_now_send refuses a frame when the driver has no buffer left.
Push(a, f) == IF Len(a) < AirSize THEN Append(a, f) ELSE a

\* d hands f to the driver for each device of "to".
SendTo(d, to, f) ==
  air' = [air EXCEPT ![d] = [n \in Device |-> IF n \in to THEN Push(@[n], f) ELSE @[n]]]

\* The handler of a powered device takes the oldest event.
Pending(d, kind) ==
  /\ up[d]
  /\ queue[d] # <<>>
  /\ Head(queue[d]).kind = kind

TakeEvent(d) == queue' = [queue EXCEPT ![d] = Tail(@)]

-------------------------------------------------------------------------------
(* Power *)

Init ==
  /\ up = [d \in Device |-> FALSE]
  /\ announced = [d \in Device |-> FALSE]
  /\ status = [d \in Device |-> EmptyTable]
  /\ peers = [d \in Device |-> {}]
  /\ error_count = [d \in Device |-> [n \in Device |-> 0]]
  /\ air = [d \in Device |-> [n \in Device |-> <<>>]]
  /\ queue = [d \in Device |-> <<>>]
  /\ overrun = [d \in Device |-> FALSE]
  /\ crashes = [d \in Device |-> 0]

\* app_main up to the start of the tasks.
Boot(d) ==
  /\ ~up[d]
  /\ up' = [up EXCEPT ![d] = TRUE]
  /\ UNCHANGED <<announced, status, peers, error_count, air, queue, overrun, crashes>>

\* send_hello_ds_message: a broadcast, received by whoever is powered and not
\* acknowledged by anybody.
Announce(d) ==
  /\ up[d]
  /\ ~announced[d]
  /\ announced' = [announced EXCEPT ![d] = TRUE]
  /\ \E heard \in SUBSET {n \in Others(d) : up[n]} :
       /\ ~Lossy => heard = {n \in Others(d) : up[n]}
       /\ queue' = [n \in Device |->
                      IF n \in heard
                        THEN Put(queue[n], [kind |-> "HELLO_DS", from |-> d, list |-> EmptyTable])
                        ELSE queue[n]]
  /\ UNCHANGED <<up, status, peers, error_count, air, overrun, crashes>>

\* Power loss: the table, the queues and the driver's peers are all in RAM.
Crash(d) ==
  /\ up[d]
  /\ crashes[d] < MaxCrashes[d]
  /\ crashes' = [crashes EXCEPT ![d] = @ + 1]
  /\ up' = [up EXCEPT ![d] = FALSE]
  /\ announced' = [announced EXCEPT ![d] = FALSE]
  /\ status' = [status EXCEPT ![d] = EmptyTable]
  /\ peers' = [peers EXCEPT ![d] = {}]
  /\ error_count' = [error_count EXCEPT ![d] = [n \in Device |-> 0]]
  /\ air' = [air EXCEPT ![d] = [n \in Device |-> <<>>]]
  /\ queue' = [queue EXCEPT ![d] = <<>>]
  /\ overrun' = [overrun EXCEPT ![d] = FALSE]

-------------------------------------------------------------------------------
(* The radio *)

\* The driver sends its oldest frame for n.  The receive callback of n and the
\* send callback of d queue their events; NOTICE frames do not concern the table.
\* An acknowledgement may be lost although the frame arrived.
Transmit(d, n) ==
  /\ up[d]
  /\ air[d][n] # <<>>
  /\ air' = [air EXCEPT ![d][n] = Tail(@)]
  /\ \E heard, acked \in BOOLEAN :
       /\ heard => up[n]
       /\ acked => heard
       /\ ~Lossy => acked = up[n]
       /\ LET f == Head(air[d][n])
              received == [kind |-> f.kind, from |-> d, list |-> f.list]
              callback == [kind |-> IF acked THEN "SENT" ELSE "FAILED",
                           from |-> n, list |-> EmptyTable]
          IN queue' = [queue EXCEPT
                         ![d] = Put(@, callback),
                         ![n] = IF heard /\ f.kind # "NOTICE" THEN Put(@, received) ELSE @]
  /\ UNCHANGED <<up, announced, status, peers, error_count, overrun, crashes>>

\* Frames for n whose callback the handler of d has not seen.
Outstanding(d, n) ==
  Len(air[d][n])
    + Cardinality({i \in DOMAIN queue[d] :
                     queue[d][i].kind \in {"SENT", "FAILED"} /\ queue[d][i].from = n})

\* The tasks for TIME, RTT_CAL_MASTER, REQUEST_VOTE and LOG send to ACTIVE
\* neighbours only, and pause for 100 ms and more between two rounds: Burst frames
\* at most pile up.  A REQUEST is one that the receiver answers.
SendData(d, n, kind) ==
  /\ up[d]
  /\ status[d][n] = "ACTIVE"
  /\ Outstanding(d, n) < Burst
  /\ SendTo(d, {n}, Plain(kind))
  /\ UNCHANGED <<up, announced, status, peers, error_count, queue, overrun, crashes>>

-------------------------------------------------------------------------------
(* espnow_handler_task, case ESPNOW_SEND_CB *)

\* Faulty variant: a success is counted and judged like a failure.
HandleSentAsFailure(d) ==
  /\ Pending(d, "SENT")
  /\ LET n == Head(queue[d]).from
         count == (error_count[d][n] + 1) % CounterRange
     IN /\ error_count' = [error_count EXCEPT ![d][n] = count]
        /\ status' = IF n \in Known(d) /\ count >= ErrorLimit
                       THEN [status EXCEPT ![d][n] = "INACTIVE"] ELSE status
  /\ TakeEvent(d)
  /\ UNCHANGED <<up, announced, peers, air, overrun, crashes>>

HandleSent(d) ==
  /\ Pending(d, "SENT")
  /\ LET n == Head(queue[d]).from
     IN error_count' =
          IF n \in Known(d) THEN [error_count EXCEPT ![d][n] = 0] ELSE error_count
  /\ TakeEvent(d)
  /\ UNCHANGED <<up, announced, status, peers, air, overrun, crashes>>

\* Faulty variant: the mark stays with the device.
HandleFailedSilently(d) ==
  /\ Pending(d, "FAILED")
  /\ TakeEvent(d)
  /\ LET n == Head(queue[d]).from
         count == (error_count[d][n] + 1) % CounterRange
     IN /\ error_count' = [error_count EXCEPT ![d][n] = count]
        /\ status' = IF n \in Known(d) /\ count >= ErrorLimit
                       THEN [status EXCEPT ![d][n] = "INACTIVE"] ELSE status
  /\ UNCHANGED <<up, announced, peers, air, overrun, crashes>>

\* A failure is counted; at ErrorLimit and at every failure after it the
\* neighbour is marked and the table goes out to the ACTIVE ones.
HandleFailed(d) ==
  /\ Pending(d, "FAILED")
  /\ TakeEvent(d)
  /\ LET n == Head(queue[d]).from
         count == (error_count[d][n] + 1) % CounterRange
         marked == [status[d] EXCEPT ![n] = "INACTIVE"]
     IN \/ /\ n \notin Known(d)
           /\ UNCHANGED <<error_count, status, air>>
        \/ /\ n \in Known(d)
           /\ error_count' = [error_count EXCEPT ![d][n] = count]
           /\ count < ErrorLimit
           /\ UNCHANGED <<status, air>>
        \/ /\ n \in Known(d)
           /\ error_count' = [error_count EXCEPT ![d][n] = count]
           /\ count >= ErrorLimit
           /\ status' = [status EXCEPT ![d] = marked]
           /\ SendTo(d, ActiveIn(marked), [kind |-> "NEIGHBORS", list |-> marked])
  /\ UNCHANGED <<up, announced, peers, overrun, crashes>>

-------------------------------------------------------------------------------
(* espnow_handler_task, case ESPNOW_RECV_CB *)

\* Faulty variant: the device does not recognise itself.
ListedWithSelf(d, list) == {n \in Device : d \in Device /\ list[n] # "NOT_INITIALIZED"}

\* The entries of a received list that concern d: used ones of other devices.
Listed(d, list) == {n \in Others(d) : list[n] # "NOT_INITIALIZED"}

\* Faulty variant: a neighbour is looked for among the ACTIVE ones.
NewcomersNotActive(d, list) == Listed(d, list) \ ActiveIn(status[d])

Newcomers(d, list) == Listed(d, list) \ peers[d]
Free(d) == Capacity - Cardinality(Known(d))

\* Faulty variant: the peer is added before the table is searched for it.
MergeAfterAdding(d, list, entered) ==
  /\ status' = [status EXCEPT ![d] =
                  [n \in Device |->
                     IF n \in Listed(d, list) \ entered /\ n \in Known(d)
                       THEN list[n] ELSE @[n]]]
  /\ peers' = [peers EXCEPT ![d] = @ \cup Newcomers(d, list)]

\* Enter the newcomers and set the status of the others.  A device that is a peer
\* is looked up in the table, one that is not gets the first free slot.
Merge(d, list, entered) ==
  /\ status' = [status EXCEPT ![d] =
                  [n \in Device |->
                     IF n \in entered \/ (n \in Listed(d, list) /\ n \in Known(d))
                       THEN list[n] ELSE @[n]]]
  /\ peers' = [peers EXCEPT ![d] = @ \cup Newcomers(d, list)]

Learn(d, list) ==
  \/ /\ Cardinality(Newcomers(d, list)) <= Free(d)
     /\ Merge(d, list, Newcomers(d, list))
     /\ UNCHANGED <<error_count, overrun>>
  \* No slot is free: the search reports it and goes on behind the table until it
  \* finds a zero, the entry lands in the memory that follows the table, which
  \* begins with the error counts.
  \/ /\ Cardinality(Newcomers(d, list)) > Free(d)
     /\ \E entered \in SUBSET Newcomers(d, list) :
          /\ Cardinality(entered) = Free(d)
          /\ Merge(d, list, entered)
     /\ \E junk \in [Device -> Counter] : error_count' = [error_count EXCEPT ![d] = junk]
     /\ overrun' = [overrun EXCEPT ![d] = TRUE]

\* Faulty variant: HELLO_DS is not answered.
HandleHelloUnanswered(d) ==
  /\ Pending(d, "HELLO_DS")
  /\ LET s == Head(queue[d]).from
     IN Learn(d, [EmptyTable EXCEPT ![s] = "ACTIVE"])
  /\ TakeEvent(d)
  /\ UNCHANGED <<up, announced, air, crashes>>

\* Enter the sender as ACTIVE and answer with the table.
HandleHello(d) ==
  /\ Pending(d, "HELLO_DS")
  /\ LET s == Head(queue[d]).from
     IN /\ Learn(d, [EmptyTable EXCEPT ![s] = "ACTIVE"])
        /\ SendTo(d, {s}, [kind |-> "NEIGHBORS", list |-> status'[d]])
  /\ TakeEvent(d)
  /\ UNCHANGED <<up, announced, crashes>>

\* Merge the list, then enter the sender as ACTIVE.
HandleNeighbors(d) ==
  /\ Pending(d, "NEIGHBORS")
  /\ LET e == Head(queue[d])
     IN Learn(d, [e.list EXCEPT ![e.from] = "ACTIVE"])
  /\ TakeEvent(d)
  /\ UNCHANGED <<up, announced, air, crashes>>

\* REQUEST_VOTE, RTT_CAL_MASTER, RTT_CAL_SLAVE: the answer goes to the sender
\* whatever its status, and nowhere when it is not a peer.
HandleRequest(d) ==
  /\ Pending(d, "REQUEST")
  /\ LET s == Head(queue[d]).from
     IN SendTo(d, {s} \cap peers[d], Plain("NOTICE"))
  /\ TakeEvent(d)
  /\ UNCHANGED <<up, announced, status, peers, error_count, overrun, crashes>>

-------------------------------------------------------------------------------

Handle(d) ==
  \/ HandleSent(d)
  \/ HandleFailed(d)
  \/ HandleHello(d)
  \/ HandleNeighbors(d)
  \/ HandleRequest(d)

Next ==
  \E d \in Device :
    \/ Boot(d) \/ Announce(d) \/ Crash(d) \/ Handle(d)
    \/ \E n \in Others(d) :
         Transmit(d, n) \/ \E kind \in Traffic[d] : SendData(d, n, kind)

Spec == Init /\ [][Next]_vars

\* The driver and the handler go on working; Speaker, the MASTER, goes on sending
\* TIME to its ACTIVE neighbours every 500 ms.  Nobody has to boot or crash.
Fairness ==
  /\ \A d \in Device :
       /\ WF_vars(Announce(d))
       /\ WF_vars(Handle(d))
       /\ \A n \in Others(d) : WF_vars(Transmit(d, n))
  /\ \A n \in Others(Speaker) :
       WF_vars(\E kind \in Traffic[Speaker] : SendData(Speaker, n, kind))

FairSpec == Spec /\ Fairness

-------------------------------------------------------------------------------
(* Properties *)

\* Every variable has its type, and no device is in its own table.
TypeOK ==
  /\ up \in [Device -> BOOLEAN]
  /\ announced \in [Device -> BOOLEAN]
  /\ status \in [Device -> Table]
  /\ peers \in [Device -> SUBSET Device]
  /\ error_count \in [Device -> [Device -> Counter]]
  /\ air \in [Device -> [Device -> Seq(Frame)]]
  /\ queue \in [Device -> Seq(Event)]
  /\ overrun \in [Device -> BOOLEAN]
  /\ crashes \in [Device -> Nat]
  /\ \A d \in Device : d \notin Known(d) /\ d \notin peers[d]

\* The table never overflows: the entries of rebooted devices are found again
\* instead of being added, however HELLO_DS and NEIGHBORS interleave.
NoOverrun == \A d \in Device : ~overrun[d]

\* The driver's peers are the devices in the table.  A peer without an entry would
\* be looked up in vain for ever and never become ACTIVE.
PeersAreKnown == \A d \in Device : peers[d] = Known(d)

\* Without radio losses only a device that has lost power is ever called INACTIVE,
\* by those that noticed and by those that were told.
DeathIsReal ==
  \A d, n \in Device : ~Lossy /\ status[d][n] = "INACTIVE" => crashes[n] > 0

\* Any two devices that stay powered find each other, in whatever order they boot
\* and announce themselves, as long as no frame is lost.
Discovery ==
  \A d \in Device : \A n \in Others(d) :
    <>[](up[d] /\ up[n]) => <>[](status[d][n] = "ACTIVE" /\ status[n][d] = "ACTIVE")

\* The death of a device the leader knows is noticed by the leader and spread to
\* everybody: no list under way brings a dead device back for good.
DeathSpreads ==
  \A d \in Device : \A n \in Others(d) :
    <>[](up[Speaker] /\ n \in Known(Speaker) /\ up[d] /\ ~up[n])
      => <>[](status[d][n] # "ACTIVE")

===============================================================================
