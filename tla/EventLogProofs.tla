---------------------------- MODULE EventLogProofs ---------------------------
(***************************************************************************)
(* Theorems about EventLog, for every set of devices and every size.       *)
(***************************************************************************)
EXTENDS EventLog, FiniteSetTheorems, TLAPS

-------------------------------------------------------------------------------
(* Queues *)

LEMMA AppendElements ==
  ASSUME NEW S, NEW q \in Seq(S), NEW x \in S
  PROVE  /\ Append(q, x) \in Seq(S)
         /\ \A n \in DOMAIN q : n \in DOMAIN Append(q, x) /\ Append(q, x)[n] = q[n]
         /\ \A n \in DOMAIN Append(q, x) :
              n \in DOMAIN q \/ (n = Len(q) + 1 /\ Append(q, x)[n] = x)
         /\ Len(q) + 1 \in DOMAIN Append(q, x) /\ Append(q, x)[Len(q) + 1] = x
OBVIOUS

LEMMA TailElements ==
  ASSUME NEW S, NEW q \in Seq(S), q # <<>>
  PROVE  /\ Head(q) \in S
         /\ Tail(q) \in Seq(S)
         /\ 1 \in DOMAIN q /\ Head(q) = q[1]
         /\ \A n \in DOMAIN Tail(q) : n + 1 \in DOMAIN q /\ Tail(q)[n] = q[n + 1]
         /\ \A n \in DOMAIN q : n = 1 \/ (n - 1 \in DOMAIN Tail(q) /\ Tail(q)[n - 1] = q[n])
OBVIOUS

-------------------------------------------------------------------------------
(* Type correctness *)

LEMMA InitType == Init => TypeOK
BY SizeAssumption DEF Init, TypeOK, Slot, Slots, NoEntry, buttonVars

LEMMA HeadType ==
  ASSUME TypeOK, NEW d \in Device, log_event[d] # <<>>
  PROVE  Head(log_event[d]) \in Entry /\ Head(log_event[d]).event \in Event
<1>1. Head(log_event[d]) \in Entry
  BY TailElements DEF TypeOK
<1> QED
  BY <1>1 DEF Entry

LEMMA NextType == TypeOK /\ [Next]_vars => TypeOK'
<1> SUFFICES ASSUME TypeOK, [Next]_vars
             PROVE  TypeOK'
  OBVIOUS
<1> USE DEF buttonVars, sortVars, taskVars
<1>1. ASSUME NEW d \in Device, Restart(d)
      PROVE  TypeOK'
  <2>1. missed' \subseteq Device \X Event
    <3>1. Logged(d) \subseteq Event
      BY DEF Logged, Used, TypeOK, Slot, EmptySlot
    <3>2. {q.event : q \in Queued(d)} \subseteq Event
      <4>1. \A q \in Queued(d) : q \in Entry
        BY DEF Queued, TypeOK
      <4> QED
        BY <4>1 DEF Entry
    <3>3. Unsent(d) \subseteq Event /\ Neighbours(d) \subseteq Device
      BY DEF Unsent, TypeOK, Neighbours
    <3> QED
      BY <1>1, <3>1, <3>2, <3>3 DEF Restart, TypeOK
  <2>2. events' \in [Device -> [Slots -> Slot]]
    BY <1>1 DEF Restart, TypeOK, Slot
  <2> QED
    BY <1>1, <2>1, <2>2 DEF Restart, TypeOK
<1>2. ASSUME NEW d \in Device, NEW t \in Time, Edge(d, t)
      PROVE  TypeOK'
  BY <1>2 DEF Edge, TypeOK
<1>3. ASSUME NEW d \in Device, ButtonTask(d)
      PROVE  TypeOK'
  <2>1. CASE TakeEdge(d)
    BY <2>1 DEF TakeEdge, TypeOK
  <2>2. ASSUME NEW type \in Press, Released(d, type)
        PROVE  /\ Pressing(d, type) \in Event
               /\ [event |-> Pressing(d, type), task |-> "SEND"] \in Entry
               /\ pressed' \subseteq Event
    BY <2>2 DEF Released, Pressing, Event, Entry, TypeOK
  <2>3. ASSUME NEW type \in Press, Release(d, type)
        PROVE  TypeOK'
    <3>1. log_event' \in [Device -> Seq(Entry)]
      BY <2>2, <2>3, AppendElements DEF Release, TypeOK
    <3> QED
      BY <2>2, <2>3, <3>1 DEF Release, Released, TypeOK
  <2>4. ASSUME NEW type \in Press, ReleaseInVain(d, type)
        PROVE  TypeOK'
    <3>1. missed' \subseteq Device \X Event
      BY <2>2, <2>4 DEF ReleaseInVain, TypeOK
    <3>2. losses' \in Nat
      BY <2>4 DEF ReleaseInVain, CanLose, TypeOK
    <3>3. pressed' \subseteq Event
      BY <2>2, <2>4 DEF ReleaseInVain
    <3> QED
      BY <2>4, <3>1, <3>2, <3>3 DEF ReleaseInVain, Released, TypeOK
  <2>5. CASE DropBounce(d) \/ Settle(d)
    BY <2>5 DEF DropBounce, Settle, TypeOK
  <2> QED
    BY <1>3, <2>1, <2>3, <2>4, <2>5 DEF ButtonTask
<1>4. ASSUME NEW d \in Device, DsTask(d)
      PROVE  TypeOK'
  <2>1. CASE TakeEntry(d)
    <3>1. Head(log_event[d]) \in Entry /\ Head(log_event[d]).event \in Event
      BY <2>1, HeadType DEF TakeEntry
    <3>2. log_event' \in [Device -> Seq(Entry)]
      BY <2>1, TailElements DEF TakeEntry, TypeOK
    <3>3. events' \in [Device -> [Slots -> Slot]] /\ missed' \subseteq Device \X Event
      <4>1. CASE Insert(d, Head(log_event[d]).event)
        <5> DEFINE e == Head(log_event[d]).event
        <5>1. PICK k \in Slots : events' = [events EXCEPT ![d][k] = e]
          BY <4>1 DEF Insert
        <5>2. e \in Slot
          BY <3>1 DEF Slot
        <5> HIDE DEF e
        <5> QED
          BY <4>1, <5>1, <5>2 DEF Insert, TypeOK
      <4>2. CASE LogIsFull(d, Head(log_event[d]).event)
        BY <3>1, <4>2 DEF LogIsFull, TypeOK
      <4> QED
        BY <2>1, <4>1, <4>2 DEF TakeEntry
    <3> QED
      BY <2>1, <3>1, <3>2, <3>3 DEF TakeEntry, TypeOK
  <2>2. CASE BeginPass(d)
    <3>1. CASE i[d] < History - 1 /\ i[d] \in Used(d)
      <4>1. /\ dsPc[d] = "pass" /\ dsPc' = [dsPc EXCEPT ![d] = "compare"]
            /\ j' = [j EXCEPT ![d] = 0]
            /\ swapped' = [swapped EXCEPT ![d] = FALSE]
        BY <2>2, <3>1 DEF BeginPass
      <4>2. swapped' \in [Device -> BOOLEAN]
        BY <4>1 DEF TypeOK
      <4> QED
        BY <2>2, <4>1, <4>2 DEF BeginPass, TypeOK
    <3>2. CASE ~(i[d] < History - 1 /\ i[d] \in Used(d))
      BY <2>2, <3>2 DEF BeginPass, TypeOK
    <3> QED
      BY <3>1, <3>2
  <2>3. CASE Compare(d)
    <3>1. j[d] \in Slots /\ j[d] + 1 \in Slots
      BY <2>3, SizeAssumption DEF Compare, PassGoesOn, TypeOK, Slots
    <3>2. events' \in [Device -> [Slots -> Slot]]
      <4>1. events[d] \in [Slots -> Slot]
        BY DEF TypeOK
      <4>2. Swapped(d) \in [Slots -> Slot]
        BY <3>1, <4>1 DEF Swapped
      <4> QED
        BY <2>3, <4>2 DEF Compare, TypeOK
    <3>3. swapped' \in [Device -> BOOLEAN] /\ j' \in [Device -> Nat]
      <4>1. \/ swapped' = [swapped EXCEPT ![d] = TRUE]
            \/ swapped' = swapped
        BY <2>3 DEF Compare
      <4>2. j' = [j EXCEPT ![d] = @ + 1]
        BY <2>3 DEF Compare
      <4>3. swapped' \in [Device -> BOOLEAN]
        BY <4>1 DEF TypeOK
      <4>4. j' \in [Device -> Nat]
        BY <4>2 DEF TypeOK
      <4> QED
        BY <4>3, <4>4
    <3> QED
      BY <2>3, <3>2, <3>3 DEF Compare, TypeOK
  <2>4. CASE EndPass(d)
    BY <2>4 DEF EndPass, TypeOK
  <2>5. CASE Distribute(d)
    <3>1. air' \subseteq Frame
      BY <2>5 DEF Distribute, TypeOK, Neighbours, Frame, Entry
    <3> QED
      BY <2>5, <3>1 DEF Distribute, TypeOK
  <2> QED
    BY <1>4, <2>1, <2>2, <2>3, <2>4, <2>5 DEF DsTask
<1>5. ASSUME NEW f \in air, Radio(f)
      PROVE  TypeOK'
  <2>1. f \in Frame /\ f.to \in Device /\ f.event \in Event
    BY DEF TypeOK, Frame
  <2>2. CASE Receive(f)
    <3>1. log_event' \in [Device -> Seq(Entry)]
      <4>1. [event |-> f.event, task |-> "SAVE"] \in Entry
        BY <2>1 DEF Entry
      <4> QED
        BY <2>1, <2>2, <4>1, AppendElements DEF Receive, TypeOK
    <3> QED
      BY <2>2, <3>1 DEF Receive, TypeOK
  <2>3. CASE Lose(f)
    BY <2>1, <2>3 DEF Lose, CanLose, TypeOK
  <2> QED
    BY <1>5, <2>2, <2>3 DEF Radio
<1>6. CASE UNCHANGED vars
  BY <1>6 DEF vars, TypeOK
<1> QED
  BY <1>1, <1>2, <1>3, <1>4, <1>5, <1>6 DEF Next

\* Every variable keeps its type; a held button has an edge, and a busy
\* handle_ds_event_task an entry.
THEOREM TypeCorrect == Spec => []TypeOK
<1> QED
  BY InitType, NextType, PTL DEF Spec
-------------------------------------------------------------------------------
(* The order of the log *)

\* The timestamps of a log s do not fall; EMPTY slots have timestamp 0.
Rising(s) ==
  \A k, l \in Slots : k < l => s[k].timestamp <= s[l].timestamp

\* The same but for the entry in slot f, which may be later than its successors.
RisingBut(s, f) ==
  \A k, l \in Slots : k < l /\ k # f => s[k].timestamp <= s[l].timestamp

\* Only the first pass has anything to do: it carries the new entry up.
SortInvOf(d) ==
  /\ dsPc[d] \in {"wait", "send"} \/ i[d] # 0 => Rising(events[d])
  /\ dsPc[d] = "pass" /\ i[d] = 0 =>
       0 \in Used(d) /\ \E f \in Slots : RisingBut(events[d], f)
  /\ dsPc[d] = "compare" /\ i[d] = 0 =>
       \E f \in Slots : j[d] <= f /\ RisingBut(events[d], f)

SortInv == \A d \in Device : SortInvOf(d)

LEMMA Stamps ==
  ASSUME TypeOK, NEW d \in Device, NEW k \in Slots
  PROVE  /\ events[d][k].timestamp \in Nat
         /\ k \notin Used(d) => events[d][k].timestamp = 0
<1>1. events[d][k] \in Event \union {EmptySlot}
  BY DEF TypeOK, Slot
<1>2. CASE events[d][k] \in Event
  BY <1>2, TimeAssumption, PressAssumption DEF Event, Used
<1>3. CASE events[d][k] = EmptySlot
  BY <1>3 DEF EmptySlot
<1> QED
  BY <1>1, <1>2, <1>3

LEMMA EventIsUsed ==
  ASSUME NEW e \in Event
  PROVE  e.type # "EMPTY" /\ e.timestamp \in Nat
BY TimeAssumption, PressAssumption DEF Event

LEMMA TakeEntrySorts ==
  ASSUME TypeOK, SortInv, NEW d \in Device, TakeEntry(d)
  PROVE  SortInvOf(d)'
<1> DEFINE e == Head(log_event[d]).event
<1>1. e \in Event
  BY HeadType DEF TakeEntry
<1>2. Rising(events[d])
  BY DEF SortInv, SortInvOf, TakeEntry
<1>3. dsPc'[d] = "pass" /\ i'[d] = 0
  BY DEF TakeEntry, TypeOK
<1>4. 0 \in Slots
  BY SizeAssumption DEF Slots
<1>5. ASSUME Insert(d, e)
      PROVE  0 \in Used(d)' /\ \E f \in Slots : RisingBut(events[d], f)'
  <2>1. PICK k \in Slots : FirstEmpty(d, k) /\ events' = [events EXCEPT ![d][k] = e]
    BY <1>5 DEF Insert
  <2>2. /\ events'[d][k] = e
        /\ \A l \in Slots : l # k => events'[d][l] = events[d][l]
    BY <2>1 DEF TypeOK
  <2>3. events[d][k].timestamp = 0 /\ \A l \in Slots : events[d][l].timestamp \in Nat
    BY <2>1, Stamps DEF FirstEmpty
  <2>4. 0 \in Used(d)'
    <3>1. CASE k = 0
      BY <1>1, <1>4, <2>2, <3>1, EventIsUsed DEF Used
    <3>2. CASE k # 0
      BY <1>4, <2>1, <2>2, <3>2 DEF FirstEmpty, Used, Slots
    <3> QED
      BY <3>1, <3>2
  <2>5. RisingBut(events[d], k)'
    <3> SUFFICES ASSUME NEW a \in Slots, NEW b \in Slots, a < b, a # k
                 PROVE  events'[d][a].timestamp <= events'[d][b].timestamp
      BY DEF RisingBut
    <3>1. events[d][a].timestamp <= events[d][b].timestamp
      BY <1>2 DEF Rising
    <3>2. CASE b = k
      <4>1. events[d][a].timestamp = 0
        BY <2>3, <3>1, <3>2
      <4>2. e.timestamp \in Nat
        BY <1>1, EventIsUsed
      <4> HIDE DEF e
      <4> QED
        BY <2>2, <3>2, <4>1, <4>2
    <3>3. CASE b # k
      BY <2>2, <3>1, <3>3
    <3> QED
      BY <3>2, <3>3
  <2> QED
    BY <2>4, <2>5
<1>6. ASSUME LogIsFull(d, e)
      PROVE  0 \in Used(d)' /\ \E f \in Slots : RisingBut(events[d], f)'
  BY <1>2, <1>4, <1>6 DEF LogIsFull, Used, Rising, RisingBut
<1>7. 0 \in Used(d)' /\ \E f \in Slots : RisingBut(events[d], f)'
  BY <1>5, <1>6 DEF TakeEntry
<1> QED
  BY <1>3, <1>7 DEF SortInvOf

LEMMA BeginPassSorts ==
  ASSUME TypeOK, SortInv, NEW d \in Device, BeginPass(d)
  PROVE  SortInvOf(d)'
<1>1. events' = events /\ i' = i /\ dsPc[d] = "pass"
  BY DEF BeginPass
<1>2. CASE i[d] < History - 1 /\ i[d] \in Used(d)
  <2>1. dsPc'[d] = "compare" /\ j'[d] = 0
    BY <1>2 DEF BeginPass, TypeOK
  <2> QED
    BY <1>1, <2>1 DEF SortInv, SortInvOf, Slots
<1>3. CASE ~(i[d] < History - 1 /\ i[d] \in Used(d))
  <2>1. dsPc'[d] = "send"
    BY <1>3 DEF BeginPass, TypeOK
  <2>2. Rising(events[d])
    <3>1. CASE i[d] # 0
      BY <3>1 DEF SortInv, SortInvOf
    <3>2. CASE i[d] = 0
      <4>1. 0 \in Used(d)
        BY <1>1, <3>2 DEF SortInv, SortInvOf
      <4>2. History = 1
        BY <1>3, <3>2, <4>1, SizeAssumption
      <4> QED
        BY <4>2 DEF Rising, Slots
    <3> QED
      BY <3>1, <3>2
  <2> QED
    BY <1>1, <2>1, <2>2 DEF SortInvOf, Rising
<1> QED
  BY <1>2, <1>3

LEMMA CompareSorts ==
  ASSUME TypeOK, SortInv, NEW d \in Device, Compare(d)
  PROVE  SortInvOf(d)'
<1>0. PICK p \in Nat : p = j[d]
  BY DEF TypeOK
<1>1. /\ dsPc' = dsPc /\ i' = i /\ dsPc[d] = "compare"
      /\ j'[d] = p + 1
  BY <1>0 DEF Compare, TypeOK
<1>2. p \in Slots /\ p + 1 \in Slots
  BY <1>0, SizeAssumption DEF Compare, PassGoesOn, TypeOK, Slots
<1>3. \A k \in Slots : events[d][k].timestamp \in Nat
  BY Stamps
<1>4. CASE i[d] # 0
  <2>1. Rising(events[d])
    BY <1>4 DEF SortInv, SortInvOf
  <2>2. ~OutOfOrder(d)
    BY <1>0, <1>2, <1>3, <2>1 DEF Rising, OutOfOrder
  <2> QED
    BY <1>1, <1>4, <2>1, <2>2 DEF Compare, SortInvOf, Rising
<1>5. CASE i[d] = 0
  <2>1. PICK f \in Slots : p <= f /\ RisingBut(events[d], f)
    BY <1>0, <1>1, <1>5 DEF SortInv, SortInvOf
  <2>2. \E g \in Slots : p + 1 <= g /\ RisingBut(events[d], g)'
    <3>1. CASE OutOfOrder(d)
      <4>1. f = p
        BY <1>0, <1>2, <1>3, <2>1, <3>1 DEF RisingBut, OutOfOrder
      <4>2. /\ events'[d][p] = events[d][p + 1]
            /\ events'[d][p + 1] = events[d][p]
            /\ \A k \in Slots \ {p, p + 1} : events'[d][k] = events[d][k]
        <5>1. events'[d] = Swapped(d)
          BY <3>1 DEF Compare, TypeOK
        <5>2. events[d] \in [Slots -> Slot] /\ p # p + 1
          BY <1>2 DEF TypeOK, Slots
        <5> QED
          BY <1>0, <1>2, <5>1, <5>2 DEF Swapped
      <4>3. RisingBut(events[d], p + 1)'
        <5> SUFFICES ASSUME NEW a \in Slots, NEW b \in Slots, a < b, a # p + 1
                     PROVE  events'[d][a].timestamp <= events'[d][b].timestamp
          BY DEF RisingBut
        <5>1. CASE a = p
          <6>1. CASE b = p + 1
            BY <1>0, <1>2, <1>3, <3>1, <4>2, <5>1, <6>1 DEF OutOfOrder
          <6>2. CASE b # p + 1
            <7>1. p + 1 < b /\ p + 1 # f
              BY <1>2, <4>1, <5>1, <6>2 DEF Slots
            <7>2. events[d][p + 1].timestamp <= events[d][b].timestamp
              BY <1>2, <2>1, <7>1 DEF RisingBut
            <7> QED
              BY <4>2, <5>1, <6>2, <7>1, <7>2 DEF Slots
          <6> QED
            BY <6>1, <6>2
        <5>2. CASE a # p
          <6>1. events'[d][a] = events[d][a]
            BY <4>2, <5>2
          <6>2. \A c \in Slots : a < c => events[d][a].timestamp <= events[d][c].timestamp
            BY <2>1, <4>1, <5>2 DEF RisingBut
          <6>3. CASE b = p
            BY <1>2, <4>2, <6>1, <6>2, <6>3 DEF Slots
          <6>4. CASE b = p + 1
            <7>1. a < p
              BY <1>2, <5>2, <6>4 DEF Slots
            <7> QED
              BY <1>2, <4>2, <6>1, <6>2, <6>4, <7>1
          <6>5. CASE b \notin {p, p + 1}
            BY <4>2, <6>1, <6>2, <6>5
          <6> QED
            BY <6>3, <6>4, <6>5
        <5> QED
          BY <5>1, <5>2
      <4> QED
        BY <1>2, <4>3 DEF Slots
    <3>2. CASE ~OutOfOrder(d)
      <4>1. events' = events
        BY <3>2 DEF Compare
      <4>2. CASE f = p
        <5>1. events[d][p].timestamp <= events[d][p + 1].timestamp
          BY <1>0, <1>2, <1>3, <3>2 DEF OutOfOrder
        <5>2. RisingBut(events[d], p + 1)
          <6> SUFFICES ASSUME NEW a \in Slots, NEW b \in Slots, a < b, a # p + 1
                       PROVE  events[d][a].timestamp <= events[d][b].timestamp
            BY DEF RisingBut
          <6>1. CASE a # p
            BY <2>1, <4>2, <6>1 DEF RisingBut
          <6>2. CASE a = p /\ b = p + 1
            BY <5>1, <6>2
          <6>3. CASE a = p /\ b # p + 1
            <7>1. p + 1 < b /\ p + 1 # f
              BY <1>2, <4>2, <6>3 DEF Slots
            <7>2. events[d][p + 1].timestamp <= events[d][b].timestamp
              BY <1>2, <2>1, <7>1 DEF RisingBut
            <7> QED
              BY <1>2, <1>3, <5>1, <6>3, <7>2
          <6> QED
            BY <6>1, <6>2, <6>3
        <5> QED
          BY <1>2, <4>1, <5>2 DEF RisingBut, Slots
      <4>3. CASE f # p
        BY <1>2, <2>1, <4>1, <4>3 DEF RisingBut, Slots
      <4> QED
        BY <4>2, <4>3
    <3> QED
      BY <3>1, <3>2
  <2> QED
    BY <1>1, <1>5, <2>2 DEF SortInvOf
<1> QED
  BY <1>4, <1>5

LEMMA EndPassSorts ==
  ASSUME TypeOK, SortInv, NEW d \in Device, EndPass(d)
  PROVE  SortInvOf(d)'
<1>1. /\ events' = events /\ dsPc[d] = "compare"
      /\ i'[d] = i[d] + 1 /\ dsPc'[d] \in {"pass", "send"}
  BY DEF EndPass, TypeOK
<1>2. i'[d] # 0
  BY <1>1 DEF TypeOK
<1>3. Rising(events[d])
  <2>1. CASE i[d] # 0
    BY <2>1 DEF SortInv, SortInvOf
  <2>2. CASE i[d] = 0
    <3>1. PICK f \in Slots : j[d] <= f /\ RisingBut(events[d], f)
      BY <1>1, <2>2 DEF SortInv, SortInvOf
    <3>2. j[d] >= History - 1
      <4>1. SUFFICES ASSUME j[d] < History - 1
                     PROVE  FALSE
        BY SizeAssumption DEF TypeOK
      <4>2. j[d] \in Slots /\ j[d] + 1 \in Slots
        BY <4>1, SizeAssumption DEF TypeOK, Slots
      <4>3. OutOfOrder(d) /\ j[d] \notin Used(d)
        BY <2>2, <4>1, SizeAssumption DEF EndPass, PassGoesOn, TypeOK
      <4>4. events[d][j[d]].timestamp = 0 /\ events[d][j[d] + 1].timestamp \in Nat
        BY <4>2, <4>3, Stamps
      <4> QED
        BY <4>3, <4>4 DEF OutOfOrder
    <3>3. f = History - 1
      BY <3>1, <3>2, SizeAssumption DEF Slots, TypeOK
    <3> QED
      BY <3>1, <3>3, SizeAssumption DEF Rising, RisingBut, Slots
  <2> QED
    BY <2>1, <2>2
<1> QED
  BY <1>1, <1>2, <1>3 DEF SortInvOf, Rising

LEMMA SortInvInit == Init => SortInv
BY DEF Init, SortInv, SortInvOf, Rising, EmptySlot

LEMMA SortInvNext == TypeOK /\ SortInv /\ [Next]_vars => SortInv'
<1> SUFFICES ASSUME TypeOK, SortInv, [Next]_vars, NEW e \in Device
             PROVE  SortInvOf(e)'
  BY DEF SortInv
<1> USE DEF buttonVars, sortVars, taskVars
\* What does not touch the log and its task leaves it sorted.
<1>1. ASSUME events'[e] = events[e], dsPc'[e] = dsPc[e], i'[e] = i[e], j'[e] = j[e]
      PROVE  SortInvOf(e)'
  BY <1>1 DEF SortInv, SortInvOf, Used, Rising, RisingBut
<1>2. ASSUME NEW d \in Device, Restart(d)
      PROVE  SortInvOf(e)'
  <2>1. CASE e = d
    BY <1>2, <2>1 DEF Restart, TypeOK, SortInvOf, Rising, EmptySlot
  <2>2. CASE e # d
    BY <1>1, <1>2, <2>2 DEF Restart, TypeOK
  <2> QED
    BY <2>1, <2>2
<1>3. ASSUME NEW d \in Device, NEW t \in Time, Edge(d, t)
      PROVE  SortInvOf(e)'
  BY <1>1, <1>3 DEF Edge
<1>4. ASSUME NEW d \in Device, ButtonTask(d)
      PROVE  SortInvOf(e)'
  BY <1>1, <1>4 DEF ButtonTask, TakeEdge, Release, ReleaseInVain, Released, DropBounce, Settle
<1>5. ASSUME NEW d \in Device, DsTask(d)
      PROVE  SortInvOf(e)'
  <2>1. CASE e # d
    <3>1. events'[e] = events[e] /\ dsPc'[e] = dsPc[e] /\ i'[e] = i[e] /\ j'[e] = j[e]
      <4>1. CASE TakeEntry(d)
        BY <2>1, <4>1 DEF TakeEntry, Insert, LogIsFull, TypeOK
      <4>2. CASE BeginPass(d)
        BY <2>1, <4>2 DEF BeginPass, TypeOK
      <4>3. CASE Compare(d)
        BY <2>1, <4>3 DEF Compare, TypeOK
      <4>4. CASE EndPass(d)
        BY <2>1, <4>4 DEF EndPass, TypeOK
      <4>5. CASE Distribute(d)
        BY <2>1, <4>5 DEF Distribute, TypeOK
      <4> QED
        BY <1>5, <4>1, <4>2, <4>3, <4>4, <4>5 DEF DsTask
    <3> QED
      BY <1>1, <3>1
  <2>2. CASE e = d
    <3>1. CASE Distribute(d)
      <4>1. dsPc[d] = "send" /\ dsPc'[d] = "wait" /\ events' = events /\ i' = i
        BY <3>1 DEF Distribute, TypeOK
      <4> QED
        BY <2>2, <4>1 DEF SortInv, SortInvOf, Rising
    <3> QED
      BY <1>5, <2>2, <3>1, TakeEntrySorts, BeginPassSorts, CompareSorts, EndPassSorts DEF DsTask
  <2> QED
    BY <2>1, <2>2
<1>6. ASSUME NEW f \in air, Radio(f)
      PROVE  SortInvOf(e)'
  BY <1>1, <1>6 DEF Radio, Receive, Lose
<1>7. CASE UNCHANGED vars
  BY <1>1, <1>7 DEF vars
<1> QED
  BY <1>2, <1>3, <1>4, <1>5, <1>6, <1>7 DEF Next

\* Whenever handle_ds_event_task is done with an entry the log is in the order
\* of the timestamps, for every length of the log and every order of arrival.
THEOREM LogsOrdered == Spec => []Ordered
<1>1. TypeOK /\ SortInv => Ordered
  BY DEF SortInv, SortInvOf, Rising, Ordered, Ascending, Used
<1> QED
  BY <1>1, InitType, NextType, SortInvInit, SortInvNext, PTL DEF Spec
-------------------------------------------------------------------------------
(* What the steps do to logs and queues *)

LEMMA InsertLogs ==
  ASSUME TypeOK, NEW d \in Device, NEW e \in Event, Insert(d, e)
  PROVE  /\ Logged(d)' = Logged(d) \union {e}
         /\ \A x \in Device : x # d => Logged(x)' = Logged(x)
         /\ Used(d) # Slots
<1>1. PICK k \in Slots : FirstEmpty(d, k) /\ events' = [events EXCEPT ![d][k] = e]
  BY DEF Insert
<1>2. /\ events'[d][k] = e
      /\ \A l \in Slots : l # k => events'[d][l] = events[d][l]
      /\ \A x \in Device : x # d => events'[x] = events[x]
  BY <1>1 DEF TypeOK
<1>3. k \notin Used(d) /\ Used(d)' = Used(d) \union {k}
  BY <1>1, <1>2, EventIsUsed DEF FirstEmpty, Used
<1> QED
  BY <1>1, <1>2, <1>3 DEF Logged, Used

LEMMA CompareKeeps ==
  ASSUME TypeOK, NEW d \in Device, Compare(d)
  PROVE  \A x \in Device : Logged(x)' = Logged(x)
<1>1. CASE ~OutOfOrder(d)
  BY <1>1 DEF Compare, Logged, Used
<1>2. CASE OutOfOrder(d)
  <2>1. j[d] \in Slots /\ j[d] + 1 \in Slots /\ j[d] # j[d] + 1
    BY SizeAssumption DEF Compare, PassGoesOn, TypeOK, Slots
  <2>2. /\ events' = [events EXCEPT ![d] = Swapped(d)]
        /\ events[d] \in [Slots -> Slot]
    BY <1>2 DEF Compare, TypeOK
  <2>3. /\ events'[d][j[d]] = events[d][j[d] + 1]
        /\ events'[d][j[d] + 1] = events[d][j[d]]
        /\ \A k \in Slots \ {j[d], j[d] + 1} : events'[d][k] = events[d][k]
    BY <2>1, <2>2 DEF Swapped, TypeOK
  <2>4. \A x \in Device : x # d => events'[x] = events[x]
    BY <2>2 DEF TypeOK
  <2>5. \A k \in Slots : \E l \in Slots : events'[d][k] = events[d][l]
    BY <2>1, <2>3
  <2>6. \A k \in Slots : \E l \in Slots : events[d][k] = events'[d][l]
    BY <2>1, <2>3
  <2>7. Logged(d)' = Logged(d)
    BY <2>5, <2>6 DEF Logged, Used
  <2> QED
    BY <2>4, <2>7 DEF Logged, Used
<1> QED
  BY <1>1, <1>2

LEMMA AppendQueues ==
  ASSUME TypeOK, NEW d \in Device, NEW x \in Entry,
         log_event' = [log_event EXCEPT ![d] = Append(@, x)]
  PROVE  /\ Queued(d)' = Queued(d) \union {x}
         /\ \A r \in Device : r # d => Queued(r)' = Queued(r)
<1>1. log_event[d] \in Seq(Entry) /\ log_event'[d] = Append(log_event[d], x)
  BY DEF TypeOK
<1>2. \A r \in Device : r # d => log_event'[r] = log_event[r]
  BY DEF TypeOK
<1>3. Queued(d)' = Queued(d) \union {x}
  BY <1>1, AppendElements DEF Queued
<1> QED
  BY <1>2, <1>3 DEF Queued

LEMMA TakeQueues ==
  ASSUME TypeOK, NEW d \in Device, TakeEntry(d)
  PROVE  /\ Queued(d) = Queued(d)' \union {Head(log_event[d])}
         /\ \A r \in Device : r # d => Queued(r)' = Queued(r)
<1>1. /\ log_event[d] \in Seq(Entry) /\ log_event[d] # <<>>
      /\ log_event'[d] = Tail(log_event[d])
  BY DEF TypeOK, TakeEntry
<1>2. \A r \in Device : r # d => log_event'[r] = log_event[r]
  BY DEF TypeOK, TakeEntry
<1>3. Queued(d)' \subseteq Queued(d) /\ Head(log_event[d]) \in Queued(d)
  BY <1>1, TailElements DEF Queued
<1>4. ASSUME NEW n \in DOMAIN log_event[d], n # 1
      PROVE  log_event[d][n] \in Queued(d)'
  <2>1. n - 1 \in DOMAIN Tail(log_event[d]) /\ Tail(log_event[d])[n - 1] = log_event[d][n]
    BY <1>1, <1>4, TailElements
  <2> QED
    BY <1>1, <2>1 DEF Queued
<1>5. Queued(d) \subseteq Queued(d)' \union {Head(log_event[d])}
  BY <1>1, <1>4, TailElements DEF Queued
<1> QED
  BY <1>2, <1>3, <1>5 DEF Queued

LEMMA QueuedType ==
  ASSUME TypeOK, NEW d \in Device, NEW q \in Queued(d)
  PROVE  q \in Entry /\ q.event \in Event
<1>1. q \in Entry
  BY DEF TypeOK, Queued
<1> QED
  BY <1>1 DEF Entry

LEMMA PressingType ==
  ASSUME TypeOK, NEW d \in Device, NEW type \in Press, Released(d, type)
  PROVE  /\ Pressing(d, type) \in Event
         /\ [event |-> Pressing(d, type), task |-> "SEND"] \in Entry
BY DEF Released, Pressing, Event, Entry, TypeOK

LEMMA FrameType ==
  ASSUME TypeOK, NEW f \in air
  PROVE  /\ f.from \in Device /\ f.to \in Device /\ f.event \in Event
         /\ [event |-> f.event, task |-> "SAVE"] \in Entry
BY DEF TypeOK, Frame, Entry
-------------------------------------------------------------------------------
(* Conservation of presses *)

\* Whatever the queues, the task and the radio carry has been pressed.
PastInv ==
  /\ \A d \in Device : \A q \in Busy(d) : q.event \in pressed
  /\ \A f \in air : f.event \in pressed

\* The press e is accounted for at d.
At(d, e) == e \in Logged(d) \union Coming(d) \/ <<d, e>> \in missed

AccountInv == PastInv /\ Accounted

\* Steps that only add to what the parts of the system hold.
Growing ==
  /\ \A d \in Device : /\ Logged(d) \subseteq Logged(d)'
                       /\ Queued(d) \subseteq Queued(d)'
                       /\ Busy(d) \subseteq Busy(d)'
  /\ air \subseteq air'
  /\ pressed \subseteq pressed'
  /\ missed \subseteq missed'

LEMMA GrowingKeeps ==
  ASSUME Growing, NEW d \in Device, NEW e \in pressed, At(d, e)
  PROVE  At(d, e)'
<1>1. \A s \in Device : Unsent(s) \subseteq Unsent(s)'
  BY DEF Unsent, Growing
<1>2. Coming(d) \subseteq Coming(d)'
  BY <1>1 DEF Growing, Coming
<1> QED
  BY <1>2 DEF Growing, At

LEMMA AccountInit == Init => AccountInv
BY DEF Init, AccountInv, PastInv, Accounted, Busy, Queued

LEMMA RestartAccounts ==
  ASSUME TypeOK, AccountInv, NEW s \in Device, Restart(s)
  PROVE  AccountInv'
<1>1. /\ air' = air /\ pressed' = pressed /\ missed \subseteq missed'
      /\ \A e \in Logged(s) \union {q.event : q \in Queued(s)} : <<s, e>> \in missed'
      /\ \A r \in Device \ {s} : \A e \in Unsent(s) : <<r, e>> \in missed'
  BY DEF Restart, Neighbours
<1>2. /\ \A r \in Device \ {s} : /\ Logged(r)' = Logged(r)
                               /\ Queued(r)' = Queued(r)
                               /\ Busy(r)' = Busy(r)
      /\ Busy(s)' = {}
  <2>1. \A r \in Device \ {s} : /\ events'[r] = events[r] /\ log_event'[r] = log_event[r]
                               /\ dsPc'[r] = dsPc[r] /\ data'[r] = data[r]
    BY DEF Restart, TypeOK
  <2>2. log_event'[s] = <<>> /\ dsPc'[s] = "wait"
    BY DEF Restart, TypeOK
  <2> QED
    BY <2>1, <2>2 DEF Logged, Used, Queued, Busy
<1>3. PastInv'
  BY <1>1, <1>2 DEF AccountInv, PastInv
<1>4. ASSUME NEW d \in Device, NEW e \in pressed
      PROVE  At(d, e)'
  <2>0. At(d, e)
    BY DEF AccountInv, Accounted, At
  <2>1. CASE <<d, e>> \in missed
    BY <1>1, <2>1 DEF At
  <2>2. CASE \E f \in air : f.to = d /\ f.event = e
    BY <1>1, <2>2 DEF At, Coming
  <2>3. CASE e \in Logged(d) \/ \E q \in Queued(d) : q.event = e
    BY <1>1, <1>2, <2>3 DEF At, Coming
  <2>4. CASE \E r \in Device \ {d} : e \in Unsent(r)
    <3>1. PICK r \in Device \ {d} : e \in Unsent(r)
      BY <2>4
    <3>2. CASE r = s
      BY <1>1, <3>1, <3>2 DEF At
    <3>3. CASE r # s
      <4>1. e \in Unsent(r)'
        BY <1>1, <1>2, <3>1, <3>3 DEF Unsent
      <4> QED
        BY <1>1, <3>1, <4>1 DEF At, Coming
    <3> QED
      BY <3>2, <3>3
  <2> QED
    BY <2>0, <2>1, <2>2, <2>3, <2>4 DEF At, Coming
<1> QED
  BY <1>1, <1>3, <1>4 DEF AccountInv, Accounted, At

LEMMA ReleaseAccounts ==
  ASSUME TypeOK, AccountInv, NEW d \in Device, NEW type \in Press, Release(d, type)
  PROVE  AccountInv'
<1>0. PICK p \in Event : p = Pressing(d, type)
  BY PressingType DEF Release
<1> DEFINE x == [event |-> p, task |-> "SEND"]
<1>1. x \in Entry
  BY <1>0, PressingType DEF Release
<1>2. /\ Queued(d)' = Queued(d) \union {x}
      /\ \A r \in Device : r # d => Queued(r)' = Queued(r)
  BY <1>0, <1>1, AppendQueues DEF Release
<1>3. /\ pressed' = pressed \union {p} /\ air' = air /\ missed' = missed
      /\ events' = events /\ dsPc' = dsPc /\ data' = data
  BY <1>0 DEF Release, Released, taskVars
<1>4. /\ Busy(d)' = Busy(d) \union {x}
      /\ \A r \in Device : r # d => Busy(r)' = Busy(r)
  BY <1>2, <1>3 DEF Busy
<1>5. PastInv'
  BY <1>3, <1>4 DEF AccountInv, PastInv
<1>6. Growing
  BY <1>2, <1>3, <1>4 DEF Growing, Logged, Used
<1>7. ASSUME NEW r \in Device
      PROVE  At(r, p)'
  <2>1. CASE r = d
    <3>1. x \in Queued(r)' /\ x.event = p /\ p \in pressed'
      BY <1>2, <1>3, <2>1
    <3> QED
      BY <3>1 DEF At, Coming
  <2>2. CASE r # d
    <3>1. x \in Busy(d)' /\ p \in pressed'
      BY <1>3, <1>4
    <3>2. p \in Unsent(d)'
      BY <3>1 DEF Unsent
    <3> QED
      BY <2>2, <3>1, <3>2 DEF At, Coming
  <2> QED
    BY <2>1, <2>2
<1>8. \A r \in Device : \A e \in pressed' : At(r, e)'
  BY <1>3, <1>6, <1>7, GrowingKeeps DEF AccountInv, Accounted, At
<1> QED
  BY <1>5, <1>8 DEF AccountInv, Accounted, At

LEMMA TakeEntryAccounts ==
  ASSUME TypeOK, AccountInv, NEW d \in Device, TakeEntry(d)
  PROVE  AccountInv'
<1> DEFINE h == Head(log_event[d])
<1>1. h \in Entry /\ h.event \in Event
  BY HeadType DEF TakeEntry
<1>2. /\ Queued(d) = Queued(d)' \union {h}
      /\ \A r \in Device : r # d => Queued(r)' = Queued(r)
  BY TakeQueues
<1>3. /\ air' = air /\ pressed' = pressed /\ missed \subseteq missed'
      /\ dsPc[d] = "wait" /\ dsPc'[d] = "pass" /\ data'[d] = h
      /\ \A r \in Device : r # d => dsPc'[r] = dsPc[r] /\ data'[r] = data[r]
  BY DEF TakeEntry, Insert, LogIsFull, TypeOK
<1>4. \A r \in Device : Busy(r)' = Busy(r)
  BY <1>2, <1>3 DEF Busy
<1>5. /\ \A r \in Device : Logged(r) \subseteq Logged(r)'
      /\ h.event \in Logged(d)' \/ <<d, h.event>> \in missed'
  <2>1. CASE Insert(d, h.event)
    BY <1>1, <2>1, InsertLogs
  <2>2. CASE LogIsFull(d, h.event)
    BY <2>2 DEF LogIsFull, Logged, Used
  <2> QED
    BY <2>1, <2>2 DEF TakeEntry
<1>6. PastInv'
  BY <1>3, <1>4 DEF AccountInv, PastInv
<1>7. ASSUME NEW r \in Device, NEW e \in pressed
      PROVE  At(r, e)'
  <2>0. At(r, e)
    BY DEF AccountInv, Accounted, At
  <2>1. CASE \E q \in Queued(r) : q.event = e
    BY <1>2, <1>3, <1>5, <2>1 DEF At, Coming
  <2>2. \A s \in Device : Unsent(s)' = Unsent(s)
    BY <1>3, <1>4 DEF Unsent
  <2>3. CASE ~\E q \in Queued(r) : q.event = e
    BY <1>3, <1>5, <2>0, <2>2, <2>3 DEF At, Coming
  <2> QED
    BY <2>1, <2>3
<1> QED
  BY <1>3, <1>6, <1>7 DEF AccountInv, Accounted, At

LEMMA DistributeAccounts ==
  ASSUME TypeOK, AccountInv, NEW d \in Device, Distribute(d)
  PROVE  AccountInv'
<1>1. /\ \A r \in Device : Logged(r)' = Logged(r) /\ Queued(r)' = Queued(r)
      /\ pressed' = pressed /\ missed' = missed /\ air \subseteq air'
      /\ dsPc[d] = "send" /\ dsPc'[d] = "wait" /\ data[d] \in Entry
      /\ \A r \in Device : r # d => dsPc'[r] = dsPc[r] /\ data'[r] = data[r]
  BY DEF Distribute, TypeOK, Logged, Used, Queued
<1>2. /\ Busy(d) = Busy(d)' \union {data[d]}
      /\ \A r \in Device : r # d => Busy(r)' = Busy(r)
  BY <1>1 DEF Busy
<1>3. PastInv'
  <2>1. \A f \in air' : f \in air \/ f.event = data[d].event
    BY DEF Distribute
  <2> QED
    BY <1>1, <1>2, <2>1 DEF AccountInv, PastInv
<1>4. ASSUME NEW r \in Device, NEW e \in pressed
      PROVE  At(r, e)'
  <2>0. At(r, e)
    BY DEF AccountInv, Accounted, At
  <2>1. CASE \E s \in Device \ {r} : e \in Unsent(s)
    <3>1. PICK s \in Device \ {r} : e \in Unsent(s)
      BY <2>1
    <3>2. CASE e \in Unsent(s)'
      BY <1>1, <3>1, <3>2 DEF At, Coming
    <3>3. CASE e \notin Unsent(s)'
      <4>1. s = d /\ data[d] = [event |-> e, task |-> "SEND"]
        BY <1>1, <1>2, <3>1, <3>3 DEF Unsent
      <4>2. [from |-> d, to |-> r, event |-> e] \in air'
        BY <3>1, <4>1 DEF Distribute, Neighbours
      <4> QED
        BY <1>1, <4>2 DEF At, Coming
    <3> QED
      BY <3>2, <3>3
  <2>2. CASE ~\E s \in Device \ {r} : e \in Unsent(s)
    BY <1>1, <2>0, <2>2 DEF At, Coming
  <2> QED
    BY <2>1, <2>2
<1> QED
  BY <1>1, <1>3, <1>4 DEF AccountInv, Accounted, At

LEMMA RadioAccounts ==
  ASSUME TypeOK, AccountInv, NEW f \in air, Radio(f)
  PROVE  AccountInv'
<1>1. /\ f.to \in Device /\ f.event \in Event
      /\ [event |-> f.event, task |-> "SAVE"] \in Entry
  BY FrameType
<1>2. /\ air' = air \ {f} /\ pressed' = pressed /\ missed \subseteq missed'
      /\ events' = events /\ dsPc' = dsPc /\ data' = data
  BY DEF Radio, Receive, Lose, taskVars
<1>3. /\ \A r \in Device : Queued(r) \subseteq Queued(r)'
      /\ \/ \E q \in Queued(f.to)' : q.event = f.event
         \/ <<f.to, f.event>> \in missed'
      /\ \A r \in Device : \A q \in Queued(r)' : q \in Queued(r) \/ q.event = f.event
  <2>1. CASE Receive(f)
    <3> DEFINE x == [event |-> f.event, task |-> "SAVE"]
    <3>1. /\ Queued(f.to)' = Queued(f.to) \union {x}
          /\ \A r \in Device : r # f.to => Queued(r)' = Queued(r)
      BY <1>1, <2>1, AppendQueues DEF Receive
    <3>2. x.event = f.event
      OBVIOUS
    <3> HIDE DEF x
    <3> QED
      BY <1>1, <3>1, <3>2
  <2>2. CASE Lose(f)
    BY <2>2 DEF Lose, Queued
  <2> QED
    BY <2>1, <2>2 DEF Radio
<1>4. \A r \in Device : Busy(r) \subseteq Busy(r)' /\ Logged(r)' = Logged(r)
  BY <1>2, <1>3 DEF Busy, Logged, Used
<1>5. PastInv'
  BY <1>2, <1>3 DEF AccountInv, PastInv, Busy
<1>6. ASSUME NEW r \in Device, NEW e \in pressed
      PROVE  At(r, e)'
  <2>0. At(r, e)
    BY DEF AccountInv, Accounted, At
  <2>1. \A s \in Device : Unsent(s) \subseteq Unsent(s)'
    BY <1>2, <1>4 DEF Unsent
  <2>2. CASE r = f.to /\ e = f.event
    BY <1>2, <1>3, <2>2 DEF At, Coming
  <2>3. CASE ~(r = f.to /\ e = f.event)
    <3>1. Coming(r) \subseteq Coming(r)' \union (IF r = f.to THEN {f.event} ELSE {})
      BY <1>2, <1>3, <2>1 DEF Coming
    <3> QED
      BY <1>2, <1>4, <2>0, <2>3, <3>1 DEF At
  <2> QED
    BY <2>2, <2>3
<1> QED
  BY <1>2, <1>5, <1>6 DEF AccountInv, Accounted, At

LEMMA AccountNext == TypeOK /\ AccountInv /\ [Next]_vars => AccountInv'
<1> SUFFICES ASSUME TypeOK, AccountInv, [Next]_vars
             PROVE  AccountInv'
  OBVIOUS
<1> USE DEF buttonVars, sortVars, taskVars
\* What leaves log, queue, task and radio alone.
<1>1. ASSUME \A d \in Device : Logged(d)' = Logged(d) /\ Queued(d)' = Queued(d) /\ Busy(d)' = Busy(d),
             air' = air, pressed' = pressed, missed' = missed
      PROVE  AccountInv'
  <2>1. PastInv'
    BY <1>1 DEF AccountInv, PastInv
  <2>2. Growing
    BY <1>1 DEF Growing
  <2>3. \A d \in Device : \A e \in pressed' : At(d, e)'
    BY <1>1, <2>2, GrowingKeeps DEF AccountInv, Accounted, At
  <2> QED
    BY <2>1, <2>3 DEF AccountInv, Accounted, At
<1>2. ASSUME NEW d \in Device, NEW t \in Time, Edge(d, t)
      PROVE  AccountInv'
  BY <1>1, <1>2 DEF Edge, Logged, Used, Queued, Busy
<1>3. ASSUME NEW d \in Device, ButtonTask(d)
      PROVE  AccountInv'
  <2>1. ASSUME NEW type \in Press, ReleaseInVain(d, type)
        PROVE  AccountInv'
    <3>1. /\ pressed' = pressed \union {Pressing(d, type)} /\ air' = air
          /\ missed' = missed \union (Device \X {Pressing(d, type)})
          /\ \A r \in Device : Logged(r)' = Logged(r) /\ Queued(r)' = Queued(r)
                             /\ Busy(r)' = Busy(r)
      BY <2>1 DEF ReleaseInVain, Released, Logged, Used, Queued, Busy
    <3>2. PastInv'
      BY <3>1 DEF AccountInv, PastInv
    <3>3. Growing
      BY <3>1 DEF Growing
    <3>4. \A r \in Device : \A e \in pressed' : At(r, e)'
      BY <3>1, <3>3, GrowingKeeps DEF AccountInv, Accounted, At
    <3> QED
      BY <3>2, <3>4 DEF AccountInv, Accounted, At
  <2>2. CASE TakeEdge(d) \/ DropBounce(d) \/ Settle(d)
    BY <1>1, <2>2 DEF TakeEdge, DropBounce, Settle, Logged, Used, Queued, Busy
  <2> QED
    BY <1>3, <2>1, <2>2, ReleaseAccounts DEF ButtonTask
<1>4. ASSUME NEW d \in Device, DsTask(d)
      PROVE  AccountInv'
  <2>1. CASE BeginPass(d) \/ EndPass(d)
    <3>1. /\ log_event' = log_event /\ data' = data /\ events' = events
          /\ air' = air /\ pressed' = pressed /\ missed' = missed
      BY <2>1 DEF BeginPass, EndPass
    <3>2. \A r \in Device : dsPc'[r] = "wait" <=> dsPc[r] = "wait"
      BY <2>1 DEF BeginPass, EndPass, TypeOK
    <3> QED
      BY <1>1, <3>1, <3>2 DEF Logged, Used, Queued, Busy
  <2>2. CASE Compare(d)
    BY <1>1, <2>2, CompareKeeps DEF Compare, Queued, Busy
  <2> QED
    BY <1>4, <2>1, <2>2, TakeEntryAccounts, DistributeAccounts DEF DsTask
<1>5. CASE UNCHANGED vars
  BY <1>1, <1>5 DEF vars, Logged, Used, Queued, Busy
<1> QED
  BY <1>2, <1>3, <1>4, <1>5, RestartAccounts, RadioAccounts DEF Next

\* No hand-over between the tasks of a device, no step of the sort and no frame
\* that arrives loses a press: what is missing has been given up or lost.
THEOREM PressesAccounted == Spec => []Accounted
<1>1. AccountInv => Accounted
  BY DEF AccountInv
<1> QED
  BY <1>1, InitType, NextType, AccountInit, AccountNext, PTL DEF Spec

-------------------------------------------------------------------------------
(* Refinement *)

LEMMA RoomIsRoom ==
  ASSUME NEW d \in Device, Used(d) # Slots
  PROVE  Cardinality(Logged(d)) < History
<1>1. IsFiniteSet(Slots) /\ Cardinality(Slots) = History
  BY SizeAssumption, FS_Interval DEF Slots
<1>2. PICK k \in Slots : k \notin Used(d)
  BY DEF Used
<1>3. /\ IsFiniteSet(Slots \ {k}) /\ Cardinality(Slots \ {k}) = History - 1
      /\ Used(d) \subseteq Slots \ {k}
  BY <1>1, <1>2, FS_RemoveElement DEF Used
<1>4. /\ IsFiniteSet(Used(d)) /\ Cardinality(Used(d)) <= History - 1
      /\ Cardinality(Used(d)) \in Nat
  BY <1>3, FS_Subset, FS_CardinalityType
<1>5. /\ Cardinality(Logged(d)) <= Cardinality(Used(d))
      /\ Cardinality(Logged(d)) \in Nat
  <2> DEFINE f == [l \in Used(d) |-> events[d][l]]
  <2>1. f \in Surjection(Used(d), Logged(d))
    BY DEF Surjection, Logged
  <2>2. IsFiniteSet(Logged(d)) /\ Cardinality(Logged(d)) <= Cardinality(Used(d))
    BY <1>4, <2>1, FS_Surjection
  <2> QED
    BY <2>2, FS_CardinalityType
<1> QED
  BY <1>4, <1>5, SizeAssumption

LEMMA PromiseInit == Init => Promise!Init
BY DEF Init, Promise!Init, Logged, Used, EmptySlot

LEMMA PromiseNext ==
  TypeOK /\ AccountInv /\ [Next]_vars => [Promise!Next]_(Promise!vars)
<1> SUFFICES ASSUME TypeOK, AccountInv, [Next]_vars
             PROVE  Promise!Next \/ UNCHANGED Promise!vars
  OBVIOUS
<1> USE DEF buttonVars, sortVars, taskVars
<1> DEFINE log == [d \in Device |-> Logged(d)]
<1>1. ASSUME pressed' = pressed, \A d \in Device : Logged(d)' = Logged(d)
      PROVE  UNCHANGED Promise!vars
  BY <1>1 DEF Promise!vars
<1>2. ASSUME NEW d \in Device, Restart(d)
      PROVE  Promise!Next
  <2>1. \A r \in Device : Logged(r)' = IF r = d THEN {} ELSE Logged(r)
    BY <1>2 DEF Restart, TypeOK, Logged, Used, EmptySlot
  <2>2. log' = [log EXCEPT ![d] = {}]
    BY <2>1
  <2> QED
    BY <1>2, <2>2 DEF Promise!Next, Promise!Forget, Restart
<1>3. ASSUME NEW d \in Device, NEW type \in Press, Released(d, type)
      PROVE  Promise!Next
  <2>1. Pressing(d, type) \in Event
    BY <1>3, PressingType
  <2>2. pressed' = pressed \union {Pressing(d, type)} /\ log' = log
    BY <1>3 DEF Released, Logged, Used
  <2> QED
    BY <2>1, <2>2 DEF Promise!Next, Promise!Occur
<1>4. ASSUME NEW d \in Device, TakeEntry(d)
      PROVE  Promise!Next \/ UNCHANGED Promise!vars
  <2>1. PICK e \in Event : e = Head(log_event[d]).event
    BY <1>4, HeadType DEF TakeEntry
  <2>2. e \in pressed /\ pressed' = pressed
    BY <1>4, <2>1, TakeQueues DEF AccountInv, PastInv, Busy, TakeEntry
  <2>3. CASE LogIsFull(d, e)
    BY <1>1, <2>2, <2>3 DEF LogIsFull, Logged, Used
  <2>4. CASE Insert(d, e)
    <3>1. /\ Logged(d)' = Logged(d) \union {e} /\ Used(d) # Slots
          /\ \A r \in Device : r # d => Logged(r)' = Logged(r)
      BY <2>4, InsertLogs
    <3>2. CASE e \in Logged(d)
      BY <1>1, <2>2, <3>1, <3>2
    <3>3. CASE e \notin Logged(d)
      <4>1. Cardinality(log[d]) < History
        BY <3>1, RoomIsRoom
      <4>2. log' = [log EXCEPT ![d] = @ \union {e}]
        BY <3>1
      <4>3. Promise!Record(d, e)
        <5>1. e \in pressed \ log[d]
          BY <2>2, <3>3
        <5>2. Promise!Cardinality(log[d]) < History
          BY <4>1 DEF Promise!Cardinality, Cardinality
        <5> QED
          BY <2>2, <4>2, <5>1, <5>2 DEF Promise!Record
      <4> QED
        BY <4>3 DEF Promise!Next
    <3> QED
      BY <3>2, <3>3
  <2> QED
    BY <1>4, <2>1, <2>3, <2>4 DEF TakeEntry
<1>5. ASSUME NEW d \in Device, DsTask(d)
      PROVE  Promise!Next \/ UNCHANGED Promise!vars
  <2>1. CASE Compare(d)
    BY <1>1, <2>1, CompareKeeps DEF Compare
  <2>2. CASE BeginPass(d) \/ EndPass(d) \/ Distribute(d)
    BY <1>1, <2>2 DEF BeginPass, EndPass, Distribute, Logged, Used
  <2> QED
    BY <1>4, <1>5, <2>1, <2>2 DEF DsTask
<1>6. ASSUME NEW d \in Device, ButtonTask(d)
      PROVE  Promise!Next \/ UNCHANGED Promise!vars
  <2>1. CASE TakeEdge(d) \/ DropBounce(d) \/ Settle(d)
    BY <1>1, <2>1 DEF TakeEdge, DropBounce, Settle, Logged, Used
  <2> QED
    BY <1>3, <1>6, <2>1 DEF ButtonTask, Release, ReleaseInVain
<1>7. ASSUME NEW d \in Device, NEW t \in Time, Edge(d, t)
      PROVE  UNCHANGED Promise!vars
  BY <1>1, <1>7 DEF Edge, Logged, Used
<1>8. ASSUME NEW f \in air, Radio(f)
      PROVE  UNCHANGED Promise!vars
  BY <1>1, <1>8 DEF Radio, Receive, Lose, Logged, Used
<1>9. CASE UNCHANGED vars
  BY <1>1, <1>9 DEF vars, Logged, Used
<1> QED
  BY <1>2, <1>5, <1>6, <1>7, <1>8, <1>9 DEF Next

\* EventLog implements SharedLog: a log only grows, by presses that happened
\* and within its capacity, until its device restarts.
THEOREM EventLogImplementsSharedLog == Spec => ImplementsSharedLog
<1> QED
  BY InitType, NextType, AccountInit, AccountNext, PromiseInit, PromiseNext, PTL
     DEF Spec, Promise!Spec, ImplementsSharedLog

-------------------------------------------------------------------------------
(* Edges *)

\* No press has been made of the edge t yet.
Unused(d, t) ==
  t # NoEdge =>
    t \in edges[d] /\ \A e \in pressed : e.mac_addr = d => e.timestamp # t

\* An edge is in isr_event, with the task or in a press: in one of them.
EdgeInv ==
  /\ \A d \in Device : Unused(d, isr[d]) /\ Unused(d, held[d])
  /\ \A d \in Device : isr[d] # NoEdge => isr[d] # held[d]
  /\ \A e \in pressed : e.timestamp \in edges[e.mac_addr]

LEMMA EdgeInit == Init => EdgeInv
BY DEF Init, EdgeInv, Unused

\* The press that is made at the release is a new one.
LEMMA PressIsNew ==
  ASSUME TypeOK, EdgeInv, NEW d \in Device, NEW type \in Press, Released(d, type)
  PROVE  /\ Pressing(d, type) \notin pressed
         /\ Pressing(d, type) \in Event
         /\ Pressing(d, type).mac_addr = d
         /\ Pressing(d, type).timestamp = held[d]
         /\ held[d] # NoEdge /\ held[d] \in edges[d]
<1>1. held[d] \in Time /\ held[d] # NoEdge
  BY TimeAssumption DEF Released, TypeOK, NoEdge
<1> QED
  BY <1>1, PressingType DEF Pressing, EdgeInv, Unused

LEMMA EdgeNext == TypeOK /\ EdgeInv /\ [Next]_vars => EdgeInv'
<1> SUFFICES ASSUME TypeOK, EdgeInv, [Next]_vars
             PROVE  EdgeInv'
  OBVIOUS
<1>0. /\ isr \in [Device -> Time \union {NoEdge}]
      /\ held \in [Device -> Time \union {NoEdge}]
      /\ edges \in [Device -> SUBSET Time] /\ pressed \subseteq Event
  BY DEF TypeOK
<1> USE DEF buttonVars
<1>1. ASSUME UNCHANGED <<isr, held, edges, pressed>>
      PROVE  EdgeInv'
  BY <1>1 DEF EdgeInv, Unused
<1>2. ASSUME NEW d \in Device, Restart(d)
      PROVE  EdgeInv'
  BY <1>0, <1>2 DEF Restart, EdgeInv, Unused
<1>3. ASSUME NEW d \in Device, NEW t \in Time, Edge(d, t)
      PROVE  EdgeInv'
  <2>1. /\ t \notin edges[d] /\ UNCHANGED <<held, pressed>>
        /\ edges' = [edges EXCEPT ![d] = @ \union {t}]
        /\ isr' = [isr EXCEPT ![d] = IF @ = NoEdge THEN t ELSE @]
    BY <1>3 DEF Edge
  <2>2. \A r \in Device : edges[r] \subseteq edges'[r]
    BY <1>0, <2>1
  <2>3. \A e \in pressed : e.mac_addr \in Device
    BY <1>0 DEF Event
  <2>4. \A e \in pressed' : e.timestamp \in edges'[e.mac_addr]
    BY <2>1, <2>2, <2>3 DEF EdgeInv
  <2>5. \A r \in Device : Unused(r, held[r])'
    BY <2>1, <2>2 DEF EdgeInv, Unused
  <2>6. \A r \in Device \ {d} : Unused(r, isr[r])' /\ isr'[r] = isr[r]
    BY <1>0, <2>1, <2>2 DEF EdgeInv, Unused
  <2>7. CASE isr[d] = NoEdge
    <3>1. isr'[d] = t /\ t \in edges'[d]
      BY <1>0, <2>1, <2>7
    <3>2. \A e \in pressed : e.mac_addr = d => e.timestamp # t
      BY <2>1 DEF EdgeInv
    <3>3. held[d] # t
      BY <2>1, TimeAssumption DEF EdgeInv, Unused, NoEdge
    <3> QED
      BY <2>1, <2>4, <2>5, <2>6, <3>1, <3>2, <3>3 DEF EdgeInv, Unused
  <2>8. CASE isr[d] # NoEdge
    <3>1. isr'[d] = isr[d]
      BY <1>0, <2>1, <2>8
    <3> QED
      BY <2>1, <2>2, <2>4, <2>5, <2>6, <3>1 DEF EdgeInv, Unused
  <2> QED
    BY <2>7, <2>8
<1>4. ASSUME NEW d \in Device, TakeEdge(d)
      PROVE  EdgeInv'
  BY <1>0, <1>4 DEF TakeEdge, EdgeInv, Unused
<1>5. ASSUME NEW d \in Device, NEW type \in Press, Released(d, type)
      PROVE  EdgeInv'
  <2> DEFINE p == Pressing(d, type)
  <2>1. /\ p.mac_addr = d /\ p.timestamp = held[d] /\ held[d] # NoEdge
        /\ held[d] \in edges[d]
    BY <1>5, PressIsNew
  <2>2. /\ pressed' = pressed \union {p} /\ UNCHANGED <<isr, edges>>
        /\ held' = [held EXCEPT ![d] = NoEdge]
    BY <1>5 DEF Released
  <2> HIDE DEF p
  <2>3. \A e \in pressed' : e.timestamp \in edges'[e.mac_addr]
    BY <2>1, <2>2 DEF EdgeInv
  <2>4. isr[d] # NoEdge => isr[d] # p.timestamp
    BY <2>1 DEF EdgeInv
  <2>5. \A r \in Device : Unused(r, isr[r])'
    BY <2>1, <2>2, <2>4 DEF EdgeInv, Unused
  <2>6. \A r \in Device : Unused(r, held[r])'
    BY <1>0, <2>1, <2>2 DEF EdgeInv, Unused
  <2>7. \A r \in Device : isr'[r] # NoEdge => isr'[r] # held'[r]
    BY <1>0, <2>2 DEF EdgeInv
  <2> QED
    BY <2>3, <2>5, <2>6, <2>7 DEF EdgeInv
<1>6. ASSUME NEW d \in Device, DropBounce(d)
      PROVE  EdgeInv'
  BY <1>0, <1>6 DEF DropBounce, EdgeInv, Unused
<1>7. ASSUME NEW d \in Device, Settle(d) \/ DsTask(d)
      PROVE  EdgeInv'
  BY <1>1, <1>7 DEF Settle, DsTask, TakeEntry, BeginPass, Compare, EndPass, Distribute,
                    Insert, LogIsFull
<1>8. ASSUME NEW f \in air, Radio(f)
      PROVE  EdgeInv'
  BY <1>1, <1>8 DEF Radio, Receive, Lose
<1>9. CASE UNCHANGED vars
  BY <1>1, <1>9 DEF vars
<1> QED
  BY <1>2, <1>3, <1>4, <1>5, <1>6, <1>7, <1>8, <1>9
     DEF Next, ButtonTask, Release, ReleaseInVain

-------------------------------------------------------------------------------
(* Copies *)

InWork(d) == IF dsPc[d] = "wait" THEN {} ELSE {data[d].event}
Waiting(d) == {q.event : q \in Queued(d)}

\* What d has got, and what is in the air towards it.
Got(d) == Logged(d) \union Waiting(d) \union InWork(d)
Flying(d) == {e \in Event : \E f \in air : f.to = d /\ f.event = e}

Distinct(d) ==
  \A m, n \in DOMAIN log_event[d] :
    m # n => log_event[d][m].event # log_event[d][n].event

Once(d) == \A k, l \in Used(d) : events[d][k] = events[d][l] => k = l

\* A press reaches a device on one way only.
OneWay(d) ==
  /\ Got(d) \union Flying(d) \subseteq pressed
  /\ Got(d) \intersect Flying(d) = {}
  /\ Waiting(d) \intersect (Logged(d) \union InWork(d)) = {}
  /\ Distinct(d)
  /\ Once(d)

\* What d has yet to send is its own, and nobody else has it.
Unspread(d) ==
  \A q \in Busy(d) : q.task = "SEND" =>
    /\ q.event.mac_addr = d
    /\ \A r \in Device \ {d} : q.event \notin Got(r) \union Flying(r)

CopyInv ==
  /\ \A d \in Device : OneWay(d) /\ Unspread(d)
  /\ \A f \in air : f.from = f.event.mac_addr /\ f.from # f.to

LEMMA CopyInit == Init => CopyInv
<1> SUFFICES ASSUME Init PROVE CopyInv
  OBVIOUS
<1>1. \A d \in Device : Used(d) = {} /\ log_event[d] = <<>> /\ dsPc[d] = "wait"
  BY DEF Init, Used, EmptySlot
<1>2. \A d \in Device : Logged(d) = {} /\ Queued(d) = {}
  BY <1>1 DEF Logged, Queued
<1> QED
  BY <1>1, <1>2 DEF Init, CopyInv, OneWay, Unspread, Got, Flying, Waiting, InWork, Distinct, Once, Busy

\* Frames are told apart by their receiver and their event.
LEMMA FlyingLess ==
  ASSUME TypeOK, CopyInv, NEW f \in air, air' = air \ {f}
  PROVE  /\ Flying(f.to)' = Flying(f.to) \ {f.event}
         /\ \A r \in Device : r # f.to => Flying(r)' = Flying(r)
         /\ f.event \in Flying(f.to)
<1>1. \A g \in air : g = [from |-> g.from, to |-> g.to, event |-> g.event]
                       /\ g.from = g.event.mac_addr /\ g.event \in Event
  BY DEF TypeOK, Frame, CopyInv
<1>2. \A g \in air : g.to = f.to /\ g.event = f.event => g = f
  BY <1>1
<1> QED
  BY <1>1, <1>2 DEF Flying

\* Steps that leave logs, queues and the radio as they are.
LEMMA CopiesStay ==
  ASSUME CopyInv, pressed \subseteq pressed', air' = air, log_event' = log_event,
         data' = data, \A d \in Device : dsPc'[d] = "wait" <=> dsPc[d] = "wait",
         \A d \in Device : Logged(d)' = Logged(d) /\ Once(d)'
  PROVE  CopyInv'
<1>1. \A d \in Device :
        /\ Waiting(d)' = Waiting(d) /\ InWork(d)' = InWork(d) /\ Flying(d)' = Flying(d)
        /\ Queued(d)' = Queued(d) /\ Busy(d)' = Busy(d) /\ (Distinct(d) => Distinct(d)')
  BY DEF Waiting, InWork, Flying, Queued, Busy, Distinct
<1>2. \A d \in Device : Got(d)' = Got(d)
  BY <1>1 DEF Got
<1> QED
  BY <1>1, <1>2 DEF CopyInv, OneWay, Unspread

LEMMA AppendWaits ==
  ASSUME TypeOK, NEW d \in Device, NEW x \in Entry, x.event \notin Waiting(d),
         \A r \in Device : Distinct(r),
         log_event' = [log_event EXCEPT ![d] = Append(@, x)]
  PROVE  /\ Waiting(d)' = Waiting(d) \union {x.event}
         /\ \A r \in Device : r # d => Waiting(r)' = Waiting(r)
         /\ \A r \in Device : Distinct(r)'
<1>1. /\ Queued(d)' = Queued(d) \union {x}
      /\ \A r \in Device : r # d => Queued(r)' = Queued(r)
  BY AppendQueues
<1>2. /\ log_event[d] \in Seq(Entry) /\ log_event'[d] = Append(log_event[d], x)
      /\ \A r \in Device : r # d => log_event'[r] = log_event[r]
  BY DEF TypeOK
<1>3. \A n \in DOMAIN log_event[d] : log_event[d][n].event # x.event
  BY DEF Waiting, Queued
<1>4. Distinct(d)'
  <2> DEFINE q == log_event[d]
  <2> SUFFICES ASSUME NEW m \in DOMAIN log_event'[d], NEW n \in DOMAIN log_event'[d], m # n
               PROVE  log_event'[d][m].event # log_event'[d][n].event
    BY DEF Distinct
  <2>1. /\ m \in DOMAIN q \/ (m = Len(q) + 1 /\ log_event'[d][m] = x)
        /\ n \in DOMAIN q \/ (n = Len(q) + 1 /\ log_event'[d][n] = x)
        /\ \A k \in DOMAIN q : log_event'[d][k] = q[k]
    BY <1>2, AppendElements
  <2> QED
    BY <1>3, <2>1 DEF Distinct
<1> QED
  BY <1>1, <1>2, <1>4 DEF Waiting, Distinct

LEMMA ReleaseCopies ==
  ASSUME TypeOK, EdgeInv, CopyInv, NEW d \in Device, NEW type \in Press, Release(d, type)
  PROVE  CopyInv'
<1>0. PICK p \in Event : p = Pressing(d, type) /\ p \notin pressed /\ p.mac_addr = d
  BY PressIsNew DEF Release
<1> DEFINE x == [event |-> p, task |-> "SEND"]
<1>1. x \in Entry /\ x.event = p
  BY <1>0, PressingType DEF Release
<1>2. /\ log_event' = [log_event EXCEPT ![d] = Append(@, x)]
      /\ pressed' = pressed \union {p} /\ air' = air /\ events' = events
      /\ dsPc' = dsPc /\ data' = data
  BY <1>0 DEF Release, Released, taskVars
<1> HIDE DEF x
<1>3. \A r \in Device : p \notin Got(r) \union Flying(r)
  BY <1>0 DEF CopyInv, OneWay
<1>4. /\ Waiting(d)' = Waiting(d) \union {p}
      /\ \A r \in Device : r # d => Waiting(r)' = Waiting(r)
      /\ \A r \in Device : Distinct(r)'
  BY <1>1, <1>2, <1>3, AppendWaits DEF CopyInv, OneWay, Got
<1>5. \A r \in Device :
        /\ Logged(r)' = Logged(r) /\ InWork(r)' = InWork(r) /\ Flying(r)' = Flying(r)
        /\ Once(r)' = Once(r)
  BY <1>2 DEF Logged, Used, InWork, Flying, Once
<1>6. /\ Got(d)' = Got(d) \union {p}
      /\ \A r \in Device : r # d => Got(r)' = Got(r)
  BY <1>4, <1>5 DEF Got
<1>7. \A r \in Device : OneWay(r)'
  BY <1>2, <1>3, <1>4, <1>5, <1>6 DEF CopyInv, OneWay, Got
<1>8. /\ Busy(d)' = Busy(d) \union {x}
      /\ \A r \in Device : r # d => Busy(r)' = Busy(r)
  BY <1>1, <1>2, AppendQueues DEF Busy
<1>9. \A r \in Device : \A q \in Busy(r) : q.task = "SEND" => q.event # p
  <2>1. \A r \in Device : \A q \in Busy(r) : q.event \in Got(r)
    BY DEF Busy, Got, Waiting, InWork
  <2> QED
    BY <1>3, <2>1
<1>10. \A r \in Device : Unspread(r)'
  BY <1>0, <1>1, <1>3, <1>5, <1>6, <1>8, <1>9 DEF CopyInv, Unspread
<1> QED
  BY <1>2, <1>7, <1>10 DEF CopyInv

LEMMA TakeEntryCopies ==
  ASSUME TypeOK, CopyInv, NEW d \in Device, TakeEntry(d)
  PROVE  CopyInv'
<1> DEFINE h == Head(log_event[d])
<1>1. /\ h \in Entry /\ h.event \in Event
      /\ log_event[d] \in Seq(Entry) /\ log_event[d] # <<>>
      /\ log_event'[d] = Tail(log_event[d])
      /\ \A r \in Device : r # d => log_event'[r] = log_event[r]
  BY HeadType DEF TakeEntry, TypeOK
<1>2. /\ air' = air /\ pressed' = pressed /\ dsPc[d] = "wait"
      /\ dsPc'[d] = "pass" /\ data'[d] = h
      /\ \A r \in Device : r # d => dsPc'[r] = dsPc[r] /\ data'[r] = data[r]
  BY DEF TakeEntry, TypeOK
<1>3. /\ Queued(d) = Queued(d)' \union {h}
      /\ \A r \in Device : r # d => Queued(r)' = Queued(r)
  BY TakeQueues
<1>4. /\ 1 \in DOMAIN log_event[d] /\ h = log_event[d][1]
      /\ \A n \in DOMAIN log_event'[d] :
           n \in Nat /\ n > 0 /\ n + 1 \in DOMAIN log_event[d]
             /\ log_event'[d][n] = log_event[d][n + 1]
  BY <1>1, TailElements
<1>5. h.event \notin Waiting(d)' /\ Distinct(d)'
  <2>1. h.event \notin Waiting(d)'
    BY <1>4 DEF Waiting, Queued, CopyInv, OneWay, Distinct
  <2>2. Distinct(d)'
    <3> SUFFICES ASSUME NEW m \in DOMAIN log_event'[d], NEW n \in DOMAIN log_event'[d], m # n
                 PROVE  log_event'[d][m].event # log_event'[d][n].event
      BY DEF Distinct
    <3>1. m + 1 # n + 1
      BY <1>4
    <3> QED
      BY <1>4, <3>1 DEF CopyInv, OneWay, Distinct
  <2> QED
    BY <2>1, <2>2
<1>6. /\ Waiting(d) = Waiting(d)' \union {h.event}
      /\ InWork(d) = {} /\ InWork(d)' = {h.event}
      /\ h.event \notin Logged(d)
  <2>1. Waiting(d) = Waiting(d)' \union {h.event}
    BY <1>3 DEF Waiting
  <2> QED
    BY <1>2, <2>1 DEF InWork, CopyInv, OneWay
<1>7. /\ Logged(d) \subseteq Logged(d)' /\ Logged(d)' \subseteq Logged(d) \union {h.event}
      /\ \A r \in Device : r # d => events'[r] = events[r]
      /\ Once(d)'
  <2>1. CASE Insert(d, h.event)
    <3>1. PICK k \in Slots :
            FirstEmpty(d, k) /\ events' = [events EXCEPT ![d][k] = h.event]
      BY <2>1 DEF Insert
    <3> HIDE DEF h
    <3>2. /\ events'[d][k] = h.event
          /\ \A l \in Slots : l # k => events'[d][l] = events[d][l]
          /\ \A r \in Device : r # d => events'[r] = events[r]
      BY <3>1 DEF TypeOK
    <3>3. Once(d)'
      <4> SUFFICES ASSUME NEW m \in Used(d)', NEW l \in Used(d)', events'[d][m] = events'[d][l]
                   PROVE  m = l
        BY DEF Once
      <4>1. ASSUME NEW n \in Used(d)', n # k
            PROVE  /\ n \in Used(d) /\ events'[d][n] = events[d][n]
                   /\ events'[d][n] # h.event
        <5>1. n \in Used(d) /\ events'[d][n] = events[d][n]
          BY <3>2, <4>1 DEF Used
        <5> QED
          BY <1>6, <5>1 DEF Logged
      <4>2. CASE m # k /\ l # k
        BY <4>1, <4>2 DEF CopyInv, OneWay, Once
      <4>3. CASE m = k \/ l = k
        BY <3>2, <4>1, <4>3
      <4> QED
        BY <4>2, <4>3
    <3> QED
      BY <1>1, <2>1, <3>2, <3>3, InsertLogs
  <2>2. CASE LogIsFull(d, h.event)
    BY <2>2 DEF LogIsFull, Logged, Used, Once, CopyInv, OneWay
  <2> QED
    BY <2>1, <2>2 DEF TakeEntry
<1> HIDE DEF h
<1>8. \A r \in Device : r # d =>
        /\ Logged(r)' = Logged(r) /\ Waiting(r)' = Waiting(r) /\ InWork(r)' = InWork(r)
        /\ (Once(r) => Once(r)') /\ (Distinct(r) => Distinct(r)')
  <2> SUFFICES ASSUME NEW r \in Device, r # d
               PROVE  /\ Logged(r)' = Logged(r) /\ Waiting(r)' = Waiting(r)
                      /\ InWork(r)' = InWork(r)
                      /\ (Once(r) => Once(r)') /\ (Distinct(r) => Distinct(r)')
    OBVIOUS
  <2>1. /\ events'[r] = events[r] /\ log_event'[r] = log_event[r]
        /\ dsPc'[r] = dsPc[r] /\ data'[r] = data[r]
    BY <1>1, <1>2, <1>7
  <2> QED
    BY <2>1 DEF Logged, Used, Waiting, Queued, InWork, Once, Distinct
<1>9. \A r \in Device : Got(r)' = Got(r) /\ Flying(r)' = Flying(r)
  BY <1>2, <1>6, <1>7, <1>8 DEF Got, Flying
<1>10. \A r \in Device : Busy(r)' = Busy(r)
  BY <1>2, <1>3 DEF Busy
<1>11. OneWay(d)'
  <2>1. Waiting(d)' \intersect (Logged(d)' \union InWork(d)') = {}
    BY <1>5, <1>6, <1>7 DEF CopyInv, OneWay
  <2> QED
    BY <1>2, <1>5, <1>7, <1>9, <2>1 DEF CopyInv, OneWay
<1>12. \A r \in Device : r # d => OneWay(r)'
  BY <1>2, <1>8, <1>9 DEF CopyInv, OneWay
<1>13. \A r \in Device : Unspread(r)'
  BY <1>9, <1>10 DEF CopyInv, Unspread
<1> QED
  BY <1>2, <1>11, <1>12, <1>13 DEF CopyInv

LEMMA CompareCopies ==
  ASSUME TypeOK, CopyInv, NEW d \in Device, Compare(d)
  PROVE  CopyInv'
<1>1. /\ log_event' = log_event /\ dsPc' = dsPc /\ data' = data
      /\ air' = air /\ pressed' = pressed
  BY DEF Compare
<1>2. \A r \in Device : Logged(r)' = Logged(r)
  BY CompareKeeps
<1>3. \A r \in Device : Once(r)'
  <2>1. CASE ~OutOfOrder(d)
    BY <2>1 DEF Compare, CopyInv, OneWay, Once, Used
  <2>2. CASE OutOfOrder(d)
    <3> DEFINE other(k) == IF k = j[d] THEN j[d] + 1 ELSE IF k = j[d] + 1 THEN j[d] ELSE k
    <3>1. j[d] \in Slots /\ j[d] + 1 \in Slots /\ j[d] # j[d] + 1
      BY SizeAssumption DEF Compare, PassGoesOn, TypeOK, Slots
    <3>2. /\ events' = [events EXCEPT ![d] = Swapped(d)]
          /\ events[d] \in [Slots -> Slot]
      BY <2>2 DEF Compare, TypeOK
    <3>3. /\ \A k \in Slots : other(k) \in Slots /\ events'[d][k] = events[d][other(k)]
          /\ \A r \in Device : r # d => events'[r] = events[r]
      BY <3>1, <3>2 DEF Swapped, TypeOK
    <3>4. \A k, l \in Slots : other(k) = other(l) => k = l
      BY <3>1
    <3> HIDE DEF other
    <3>5. Once(d)'
      BY <3>3, <3>4 DEF CopyInv, OneWay, Once, Used
    <3>6. \A r \in Device : r # d => Once(r)'
      BY <3>3 DEF CopyInv, OneWay, Once, Used
    <3> QED
      BY <3>5, <3>6
  <2> QED
    BY <2>1, <2>2
<1> QED
  BY <1>1, <1>2, <1>3, CopiesStay

LEMMA DistributeCopies ==
  ASSUME TypeOK, CopyInv, NEW d \in Device, Distribute(d)
  PROVE  CopyInv'
<1> DEFINE e == data[d].event
<1>1. /\ events' = events /\ log_event' = log_event /\ pressed' = pressed
      /\ dsPc[d] = "send" /\ dsPc'[d] = "wait" /\ data[d] \in Entry /\ e \in Event
      /\ \A r \in Device : r # d => dsPc'[r] = dsPc[r] /\ data'[r] = data[r]
  BY DEF Distribute, TypeOK, Entry
<1>2. \A r \in Device :
        /\ Logged(r)' = Logged(r) /\ Waiting(r)' = Waiting(r) /\ InWork(r)' \subseteq InWork(r)
        /\ Once(r)' = Once(r) /\ Distinct(r)' = Distinct(r) /\ Queued(r)' = Queued(r)
  BY <1>1 DEF Logged, Used, Waiting, Queued, InWork, Once, Distinct
<1>3. \A r \in Device : Got(r)' \subseteq Got(r)
  BY <1>2 DEF Got
<1>4. /\ Busy(d) = Busy(d)' \union {data[d]}
      /\ \A r \in Device : r # d => Busy(r)' = Busy(r)
  BY <1>1, <1>2 DEF Busy
<1>5. \A q \in Busy(d)' : q.event # e
  <2>1. Busy(d)' = Queued(d) /\ InWork(d) = {e}
    BY <1>1, <1>2 DEF Busy, InWork
  <2>2. \A q \in Queued(d) : q.event \in Waiting(d)
    BY DEF Waiting
  <2> QED
    BY <2>1, <2>2 DEF CopyInv, OneWay
<1>6. e \in Got(d)
  BY <1>1 DEF Got, InWork
<1>7. CASE data[d].task # "SEND"
  <2>1. air' = air
    BY <1>7 DEF Distribute
  <2>2. \A r \in Device : Flying(r)' = Flying(r)
    BY <2>1 DEF Flying
  <2>3. \A r \in Device : OneWay(r)'
    BY <1>1, <1>2, <1>3, <2>2 DEF CopyInv, OneWay
  <2>4. \A r \in Device : Unspread(r)'
    BY <1>3, <1>4, <2>2 DEF CopyInv, Unspread
  <2> QED
    BY <2>1, <2>3, <2>4 DEF CopyInv
<1>8. CASE data[d].task = "SEND"
  <2>1. air' = air \union {[from |-> d, to |-> r, event |-> e] : r \in Device \ {d}}
    BY <1>8 DEF Distribute, Neighbours
  <2>2. /\ e.mac_addr = d
        /\ \A r \in Device \ {d} : e \notin Got(r) \union Flying(r)
    BY <1>4, <1>8 DEF CopyInv, Unspread
  <2>3. Flying(d)' = Flying(d)
    BY <2>1 DEF Flying
  <2>4. \A r \in Device \ {d} : Flying(r)' = Flying(r) \union {e}
    <3> SUFFICES ASSUME NEW r \in Device \ {d}
                 PROVE  Flying(r)' = Flying(r) \union {e}
      OBVIOUS
    <3> DEFINE g == [from |-> d, to |-> r, event |-> e]
    <3>1. g \in air' /\ g.to = r /\ g.event = e
      BY <2>1
    <3>2. \A f \in air' : f \in air \/ (f.event = e /\ f.to # d)
      BY <2>1
    <3>3. air \subseteq air'
      BY <2>1
    <3> HIDE DEF g, e
    <3> QED
      BY <1>1, <3>1, <3>2, <3>3 DEF Flying
  <2> HIDE DEF e
  <2>5. e \in pressed
    BY <1>6 DEF CopyInv, OneWay
  <2>6. \A r \in Device : OneWay(r)'
    BY <1>1, <1>2, <1>3, <2>2, <2>3, <2>4, <2>5 DEF CopyInv, OneWay
  <2>7. ASSUME NEW s \in Device, NEW q \in Busy(s)', q.task = "SEND"
        PROVE  q.event # e /\ q \in Busy(s)
    <3>1. CASE s = d
      BY <1>4, <1>5, <3>1
    <3>2. CASE s # d
      BY <1>4, <2>2, <2>7, <3>2 DEF CopyInv, Unspread
    <3> QED
      BY <3>1, <3>2
  <2>8. \A s \in Device : Unspread(s)'
    BY <1>3, <2>3, <2>4, <2>7 DEF CopyInv, Unspread
  <2>9. \A f \in air' : f.from = f.event.mac_addr /\ f.from # f.to
    BY <2>1, <2>2 DEF CopyInv
  <2> QED
    BY <2>6, <2>8, <2>9 DEF CopyInv
<1> QED
  BY <1>7, <1>8

LEMMA LoseCopies ==
  ASSUME TypeOK, CopyInv, NEW f \in air, Lose(f)
  PROVE  CopyInv'
<1>1. /\ air' = air \ {f} /\ UNCHANGED <<log_event, events, dsPc, data, pressed>>
  BY DEF Lose, taskVars
<1>2. \A r \in Device :
        /\ Got(r)' = Got(r) /\ Waiting(r)' = Waiting(r) /\ InWork(r)' = InWork(r)
        /\ Logged(r)' = Logged(r) /\ Once(r)' = Once(r) /\ Distinct(r)' = Distinct(r)
        /\ Busy(r)' = Busy(r)
  BY <1>1 DEF Got, Waiting, InWork, Logged, Used, Queued, Once, Distinct, Busy
<1>3. \A r \in Device : Flying(r)' \subseteq Flying(r)
  BY <1>1 DEF Flying
<1>4. \A r \in Device : OneWay(r)'
  BY <1>1, <1>2, <1>3 DEF CopyInv, OneWay
<1>5. \A r \in Device : Unspread(r)'
  BY <1>2, <1>3 DEF CopyInv, Unspread
<1> QED
  BY <1>1, <1>4, <1>5 DEF CopyInv

LEMMA ReceiveCopies ==
  ASSUME TypeOK, CopyInv, NEW f \in air, Receive(f)
  PROVE  CopyInv'
<1> DEFINE x == [event |-> f.event, task |-> "SAVE"]
<1>1. x \in Entry /\ x.event = f.event /\ x.task # "SEND" /\ f.to \in Device
  BY FrameType
<1>2. /\ log_event' = [log_event EXCEPT ![f.to] = Append(@, x)]
      /\ air' = air \ {f} /\ UNCHANGED <<events, dsPc, data, pressed>>
  BY DEF Receive, taskVars
<1> HIDE DEF x
<1>3. /\ Flying(f.to)' = Flying(f.to) \ {f.event}
      /\ \A r \in Device : r # f.to => Flying(r)' = Flying(r)
      /\ f.event \in Flying(f.to)
  BY <1>2, FlyingLess
<1>4. f.event \notin Got(f.to) /\ f.event \in pressed
  BY <1>1, <1>3 DEF CopyInv, OneWay
<1>5. /\ Waiting(f.to)' = Waiting(f.to) \union {f.event}
      /\ \A r \in Device : r # f.to => Waiting(r)' = Waiting(r)
      /\ \A r \in Device : Distinct(r)'
  BY <1>1, <1>2, <1>4, AppendWaits DEF CopyInv, OneWay, Got
<1>6. \A r \in Device :
        Logged(r)' = Logged(r) /\ InWork(r)' = InWork(r) /\ Once(r)' = Once(r)
  BY <1>2 DEF Logged, Used, InWork, Once
<1>7. /\ Got(f.to)' = Got(f.to) \union {f.event}
      /\ \A r \in Device : r # f.to => Got(r)' = Got(r)
  BY <1>1, <1>5, <1>6 DEF Got
<1>8. \A r \in Device : OneWay(r)'
  BY <1>2, <1>3, <1>4, <1>5, <1>6, <1>7 DEF CopyInv, OneWay, Got
<1>9. /\ Busy(f.to)' = Busy(f.to) \union {x}
      /\ \A r \in Device : r # f.to => Busy(r)' = Busy(r)
  BY <1>1, <1>2, AppendQueues DEF Busy
<1>10. \A r \in Device : Got(r)' \union Flying(r)' = Got(r) \union Flying(r)
  BY <1>3, <1>7
<1>11. \A r \in Device : Unspread(r)'
  BY <1>1, <1>9, <1>10 DEF CopyInv, Unspread
<1> QED
  BY <1>2, <1>8, <1>11 DEF CopyInv

LEMMA RestartCopies ==
  ASSUME TypeOK, CopyInv, NEW d \in Device, Restart(d)
  PROVE  CopyInv'
<1>1. /\ air' = air /\ pressed' = pressed
      /\ log_event'[d] = <<>> /\ dsPc'[d] = "wait"
      /\ \A k \in Slots : events'[d][k] = EmptySlot
      /\ \A r \in Device : r # d =>
           /\ events'[r] = events[r] /\ log_event'[r] = log_event[r]
           /\ dsPc'[r] = dsPc[r] /\ data'[r] = data[r]
  BY DEF Restart, TypeOK
<1>2. \A r \in Device : Flying(r)' = Flying(r)
  BY <1>1 DEF Flying
<1>3. /\ Used(d)' = {} /\ Queued(d)' = {} /\ InWork(d)' = {} /\ Distinct(d)'
  BY <1>1 DEF Used, EmptySlot, Queued, InWork, Distinct
<1>4. /\ Logged(d)' = {} /\ Waiting(d)' = {} /\ Once(d)' /\ Busy(d)' = {}
  BY <1>1, <1>3 DEF Logged, Waiting, Once, Busy
<1>5. \A r \in Device : r # d =>
        /\ Logged(r)' = Logged(r) /\ Waiting(r)' = Waiting(r) /\ InWork(r)' = InWork(r)
        /\ Once(r)' = Once(r) /\ Distinct(r)' = Distinct(r) /\ Busy(r)' = Busy(r)
  <2> SUFFICES ASSUME NEW r \in Device, r # d
               PROVE  /\ Logged(r)' = Logged(r) /\ Waiting(r)' = Waiting(r)
                      /\ InWork(r)' = InWork(r) /\ Once(r)' = Once(r)
                      /\ Distinct(r)' = Distinct(r) /\ Busy(r)' = Busy(r)
    OBVIOUS
  <2>1. /\ events'[r] = events[r] /\ log_event'[r] = log_event[r]
        /\ dsPc'[r] = dsPc[r] /\ data'[r] = data[r]
    BY <1>1
  <2> QED
    BY <2>1 DEF Logged, Used, Waiting, Queued, InWork, Once, Distinct, Busy
<1>6. Got(d)' = {} /\ \A r \in Device : r # d => Got(r)' = Got(r)
  BY <1>3, <1>4, <1>5 DEF Got
<1>7. \A r \in Device : OneWay(r)'
  BY <1>1, <1>2, <1>3, <1>4, <1>5, <1>6 DEF CopyInv, OneWay
<1>8. \A r \in Device : Unspread(r)'
  BY <1>2, <1>4, <1>5, <1>6 DEF CopyInv, Unspread
<1> QED
  BY <1>1, <1>7, <1>8 DEF CopyInv

LEMMA CopyNext == TypeOK /\ EdgeInv /\ CopyInv /\ [Next]_vars => CopyInv'
<1> SUFFICES ASSUME TypeOK, EdgeInv, CopyInv, [Next]_vars
             PROVE  CopyInv'
  OBVIOUS
<1> USE DEF buttonVars, sortVars, taskVars
<1>1. ASSUME pressed \subseteq pressed',
             UNCHANGED <<air, log_event, data, dsPc, events>>
      PROVE  CopyInv'
  <2>1. \A d \in Device : Logged(d)' = Logged(d) /\ Once(d)'
    BY <1>1 DEF Logged, Used, CopyInv, OneWay, Once
  <2> QED
    BY <1>1, <2>1, CopiesStay
<1>2. ASSUME NEW d \in Device, NEW t \in Time, Edge(d, t)
      PROVE  CopyInv'
  BY <1>1, <1>2 DEF Edge
<1>3. ASSUME NEW d \in Device, ButtonTask(d)
      PROVE  CopyInv'
  <2>1. ASSUME NEW type \in Press, ReleaseInVain(d, type)
        PROVE  CopyInv'
    BY <1>1, <2>1 DEF ReleaseInVain, Released
  <2>2. CASE TakeEdge(d) \/ DropBounce(d) \/ Settle(d)
    BY <1>1, <2>2 DEF TakeEdge, DropBounce, Settle
  <2> QED
    BY <1>3, <2>1, <2>2, ReleaseCopies DEF ButtonTask
<1>4. ASSUME NEW d \in Device, BeginPass(d) \/ EndPass(d)
      PROVE  CopyInv'
  <2>1. UNCHANGED <<pressed, air, log_event, data, events>>
    BY <1>4 DEF BeginPass, EndPass
  <2>2. \A r \in Device : dsPc'[r] = "wait" <=> dsPc[r] = "wait"
    BY <1>4 DEF BeginPass, EndPass, TypeOK
  <2>3. \A r \in Device : Logged(r)' = Logged(r) /\ Once(r)'
    BY <2>1 DEF Logged, Used, CopyInv, OneWay, Once
  <2> QED
    BY <2>1, <2>2, <2>3, CopiesStay
<1>5. ASSUME NEW d \in Device, DsTask(d)
      PROVE  CopyInv'
  BY <1>4, <1>5, TakeEntryCopies, CompareCopies, DistributeCopies DEF DsTask
<1>6. ASSUME NEW f \in air, Radio(f)
      PROVE  CopyInv'
  BY <1>6, ReceiveCopies, LoseCopies DEF Radio
<1>7. CASE UNCHANGED vars
  BY <1>1, <1>7 DEF vars
<1> QED
  BY <1>2, <1>3, <1>5, <1>6, <1>7, RestartCopies DEF Next

\* No event fills two slots of a log: a press is sent once, received once and
\* put into the log once, and the sort exchanges entries without copying one.
THEOREM NoPressTwice == Spec => []NoDuplicates
<1>1. CopyInv => NoDuplicates
  BY DEF CopyInv, OneWay, Once, NoDuplicates
<1> QED
  BY <1>1, InitType, NextType, EdgeInit, EdgeNext, CopyInit, CopyNext, PTL DEF Spec

-------------------------------------------------------------------------------
(* Agreement *)

\* Only a loss, a restart or more presses than fit makes anyone miss a press.
LossInv ==
  /\ IsFiniteSet(pressed)
  /\ losses = 0 /\ restarts = 0 /\ Cardinality(pressed) <= History => missed = {}

LEMMA LossInit == Init => LossInv
BY FS_EmptySet DEF Init, LossInv

\* A full log, and one press more: they do not fit.
LEMMA FullIsTooMany ==
  ASSUME TypeOK, CopyInv, IsFiniteSet(pressed), NEW d \in Device, Used(d) = Slots,
         log_event[d] # <<>>, dsPc[d] = "wait"
  PROVE  Cardinality(pressed) > History
<1> DEFINE e == Head(log_event[d]).event
<1>1. e \in Waiting(d)
  BY TailElements DEF TypeOK, Waiting, Queued
<1>2. e \in pressed /\ e \notin Logged(d) /\ Logged(d) \subseteq pressed
  BY <1>1 DEF CopyInv, OneWay, Got
<1> HIDE DEF e
<1>3. /\ IsFiniteSet(pressed \ {e})
      /\ Cardinality(pressed \ {e}) = Cardinality(pressed) - 1
  BY <1>2, FS_RemoveElement
<1>4. IsFiniteSet(Slots) /\ Cardinality(Slots) = History
  BY SizeAssumption, FS_Interval DEF Slots
<1>5. Cardinality(Slots) <= Cardinality(pressed \ {e})
  <2> DEFINE f == [k \in Slots |-> events[d][k]]
  <2>1. f \in [Slots -> pressed \ {e}]
    BY <1>2 DEF Logged
  <2>2. \A k, l \in Slots : f[k] = f[l] => k = l
    BY DEF CopyInv, OneWay, Once
  <2>3. f \in Injection(Slots, pressed \ {e})
    BY <2>1, <2>2 DEF Injection, IsInjective
  <2> QED
    BY <1>3, <2>3, FS_Injection
<1>6. Cardinality(pressed) \in Nat
  BY FS_CardinalityType
<1> QED
  BY <1>3, <1>4, <1>5, <1>6, SizeAssumption

LEMMA LossNext == TypeOK /\ CopyInv /\ LossInv /\ [Next]_vars => LossInv'
<1> SUFFICES ASSUME TypeOK, CopyInv, LossInv, [Next]_vars
             PROVE  LossInv'
  OBVIOUS
<1>0. IsFiniteSet(pressed) /\ losses \in Nat /\ restarts \in Nat
  BY DEF LossInv, TypeOK
<1> USE DEF buttonVars, sortVars, taskVars
<1>1. ASSUME UNCHANGED <<pressed, missed, losses, restarts>>
      PROVE  LossInv'
  BY <1>1 DEF LossInv
<1>2. ASSUME IsFiniteSet(pressed'), losses' = losses + 1 \/ restarts' = restarts + 1
      PROVE  LossInv'
  BY <1>0, <1>2 DEF LossInv
<1>3. ASSUME NEW d \in Device, NEW type \in Press, Released(d, type)
      PROVE  /\ IsFiniteSet(pressed')
             /\ Cardinality(pressed') \in Nat /\ Cardinality(pressed) \in Nat
             /\ Cardinality(pressed) <= Cardinality(pressed')
  <2>1. pressed' = pressed \union {Pressing(d, type)}
    BY <1>3 DEF Released
  <2>2. IsFiniteSet(pressed')
    BY <1>0, <2>1, FS_AddElement
  <2>3. pressed \subseteq pressed'
    BY <2>1
  <2> QED
    BY <1>0, <2>2, <2>3, FS_Subset, FS_CardinalityType
<1>4. ASSUME NEW d \in Device, NEW type \in Press, Release(d, type)
      PROVE  LossInv'
  <2>1. UNCHANGED <<missed, losses, restarts>>
    BY <1>4 DEF Release, Released
  <2> QED
    BY <1>3, <1>4, <2>1, SizeAssumption DEF Release, LossInv
<1>5. ASSUME NEW d \in Device, NEW type \in Press, ReleaseInVain(d, type)
      PROVE  LossInv'
  BY <1>2, <1>3, <1>5 DEF ReleaseInVain, CanLose
<1>6. ASSUME NEW d \in Device, ButtonTask(d)
      PROVE  LossInv'
  BY <1>1, <1>4, <1>5, <1>6 DEF ButtonTask, TakeEdge, DropBounce, Settle
<1>7. ASSUME NEW d \in Device, TakeEntry(d)
      PROVE  LossInv'
  <2>1. UNCHANGED <<pressed, losses, restarts>>
    BY <1>7 DEF TakeEntry
  <2>2. CASE Insert(d, Head(log_event[d]).event)
    BY <1>1, <2>1, <2>2 DEF Insert
  <2>3. CASE LogIsFull(d, Head(log_event[d]).event)
    <3>1. Cardinality(pressed) > History
      BY <1>0, <1>7, <2>3, FullIsTooMany DEF LogIsFull, TakeEntry
    <3>2. Cardinality(pressed) \in Nat
      BY <1>0, FS_CardinalityType
    <3> QED
      BY <1>0, <2>1, <3>1, <3>2, SizeAssumption DEF LossInv
  <2> QED
    BY <1>7, <2>2, <2>3 DEF TakeEntry
<1>8. ASSUME NEW d \in Device, DsTask(d)
      PROVE  LossInv'
  BY <1>1, <1>7, <1>8 DEF DsTask, BeginPass, Compare, EndPass, Distribute
<1>9. ASSUME NEW d \in Device, Restart(d)
      PROVE  LossInv'
  BY <1>0, <1>2, <1>9 DEF Restart
<1>10. ASSUME NEW d \in Device, NEW t \in Time, Edge(d, t)
       PROVE  LossInv'
  BY <1>1, <1>10 DEF Edge
<1>11. ASSUME NEW f \in air, Radio(f)
       PROVE  LossInv'
  BY <1>0, <1>1, <1>2, <1>11 DEF Radio, Receive, Lose, CanLose
<1>12. CASE UNCHANGED vars
  BY <1>1, <1>12 DEF vars
<1> QED
  BY <1>6, <1>8, <1>9, <1>10, <1>11, <1>12 DEF Next

\* With no loss, no restart and no more presses than fit, all devices hold all
\* that was pressed as soon as nothing is under way: full logs refuse no press,
\* and what is accounted for and not under way is in the log.
THEOREM LogsAgree == Spec => []Agreement
<1>1. CopyInv /\ AccountInv /\ LossInv => Agreement
  <2> SUFFICES ASSUME CopyInv, AccountInv, LossInv, Quiet, losses = 0, restarts = 0,
                      Cardinality(pressed) <= History, NEW d \in Device
               PROVE  Logged(d) = pressed
    BY DEF Agreement
  <2>1. missed = {}
    BY DEF LossInv
  <2>2. \A s \in Device : Queued(s) = {} /\ Busy(s) = {}
    BY DEF Quiet, Queued, Busy
  <2>3. Coming(d) = {}
    BY <2>2 DEF Quiet, Coming, Unsent
  <2>4. pressed \subseteq Logged(d)
    BY <2>1, <2>3 DEF AccountInv, Accounted
  <2>5. Logged(d) \subseteq pressed
    BY DEF CopyInv, OneWay, Got
  <2> QED
    BY <2>4, <2>5
<1> QED
  BY <1>1, InitType, NextType, EdgeInit, EdgeNext, CopyInit, CopyNext, AccountInit,
     AccountNext, LossInit, LossNext, PTL DEF Spec
================================================================================
