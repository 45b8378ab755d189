--------------------------- MODULE MembershipProofs ---------------------------
(***************************************************************************)
(* Theorems about Membership, for every set of devices and every size.     *)
(***************************************************************************)
EXTENDS Membership, FiniteSetTheorems, TLAPS

Airs == [Device -> [Device -> Seq(Frame)]]
Queues == [Device -> Seq(Event)]

-------------------------------------------------------------------------------
(* Queues *)

LEMMA EmptyTableType == EmptyTable \in Table
BY DEF EmptyTable, Table, Status

LEMMA PutType ==
  ASSUME NEW q \in Seq(Event), NEW e \in Event
  PROVE  Put(q, e) \in Seq(Event)
BY DEF Put

LEMMA PushType ==
  ASSUME NEW a \in Seq(Frame), NEW f \in Frame
  PROVE  Push(a, f) \in Seq(Frame)
BY DEF Push

LEMMA SendToType ==
  ASSUME air \in Airs, NEW d \in Device, NEW to, NEW f \in Frame, SendTo(d, to, f)
  PROVE  air' \in Airs
<1>1. \A n \in Device : Push(air[d][n], f) \in Seq(Frame)
  BY PushType DEF Airs
<1> QED
  BY <1>1 DEF SendTo, Airs

LEMMA TakeEventType ==
  ASSUME queue \in Queues, NEW d \in Device, TakeEvent(d), queue[d] # <<>>
  PROVE  queue' \in Queues
BY DEF TakeEvent, Queues

LEMMA HeadEvent ==
  ASSUME queue \in Queues, NEW d \in Device, queue[d] # <<>>
  PROVE  Head(queue[d]) \in Event
BY DEF Queues

LEMMA FrameOf ==
  ASSUME NEW t \in Table
  PROVE  /\ [kind |-> "NEIGHBORS", list |-> t] \in Frame
         /\ Plain("REQUEST") \in Frame
         /\ Plain("NOTICE") \in Frame
BY EmptyTableType DEF Frame, Plain

-------------------------------------------------------------------------------
(* Type correctness *)

LEMMA InitType == Init => TypeOK
BY EmptyTableType, SizesAssumption DEF Init, TypeOK, Counter, EmptyTable, Known

\* Learning from a well-typed list keeps the tables well-typed.
LEMMA LearnType ==
  ASSUME TypeOK, NEW d \in Device, NEW list \in Table, Learn(d, list)
  PROVE  /\ status' \in [Device -> Table]
         /\ peers' \in [Device -> SUBSET Device]
         /\ error_count' \in [Device -> [Device -> Counter]]
         /\ overrun' \in [Device -> BOOLEAN]
         /\ \A e \in Device : e \notin Known(e)' /\ e \notin peers'[e]
<1>1. ASSUME NEW entered \in SUBSET Newcomers(d, list), Merge(d, list, entered)
      PROVE  /\ status' \in [Device -> Table]
             /\ peers' \in [Device -> SUBSET Device]
             /\ \A e \in Device : e \notin Known(e)' /\ e \notin peers'[e]
  <2>1. d \notin Listed(d, list) /\ Listed(d, list) \subseteq Device
    BY DEF Listed, Others
  <2>2. d \notin entered
    BY <2>1 DEF Newcomers
  <2>3. status' \in [Device -> Table]
    BY <1>1 DEF Merge, TypeOK, Table
  <2>4. peers' \in [Device -> SUBSET Device]
    BY <1>1, <2>1 DEF Merge, TypeOK, Newcomers
  <2>5. \A e \in Device : status'[e][e] = status[e][e]
    BY <1>1, <2>1, <2>2 DEF Merge, TypeOK, Table
  <2>6. \A e \in Device : e \notin peers'[e]
    BY <1>1, <2>1 DEF Merge, TypeOK, Newcomers
  <2> QED
    BY <2>3, <2>4, <2>5, <2>6 DEF TypeOK, Known
<1>2. CASE /\ Merge(d, list, Newcomers(d, list))
           /\ UNCHANGED <<error_count, overrun>>
  BY <1>1, <1>2 DEF TypeOK
<1>3. CASE /\ \E entered \in SUBSET Newcomers(d, list) :
                /\ Cardinality(entered) = Free(d)
                /\ Merge(d, list, entered)
           /\ \E junk \in [Device -> Counter] :
                error_count' = [error_count EXCEPT ![d] = junk]
           /\ overrun' = [overrun EXCEPT ![d] = TRUE]
  <2>1. error_count' \in [Device -> [Device -> Counter]]
    BY <1>3 DEF TypeOK
  <2>2. overrun' \in [Device -> BOOLEAN]
    BY <1>3 DEF TypeOK
  <2> QED
    BY <1>1, <1>3, <2>1, <2>2
<1> QED
  BY <1>2, <1>3 DEF Learn

LEMMA NextType == TypeOK /\ [Next]_vars => TypeOK'
<1> SUFFICES ASSUME TypeOK, [Next]_vars
             PROVE  TypeOK'
  OBVIOUS
<1>0. air \in Airs /\ queue \in Queues /\ EmptyTable \in Table
  BY EmptyTableType DEF TypeOK, Airs, Queues
<1>1. ASSUME NEW d \in Device, Boot(d)
      PROVE  TypeOK'
  BY <1>1 DEF Boot, TypeOK, Known
<1>2. ASSUME NEW d \in Device, Announce(d)
      PROVE  TypeOK'
  <2>1. [kind |-> "HELLO_DS", from |-> d, list |-> EmptyTable] \in Event
    BY <1>0 DEF Event
  <2>2. queue' \in Queues
    BY <1>0, <1>2, <2>1, PutType DEF Announce, Queues
  <2> QED
    BY <1>2, <2>2 DEF Announce, TypeOK, Known, Queues
<1>3. ASSUME NEW d \in Device, Crash(d)
      PROVE  TypeOK'
  <2>1. [n \in Device |-> 0] \in [Device -> Counter]
    BY SizesAssumption DEF Counter
  <2>2. \A e \in Device : status'[e][e] = "NOT_INITIALIZED"
    BY <1>3 DEF Crash, TypeOK, Known, EmptyTable
  <2>3. /\ air' \in Airs
        /\ queue' \in Queues
    BY <1>0, <1>3 DEF Crash, Airs, Queues
  <2> QED
    BY <1>0, <1>3, <2>1, <2>2, <2>3 DEF Crash, TypeOK, Known, Airs, Queues
<1>4. ASSUME NEW d \in Device, NEW n \in Others(d), Transmit(d, n)
      PROVE  TypeOK'
  <2>0. n \in Device /\ n # d
    BY DEF Others
  <2>1. Head(air[d][n]) \in Frame /\ Tail(air[d][n]) \in Seq(Frame)
    BY <1>0, <1>4, <2>0 DEF Transmit, Airs
  <2>2. air' \in Airs
    BY <1>0, <1>4, <2>0, <2>1 DEF Transmit, Airs
  <2>3. PICK heard \in BOOLEAN, acked \in BOOLEAN :
          queue' = [queue EXCEPT
            ![d] = Put(@, [kind |-> IF acked THEN "SENT" ELSE "FAILED",
                           from |-> n, list |-> EmptyTable]),
            ![n] = IF heard /\ Head(air[d][n]).kind # "NOTICE"
                     THEN Put(@, [kind |-> Head(air[d][n]).kind, from |-> d,
                                  list |-> Head(air[d][n]).list])
                     ELSE @]
    BY <1>4 DEF Transmit
  <2>4. [kind |-> IF acked THEN "SENT" ELSE "FAILED", from |-> n, list |-> EmptyTable]
          \in Event
    BY <1>0, <2>0 DEF Event
  <2>5. Put(queue[d], [kind |-> IF acked THEN "SENT" ELSE "FAILED",
                       from |-> n, list |-> EmptyTable]) \in Seq(Event)
    BY <1>0, <2>4, PutType DEF Queues
  <2>6. Head(air[d][n]).kind # "NOTICE" =>
          Put(queue[n], [kind |-> Head(air[d][n]).kind, from |-> d,
                         list |-> Head(air[d][n]).list]) \in Seq(Event)
    <3>1. ASSUME Head(air[d][n]).kind # "NOTICE"
          PROVE  [kind |-> Head(air[d][n]).kind, from |-> d,
                  list |-> Head(air[d][n]).list] \in Event
      BY <2>1, <3>1 DEF Event, Frame
    <3> QED
      BY <1>0, <2>0, <3>1, PutType DEF Queues
  <2>7. queue' \in Queues
    BY <1>0, <2>0, <2>3, <2>5, <2>6 DEF Queues
  <2> QED
    BY <1>4, <2>2, <2>7 DEF Transmit, TypeOK, Known, Airs, Queues
<1>5. ASSUME NEW d \in Device, NEW n \in Others(d), NEW kind \in Traffic[d],
             SendData(d, n, kind)
      PROVE  TypeOK'
  <2>1. Plain(kind) \in Frame
    BY <1>0, FrameOf, SizesAssumption DEF Plain
  <2>2. air' \in Airs
    BY <1>0, <1>5, <2>1, SendToType DEF SendData
  <2> QED
    BY <1>5, <2>2 DEF SendData, TypeOK, Known, Airs
<1>6. ASSUME NEW d \in Device, HandleSent(d)
      PROVE  TypeOK'
  <2>1. queue' \in Queues /\ Head(queue[d]).from \in Device
    BY <1>0, <1>6, TakeEventType, HeadEvent DEF HandleSent, Pending, Event
  <2>2. 0 \in Counter
    BY SizesAssumption DEF Counter
  <2>3. error_count' \in [Device -> [Device -> Counter]]
    BY <1>6, <2>1, <2>2 DEF HandleSent, TypeOK
  <2> QED
    BY <1>6, <2>1, <2>3 DEF HandleSent, TypeOK, Known, Queues
<1>7. ASSUME NEW d \in Device, HandleFailed(d)
      PROVE  TypeOK'
  <2> DEFINE n == Head(queue[d]).from
             count == (error_count[d][n] + 1) % CounterRange
             marked == [status[d] EXCEPT ![n] = "INACTIVE"]
  <2>1. queue' \in Queues /\ n \in Device
    BY <1>0, <1>7, TakeEventType, HeadEvent DEF HandleFailed, Pending, Event
  <2>2. count \in Counter
    <3>1. error_count[d][n] \in Nat
      BY <2>1 DEF TypeOK, Counter
    <3> HIDE DEF n
    <3> QED
      BY <3>1, SizesAssumption DEF Counter
  <2>3. marked \in Table
    BY <2>1 DEF TypeOK, Table, Status
  <2>4. [kind |-> "NEIGHBORS", list |-> marked] \in Frame
    BY <2>3, FrameOf
  <2>5. \/ UNCHANGED <<error_count, status, air>>
        \/ /\ error_count' = [error_count EXCEPT ![d][n] = count]
           /\ UNCHANGED <<status, air>>
        \/ /\ error_count' = [error_count EXCEPT ![d][n] = count]
           /\ n \in Known(d)
           /\ status' = [status EXCEPT ![d] = marked]
           /\ SendTo(d, ActiveIn(marked), [kind |-> "NEIGHBORS", list |-> marked])
    BY <1>7 DEF HandleFailed
  <2>6. air' \in Airs
    <3> HIDE DEF marked, count, n
    <3> QED
      BY <1>0, <2>4, <2>5, SendToType
  <2>7. error_count' \in [Device -> [Device -> Counter]]
    <3>1. error_count' = error_count \/ error_count' = [error_count EXCEPT ![d][n] = count]
      BY <2>5
    <3> HIDE DEF marked, count, n
    <3>2. [error_count EXCEPT ![d][n] = count] \in [Device -> [Device -> Counter]]
      BY <2>1, <2>2 DEF TypeOK
    <3> QED
      BY <3>1, <3>2 DEF TypeOK
  <2>8. status' \in [Device -> Table]
    <3> HIDE DEF marked, count, n
    <3> QED
      BY <2>3, <2>5 DEF TypeOK
  <2>9. \A e \in Device : status'[e][e] = status[e][e]
    <3>1. n \in Known(d) => n # d
      BY DEF TypeOK
    <3>2. n # d => marked[d] = status[d][d]
      BY <2>1 DEF TypeOK, Table
    <3> HIDE DEF marked, count, n
    <3> QED
      BY <2>5, <3>1, <3>2 DEF TypeOK
  <2> HIDE DEF marked, count, n
  <2> QED
    BY <1>7, <2>1, <2>6, <2>7, <2>8, <2>9 DEF HandleFailed, TypeOK, Known, Airs, Queues
<1>8. ASSUME NEW d \in Device, HandleHello(d)
      PROVE  TypeOK'
  <2> DEFINE s == Head(queue[d]).from
             list == [EmptyTable EXCEPT ![s] = "ACTIVE"]
  <2>1. queue' \in Queues /\ s \in Device
    BY <1>0, <1>8, TakeEventType, HeadEvent DEF HandleHello, Pending, Event
  <2>2. list \in Table
    BY <1>0, <2>1 DEF Table, Status
  <2>3. Learn(d, list)
    BY <1>8 DEF HandleHello
  <2>4. SendTo(d, {s}, [kind |-> "NEIGHBORS", list |-> status'[d]])
    BY <1>8 DEF HandleHello
  <2> HIDE DEF s, list
  <2>5. status'[d] \in Table
    BY <2>2, <2>3, LearnType
  <2>6. air' \in Airs
    BY <1>0, <2>4, <2>5, FrameOf, SendToType
  <2> QED
    BY <1>8, <2>1, <2>2, <2>3, <2>6, LearnType DEF HandleHello, TypeOK, Airs, Queues
<1>9. ASSUME NEW d \in Device, HandleNeighbors(d)
      PROVE  TypeOK'
  <2> DEFINE e == Head(queue[d])
             list == [e.list EXCEPT ![e.from] = "ACTIVE"]
  <2>1. queue' \in Queues /\ e \in Event
    BY <1>0, <1>9, TakeEventType, HeadEvent DEF HandleNeighbors, Pending
  <2>2. list \in Table
    BY <2>1 DEF Event, Table, Status
  <2>3. Learn(d, list)
    BY <1>9 DEF HandleNeighbors
  <2> HIDE DEF e, list
  <2> QED
    BY <1>9, <2>1, <2>2, <2>3, LearnType DEF HandleNeighbors, TypeOK, Queues
<1>10. ASSUME NEW d \in Device, HandleRequest(d)
       PROVE  TypeOK'
  <2>1. queue' \in Queues
    BY <1>0, <1>10, TakeEventType DEF HandleRequest, Pending
  <2>2. Plain("NOTICE") \in Frame
    BY <1>0, FrameOf
  <2>3. air' \in Airs
    BY <1>0, <1>10, <2>2, SendToType DEF HandleRequest
  <2> QED
    BY <1>10, <2>1, <2>3 DEF HandleRequest, TypeOK, Known, Airs, Queues
<1>11. CASE UNCHANGED vars
  BY <1>11 DEF vars, TypeOK, Known
<1> QED
  BY <1>1, <1>2, <1>3, <1>4, <1>5, <1>6, <1>7, <1>8, <1>9, <1>10, <1>11
  DEF Next, Handle

\* Type correctness: tables, counters, frames and events keep their types, and a
\* device never enters itself.
THEOREM TypeCorrect == Spec => []TypeOK
<1> QED
  BY InitType, NextType, PTL DEF Spec

-------------------------------------------------------------------------------
(* The table *)

TableInv == PeersAreKnown /\ NoOverrun

\* The table has a slot for every other device (NEIGHBORS_COUNT is 9 and "the count
\* of possible used devices is 10").
RoomForAll == Cardinality(Device) <= Capacity + 1

\* As long as peers and entries agree, newcomers and entries together are at most
\* all other devices.
LEMMA RoomLeft ==
  ASSUME RoomForAll, TypeOK, PeersAreKnown, NEW d \in Device, NEW list
  PROVE  Cardinality(Newcomers(d, list)) <= Free(d)
<1> DEFINE new == Newcomers(d, list)
           known == Known(d)
<1>1. IsFiniteSet(Device) /\ IsFiniteSet(Device \ {d})
  BY DeviceAssumption, FS_RemoveElement
<1>2. Cardinality(Device \ {d}) = Cardinality(Device) - 1
  BY <1>1, FS_RemoveElement
<1>3. new \subseteq Device \ {d} /\ known \subseteq Device \ {d} /\ new \cap known = {}
  BY DEF Newcomers, Listed, Others, Known, TypeOK, PeersAreKnown
<1>4. IsFiniteSet(new) /\ IsFiniteSet(known)
  BY <1>1, <1>3, FS_Subset
<1>5. new \cup known \subseteq Device \ {d}
  BY <1>3
<1> HIDE DEF new, known
<1>6. Cardinality(new \cup known) <= Cardinality(Device \ {d})
  BY <1>1, <1>5, FS_Subset
<1>7. Cardinality({}) = 0
  BY FS_EmptySet
<1>8. Cardinality(new \cup known) = Cardinality(new) + Cardinality(known)
  <2>1. Cardinality(new \cup known)
          = Cardinality(new) + Cardinality(known) - Cardinality(new \cap known)
    BY <1>4, FS_Union
  <2>2. Cardinality(new) \in Nat /\ Cardinality(known) \in Nat
    BY <1>4, FS_CardinalityType
  <2>3. Cardinality(new \cap known) = 0
    BY <1>3, <1>7
  <2> QED
    BY <2>1, <2>2, <2>3
<1>9. /\ Cardinality(new) \in Nat
      /\ Cardinality(known) \in Nat
      /\ Cardinality(Device) \in Nat
  BY <1>1, <1>4, FS_CardinalityType
<1>10. Cardinality(new) + Cardinality(known) <= Capacity
  BY <1>2, <1>6, <1>8, <1>9, SizesAssumption DEF RoomForAll
<1>11. Cardinality(new) <= Capacity - Cardinality(known)
  BY <1>9, <1>10, SizesAssumption
<1> QED
  BY <1>11 DEF Free, new, known

\* Learning enters each newcomer both as a peer and in the table.
LEMMA LearnTable ==
  ASSUME RoomForAll, TypeOK, TableInv, NEW d \in Device, NEW list, Learn(d, list)
  PROVE  TableInv'
<1>1. Cardinality(Newcomers(d, list)) <= Free(d)
  BY RoomLeft DEF TableInv
<1>2. ~(Cardinality(Newcomers(d, list)) > Free(d))
  <2>1. Cardinality(Newcomers(d, list)) \in Nat /\ Free(d) \in Int
    <3>1. Newcomers(d, list) \subseteq Device /\ Known(d) \subseteq Device
      BY DEF Newcomers, Listed, Others, Known
    <3>2. IsFiniteSet(Newcomers(d, list)) /\ IsFiniteSet(Known(d))
      BY <3>1, DeviceAssumption, FS_Subset
    <3> QED
      BY <3>2, FS_CardinalityType, SizesAssumption DEF Free
  <2> QED
    BY <1>1, <2>1
<1>3. /\ Merge(d, list, Newcomers(d, list))
      /\ UNCHANGED <<error_count, overrun>>
  BY <1>2 DEF Learn
<1>4. NoOverrun'
  BY <1>3 DEF TableInv, NoOverrun
<1>5. \A e \in Device : e # d => peers'[e] = peers[e] /\ status'[e] = status[e]
  BY <1>3 DEF Merge, TypeOK
<1>6. peers'[d] = peers[d] \cup Newcomers(d, list)
  BY <1>3 DEF Merge, TypeOK
<1>7. \A n \in Device :
        status'[d][n] = IF n \in Newcomers(d, list)
                             \/ (n \in Listed(d, list) /\ n \in Known(d))
                          THEN list[n] ELSE status[d][n]
  BY <1>3 DEF Merge, TypeOK
<1>8. \A n \in Listed(d, list) : list[n] # "NOT_INITIALIZED"
  BY DEF Listed
<1>9. Newcomers(d, list) \subseteq Listed(d, list) /\ Listed(d, list) \subseteq Device
  BY DEF Newcomers, Listed, Others
<1>10. \A n \in Device :
         status'[d][n] # "NOT_INITIALIZED" <=> n \in peers[d] \cup Newcomers(d, list)
  BY <1>7, <1>8, <1>9 DEF TableInv, PeersAreKnown, Known
<1>11. Known(d)' = peers'[d]
  BY <1>6, <1>9, <1>10 DEF Known, TypeOK
<1>12. PeersAreKnown'
  BY <1>5, <1>11 DEF TableInv, PeersAreKnown, Known
<1> QED
  BY <1>4, <1>12 DEF TableInv

LEMMA TableStep == RoomForAll /\ TypeOK /\ TableInv /\ [Next]_vars => TableInv'
<1> SUFFICES ASSUME RoomForAll, TypeOK, TableInv, [Next]_vars
             PROVE  TableInv'
  OBVIOUS
<1>1. ASSUME UNCHANGED <<status, peers, overrun>>
      PROVE  TableInv'
  BY <1>1 DEF TableInv, PeersAreKnown, NoOverrun, Known
<1>2. ASSUME NEW d \in Device, Crash(d)
      PROVE  TableInv'
  BY <1>2 DEF Crash, TableInv, PeersAreKnown, NoOverrun, Known, TypeOK, EmptyTable
<1>3. ASSUME NEW d \in Device, HandleFailed(d)
      PROVE  TableInv'
  <2> DEFINE n == Head(queue[d]).from
             marked == [status[d] EXCEPT ![n] = "INACTIVE"]
  <2>1. /\ peers' = peers
        /\ overrun' = overrun
        /\ \/ status' = status
           \/ n \in Known(d) /\ status' = [status EXCEPT ![d] = marked]
    BY <1>3 DEF HandleFailed
  <2>2. CASE status' = status
    BY <1>1, <2>1, <2>2
  <2>3. CASE n \in Known(d) /\ status' = [status EXCEPT ![d] = marked]
    <3>1. \A e \in Device : Known(e)' = Known(e)
      BY <2>3 DEF Known, TypeOK, Table
    <3> QED
      BY <2>1, <3>1 DEF TableInv, PeersAreKnown, NoOverrun
  <2> QED
    BY <2>1, <2>2, <2>3
<1>4. ASSUME NEW d \in Device, HandleHello(d)
      PROVE  TableInv'
  <2>1. Learn(d, [EmptyTable EXCEPT ![Head(queue[d]).from] = "ACTIVE"])
    BY <1>4 DEF HandleHello
  <2> QED
    BY <2>1, LearnTable
<1>5. ASSUME NEW d \in Device, HandleNeighbors(d)
      PROVE  TableInv'
  <2>1. Learn(d, [Head(queue[d]).list EXCEPT ![Head(queue[d]).from] = "ACTIVE"])
    BY <1>5 DEF HandleNeighbors
  <2> QED
    BY <2>1, LearnTable
<1>6. ASSUME NEW d \in Device,
             Boot(d) \/ Announce(d) \/ HandleSent(d) \/ HandleRequest(d)
      PROVE  TableInv'
  BY <1>1, <1>6 DEF Boot, Announce, HandleSent, HandleRequest
<1>7. ASSUME NEW d \in Device, NEW n \in Others(d),
             Transmit(d, n) \/ \E kind \in Traffic[d] : SendData(d, n, kind)
      PROVE  TableInv'
  BY <1>1, <1>7 DEF Transmit, SendData
<1>8. CASE UNCHANGED vars
  BY <1>1, <1>8 DEF vars
<1> QED
  BY <1>2, <1>3, <1>4, <1>5, <1>6, <1>7, <1>8 DEF Next, Handle

LEMMA TableHolds == RoomForAll => (Spec => [](TypeOK /\ TableInv))
<1> SUFFICES ASSUME RoomForAll
             PROVE  Spec => [](TypeOK /\ TableInv)
  OBVIOUS
<1>1. Init => TypeOK /\ TableInv
  BY InitType DEF Init, TableInv, PeersAreKnown, NoOverrun, Known, EmptyTable
<1>2. TypeOK /\ TableInv /\ [Next]_vars => (TypeOK /\ TableInv)'
  BY NextType, TableStep
<1> QED
  BY <1>1, <1>2, PTL DEF Spec

\* A table with a slot for every other device is never overrun: however often
\* devices crash, return and are announced again, and whatever the radio loses.
THEOREM TableNeverOverrun == RoomForAll => (Spec => []NoOverrun)
<1> SUFFICES ASSUME RoomForAll
             PROVE  Spec => []NoOverrun
  OBVIOUS
<1>1. Spec => [](TypeOK /\ TableInv)
  BY TableHolds
<1> QED
  BY <1>1, PTL DEF TableInv

\* Under the same condition the driver's peers are exactly the entries.
THEOREM PeersMatchTable == RoomForAll => (Spec => []PeersAreKnown)
<1> SUFFICES ASSUME RoomForAll
             PROVE  Spec => []PeersAreKnown
  OBVIOUS
<1>1. Spec => [](TypeOK /\ TableInv)
  BY TableHolds
<1> QED
  BY <1>1, PTL DEF TableInv

-------------------------------------------------------------------------------
(* Deaths *)

Booted == {n \in Device : up[n] \/ crashes[n] > 0}
Died == {n \in Device : crashes[n] > 0}

\* A list tells the truth about the devices B that have booted and D that have died: it
\* names only the former, and without losses it calls INACTIVE only the latter.
Truthful(list, B, D) ==
  \A n \in Device :
    /\ list[n] # "NOT_INITIALIZED" => n \in B
    /\ ~Lossy /\ list[n] = "INACTIVE" => n \in D

TruthfulEvent(e, B, D) ==
  /\ e.from \in B
  /\ Truthful(e.list, B, D)
  /\ ~Lossy /\ e.kind = "FAILED" => e.from \in D

QueueTrue(q, B, D) == \A i \in DOMAIN q : TruthfulEvent(q[i], B, D)

\* Frames tell the truth and are only under way to devices that have booted.
FramesTrue(a, n, B, D) ==
  /\ a # <<>> => n \in B
  /\ \A i \in DOMAIN a : Truthful(a[i].list, B, D)

TablesTrue(B, D) == \A d \in Device : Truthful(status[d], B, D)
PeersTrue(B) == \A d \in Device : peers[d] \subseteq B
AirTrue(B, D) == \A d, n \in Device : FramesTrue(air[d][n], n, B, D)
QueuesTrue(B, D) == \A d \in Device : QueueTrue(queue[d], B, D)

DeathInv ==
  /\ TablesTrue(Booted, Died)
  /\ PeersTrue(Booted)
  /\ AirTrue(Booted, Died)
  /\ QueuesTrue(Booted, Died)

\* Deaths and first boots are never undone.
LEMMA BootedLasts ==
  ASSUME TypeOK, [Next]_vars
  PROVE  Booted \subseteq Booted' /\ Died \subseteq Died'
<1>1. ASSUME NEW d \in Device, Crash(d)
      PROVE  Booted \subseteq Booted' /\ Died \subseteq Died'
  BY <1>1 DEF Crash, Booted, Died, TypeOK
<1>2. ASSUME NEW d \in Device, Boot(d)
      PROVE  Booted \subseteq Booted' /\ Died \subseteq Died'
  BY <1>2 DEF Boot, Booted, Died, TypeOK
<1>3. ASSUME UNCHANGED <<up, crashes>>
      PROVE  Booted \subseteq Booted' /\ Died \subseteq Died'
  BY <1>3 DEF Booted, Died
<1>4. ASSUME NEW d \in Device, Announce(d) \/ Handle(d)
      PROVE  UNCHANGED <<up, crashes>>
  BY <1>4 DEF Announce, Handle, HandleSent, HandleFailed, HandleHello, HandleNeighbors,
              HandleRequest
<1>5. ASSUME NEW d \in Device, NEW n \in Others(d),
             Transmit(d, n) \/ \E kind \in Traffic[d] : SendData(d, n, kind)
      PROVE  UNCHANGED <<up, crashes>>
  BY <1>5 DEF Transmit, SendData
<1>6. CASE UNCHANGED vars
  BY <1>3, <1>6 DEF vars
<1> QED
  BY <1>1, <1>2, <1>3, <1>4, <1>5, <1>6 DEF Next

\* What was true stays true.
LEMMA TruthLasts ==
  ASSUME DeathInv, NEW B, NEW D, Booted \subseteq B, Died \subseteq D
  PROVE  TablesTrue(B, D) /\ PeersTrue(B) /\ AirTrue(B, D) /\ QueuesTrue(B, D)
<1>1. ASSUME NEW list, Truthful(list, Booted, Died)
      PROVE  Truthful(list, B, D)
  BY <1>1 DEF Truthful
<1>2. ASSUME NEW e, TruthfulEvent(e, Booted, Died)
      PROVE  TruthfulEvent(e, B, D)
  BY <1>1, <1>2 DEF TruthfulEvent
<1>3. TablesTrue(B, D)
  BY <1>1 DEF DeathInv, TablesTrue
<1>4. PeersTrue(B)
  BY DEF DeathInv, PeersTrue
<1>5. AirTrue(B, D)
  BY <1>1 DEF DeathInv, AirTrue, FramesTrue
<1>6. QueuesTrue(B, D)
  BY <1>2 DEF DeathInv, QueuesTrue, QueueTrue
<1> QED
  BY <1>3, <1>4, <1>5, <1>6

LEMMA EmptyTruthful ==
  ASSUME NEW B, NEW D
  PROVE  Truthful(EmptyTable, B, D)
BY DEF Truthful, EmptyTable

LEMMA PutTrue ==
  ASSUME NEW B, NEW D, NEW q \in Seq(Event), NEW e \in Event,
         QueueTrue(q, B, D), TruthfulEvent(e, B, D)
  PROVE  QueueTrue(Put(q, e), B, D)
<1>1. QueueTrue(Append(q, e), B, D)
  <2>1. \A i \in DOMAIN Append(q, e) :
          Append(q, e)[i] = IF i \in DOMAIN q THEN q[i] ELSE e
    OBVIOUS
  <2> QED
    BY <2>1 DEF QueueTrue
<1> QED
  BY <1>1 DEF Put

LEMMA TailTrue ==
  ASSUME NEW B, NEW D, NEW q \in Seq(Event), q # <<>>, QueueTrue(q, B, D)
  PROVE  QueueTrue(Tail(q), B, D) /\ TruthfulEvent(Head(q), B, D)
<1>1. \A i \in DOMAIN Tail(q) : i + 1 \in DOMAIN q /\ Tail(q)[i] = q[i + 1]
  OBVIOUS
<1>2. 1 \in DOMAIN q /\ Head(q) = q[1]
  OBVIOUS
<1> QED
  BY <1>1, <1>2 DEF QueueTrue

LEMMA PushTrue ==
  ASSUME NEW B, NEW D, NEW n, NEW a \in Seq(Frame), NEW f \in Frame,
         FramesTrue(a, n, B, D), n \in B, Truthful(f.list, B, D)
  PROVE  FramesTrue(Push(a, f), n, B, D)
<1>1. FramesTrue(Append(a, f), n, B, D)
  <2>1. \A i \in DOMAIN Append(a, f) :
          Append(a, f)[i] = IF i \in DOMAIN a THEN a[i] ELSE f
    OBVIOUS
  <2> QED
    BY <2>1 DEF FramesTrue
<1> QED
  BY <1>1 DEF Push

LEMMA FrameTailTrue ==
  ASSUME NEW B, NEW D, NEW n, NEW a \in Seq(Frame), a # <<>>, FramesTrue(a, n, B, D)
  PROVE  FramesTrue(Tail(a), n, B, D) /\ Truthful(Head(a).list, B, D) /\ n \in B
<1>1. \A i \in DOMAIN Tail(a) : i + 1 \in DOMAIN a /\ Tail(a)[i] = a[i + 1]
  OBVIOUS
<1>2. 1 \in DOMAIN a /\ Head(a) = a[1]
  OBVIOUS
<1> QED
  BY <1>1, <1>2 DEF FramesTrue

LEMMA SendToTrue ==
  ASSUME NEW B, NEW D, air \in Airs, AirTrue(B, D),
         NEW d \in Device, NEW to \in SUBSET Device, NEW f \in Frame,
         to \subseteq B, Truthful(f.list, B, D), SendTo(d, to, f)
  PROVE  AirTrue(B, D)'
<1>1. ASSUME NEW n \in Device
      PROVE  FramesTrue(air'[d][n], n, B, D)
  <2>1. air'[d][n] = IF n \in to THEN Push(air[d][n], f) ELSE air[d][n]
    BY DEF SendTo, Airs
  <2>2. air[d][n] \in Seq(Frame) /\ FramesTrue(air[d][n], n, B, D)
    BY DEF Airs, AirTrue
  <2>3. n \in to => FramesTrue(Push(air[d][n], f), n, B, D)
    BY <2>2, PushTrue
  <2> QED
    BY <2>1, <2>2, <2>3
<1>2. \A e, n \in Device : e # d => air'[e][n] = air[e][n]
  BY DEF SendTo, Airs
<1> QED
  BY <1>1, <1>2 DEF AirTrue

LEMMA TakeEventTrue ==
  ASSUME NEW B, NEW D, queue \in Queues, QueuesTrue(B, D),
         NEW d \in Device, queue[d] # <<>>, TakeEvent(d)
  PROVE  QueuesTrue(B, D)' /\ TruthfulEvent(Head(queue[d]), B, D)
<1>1. queue[d] \in Seq(Event) /\ QueueTrue(queue[d], B, D)
  BY DEF Queues, QueuesTrue
<1>2. QueueTrue(Tail(queue[d]), B, D) /\ TruthfulEvent(Head(queue[d]), B, D)
  BY <1>1, TailTrue
<1> QED
  BY <1>2 DEF TakeEvent, QueuesTrue, Queues

LEMMA LearnTrue ==
  ASSUME NEW B, NEW D, TypeOK, TablesTrue(B, D), PeersTrue(B),
         NEW d \in Device, NEW list, Truthful(list, B, D), Learn(d, list)
  PROVE  TablesTrue(B, D)' /\ PeersTrue(B)'
<1>1. PICK entered \in SUBSET Newcomers(d, list) : Merge(d, list, entered)
  BY DEF Learn
<1>2. Newcomers(d, list) \subseteq B
  BY DEF Newcomers, Listed, Others, Truthful
<1>3. PeersTrue(B)'
  BY <1>1, <1>2 DEF Merge, PeersTrue, TypeOK
<1>4. \A n \in Device : status'[d][n] = list[n] \/ status'[d][n] = status[d][n]
  BY <1>1 DEF Merge, TypeOK
<1>5. Truthful(status'[d], B, D)
  BY <1>4 DEF Truthful, TablesTrue
<1>6. \A e \in Device : e # d => status'[e] = status[e]
  BY <1>1 DEF Merge, TypeOK
<1> QED
  BY <1>3, <1>5, <1>6 DEF TablesTrue

\* All of it, about devices B and D.
TrueFor(B, D) == TablesTrue(B, D) /\ PeersTrue(B) /\ AirTrue(B, D) /\ QueuesTrue(B, D)

\* A step only says what is true of the devices booted and dead after it.
LEMMA DeathStepFor ==
  ASSUME TypeOK, DeathInv, [Next]_vars,
         NEW CONSTANT B, NEW CONSTANT D, B = Booted', D = Died'
  PROVE  TrueFor(B, D)'
<1>1. TablesTrue(B, D) /\ PeersTrue(B) /\ AirTrue(B, D) /\ QueuesTrue(B, D)
  BY BootedLasts, TruthLasts
<1>3. /\ air \in Airs
      /\ queue \in Queues
      /\ \A d \in Device : status[d] \in Table
      /\ EmptyTable \in Table
  BY EmptyTableType DEF TypeOK, Airs, Queues
<1>4. /\ B = {n \in Device : up'[n] \/ crashes'[n] > 0}
      /\ D = {n \in Device : crashes'[n] > 0}
  BY DEF Booted, Died
<1>5. \A d \in Device : up[d] => d \in B
  <2> SUFFICES ASSUME NEW d \in Device, up[d]
               PROVE  d \in B
    OBVIOUS
  <2>1. d \in Booted
    BY DEF Booted
  <2> QED
    BY <2>1, BootedLasts
<1>6. Truthful(EmptyTable, B, D)
  BY EmptyTruthful
<1>7. ASSUME UNCHANGED status
      PROVE  TablesTrue(B, D)'
  BY <1>1, <1>7 DEF TablesTrue
<1>8. ASSUME UNCHANGED peers
      PROVE  PeersTrue(B)'
  BY <1>1, <1>8 DEF PeersTrue
<1>9. ASSUME UNCHANGED air
      PROVE  AirTrue(B, D)'
  BY <1>1, <1>9 DEF AirTrue
<1>10. ASSUME UNCHANGED queue
       PROVE  QueuesTrue(B, D)'
  BY <1>1, <1>10 DEF QueuesTrue
<1>11. ASSUME NEW d \in Device, Boot(d)
       PROVE  TrueFor(B, D)'
  BY <1>7, <1>8, <1>9, <1>10, <1>11 DEF Boot, TrueFor
<1>12. ASSUME NEW d \in Device, Announce(d)
       PROVE  TrueFor(B, D)'
  <2> DEFINE hello == [kind |-> "HELLO_DS", from |-> d, list |-> EmptyTable]
  <2>1. up[d] /\ UNCHANGED <<status, peers, air>>
    BY <1>12 DEF Announce
  <2>2. d \in B
    BY <1>5, <2>1
  <2>3. hello \in Event
    BY <1>3 DEF Event
  <2>4. TruthfulEvent(hello, B, D)
    BY <1>6, <2>2 DEF TruthfulEvent
  <2>5. \A n \in Device : queue[n] \in Seq(Event) /\ QueueTrue(queue[n], B, D)
    BY <1>1, <1>3 DEF Queues, QueuesTrue
  <2>6. \A n \in Device : queue'[n] = queue[n] \/ queue'[n] = Put(queue[n], hello)
    BY <1>12 DEF Announce
  <2> HIDE DEF hello
  <2>7. \A n \in Device : QueueTrue(Put(queue[n], hello), B, D)
    BY <2>3, <2>4, <2>5, PutTrue
  <2>8. QueuesTrue(B, D)'
    BY <2>5, <2>6, <2>7 DEF QueuesTrue
  <2> QED
    BY <1>7, <1>8, <1>9, <2>1, <2>8 DEF TrueFor
<1>13. ASSUME NEW d \in Device, Crash(d)
       PROVE  TrueFor(B, D)'
  <2>1. status' = [status EXCEPT ![d] = EmptyTable]
    BY <1>13 DEF Crash
  <2>2. TablesTrue(B, D)'
    BY <1>1, <1>6, <2>1 DEF TablesTrue, TypeOK
  <2>3. PeersTrue(B)'
    BY <1>1, <1>13 DEF Crash, PeersTrue, TypeOK
  <2>4. AirTrue(B, D)'
    <3>1. \A n \in Device : air'[d][n] = <<>>
      BY <1>3, <1>13 DEF Crash, Airs
    <3>2. \A e \in Device : e # d => air'[e] = air[e]
      BY <1>3, <1>13 DEF Crash, Airs
    <3>3. \A n : FramesTrue(<<>>, n, B, D)
      BY DEF FramesTrue
    <3> QED
      BY <1>1, <3>1, <3>2, <3>3 DEF AirTrue
  <2>5. QueuesTrue(B, D)'
    <3>1. queue'[d] = <<>>
      BY <1>3, <1>13 DEF Crash, Queues
    <3>2. \A e \in Device : e # d => queue'[e] = queue[e]
      BY <1>3, <1>13 DEF Crash, Queues
    <3>3. QueueTrue(<<>>, B, D)
      BY DEF QueueTrue
    <3> QED
      BY <1>1, <3>1, <3>2, <3>3 DEF QueuesTrue
  <2> QED
    BY <2>2, <2>3, <2>4, <2>5 DEF TrueFor
<1>14. ASSUME NEW d \in Device, NEW n \in Others(d), Transmit(d, n)
       PROVE  TrueFor(B, D)'
  <2> DEFINE f == Head(air[d][n])
             received == [kind |-> f.kind, from |-> d, list |-> f.list]
             callback(ack) == [kind |-> IF ack THEN "SENT" ELSE "FAILED",
                                 from |-> n, list |-> EmptyTable]
  <2>1. /\ n \in Device /\ n # d
        /\ air[d][n] # <<>>
        /\ air' = [air EXCEPT ![d][n] = Tail(@)]
        /\ UNCHANGED <<up, status, peers, crashes>>
    BY <1>14 DEF Transmit, Others
  <2>2. PICK heard \in BOOLEAN, acked \in BOOLEAN :
          /\ ~Lossy => acked = up[n]
          /\ queue' = [queue EXCEPT
               ![d] = Put(@, callback(acked)),
               ![n] = IF heard /\ f.kind # "NOTICE" THEN Put(@, received) ELSE @]
    BY <1>14 DEF Transmit
  <2>3. air[d][n] \in Seq(Frame) /\ FramesTrue(air[d][n], n, B, D)
    BY <1>1, <1>3, <2>1 DEF Airs, AirTrue
  <2>4. /\ FramesTrue(Tail(air[d][n]), n, B, D)
        /\ Truthful(f.list, B, D)
        /\ n \in B
    BY <2>1, <2>3, FrameTailTrue
  <2>4a. f \in Frame
    BY <2>1, <2>3
  <2>5. AirTrue(B, D)'
    BY <1>1, <1>3, <2>1, <2>4 DEF AirTrue, Airs
  <2>6. TruthfulEvent(callback(acked), B, D) /\ callback(acked) \in Event
    <3>1. ~Lossy /\ ~acked => n \in D
      BY <1>4, <2>1, <2>2, <2>4
    <3>2. callback(acked) \in Event
      BY <1>3, <2>1 DEF Event
    <3> QED
      BY <1>6, <2>4, <3>1, <3>2 DEF TruthfulEvent
  <2>7. received \in Event \/ f.kind = "NOTICE"
    BY <2>4a DEF Event, Frame
  <2>8. TruthfulEvent(received, B, D) \/ f.kind = "NOTICE"
    <3>1. d \in B
      BY <1>5, <1>14 DEF Transmit
    <3>2. f.kind \in {"NEIGHBORS", "REQUEST", "NOTICE"}
      BY <2>4a DEF Frame
    <3> QED
      BY <2>4, <3>1, <3>2 DEF TruthfulEvent
  <2>9. \A m \in Device : queue[m] \in Seq(Event) /\ QueueTrue(queue[m], B, D)
    BY <1>1, <1>3 DEF Queues, QueuesTrue
  <2>10. QueueTrue(Put(queue[d], callback(acked)), B, D)
    BY <2>6, <2>9, PutTrue
  <2>11. f.kind # "NOTICE" => QueueTrue(Put(queue[n], received), B, D)
    <3> HIDE DEF received, f
    <3> QED
      BY <2>1, <2>7, <2>8, <2>9, PutTrue
  <2>12. QueuesTrue(B, D)'
    <3>1. queue'[d] = Put(queue[d], callback(acked))
      BY <1>3, <2>1, <2>2 DEF Queues
    <3>2. \/ queue'[n] = Put(queue[n], received) /\ f.kind # "NOTICE"
          \/ queue'[n] = queue[n]
      BY <1>3, <2>1, <2>2 DEF Queues
    <3>3. \A m \in Device : m # d /\ m # n => queue'[m] = queue[m]
      BY <1>3, <2>1, <2>2 DEF Queues
    <3> HIDE DEF received, f, callback
    <3> QED
      BY <2>1, <2>9, <2>10, <2>11, <3>1, <3>2, <3>3 DEF QueuesTrue
  <2> QED
    BY <1>7, <1>8, <2>1, <2>5, <2>12 DEF TrueFor
<1>15. ASSUME NEW d \in Device, NEW n \in Others(d), NEW kind \in Traffic[d],
              SendData(d, n, kind)
       PROVE  TrueFor(B, D)'
  <2>1. n \in Device /\ n \in B
    BY <1>1, <1>15 DEF SendData, Others, TablesTrue, Truthful
  <2>2. Plain(kind) \in Frame /\ Truthful(Plain(kind).list, B, D)
    BY <1>3, <1>6, FrameOf, SizesAssumption DEF Plain
  <2>3. AirTrue(B, D)'
    <3>1. {n} \in SUBSET Device /\ {n} \subseteq B
      BY <2>1
    <3> QED
      BY <1>1, <1>3, <1>15, <2>2, <3>1, SendToTrue DEF SendData
  <2> QED
    BY <1>7, <1>8, <1>10, <1>15, <2>3 DEF SendData, TrueFor
<1>16. ASSUME NEW d \in Device, queue[d] # <<>>, TakeEvent(d)
       PROVE  /\ QueuesTrue(B, D)'
              /\ TruthfulEvent(Head(queue[d]), B, D)
              /\ Head(queue[d]) \in Event
  BY <1>1, <1>3, <1>16, TakeEventTrue, HeadEvent
<1>17. ASSUME NEW d \in Device, HandleSent(d)
       PROVE  TrueFor(B, D)'
  BY <1>7, <1>8, <1>9, <1>16, <1>17 DEF HandleSent, Pending, TrueFor
<1>18. ASSUME NEW d \in Device, HandleFailed(d)
       PROVE  TrueFor(B, D)'
  <2> DEFINE n == Head(queue[d]).from
             marked == [status[d] EXCEPT ![n] = "INACTIVE"]
  <2>1. /\ QueuesTrue(B, D)'
        /\ TruthfulEvent(Head(queue[d]), B, D)
        /\ Head(queue[d]) \in Event
        /\ Head(queue[d]).kind = "FAILED"
        /\ UNCHANGED peers
    BY <1>16, <1>18 DEF HandleFailed, Pending
  <2>2. n \in Device /\ (~Lossy => n \in D)
    BY <2>1 DEF TruthfulEvent, Event
  <2>3. \/ UNCHANGED <<status, air>>
        \/ /\ n \in Known(d)
           /\ status' = [status EXCEPT ![d] = marked]
           /\ SendTo(d, ActiveIn(marked), [kind |-> "NEIGHBORS", list |-> marked])
    BY <1>18 DEF HandleFailed
  <2>4. CASE UNCHANGED <<status, air>>
    BY <1>7, <1>8, <1>9, <2>1, <2>4 DEF TrueFor
  <2>5. CASE /\ n \in Known(d)
             /\ status' = [status EXCEPT ![d] = marked]
             /\ SendTo(d, ActiveIn(marked), [kind |-> "NEIGHBORS", list |-> marked])
    <3>1. marked \in Table /\ Truthful(status[d], B, D)
      BY <1>1, <1>3, <2>2 DEF Table, Status, TablesTrue
    <3>2. Truthful(marked, B, D)
      BY <1>3, <2>2, <2>5, <3>1 DEF Truthful, Table, Known
    <3>3. ActiveIn(marked) \in SUBSET Device /\ ActiveIn(marked) \subseteq B
      <4> HIDE DEF marked
      <4> QED
        BY <3>2 DEF ActiveIn, Truthful
    <3>4. [kind |-> "NEIGHBORS", list |-> marked] \in Frame
      BY <3>1, FrameOf
    <3> HIDE DEF marked
    <3>5. AirTrue(B, D)'
      BY <1>1, <1>3, <2>5, <3>2, <3>3, <3>4, SendToTrue
    <3>6. TablesTrue(B, D)'
      BY <1>1, <2>5, <3>2 DEF TablesTrue, TypeOK
    <3> QED
      BY <1>8, <2>1, <3>5, <3>6 DEF TrueFor
  <2> HIDE DEF marked
  <2> QED
    BY <2>3, <2>4, <2>5
<1>19. ASSUME NEW d \in Device, HandleHello(d)
       PROVE  TrueFor(B, D)'
  <2> DEFINE s == Head(queue[d]).from
             list == [EmptyTable EXCEPT ![s] = "ACTIVE"]
  <2>1. /\ QueuesTrue(B, D)'
        /\ TruthfulEvent(Head(queue[d]), B, D)
        /\ Head(queue[d]) \in Event
    BY <1>16, <1>19 DEF HandleHello, Pending
  <2>2. s \in Device /\ s \in B
    BY <2>1 DEF TruthfulEvent, Event
  <2>3. list \in Table /\ Truthful(list, B, D)
    BY <1>3, <1>6, <2>2 DEF Truthful, Table, Status
  <2>4. Learn(d, list) /\ SendTo(d, {s}, [kind |-> "NEIGHBORS", list |-> status'[d]])
    BY <1>19 DEF HandleHello
  <2> HIDE DEF list, s
  <2>5. TablesTrue(B, D)' /\ PeersTrue(B)'
    BY <1>1, <2>3, <2>4, LearnTrue
  <2>6. status'[d] \in Table /\ Truthful(status'[d], B, D)
    BY <2>3, <2>4, <2>5, LearnType DEF TablesTrue
  <2>7. AirTrue(B, D)'
    <3>1. {s} \in SUBSET Device /\ {s} \subseteq B
      BY <2>2
    <3>2. [kind |-> "NEIGHBORS", list |-> status'[d]] \in Frame
      BY <2>6, FrameOf
    <3> QED
      BY <1>1, <1>3, <2>4, <2>6, <3>1, <3>2, SendToTrue
  <2> QED
    BY <2>1, <2>5, <2>7 DEF TrueFor
<1>20. ASSUME NEW d \in Device, HandleNeighbors(d)
       PROVE  TrueFor(B, D)'
  <2> DEFINE e == Head(queue[d])
             list == [e.list EXCEPT ![e.from] = "ACTIVE"]
  <2>1. /\ QueuesTrue(B, D)'
        /\ TruthfulEvent(e, B, D)
        /\ e \in Event
        /\ UNCHANGED air
    BY <1>16, <1>20 DEF HandleNeighbors, Pending
  <2>2. Truthful(list, B, D)
    BY <2>1 DEF Truthful, TruthfulEvent, Event, Table
  <2>3. Learn(d, list)
    BY <1>20 DEF HandleNeighbors
  <2> HIDE DEF list, e
  <2>4. TablesTrue(B, D)' /\ PeersTrue(B)'
    BY <1>1, <2>2, <2>3, LearnTrue
  <2> QED
    BY <1>9, <2>1, <2>4 DEF TrueFor
<1>21. ASSUME NEW d \in Device, HandleRequest(d)
       PROVE  TrueFor(B, D)'
  <2> DEFINE to == {Head(queue[d]).from} \cap peers[d]
  <2>1. QueuesTrue(B, D)' /\ UNCHANGED <<status, peers>> /\ SendTo(d, to, Plain("NOTICE"))
    BY <1>16, <1>21 DEF HandleRequest, Pending
  <2>2. to \in SUBSET Device /\ to \subseteq B
    BY <1>1 DEF PeersTrue, TypeOK
  <2>3. Plain("NOTICE") \in Frame /\ Truthful(Plain("NOTICE").list, B, D)
    BY <1>3, <1>6, FrameOf DEF Plain
  <2> HIDE DEF to
  <2>4. AirTrue(B, D)'
    BY <1>1, <1>3, <2>1, <2>2, <2>3, SendToTrue
  <2> QED
    BY <1>7, <1>8, <2>1, <2>4 DEF TrueFor
<1>22. CASE UNCHANGED vars
  BY <1>7, <1>8, <1>9, <1>10, <1>22 DEF vars, TrueFor
<1> QED
  BY <1>11, <1>12, <1>13, <1>14, <1>15, <1>17, <1>18, <1>19, <1>20, <1>21, <1>22
  DEF Next, Handle

LEMMA DeathStep == TypeOK /\ DeathInv /\ [Next]_vars => DeathInv'
<1> SUFFICES ASSUME TypeOK, DeathInv, [Next]_vars
             PROVE  DeathInv'
  OBVIOUS
<1>1. PICK B, D : B = Booted' /\ D = Died'
  OBVIOUS
<1>2. TrueFor(B, D)'
  BY <1>1, DeathStepFor
<1> QED
  BY <1>1, <1>2 DEF TrueFor, DeathInv, TablesTrue, PeersTrue, AirTrue, QueuesTrue

\* Without radio losses, only a device that has lost power is ever called INACTIVE:
\* proved for every number of devices, every queue length and every error limit.
THEOREM DeathsAreReal == Spec => []DeathIsReal
<1>1. Init => DeathInv
  <2>1. ASSUME Init
        PROVE  DeathInv
    <3>1. \A d \in Device : status[d] = EmptyTable /\ peers[d] = {} /\ queue[d] = <<>>
      BY <2>1 DEF Init
    <3>2. \A d, n \in Device : air[d][n] = <<>>
      BY <2>1 DEF Init
    <3> QED
      BY <3>1, <3>2, EmptyTruthful
      DEF DeathInv, TablesTrue, PeersTrue, AirTrue, QueuesTrue, FramesTrue, QueueTrue
  <2> QED
    BY <2>1
<1>2. DeathInv => DeathIsReal
  BY DEF DeathInv, TablesTrue, Truthful, Died, DeathIsReal
<1> QED
  BY InitType, NextType, DeathStep, <1>1, <1>2, PTL DEF Spec
===============================================================================
