---------------------------- MODULE ProgramsProofs ----------------------------
(***************************************************************************)
(* Theorems about the programs beside the firmware, for every size: what   *)
(* is proved of each one carries over to the instance that runs it.        *)
(***************************************************************************)
EXTENDS MCPrograms, FiniteSetTheorems, TLAPS

-------------------------------------------------------------------------------
(* The simulation of the time synchronisation *)

Sim == INSTANCE SimulationProofs

\* The operators of the two instances are the same.
LEMMA SameSimulationTerms ==
  /\ Simulation!Node = Sim!Node /\ Simulation!Slave = Sim!Slave
  /\ Simulation!Slots = Sim!Slots /\ Simulation!Latency = Sim!Latency
  /\ Simulation!FollowUp = Sim!FollowUp /\ Simulation!Mismeasured = Sim!Mismeasured
  /\ \A n : Simulation!get_rtt_avg(n) = Sim!get_rtt_avg(n)
  /\ \A n : Simulation!DriftApart(n) = Sim!DriftApart(n)
  /\ \A s, m : Simulation!Pushed(s, m) = Sim!Pushed(s, m)
  /\ \A a, s, t, c, l : Simulation!Message(a, s, t, c, l) = Sim!Message(a, s, t, c, l)
  /\ \A x : Simulation!Clamped(x) = Sim!Clamped(x)
  /\ \A n, c : Simulation!Deviation(n, c) = Sim!Deviation(n, c)
<1>1. Simulation!Node = Sim!Node /\ Simulation!Slave = Sim!Slave
  BY DEF Simulation!Node, Sim!Node, Simulation!Slave, Sim!Slave
<1>2. Simulation!Slots = Sim!Slots /\ Simulation!Latency = Sim!Latency
  BY DEF Simulation!Slots, Sim!Slots, Simulation!Latency, Sim!Latency
<1>3. Simulation!FollowUp = Sim!FollowUp
  BY DEF Simulation!FollowUp, Sim!FollowUp, Simulation!Phases, Sim!Phases,
         Simulation!ToSet, Sim!ToSet
<1>4. Simulation!Mismeasured = Sim!Mismeasured
      /\ \A n : Simulation!DriftApart(n) = Sim!DriftApart(n)
  BY DEF Simulation!Mismeasured, Sim!Mismeasured, Simulation!DriftApart, Sim!DriftApart
<1>5. \A n : Simulation!get_rtt_avg(n) = Sim!get_rtt_avg(n)
  BY DEF Simulation!get_rtt_avg, Sim!get_rtt_avg
<1>6. \A s, m : Simulation!Pushed(s, m) = Sim!Pushed(s, m)
  BY DEF Simulation!Pushed, Sim!Pushed, Simulation!InsertAt, Sim!InsertAt
<1>7. \A a, s, t, c, l : Simulation!Message(a, s, t, c, l) = Sim!Message(a, s, t, c, l)
  BY DEF Simulation!Message, Sim!Message
<1>8. \A x : Simulation!Clamped(x) = Sim!Clamped(x)
  BY DEF Simulation!Clamped, Sim!Clamped
<1>9. \A n, c : Simulation!Deviation(n, c) = Sim!Deviation(n, c)
  BY <1>5 DEF Simulation!Deviation, Sim!Deviation, Simulation!Half, Sim!Half
<1> QED
  BY <1>1, <1>2, <1>3, <1>4, <1>5, <1>6, <1>7, <1>8, <1>9

LEMMA SameSimulation ==
  /\ Simulation!Init = Sim!Init
  /\ Simulation!Next = Sim!Next
  /\ Simulation!vars = Sim!vars
<1>1. Simulation!Init = Sim!Init
  BY SameSimulationTerms DEF Simulation!Init, Sim!Init
<1>2. Simulation!vars = Sim!vars /\ Simulation!slaveVars = Sim!slaveVars
      /\ Simulation!rttVars = Sim!rttVars
  BY DEF Simulation!vars, Sim!vars, Simulation!slaveVars, Sim!slaveVars,
         Simulation!rttVars, Sim!rttVars
<1>3. Simulation!NextNode = Sim!NextNode /\ Simulation!Due = Sim!Due
      /\ \A type : Simulation!Popped(type) = Sim!Popped(type)
  BY SameSimulationTerms DEF Simulation!NextNode, Sim!NextNode, Simulation!Due, Sim!Due,
       Simulation!Popped, Sim!Popped
<1>4. /\ \A type, content : Simulation!Answer(type, content) = Sim!Answer(type, content)
      /\ \A type : Simulation!SendToSlave(type) = Sim!SendToSlave(type)
  BY SameSimulationTerms DEF Simulation!Answer, Sim!Answer, Simulation!SendToSlave,
       Sim!SendToSlave
<1> USE DEF Simulation!slaveVars, Sim!slaveVars, Simulation!rttVars, Sim!rttVars
<1>5. Simulation!Advance = Sim!Advance
  BY <1>3 DEF Simulation!Advance, Sim!Advance
<1>6. Simulation!PopFromPipe = Sim!PopFromPipe
  BY <1>3 DEF Simulation!PopFromPipe, Sim!PopFromPipe
<1>7. Simulation!EndPipe = Sim!EndPipe
  BY <1>3 DEF Simulation!EndPipe, Sim!EndPipe
<1>8. Simulation!EndMachine = Sim!EndMachine
  BY <1>3 DEF Simulation!EndMachine, Sim!EndMachine
<1>9. Simulation!AnswerRtt = Sim!AnswerRtt
  BY <1>3, <1>4 DEF Simulation!AnswerRtt, Sim!AnswerRtt
<1>10. Simulation!SaveRtt = Sim!SaveRtt
  BY SameSimulationTerms, <1>3 DEF Simulation!SaveRtt, Sim!SaveRtt
<1>11. Simulation!TakeOverTime = Sim!TakeOverTime
  BY SameSimulationTerms, <1>3 DEF Simulation!TakeOverTime, Sim!TakeOverTime
<1>12. Simulation!StartRtt = Sim!StartRtt
  BY <1>3, <1>4 DEF Simulation!StartRtt, Sim!StartRtt
<1>13. Simulation!StartTimeSync = Sim!StartTimeSync
  BY <1>3, <1>4 DEF Simulation!StartTimeSync, Sim!StartTimeSync
<1>14. Simulation!Next = Sim!Next
  BY <1>5, <1>6, <1>7, <1>8, <1>9, <1>10, <1>11, <1>12, <1>13
  DEF Simulation!Next, Sim!Next, Simulation!Machine,
       Sim!Machine
<1> QED
  BY <1>1, <1>2, <1>14

LEMMA SimulationRuns == Spec => Sim!Spec
<1>1. Init => Sim!Init
  BY SameSimulation DEF Init
<1>2. [Next]_vars => [Sim!Next]_(Sim!vars)
  <2>1. [Next]_vars => [Simulation!Next]_(Simulation!vars)
    BY DEF Next, vars, sim, Simulation!vars, Simulation!slaveVars, Simulation!rttVars
  <2> QED
    BY <2>1, SameSimulation DEF Simulation!vars, Sim!vars, Simulation!slaveVars,
         Sim!slaveVars, Simulation!rttVars, Sim!rttVars
<1> QED
  BY <1>1, <1>2, PTL DEF Spec, Sim!Spec

LEMMA SimulationSizes == Sim!Sizes
  BY SimulationAssumption DEF Sim!Sizes, Sim!Node

\* When the status machine of the simulation runs, every pipe and every queue is
\* right about which messages are still under way.
THEOREM MessagesOnTime == Spec => []OnTime
<1>1. Sim!Spec => []Sim!OnTime
  BY SimulationSizes, Sim!MessagesOnTime
<1>2. Sim!OnTime => OnTime
  BY SameSimulationTerms DEF Sim!OnTime, OnTime, Simulation!OnTime
<1> QED
  BY <1>1, <1>2, SimulationRuns, PTL

\* A simulated slave stays near the master once it has taken a time over.
THEOREM SlavesStayNear == Spec => []StaysNear
<1>1. Sim!Spec => []Sim!StaysNear
  BY SimulationSizes, Sim!SlavesStayNear
<1>2. Sim!StaysNear => StaysNear
  BY SameSimulationTerms DEF Sim!StaysNear, StaysNear, Simulation!StaysNear
<1> QED
  BY <1>1, <1>2, SimulationRuns, PTL

-------------------------------------------------------------------------------
(* The latency test *)

Test == INSTANCE LatencyTestProofs

LEMMA SameTest ==
  /\ LatencyTest!Init = Test!Init
  /\ LatencyTest!Next = Test!Next
  /\ LatencyTest!vars = Test!vars
<1>1. /\ LatencyTest!Empty = Test!Empty /\ LatencyTest!Side = Test!Side
      /\ LatencyTest!vars = Test!vars /\ LatencyTest!loopVars = Test!loopVars
      /\ LatencyTest!Sample = Test!Sample
  BY DEF LatencyTest!Empty, Test!Empty, LatencyTest!Side, Test!Side, LatencyTest!vars,
         Test!vars, LatencyTest!loopVars, Test!loopVars, LatencyTest!Sample, Test!Sample
<1>2. \A f : LatencyTest!Forgotten(f) = Test!Forgotten(f)
  BY <1>1 DEF LatencyTest!Forgotten, Test!Forgotten
<1>3. LatencyTest!Init = Test!Init
  BY <1>1 DEF LatencyTest!Init, Test!Init
<1>4. /\ LatencyTest!Clear = Test!Clear /\ LatencyTest!Send = Test!Send
      /\ LatencyTest!SendFails = Test!SendFails /\ LatencyTest!Sleep = Test!Sleep
      /\ LatencyTest!Record = Test!Record
  BY <1>1 DEF LatencyTest!Clear, Test!Clear, LatencyTest!Send, Test!Send,
     LatencyTest!SendFails, Test!SendFails, LatencyTest!Sleep, Test!Sleep,
     LatencyTest!Record, Test!Record
<1>5. /\ LatencyTest!EchoSend = Test!EchoSend /\ LatencyTest!EchoClear = Test!EchoClear
      /\ \A f : LatencyTest!Arrive(f) = Test!Arrive(f)
      /\ \A f : LatencyTest!Lose(f) = Test!Lose(f)
  BY <1>1, <1>2 DEF LatencyTest!EchoSend, Test!EchoSend, LatencyTest!EchoClear,
     Test!EchoClear, LatencyTest!Arrive, Test!Arrive, LatencyTest!Lose, Test!Lose,
     LatencyTest!loopVars, Test!loopVars
<1>6. LatencyTest!Next = Test!Next
  BY <1>4, <1>5 DEF LatencyTest!Next, Test!Next
<1> QED
  BY <1>1, <1>3, <1>6

LEMMA TestRuns == Spec => Test!Spec
<1>1. Init => Test!Init
  BY SameTest DEF Init
<1>2. [Next]_vars => [Test!Next]_(Test!vars)
  <2>1. [Next]_vars => [LatencyTest!Next]_(LatencyTest!vars)
    BY DEF Next, vars, test, LatencyTest!vars, LatencyTest!loopVars
  <2> QED
    BY <2>1, SameTest DEF LatencyTest!vars, LatencyTest!loopVars, Test!vars, Test!loopVars
<1> QED
  BY <1>1, <1>2, PTL DEF Spec, Test!Spec

LEMMA TestCounted == Test!Counted
  BY LatencyTestAssumption DEF Test!Counted

\* Each latency of the test is that of its own message until one has been given up.
THEOREM EchoesMatch == Spec => []OwnEcho
<1>1. Test!Spec => []Test!OwnEcho
  BY TestCounted, Test!EchoesMatch
<1>2. Test!OwnEcho => OwnEcho
  BY DEF Test!OwnEcho, OwnEcho, LatencyTest!OwnEcho
<1> QED
  BY <1>1, <1>2, TestRuns, PTL

\* The test counts no error without a frame that was lost, refused, overwritten or late.
THEOREM ErrorsHaveReasons == Spec => []ErrorsAreReal
<1>1. Test!Spec => []Test!ErrorsAreReal
  BY TestCounted, Test!ErrorsHaveReasons
<1>2. Test!ErrorsAreReal => ErrorsAreReal
  BY DEF Test!ErrorsAreReal, ErrorsAreReal, LatencyTest!ErrorsAreReal, Test!Outstanding,
         LatencyTest!Outstanding
<1> QED
  BY <1>1, <1>2, TestRuns, PTL

-------------------------------------------------------------------------------
(* The neighbour checksum *)

Check == INSTANCE NeighborCheckProofs

LEMMA SameCheck ==
  /\ NeighborCheck!Init = Check!Init
  /\ NeighborCheck!Next = Check!Next
  /\ NeighborCheck!CheckTellsCounts = Check!CheckTellsCounts
<1>1. /\ NeighborCheck!Slot = Check!Slot /\ NeighborCheck!Status = Check!Status
      /\ NeighborCheck!Table = Check!Table
      /\ \A S : NeighborCheck!Cardinality(S) = Check!Cardinality(S)
  BY DEF NeighborCheck!Slot, Check!Slot, NeighborCheck!Status, Check!Status,
     NeighborCheck!Table, Check!Table, NeighborCheck!Cardinality, Check!Cardinality
<1>2. \A table, status : NeighborCheck!Count(table, status) = Check!Count(table, status)
  BY <1>1 DEF NeighborCheck!Count, Check!Count
<1>3. \A table : NeighborCheck!get_neighbor_check(table) = Check!get_neighbor_check(table)
  BY <1>2 DEF NeighborCheck!get_neighbor_check, Check!get_neighbor_check
<1>4. NeighborCheck!Init = Check!Init
  BY <1>1 DEF NeighborCheck!Init, Check!Init
<1>5. NeighborCheck!Next = Check!Next
  BY <1>1 DEF NeighborCheck!Next, Check!Next, NeighborCheck!Mark, Check!Mark
<1> QED
  BY <1>1, <1>2, <1>3, <1>4, <1>5
  DEF NeighborCheck!CheckTellsCounts, Check!CheckTellsCounts

\* Tables of the same sum have as many neighbours of each status.
THEOREM ChecksTellCounts == Spec => []CheckTellsCounts
<1>1. Init => Check!Init
  BY SameCheck DEF Init
<1>2. [Next]_vars => [Check!Next]_neighbor
  BY SameCheck DEF Next, vars
<1>3. Check!TwoPlaces
  BY NeighborCheckAssumption DEF Check!TwoPlaces
<1>4. Check!Spec => []Check!CheckTellsCounts
  BY <1>3, Check!ChecksTellCounts
<1>5. Check!CheckTellsCounts => CheckTellsCounts
  BY SameCheck DEF CheckTellsCounts
<1> QED
  BY <1>1, <1>2, <1>4, <1>5, PTL DEF Spec, Check!Spec

-------------------------------------------------------------------------------
(* The lamps *)

\* Somebody is yet to switch the lamp off: a blink that is before its step k, or
\* before a step that leads to it.
Blinks(from, to) == \E k \in from .. to : blinks[k] > 0

\* The loop has switched on what the callback of its frame switches off, or would.
ExtUnderWay == ~Led!Broadcast /\ (loop = "send" \/ callback \in {"first", "second", "refused"})
BuildinUnderWay ==
  ~Led!Broadcast /\ (loop \in {"second", "send"} \/ callback \in {"first", "refused"})

LampInv ==
  /\ blinks \in [1 .. 4 -> Nat]
  /\ lit \subseteq {Led!EXT, Led!BUILDIN}
  /\ loop \in {"pause", "second", "send"}
  /\ loop = "second" => ~Led!Broadcast
  /\ callback \in {"none", "first", "second", "refused"}
  /\ Led!EXT \in lit => Blinks(2, 3) \/ ExtUnderWay
  /\ Led!BUILDIN \in lit => Blinks(3, 4) \/ BuildinUnderWay

LEMMA LampInit == Led!Init => LampInv
  BY DEF Led!Init, LampInv, Led!Steps

LEMMA LampStep == LampInv /\ [Led!Next]_(Led!vars) => LampInv'
<1> SUFFICES ASSUME LampInv, [Led!Next]_(Led!vars)
             PROVE  LampInv'
  OBVIOUS
<1> USE DEF LampInv, Blinks, ExtUnderWay, BuildinUnderWay, Led!Broadcast, Led!EXT, Led!BUILDIN
<1>1. ASSUME NEW k \in Led!Steps, Led!BlinkStep(k)
      PROVE  LampInv'
  <2>1. k \in {1, 2, 3, 4}
    BY DEF Led!Steps
  <2>2. /\ blinks' \in [1 .. 4 -> Nat]
        /\ UNCHANGED <<task, loop, rounds, callback, heard>>
    BY <1>1 DEF Led!BlinkStep, Led!Steps
  <2>3. CASE k = 1
    <3>1. lit' = lit \union {Led!EXT} /\ blinks'[2] > 0
          /\ blinks'[3] = blinks[3] /\ blinks'[4] = blinks[4]
      BY <1>1, <2>3 DEF Led!BlinkStep, Led!Blink, Led!Steps
    <3> QED
      BY <2>2, <3>1
  <2>4. CASE k = 2
    <3>1. lit' = lit \union {Led!BUILDIN} /\ blinks'[3] > 0
      BY <1>1, <2>4 DEF Led!BlinkStep, Led!Blink, Led!Steps
    <3> QED
      BY <2>2, <3>1
  <2>5. CASE k = 3
    <3>1. lit' = lit \ {Led!EXT} /\ blinks'[4] > 0
      BY <1>1, <2>5 DEF Led!BlinkStep, Led!Blink, Led!Steps
    <3> QED
      BY <2>2, <3>1
  <2>6. CASE k = 4
    <3>1. lit' = lit \ {Led!BUILDIN} /\ blinks'[2] = blinks[2] /\ blinks'[3] = blinks[3]
      BY <1>1, <2>6 DEF Led!BlinkStep, Led!Blink, Led!Steps
    <3> QED
      BY <2>2, <3>1
  <2> QED
    BY <2>1, <2>3, <2>4, <2>5, <2>6
<1>2. CASE Led!BeginBroadcast
  BY <1>2 DEF Led!BeginBroadcast
<1>3. CASE Led!BeginUnicast
  BY <1>3 DEF Led!BeginUnicast
<1>4. CASE Led!SecondLed
  BY <1>4 DEF Led!SecondLed
<1>5. CASE Led!Send
  BY <1>5 DEF Led!Send
<1>6. CASE Led!SendCallback
  BY <1>6 DEF Led!SendCallback
<1>7. CASE Led!Receive
  BY <1>7 DEF Led!Receive
<1>8. CASE UNCHANGED Led!vars
  BY <1>8 DEF Led!vars
<1> QED
  BY <1>1, <1>2, <1>3, <1>4, <1>5, <1>6, <1>7, <1>8 DEF Led!Next

\* When nobody blinks and no frame is under way the lamps are off, for any number
\* of blinks and callbacks at once.
THEOREM LampsGoOut == Spec => []AllDark
<1>1. Init => LampInv
  BY LampInit DEF Init
<1>2. LampInv /\ [Next]_vars => LampInv'
  BY LampStep DEF Next, vars, lamps, Led!vars
<1>3. LampInv => AllDark
  BY DEF LampInv, AllDark, Led!AllDark, Led!Steps, Blinks, ExtUnderWay,
     BuildinUnderWay, Led!Broadcast
<1> QED
  BY <1>1, <1>2, <1>3, PTL DEF Spec

-------------------------------------------------------------------------------
(* The stop watches *)

\* All stop watches were started by the same edge, and what a frame says is what
\* its receiver would have shown when it was sent, unless an edge came since.
WatchInv ==
  /\ instant \in Int /\ round \in Nat
  /\ start_time \in [EspNowParameters!Device -> Int]
  /\ \A d \in EspNowParameters!Device : start_time[d] = start_time[Master]
  /\ edges \subseteq Int /\ \A e \in edges : e <= instant
  /\ \A f \in flying :
       /\ f.to \in EspNowParameters!Device
       /\ f.sent \in Int /\ f.sent <= instant
       /\ \/ f.message = f.sent - start_time[Master]
          \/ \E e \in edges : f.sent <= e
  /\ \A p \in printed :
       /\ p.at \in Int /\ p.sent \in Int
       /\ p.value = p.at - p.sent \/ \E e \in edges : e \in p.sent .. p.at

LEMMA WatchInit == EspNowParameters!Init => WatchInv
  BY DEF EspNowParameters!Init, WatchInv, EspNowParameters!Device

LEMMA WatchStep ==
  WatchInv /\ [EspNowParameters!Next]_(EspNowParameters!vars) => WatchInv'
<1> SUFFICES ASSUME WatchInv, [EspNowParameters!Next]_(EspNowParameters!vars)
             PROVE  WatchInv'
  OBVIOUS
<1>0. Master \in EspNowParameters!Device
  BY DEF EspNowParameters!Device
<1> USE <1>0 DEF WatchInv, EspNowParameters!PrintsFlight, EspNowParameters!Shows
<1>1. CASE EspNowParameters!Edge
  BY <1>1 DEF EspNowParameters!Edge, EspNowParameters!loopVars
<1>2. CASE EspNowParameters!Send
  <2> DEFINE k == 1 + (round % Len(Receivers))
             frame == [to |-> Receivers[k], message |-> EspNowParameters!Shows(Master),
                       sent |-> instant]
  <2>1. k \in DOMAIN Receivers
    BY EspNowParametersAssumption
  <2>2. Receivers[k] \in EspNowParameters!Device
    BY <2>1 DEF EspNowParameters!Device, EspNowParameters!Range
  <2>3. /\ flying' = flying \union {frame} /\ round' = round + 1
        /\ UNCHANGED <<instant, start_time, printed, edges>>
    BY <1>2 DEF EspNowParameters!Send
  <2> QED
    BY <2>2, <2>3
<1>3. CASE EspNowParameters!EndBatch
  BY <1>3 DEF EspNowParameters!EndBatch
<1>4. CASE EspNowParameters!Pass
  BY <1>4 DEF EspNowParameters!Pass, EspNowParameters!loopVars
<1>5. ASSUME NEW f \in flying, EspNowParameters!PrintLatency(f)
      PROVE  WatchInv'
  <2> DEFINE line == [value |-> EspNowParameters!Shows(f.to) - f.message,
                      sent |-> f.sent, at |-> instant]
  <2>1. /\ flying' = flying \ {f} /\ printed' = printed \union {line}
        /\ UNCHANGED <<instant, start_time, round, edges>>
    BY <1>5 DEF EspNowParameters!PrintLatency, EspNowParameters!loopVars
  <2>2. line.value = line.at - line.sent \/ \E e \in edges : e \in line.sent .. line.at
    OBVIOUS
  <2> QED
    BY <2>1, <2>2
<1>6. CASE UNCHANGED EspNowParameters!vars
  BY <1>6 DEF EspNowParameters!vars, EspNowParameters!loopVars
<1> QED
  BY <1>1, <1>2, <1>3, <1>4, <1>5, <1>6 DEF EspNowParameters!Next

\* What is printed is the flight of the frame unless an edge came while it was
\* under way, for any number of receivers and edges.
THEOREM FlightsPrinted == Spec => []PrintsFlight
<1>1. Init => WatchInv
  BY WatchInit DEF Init
<1>2. WatchInv /\ [Next]_vars => WatchInv'
  BY WatchStep DEF Next, vars, bench, EspNowParameters!vars, EspNowParameters!loopVars
<1>3. WatchInv => PrintsFlight
  BY DEF WatchInv, PrintsFlight, EspNowParameters!PrintsFlight
<1> QED
  BY <1>1, <1>2, <1>3, PTL DEF Spec

-------------------------------------------------------------------------------
(* The button *)

Duration(type) == IF type = "PUSH" THEN ShortPush ELSE LongPush

\* The number of the latest tick, when a tick comes, and the first one after t
Tick(t) == t \div TickLength
At(k) == TickLength * k
After(t) == At(Tick(t) + 1)

\* When the pin is released, or was, and when it was pushed
ReleasedAt == IF pin = 1 THEN turnAt ELSE turnAt - MinGap
PushedAt(type) == ReleasedAt - Duration(type)

\* The polls of a push come at its beginning and at each tick until one finds the
\* pin low, which is at the first tick after the release at the latest.
Polled(type) ==
  LET latest == Tick(PushedAt(type)) + held
  IN  /\ pushed = Append(logged, type)
      /\ pin = 1 => moment <= turnAt
      /\ pin = 0 => ReleasedAt <= moment
      /\ \/ /\ poller = "poll"
            /\ Tick(moment) = latest
            /\ moment = At(latest) \/ moment = PushedAt(type)
            /\ moment <= After(ReleasedAt)
         \/ /\ poller = "sleep"
            /\ wakeAt = At(latest + 1)
            /\ moment <= wakeAt /\ wakeAt <= After(ReleasedAt)

ButtonInv ==
  /\ moment \in Int /\ turnAt \in Int /\ wakeAt \in Int /\ held \in Nat
  /\ pin \in {0, 1} /\ isr_event \in BOOLEAN
  /\ poller \in {"wait", "poll", "sleep", "clean"}
  /\ logged \in Seq({"PUSH", "RESET"}) /\ pushed \in Seq({"PUSH", "RESET"})
  /\ poller = "wait" /\ ~isr_event => pin = 0 /\ logged = pushed
  /\ poller = "wait" /\ isr_event =>
       /\ pin = 1
       /\ \E type \in {"PUSH", "RESET"} :
            pushed = Append(logged, type) /\ moment = PushedAt(type)
  /\ poller \in {"poll", "sleep"} =>
       /\ ~isr_event
       /\ \E type \in {"PUSH", "RESET"} : Polled(type)
  /\ poller = "clean" =>
       pin = 0 /\ ~isr_event /\ logged = pushed /\ moment <= wakeAt /\ wakeAt < turnAt

LEMMA ButtonInit == Button!Init => ButtonInv
<1>1. Button!Init =>
        /\ moment = 0 /\ turnAt = 0 /\ wakeAt = 0 /\ held = 0 /\ pin = 0
        /\ poller = "wait" /\ logged = <<>> /\ pushed = <<>>
  BY DEF Button!Init
<1>2. Button!Init => isr_event \in BOOLEAN /\ ~isr_event
  BY DEF Button!Init
<1> QED
  BY <1>1, <1>2 DEF ButtonInv

LEMMA Sizes ==
  /\ TickLength \in Nat \ {0} /\ ResetPolls \in Nat \ {0} /\ MinGap \in Nat
  /\ 2 * TickLength < MinGap
  /\ \A type \in {"PUSH", "RESET"} : Duration(type) \in Nat \ {0}
<1>1. TickLength * ResetPolls >= 0
  BY ButtonAssumption
<1> QED
  BY <1>1, ButtonAssumption DEF Duration

LEMMA Ticks ==
  ASSUME NEW t \in Int
  PROVE  /\ Tick(t) \in Int /\ After(t) \in Int
         /\ At(Tick(t)) <= t /\ t < After(t) /\ After(t) <= t + TickLength
<1>1. TickLength * (Tick(t) + 1) = TickLength * Tick(t) + TickLength
  BY Sim!DivBounds, Sizes DEF Tick
<1> QED
  BY <1>1, Sim!DivBounds, Sizes DEF Tick, At, After

LEMMA TicksOrdered ==
  ASSUME NEW s \in Int, NEW t \in Int, s <= t
  PROVE  Tick(s) <= Tick(t) /\ After(s) <= After(t)
<1>1. Tick(s) <= Tick(t) /\ Tick(s) \in Int /\ Tick(t) \in Int
  BY Sim!DivMonotone, Sizes, Ticks DEF Tick
<1> HIDE DEF Tick
<1> QED
  BY <1>1, Sizes DEF After, At

\* Ticks come one after the other, and apart.
LEMMA TicksApart ==
  ASSUME NEW k \in Int
  PROVE  /\ At(k) \in Int /\ Tick(At(k)) = k
         /\ \A n \in Int : At(k) <= At(n) => k <= n
<1>1. 0 \div TickLength = 0 /\ At(k) = 0 + TickLength * k /\ At(k) \in Int
  BY Sizes DEF At
<1>2. (0 + TickLength * k) \div TickLength = (0 \div TickLength) + k
  BY Sim!DivMultiple, Sizes
<1>3. \A n \in Int : At(k) <= At(n) => k <= n
  <2> SUFFICES ASSUME NEW n \in Int, At(k) <= At(n), n + 1 <= k
               PROVE  FALSE
    OBVIOUS
  <2>1. TickLength * (n + 1) <= TickLength * k
    BY Sizes
  <2> QED
    BY <2>1, Sizes DEF At
<1> QED
  BY <1>1, <1>2, <1>3 DEF Tick

\* The poll that finds the pin low has counted what the push took.
LEMMA HeldTells ==
  ASSUME NEW type \in {"PUSH", "RESET"}, NEW begin \in Int, NEW n \in Nat,
         begin + Duration(type) <= At(Tick(begin) + n),
         At(Tick(begin) + n) <= After(begin + Duration(type))
  PROVE  (n > ResetPolls) = (type = "RESET")
<1>0. /\ Tick(begin) \in Int /\ Tick(begin + Duration(type)) \in Int
      /\ At(Tick(begin)) <= begin
  BY Ticks, Sizes
<1>1. CASE type = "PUSH"
  <2>1. Tick(begin + ShortPush) <= Tick(begin) + (ResetPolls - 1)
    <3> DEFINE last == begin + TickLength * (ResetPolls - 1)
    <3>1. /\ ResetPolls - 1 \in Int /\ last \in Int /\ begin + ShortPush \in Int
          /\ begin + ShortPush <= last
      BY Sizes, ButtonAssumption
    <3>2. Tick(last) = Tick(begin) + (ResetPolls - 1)
      BY <3>1, Sim!DivMultiple, Sizes DEF Tick
    <3> HIDE DEF last
    <3>3. Tick(begin + ShortPush) <= Tick(last)
      BY <3>1, TicksOrdered
    <3> QED
      BY <3>2, <3>3
  <2>2. Tick(begin) + n <= Tick(begin + ShortPush) + 1
    BY <1>0, <1>1, TicksApart DEF Duration, After
  <2> QED
    BY <1>0, <1>1, <2>1, <2>2, Sizes DEF Duration
<1>2. CASE type = "RESET"
  <2>1. TickLength * Tick(begin) + TickLength * ResetPolls < TickLength * (Tick(begin) + n)
    BY <1>0, <1>2, ButtonAssumption DEF Duration, At
  <2>2. TickLength * ResetPolls < TickLength * n
    BY <1>0, <2>1, Sizes
  <2>3. ResetPolls < n
    BY <2>2, Sizes
  <2> QED
    BY <1>2, <2>3
<1> QED
  BY <1>1, <1>2

LEMMA ButtonStep == ButtonInv /\ [Button!Next]_(Button!vars) => ButtonInv'
<1> SUFFICES ASSUME ButtonInv, [Button!Next]_(Button!vars)
             PROVE  ButtonInv'
  OBVIOUS
<1>t. /\ moment \in Int /\ turnAt \in Int /\ wakeAt \in Int /\ held \in Nat
      /\ pin \in {0, 1} /\ isr_event \in BOOLEAN
      /\ poller \in {"wait", "poll", "sleep", "clean"}
      /\ logged \in Seq({"PUSH", "RESET"}) /\ pushed \in Seq({"PUSH", "RESET"})
  BY DEF ButtonInv
<1>r. ReleasedAt \in Int /\ \A type \in {"PUSH", "RESET"} : PushedAt(type) \in Int
  BY <1>t, Sizes DEF ReleasedAt, PushedAt
<1>q. /\ Tick(moment) \in Int /\ After(moment) \in Int
      /\ moment < After(moment) /\ After(moment) <= moment + TickLength
      /\ Tick(ReleasedAt) \in Int /\ After(ReleasedAt) \in Int
      /\ ReleasedAt < After(ReleasedAt) /\ After(ReleasedAt) <= ReleasedAt + TickLength
      /\ \A type \in {"PUSH", "RESET"} : Tick(PushedAt(type)) \in Int
  BY <1>t, <1>r, Ticks
<1>p. ASSUME UNCHANGED <<pin, turnAt>>
      PROVE  /\ ReleasedAt' = ReleasedAt
             /\ \A type \in {"PUSH", "RESET"} : PushedAt(type)' = PushedAt(type)
  BY <1>p DEF ReleasedAt, PushedAt
\* A push only comes when the task waits for it.
<1>1. ASSUME NEW type \in {"PUSH", "RESET"}, Button!Push(type, Duration(type))
      PROVE  ButtonInv'
  <2>1. pin = 0 /\ turnAt <= moment
    BY <1>1 DEF Button!Push
  <2>2. ASSUME poller \in {"poll", "sleep"}
        PROVE  FALSE
    <3>1. PICK other \in {"PUSH", "RESET"} : Polled(other)
      BY <2>2 DEF ButtonInv
    <3>2. moment <= After(ReleasedAt)
      BY <1>t, <1>q, <2>1, <3>1 DEF Polled
    <3> QED
      BY <1>t, <1>q, <2>1, <3>2, Sizes DEF ReleasedAt
  <2>3. poller = "wait"
    BY <1>t, <2>1, <2>2 DEF ButtonInv
  <2>4. ~isr_event /\ logged = pushed
    BY <2>1, <2>3 DEF ButtonInv
  <2>5. /\ pin' = 1 /\ turnAt' = moment + Duration(type)
        /\ isr_event' = TRUE /\ pushed' = Append(pushed, type)
        /\ UNCHANGED <<moment, poller, wakeAt, held, logged>>
    BY <1>1 DEF Button!Push
  <2> QED
    BY <1>t, <2>3, <2>4, <2>5, Sizes DEF ButtonInv, PushedAt, ReleasedAt
<1>2. CASE Button!Release
  <2>1. /\ pin = 1 /\ turnAt <= moment /\ pin' = 0 /\ turnAt' = moment + MinGap
        /\ UNCHANGED <<moment, isr_event, poller, wakeAt, held, logged, pushed>>
    BY <1>2 DEF Button!Release, Button!taskVars
  <2>2. poller # "clean" /\ ~(poller = "wait" /\ ~isr_event)
    BY <2>1 DEF ButtonInv
  <2>3. ASSUME poller = "wait" /\ isr_event
        PROVE  FALSE
    <3>1. PICK type \in {"PUSH", "RESET"} : moment = PushedAt(type)
      BY <2>3 DEF ButtonInv
    <3> QED
      BY <1>t, <2>1, <3>1, Sizes DEF PushedAt, ReleasedAt
  <2>4. ReleasedAt' = ReleasedAt
    <3>1. ASSUME poller \in {"poll", "sleep"}
          PROVE  moment <= turnAt
      BY <2>1, <3>1 DEF ButtonInv, Polled
    <3>2. moment = turnAt
      BY <1>t, <2>1, <2>2, <2>3, <3>1
    <3> QED
      BY <1>t, <2>1, <3>2, Sizes DEF ReleasedAt
  <2>5. \A type \in {"PUSH", "RESET"} : PushedAt(type)' = PushedAt(type)
    BY <2>4 DEF PushedAt
  <2>6. PICK type \in {"PUSH", "RESET"} : Polled(type)
    BY <1>t, <2>1, <2>2, <2>3 DEF ButtonInv
  <2>7. ReleasedAt <= moment
    BY <1>t, <2>1 DEF ReleasedAt
  <2>8. Polled(type)'
    BY <1>t, <2>1, <2>4, <2>5, <2>6, <2>7 DEF Polled
  <2> QED
    BY <1>t, <2>1, <2>2, <2>3, <2>6, <2>8, Sizes DEF ButtonInv
<1>3. CASE Button!TakeEdge
  <2>1. /\ poller = "wait" /\ isr_event /\ isr_event' = FALSE /\ poller' = "poll"
        /\ held' = 0 /\ UNCHANGED <<moment, pin, turnAt, wakeAt, logged, pushed>>
    BY <1>3 DEF Button!TakeEdge
  <2>2. PICK type \in {"PUSH", "RESET"} :
          pushed = Append(logged, type) /\ moment = PushedAt(type) /\ pin = 1
    BY <2>1 DEF ButtonInv
  <2>3. moment <= ReleasedAt /\ ReleasedAt = turnAt
    BY <1>t, <2>2, Sizes DEF PushedAt, ReleasedAt
  <2>4. moment <= After(ReleasedAt)
    BY <1>t, <1>r, <1>q, <2>3
  <2>5. Polled(type)'
    BY <1>t, <1>r, <1>q, <1>p, <2>1, <2>2, <2>3, <2>4 DEF Polled
  <2> QED
    BY <1>t, <2>1, <2>5 DEF ButtonInv
<1>4. CASE Button!PollHigh
  <2>1. /\ poller = "poll" /\ pin = 1 /\ poller' = "sleep"
        /\ wakeAt' = After(moment)
        /\ UNCHANGED <<moment, pin, turnAt, isr_event, held, logged, pushed>>
    BY <1>4, <1>t, ButtonAssumption DEF Button!PollHigh, Button!NextTick, Tick, At, After
  <2>2. PICK type \in {"PUSH", "RESET"} : Polled(type)
    BY <2>1 DEF ButtonInv
  <2>3. wakeAt' <= After(ReleasedAt)
    BY <1>t, <1>r, <2>1, <2>2, TicksOrdered DEF Polled, ReleasedAt
  <2>4. moment <= wakeAt' /\ wakeAt' \in Int
    BY <1>t, <1>q, <2>1
  <2>5. Polled(type)'
    BY <1>t, <1>p, <2>1, <2>2, <2>3, <2>4 DEF Polled, After
  <2> QED
    BY <1>t, <2>1, <2>4, <2>5 DEF ButtonInv
<1>5. CASE Button!WakeUp
  <2>1. /\ poller = "sleep" /\ moment = wakeAt /\ poller' = "poll" /\ held' = held + 1
        /\ UNCHANGED <<moment, pin, turnAt, isr_event, wakeAt, logged, pushed>>
    BY <1>5 DEF Button!WakeUp
  <2>2. PICK type \in {"PUSH", "RESET"} : Polled(type)
    BY <2>1 DEF ButtonInv
  <2>3. Tick(moment) = Tick(PushedAt(type)) + held + 1
    <3> DEFINE k == Tick(PushedAt(type)) + held + 1
    <3>1. k \in Int /\ moment = At(k)
      BY <1>t, <1>q, <2>1, <2>2 DEF Polled
    <3> HIDE DEF k
    <3>2. Tick(moment) = k
      BY <3>1, TicksApart
    <3> QED
      BY <3>2 DEF k
  <2>4. Polled(type)'
    BY <1>t, <1>r, <1>q, <1>p, <2>1, <2>2, <2>3 DEF Polled
  <2> QED
    BY <1>t, <2>1, <2>4 DEF ButtonInv
<1>6. CASE Button!PollLow
  <2>1. /\ poller = "poll" /\ pin = 0 /\ logged' = Append(logged, Button!TypeOfPush)
        /\ poller' = "clean" /\ wakeAt' = After(moment)
        /\ UNCHANGED <<moment, pin, turnAt, isr_event, held, pushed>>
    BY <1>6, <1>t, ButtonAssumption DEF Button!PollLow, Button!NextTick, Tick, At, After
  <2>2. PICK type \in {"PUSH", "RESET"} : Polled(type)
    BY <2>1 DEF ButtonInv
  <2>3. /\ moment = At(Tick(PushedAt(type)) + held)
        /\ PushedAt(type) + Duration(type) = ReleasedAt
        /\ ReleasedAt <= moment /\ moment <= After(ReleasedAt)
    BY <1>t, <1>r, <2>1, <2>2, Sizes DEF Polled, PushedAt
  <2>4. (held > ResetPolls) = (type = "RESET")
    BY <1>t, <1>r, <2>3, HeldTells
  <2>5. Button!TypeOfPush = type
    BY <2>4 DEF Button!TypeOfPush
  <2>6. moment <= wakeAt' /\ wakeAt' \in Int /\ wakeAt' < turnAt
    <3>1. ReleasedAt = turnAt - MinGap
      BY <2>1 DEF ReleasedAt
    <3>2. /\ moment <= turnAt - MinGap + TickLength
          /\ After(moment) <= moment + TickLength /\ moment < After(moment)
      BY <1>t, <1>q, <2>3, <3>1, Sizes
    <3> QED
      BY <1>t, <1>q, <2>1, <3>2, Sizes
  <2>7. logged' = pushed /\ ~isr_event
    BY <2>1, <2>2, <2>5 DEF Polled, ButtonInv
  <2> QED
    BY <1>t, <2>1, <2>6, <2>7 DEF ButtonInv
<1>7. CASE Button!Clean
  <2>1. poller = "clean" /\ ~isr_event
    BY <1>7 DEF Button!Clean, ButtonInv
  <2>2. /\ poller' = "wait"
        /\ UNCHANGED <<moment, pin, turnAt, isr_event, wakeAt, held, logged, pushed>>
    BY <1>7, <2>1 DEF Button!Clean
  <2> QED
    BY <1>t, <2>1, <2>2 DEF ButtonInv
<1>8. CASE Button!Elapse
  <2>1. /\ poller # "poll" /\ ~(isr_event /\ poller \in {"wait", "clean"})
        /\ poller \in {"sleep", "clean"} => moment < wakeAt
        /\ pin = 1 => moment < turnAt
        /\ moment' = moment + 1
        /\ UNCHANGED <<pin, turnAt, isr_event, poller, wakeAt, held, logged, pushed>>
    BY <1>8 DEF Button!Elapse, Button!taskVars
  <2>2. ASSUME NEW type \in {"PUSH", "RESET"}, Polled(type), poller = "sleep"
        PROVE  Polled(type)'
    BY <1>t, <1>r, <1>q, <1>p, <2>1, <2>2 DEF Polled
  <2> QED
    BY <1>t, <2>1, <2>2 DEF ButtonInv
<1>9. CASE UNCHANGED Button!vars
  BY <1>9 DEF Button!vars, Button!taskVars, ButtonInv, Polled, PushedAt, ReleasedAt
<1> QED
  BY <1>1, <1>2, <1>3, <1>4, <1>5, <1>6, <1>7, <1>8, <1>9 DEF Button!Next, Duration

\* Each push is logged once and as what it was, for every length of a tick and
\* every limit that the rig's pushes keep their distance from.
THEOREM PushesLogged == Spec => []LoggedAsPushed
<1>1. Init => ButtonInv
  BY ButtonInit DEF Init
<1>2. ButtonInv /\ [Next]_vars => ButtonInv'
  BY ButtonStep DEF Next, vars, button, Button!vars, Button!taskVars
<1>3. ButtonInv => LoggedAsPushed
  <2> SUFFICES ASSUME ButtonInv PROVE LoggedAsPushed
    OBVIOUS
  <2>1. \A type \in {"PUSH", "RESET"} :
          pushed = Append(logged, type) => Button!IsPrefix(logged, pushed)
    BY DEF ButtonInv, Button!IsPrefix
  <2>2. logged = pushed => Button!IsPrefix(logged, pushed)
    BY DEF ButtonInv, Button!IsPrefix
  <2> QED
    BY <2>1, <2>2 DEF ButtonInv, Polled, LoggedAsPushed, Button!LoggedAsPushed
<1> QED
  BY <1>1, <1>2, <1>3, PTL DEF Spec

-------------------------------------------------------------------------------
(* The display *)

LEMMA CodesOfFont == Display!Codes = 32 .. 126
BY DEF Display!Codes

\* The window of a letter of font 12
Window(x, y) == (x - 1 .. x + 6) \X (y - 1 .. y + 10)

LEMMA LetterWindow ==
  ASSUME NEW x \in Nat \ {0}, NEW y \in Nat \ {0}
  PROVE  \A ink, letter :
           Display!lcd_write_letter(ink, letter, x, y, 12)
             = (ink \ Window(x, y)) \union Display!Glyph(letter, x, y, 12)
<1>1. Display!LetterSize(12) = [width |-> 8, height |-> 12, bytes |-> 12]
  BY DEF Display!LetterSize
<1>2. Display!Written(x, y, x + 7, y + 11, 96) = Window(x, y)
  <2>1. Display!lcd_set_window(x, y, x + 7, y + 11) = Window(x, y)
    BY DEF Display!lcd_set_window, Display!Coordinate, Window
  <2>2. \A p \in Window(x, y) : (p[2] - (y - 1)) * 8 + (p[1] - (x - 1)) < 96
    BY DEF Window
  <2>3. /\ Display!Coordinate(y) = y - 1 /\ Display!Coordinate(x) = x - 1
        /\ Display!Coordinate(x + 7) - Display!Coordinate(x) + 1 = 8
    BY DEF Display!Coordinate
  <2> QED
    BY <2>1, <2>2, <2>3 DEF Display!Written
<1> QED
  BY <1>1, <1>2 DEF Display!lcd_write_letter

\* A letter inks seven columns and twelve rows of its window.
LEMMA GlyphPlace ==
  ASSUME NEW letter \in Display!Codes, NEW x \in Nat \ {0}, NEW y \in Nat \ {0}
  PROVE  Display!Glyph(letter, x, y, 12) \subseteq (x - 1 .. x + 5) \X (y - 1 .. y + 10)
<1> DEFINE group == CHOOSE g \in Display!Letters(12) : letter \in g.codes
<1> USE DEF Display!letters12, Display!Punctuation12, Display!Digits12, Display!Signs12,
        Display!Capitals12, Display!Brackets12, Display!SmallLetters12, Display!Braces12
<1>0. Display!Letters(12) = Display!letters12
  BY DEF Display!Letters
<1>1. group \in Display!letters12
  <2>1. \E g \in Display!letters12 : letter \in g.codes
    BY CodesOfFont
  <2> QED
    BY <1>0, <2>1
<1> HIDE DEF group
<1>2. group.rows \subseteq 0 .. 11 /\ group.columns \subseteq 0 .. 6
  BY <1>1
<1>3. Display!Glyph(letter, x, y, 12) =
        {<<x - 1 + column, y - 1 + row>> : column \in group.columns, row \in group.rows}
  BY DEF Display!Glyph, Display!Coordinate, group
<1>4. \A column \in 0 .. 6, row \in 0 .. 11 :
        <<x - 1 + column, y - 1 + row>> \in (x - 1 .. x + 5) \X (y - 1 .. y + 10)
  OBVIOUS
<1> SUFFICES ASSUME NEW p \in Display!Glyph(letter, x, y, 12)
             PROVE  p \in (x - 1 .. x + 5) \X (y - 1 .. y + 10)
  OBVIOUS
<1>5. PICK column \in group.columns, row \in group.rows : p = <<x - 1 + column, y - 1 + row>>
  BY <1>3
<1> QED
  BY <1>2, <1>4, <1>5

\* A text is its letters: the window of each covers none of the one before it.
Windows(x, y, n) == UNION {Window(x + (i - 1) * 7, y) : i \in 1 .. n}
Glyphs(x, y, codes, n) ==
  UNION {Display!Glyph(codes[i], x + (i - 1) * 7, y, 12) : i \in 1 .. n}

LEMMA TextShape ==
  ASSUME NEW ink, NEW x \in Nat \ {0}, NEW y \in Nat \ {0}, NEW codes \in Seq(Display!Codes)
  PROVE  Display!Text(ink, x, y, codes)
           = (ink \ Windows(x, y, Len(codes))) \union Glyphs(x, y, codes, Len(codes))
<1> DEFINE Shape(n) == (ink \ Windows(x, y, n)) \union Glyphs(x, y, codes, n)
           Step(before, i) ==
             Display!lcd_write_letter(before, codes[i], x + (i - 1) * 7, y, 12)
           shown == CHOOSE f :
             f = [i \in 0 .. Len(codes) |-> IF i = 0 THEN ink ELSE Step(f[i - 1], i)]
<1>1. Shape(0) = ink
  BY DEF Windows, Glyphs
<1>2. ASSUME NEW n \in 0 .. Len(codes), n < Len(codes)
      PROVE  Step(Shape(n), n + 1) = Shape(n + 1)
  <2>1. n + 1 \in 1 .. Len(codes) /\ codes[n + 1] \in Display!Codes
    BY <1>2
  <2>2. x + n * 7 \in Nat \ {0}
    BY <1>2
  <2>3. Step(Shape(n), n + 1) =
          (Shape(n) \ Window(x + n * 7, y))
            \union Display!Glyph(codes[n + 1], x + n * 7, y, 12)
    <3>1. (n + 1) - 1 = n
      BY <1>2
    <3> QED
      BY <2>2, <3>1, LetterWindow
  <2>4. Windows(x, y, n + 1) = Windows(x, y, n) \union Window(x + n * 7, y)
    <3>1. 1 .. n + 1 = (1 .. n) \union {n + 1}
      BY <1>2
    <3> QED
      BY <1>2, <3>1 DEF Windows
  <2>5. Glyphs(x, y, codes, n + 1) =
          Glyphs(x, y, codes, n) \union Display!Glyph(codes[n + 1], x + n * 7, y, 12)
    <3>1. 1 .. n + 1 = (1 .. n) \union {n + 1}
      BY <1>2
    <3>2. ((n + 1) - 1) * 7 = n * 7
      BY <1>2
    <3> DEFINE G(i) == Display!Glyph(codes[i], x + (i - 1) * 7, y, 12)
    <3>3. G(n + 1) = Display!Glyph(codes[n + 1], x + n * 7, y, 12)
      BY <3>2
    <3> HIDE DEF G
    <3>4. UNION {G(i) : i \in 1 .. n + 1} = (UNION {G(i) : i \in 1 .. n}) \union G(n + 1)
      BY <3>1
    <3> QED
      BY <3>3, <3>4 DEF Glyphs, G
  <2>6. Glyphs(x, y, codes, n) \intersect Window(x + n * 7, y) = {}
    <3> SUFFICES ASSUME NEW i \in 1 .. n, NEW p,
                        p \in Display!Glyph(codes[i], x + (i - 1) * 7, y, 12),
                        p \in Window(x + n * 7, y)
                 PROVE  FALSE
      BY DEF Glyphs
    <3>1. codes[i] \in Display!Codes /\ x + (i - 1) * 7 \in Nat \ {0}
      BY <1>2
    <3>2. p[1] <= x + (i - 1) * 7 + 5 /\ p[1] \in Int
      BY <3>1, GlyphPlace
    <3>3. p[1] >= x + n * 7 - 1
      BY <2>2 DEF Window
    <3> QED
      BY <1>2, <3>2, <3>3
  <2> QED
    BY <2>3, <2>4, <2>5, <2>6
<1>3. shown = [i \in 0 .. Len(codes) |-> IF i = 0 THEN ink ELSE Step(shown[i - 1], i)]
  <2> DEFINE g == [i \in 0 .. Len(codes) |-> Shape(i)]
  <2>1. g = [i \in 0 .. Len(codes) |-> IF i = 0 THEN ink ELSE Step(g[i - 1], i)]
    <3>1. ASSUME NEW i \in 0 .. Len(codes)
          PROVE  g[i] = IF i = 0 THEN ink ELSE Step(g[i - 1], i)
      <4>1. CASE i = 0
        BY <1>1, <4>1
      <4>2. CASE i # 0
        <5>1. i - 1 \in 0 .. Len(codes) /\ i - 1 < Len(codes) /\ (i - 1) + 1 = i
          BY <4>2
        <5> HIDE DEF Shape, Step
        <5>2. Step(Shape(i - 1), i) = Shape(i)
          BY <5>1, <1>2
        <5> QED
          BY <4>2, <5>1, <5>2
      <4> QED
        BY <4>1, <4>2
    <3> HIDE DEF Shape, Step
    <3> QED
      BY <3>1
  <2> HIDE DEF g, Step
  <2> QED
    BY <2>1
<1>4. \A i \in 0 .. Len(codes) : shown[i] = Shape(i)
  <2> HIDE DEF shown, Shape, Step
  <2> DEFINE S == {i \in 0 .. Len(codes) : shown[i] = Shape(i)}
  <2>1. 0 \in S
    BY <1>1, <1>3
  <2>2. ASSUME NEW i \in S, i < Len(codes)
        PROVE  i + 1 \in S
    <3>1. i \in 0 .. Len(codes) /\ i + 1 \in 0 .. Len(codes) /\ i + 1 # 0 /\ (i + 1) - 1 = i
      BY <2>2
    <3>2. shown[i + 1] = Step(shown[i], i + 1)
      BY <1>3, <3>1
    <3> QED
      BY <1>2, <2>2, <3>1, <3>2
  <2>3. S = 0 .. Len(codes)
    <3>1. Len(codes) \in Nat /\ S \in SUBSET (0 .. Len(codes))
      OBVIOUS
    <3> HIDE DEF S
    <3> QED
      BY <2>1, <2>2, <3>1, Sim!SetInduction
  <2> QED
    BY <2>3
<1>5. Display!Text(ink, x, y, codes) = shown[Len(codes)]
  BY DEF Display!Text
<1> HIDE DEF shown
<1> QED
  BY <1>4, <1>5

LEMMA TextPixels ==
  ASSUME NEW ink, NEW x \in Nat \ {0}, NEW y \in Nat \ {0}, NEW codes \in Seq(Display!Codes)
  PROVE  \A p : p \in Display!Text(ink, x, y, codes) <=>
                \/ p \in ink /\ p \notin Windows(x, y, Len(codes))
                \/ p \in Glyphs(x, y, codes, Len(codes))
BY TextShape

\* A text stays within its rows and columns.
Area(x, y, n) == (x - 1 .. x + 7 * n - 2) \X (y - 1 .. y + 10)

LEMMA TextPlace ==
  ASSUME NEW ink, NEW x \in Nat \ {0}, NEW y \in Nat \ {0}, NEW codes \in Seq(Display!Codes)
  PROVE  /\ Display!Text(ink, x, y, codes) \subseteq ink \union Area(x, y, Len(codes))
         /\ \A p \in ink : p[2] \in Int /\ p[2] \notin y - 1 .. y + 10 =>
              p \in Display!Text(ink, x, y, codes)
<1>1. Glyphs(x, y, codes, Len(codes)) \subseteq Area(x, y, Len(codes))
  <2> SUFFICES ASSUME NEW i \in 1 .. Len(codes),
                      NEW p \in Display!Glyph(codes[i], x + (i - 1) * 7, y, 12)
               PROVE  p \in Area(x, y, Len(codes))
    BY DEF Glyphs
  <2>1. codes[i] \in Display!Codes /\ x + (i - 1) * 7 \in Nat \ {0}
    OBVIOUS
  <2>2. p \in (x + (i - 1) * 7 - 1 .. x + (i - 1) * 7 + 5) \X (y - 1 .. y + 10)
    BY <2>1, GlyphPlace
  <2> QED
    BY <2>2 DEF Area
<1>2. \A p \in Windows(x, y, Len(codes)) : p[2] \in y - 1 .. y + 10
  BY DEF Windows, Window
<1> QED
  BY <1>1, <1>2, TextShape

\* The address, letter by letter
LEMMA MacLetters ==
  ASSUME NEW digit \in MacDigits
  PROVE  /\ Display!MacLabel \in Seq(Display!Codes) /\ Len(Display!MacLabel) = 4
         /\ Display!Mac(digit) \in Seq(Display!Codes) /\ Len(Display!Mac(digit)) = 17
<1>1. \A i \in 1 .. 17 : (IF i % 3 = 0 THEN 58 ELSE digit) \in Display!Codes
  BY CodesOfFont, DisplayAssumption
<1> QED
  BY <1>1, CodesOfFont DEF Display!Mac, Display!MacLabel

LEMMA MacWritten ==
  ASSUME NEW digit \in MacDigits
  PROVE  /\ Display!Text(Display!Text({}, 1, 1, Display!MacLabel), 1 + 5 * 7, 1,
                         Display!Mac(digit)) = Display!MacLine(digit)
         /\ \A p \in Display!MacLine(digit) : p[2] \in 0 .. 11
<1> DEFINE label == Display!MacLabel
           mac == Display!Mac(digit)
<1>1. /\ label \in Seq(Display!Codes) /\ Len(label) = 4
      /\ mac \in Seq(Display!Codes) /\ Len(mac) = 17
  BY MacLetters
<1>2. Display!MacLine(digit) = Glyphs(1, 1, label, 4) \union Glyphs(36, 1, mac, 17)
  BY DEF Display!MacLine, Glyphs
<1> HIDE DEF label, mac
<1>p. 1 \in Nat \ {0} /\ 36 \in Nat \ {0}
  OBVIOUS
<1> DEFINE none == {p \in Area(1, 1, 1) : FALSE}
<1>n. none = {}
  OBVIOUS
<1> HIDE DEF none
<1>3. /\ Display!Text({}, 1, 1, label) = Glyphs(1, 1, label, 4)
      /\ Glyphs(1, 1, label, 4) \subseteq Area(1, 1, 4)
  <2>1. Display!Text(none, 1, 1, label) =
          (none \ Windows(1, 1, Len(label))) \union Glyphs(1, 1, label, Len(label))
    BY <1>1, <1>p, TextPixels
  <2>2. Display!Text(none, 1, 1, label) \subseteq none \union Area(1, 1, Len(label))
    BY <1>1, <1>p, TextPlace
  <2> QED
    BY <1>1, <1>n, <2>1, <2>2
<1>4. Glyphs(36, 1, mac, 17) \subseteq Area(36, 1, 17)
  <2>1. Display!Text(none, 36, 1, mac) =
          (none \ Windows(36, 1, Len(mac))) \union Glyphs(36, 1, mac, Len(mac))
    BY <1>1, <1>p, TextPixels
  <2>2. Display!Text(none, 36, 1, mac) \subseteq none \union Area(36, 1, Len(mac))
    BY <1>1, <1>p, TextPlace
  <2> QED
    BY <1>1, <1>n, <2>1, <2>2
<1>5. Area(1, 1, 4) \intersect Windows(36, 1, 17) = {}
  <2>1. \A p \in Windows(36, 1, 17) : p[1] >= 35
    BY DEF Windows, Window
  <2>2. \A p \in Area(1, 1, 4) : p[1] \in Int /\ p[1] <= 27
    BY DEF Area
  <2> QED
    BY <2>1, <2>2
<1>6. Display!Text(Glyphs(1, 1, label, 4), 36, 1, mac) =
        Glyphs(1, 1, label, 4) \union Glyphs(36, 1, mac, 17)
  <2> DEFINE before == Glyphs(1, 1, label, 4)
  <2>1. before \intersect Windows(36, 1, 17) = {}
    BY <1>3, <1>5
  <2> HIDE DEF before
  <2>2. Display!Text(before, 36, 1, mac) =
          (before \ Windows(36, 1, Len(mac))) \union Glyphs(36, 1, mac, Len(mac))
    BY <1>1, <1>p, TextPixels
  <2>3. Display!Text(before, 36, 1, mac) = before \union Glyphs(36, 1, mac, 17)
    BY <1>1, <2>1, <2>2
  <2> QED
    BY <2>3 DEF before
<1>7. \A p \in Area(1, 1, 4) \union Area(36, 1, 17) : p[2] \in 0 .. 11
  BY DEF Area
<1> QED
  BY <1>2, <1>3, <1>4, <1>6, <1>7 DEF label, mac

\* What the texts and the squares leave: the address, and something in the area of
\* the scene that the square of the scene covers.
Line(y) == (0 .. Width - 1) \X (y - 1 .. y + 10)

ScreenInv ==
  /\ scene \in {"off", "mac", "bar", "removed", "saving"}
  /\ letters \subseteq Display!Codes
  /\ scene = "off" => inked = {}
  /\ scene # "off" =>
       \E digit \in MacDigits \intersect letters :
         /\ Display!MacLine(digit) \subseteq inked
         /\ inked \subseteq Display!MacLine(digit) \union
              (CASE scene = "bar" -> Line(24) [] scene = "saving" -> Line(40)
                 [] OTHER -> {})

LEMMA SquareRemoves ==
  ASSUME NEW y \in Nat \ {0}, NEW keep, NEW ink,
         \A p \in keep : p[2] \in Int /\ p[2] < y - 1,
         keep \subseteq ink, ink \subseteq keep \union Line(y)
  PROVE  ink \ Display!lcd_draw_square(0, y, Width, y + 12) = keep
<1> DEFINE square == Display!lcd_draw_square(0, y, Width, y + 12)
<1>w. Width \in Nat /\ Width >= 158
  BY DisplayAssumption
<1>1. /\ Display!Coordinate(0) = 0 /\ Display!Coordinate(Width) = Width - 1
      /\ Display!Coordinate(y) = y - 1 /\ Display!Coordinate(y + 12) = y + 11
  BY <1>w DEF Display!Coordinate
<1>2. square = {p \in (0 .. Width - 1) \X (y - 1 .. y + 11) :
                  (p[2] - (y - 1)) * (Width - 1 - 0 + 1) + (p[1] - 0) < Width * 12}
  <2>1. /\ Width - 0 = Width /\ y + 12 - y = 12
    BY <1>w
  <2> QED
    BY <1>1, <2>1 DEF Display!lcd_draw_square, Display!Written, Display!lcd_set_window
<1>3. Line(y) \subseteq square
  <2> SUFFICES ASSUME NEW c \in 0 .. Width - 1, NEW r \in y - 1 .. y + 10
               PROVE  <<c, r>> \in square
    BY DEF Line
  <2>1. (r - (y - 1)) * Width <= 11 * Width
    BY <1>w
  <2>2. (r - (y - 1)) * (Width - 1 - 0 + 1) + (c - 0) < Width * 12
    BY <1>w, <2>1
  <2> QED
    BY <1>2, <2>2
<1>4. keep \intersect square = {}
  BY <1>2
<1> HIDE DEF square
<1>5. ink \ square = keep
  BY <1>3, <1>4
<1> QED
  BY <1>5 DEF square

LEMMA ScreenInit == Display!Init => ScreenInv
  BY DEF Display!Init, ScreenInv

\* A text of a scene stays in the scene's area.
LEMMA SceneText ==
  ASSUME NEW x \in Nat \ {0}, NEW y \in {24, 40}, NEW codes \in Seq(Display!Codes),
         x + 7 * Len(codes) <= 159, NEW ink, NEW digit \in MacDigits,
         Display!MacLine(digit) \subseteq ink,
         ink \subseteq Display!MacLine(digit) \union Line(y)
  PROVE  /\ Display!MacLine(digit) \subseteq Display!Text(ink, x, y, codes)
         /\ Display!Text(ink, x, y, codes) \subseteq Display!MacLine(digit) \union Line(y)
<1>1. /\ Display!Text(ink, x, y, codes) \subseteq ink \union Area(x, y, Len(codes))
      /\ \A p \in ink : p[2] \in Int /\ p[2] \notin y - 1 .. y + 10 =>
              p \in Display!Text(ink, x, y, codes)
  BY TextPlace
<1>2. Area(x, y, Len(codes)) \subseteq Line(y)
  BY DisplayAssumption DEF Area, Line
<1>3. \A p \in Display!MacLine(digit) : p[2] \in Int /\ p[2] \notin y - 1 .. y + 10
  BY MacWritten
<1> QED
  BY <1>1, <1>2, <1>3

\* The words are letters of the font.
LEMMA Words ==
  /\ <<48, 37>> \in Seq(Display!Codes) /\ 1 + 7 * Len(<<48, 37>>) <= 159
  /\ <<49, 48, 48, 37>> \in Seq(Display!Codes)
  /\ 131 + 7 * Len(<<49, 48, 48, 37>>) <= 159
  /\ Display!Saving \in Seq(Display!Codes) /\ 1 + 7 * Len(Display!Saving) <= 159
  /\ \A percent \in Percents :
       /\ Display!Bar(percent) \in Seq(Display!Codes)
       /\ 20 + 7 * Len(Display!Bar(percent)) <= 159
<1>1. ASSUME NEW percent \in Percents
      PROVE  /\ Display!Bar(percent) \in Seq(Display!Codes)
             /\ 20 + 7 * Len(Display!Bar(percent)) <= 159
  <2>1. Display!Progress(percent) \in 0 .. 15
    BY DisplayAssumption DEF Display!Progress
  <2>2. 61 \in Display!Codes
    BY CodesOfFont
  <2>3. Len(Display!Bar(percent)) = Display!Progress(percent)
    BY <2>1 DEF Display!Bar
  <2>4. 20 + 7 * Len(Display!Bar(percent)) <= 159
    BY <2>1, <2>3
  <2> QED
    BY <2>1, <2>2, <2>4 DEF Display!Bar
<1>2. Display!Saving \in Seq(Display!Codes) /\ 1 + 7 * Len(Display!Saving) <= 159
  BY CodesOfFont DEF Display!Saving
<1>3. <<48, 37>> \in Seq(Display!Codes) /\ 1 + 7 * Len(<<48, 37>>) <= 159
  BY CodesOfFont
<1>4. /\ <<49, 48, 48, 37>> \in Seq(Display!Codes)
      /\ 131 + 7 * Len(<<49, 48, 48, 37>>) <= 159
  BY CodesOfFont
<1> QED
  BY <1>1, <1>2, <1>3, <1>4

LEMMA ScreenStep == ScreenInv /\ [Display!Next]_(Display!vars) => ScreenInv'
<1> SUFFICES ASSUME ScreenInv, [Display!Next]_(Display!vars)
             PROVE  ScreenInv'
  OBVIOUS
<1>w. \A seq \in Seq(Display!Codes) : Display!ToSet(seq) \subseteq Display!Codes
  BY DEF Display!ToSet
<1>1. CASE Display!mac_on_display
  <2>1. scene = "off" /\ inked = {} /\ inked \ Display!lcd_set_color = {}
    BY <1>1 DEF Display!mac_on_display, ScreenInv
  <2>2. PICK digit \in MacDigits :
          /\ inked' = Display!Text(Display!Text(inked \ Display!lcd_set_color, 1, 1,
                        Display!MacLabel), 1 + 5 * 7, 1, Display!Mac(digit))
          /\ letters' = Display!ToSet(Display!MacLabel) \union Display!ToSet(Display!Mac(digit))
          /\ scene' = "mac"
    BY <1>1 DEF Display!mac_on_display
  <2>3. inked' = Display!MacLine(digit)
    BY <2>1, <2>2, MacWritten
  <2>4. letters' \subseteq Display!Codes
    BY <1>w, <2>2, MacLetters
  <2>5. digit \in letters'
    <3>1. Display!Mac(digit)[1] = digit /\ 1 \in DOMAIN Display!Mac(digit)
      BY DEF Display!Mac
    <3> QED
      BY <2>2, <3>1 DEF Display!ToSet
  <2> QED
    BY <2>2, <2>3, <2>4, <2>5 DEF ScreenInv
<1>2. CASE Display!progress_bar_on_display
  <2>1. PICK percent \in Percents :
          /\ inked' = Display!Text(Display!Labels(inked), 20, 24, Display!Bar(percent))
          /\ letters' = letters \union {48, 49, 37} \union Display!ToSet(Display!Bar(percent))
    BY <1>2 DEF Display!progress_bar_on_display
  <2>2. scene \in {"bar", "mac"} /\ scene' = "bar"
    BY <1>2 DEF Display!progress_bar_on_display
  <2>3. PICK digit \in MacDigits \intersect letters :
          /\ Display!MacLine(digit) \subseteq inked
          /\ inked \subseteq Display!MacLine(digit) \union Line(24)
    BY <2>2 DEF ScreenInv
  <2> DEFINE zero == <<48, 37>>
             hundred == <<49, 48, 48, 37>>
             bar == Display!Bar(percent)
             one == Display!Text(inked, 1, 24, zero)
             two == Display!Text(one, 131, 24, hundred)
             Fits(ink) == /\ Display!MacLine(digit) \subseteq ink
                          /\ ink \subseteq Display!MacLine(digit) \union Line(24)
  <2>n. /\ 1 \in Nat \ {0} /\ 131 \in Nat \ {0} /\ 20 \in Nat \ {0} /\ 24 \in {24, 40}
        /\ zero \in Seq(Display!Codes) /\ 1 + 7 * Len(zero) <= 159
        /\ hundred \in Seq(Display!Codes) /\ 131 + 7 * Len(hundred) <= 159
        /\ bar \in Seq(Display!Codes) /\ 20 + 7 * Len(bar) <= 159
    BY Words
  <2>4. Fits(one)
    <3> HIDE DEF zero
    <3> QED
      BY <2>3, <2>n, SceneText
  <2>5. Fits(two)
    <3> HIDE DEF one, hundred
    <3> QED
      BY <2>4, <2>n, SceneText
  <2>6. inked' = Display!Text(two, 20, 24, Display!Bar(percent))
    BY <2>1 DEF Display!Labels
  <2>7. Fits(inked')
    <3> HIDE DEF two, bar
    <3>1. inked' = Display!Text(two, 20, 24, bar)
      BY <2>6 DEF bar
    <3> QED
      BY <2>5, <2>n, <3>1, SceneText
  <2>8. letters' \subseteq Display!Codes
    <3>1. Display!ToSet(Display!Bar(percent)) \subseteq Display!Codes
      BY <1>w, <2>n
    <3>2. letters \subseteq Display!Codes /\ {48, 49, 37} \subseteq Display!Codes
      BY CodesOfFont DEF ScreenInv
    <3> QED
      BY <2>1, <3>1, <3>2
  <2> QED
    BY <2>1, <2>2, <2>7, <2>8 DEF ScreenInv
<1>3. CASE Display!remove_progress_bar_from_display
  <2>1. /\ scene = "bar" /\ scene' = "removed" /\ letters' = letters
        /\ inked' = inked \ Display!lcd_draw_square(0, 24, Width, 24 + 12)
    BY <1>3 DEF Display!remove_progress_bar_from_display
  <2>2. PICK digit \in MacDigits \intersect letters :
          /\ Display!MacLine(digit) \subseteq inked
          /\ inked \subseteq Display!MacLine(digit) \union Line(24)
    BY <2>1 DEF ScreenInv
  <2>3. inked' = Display!MacLine(digit)
    <3>1. \A p \in Display!MacLine(digit) : p[2] \in Int /\ p[2] < 24 - 1
      BY MacWritten
    <3>2. 24 \in Nat \ {0}
      OBVIOUS
    <3> QED
      BY <2>1, <2>2, <3>1, <3>2, SquareRemoves
  <2> QED
    BY <2>1, <2>3 DEF ScreenInv
<1>4. CASE Display!saving_data_on_display
  <2>1. /\ scene = "removed" /\ scene' = "saving"
        /\ inked' = Display!Text(inked, 1, 40, Display!Saving)
        /\ letters' = letters \union Display!ToSet(Display!Saving)
    BY <1>4 DEF Display!saving_data_on_display
  <2>2. PICK digit \in MacDigits \intersect letters :
          /\ Display!MacLine(digit) \subseteq inked
          /\ inked \subseteq Display!MacLine(digit) \union Line(40)
    BY <2>1 DEF ScreenInv
  <2>3. /\ Display!MacLine(digit) \subseteq inked'
        /\ inked' \subseteq Display!MacLine(digit) \union Line(40)
    <3> DEFINE saving == Display!Saving
    <3>1. /\ saving \in Seq(Display!Codes) /\ 1 + 7 * Len(saving) <= 159
          /\ 1 \in Nat \ {0} /\ 40 \in {24, 40}
      BY Words
    <3>2. inked' = Display!Text(inked, 1, 40, saving)
      BY <2>1
    <3> HIDE DEF saving
    <3> QED
      BY <2>2, <3>1, <3>2, SceneText
  <2>4. letters' \subseteq Display!Codes
    BY <1>w, <2>1, Words DEF ScreenInv
  <2> QED
    BY <2>1, <2>2, <2>3, <2>4 DEF ScreenInv
<1>5. CASE Display!remove_saving_data_from_display
  <2>1. /\ scene = "saving" /\ scene' = "mac" /\ letters' = letters
        /\ inked' = inked \ Display!lcd_draw_square(0, 40, Width, 40 + 12)
    BY <1>5 DEF Display!remove_saving_data_from_display
  <2>2. PICK digit \in MacDigits \intersect letters :
          /\ Display!MacLine(digit) \subseteq inked
          /\ inked \subseteq Display!MacLine(digit) \union Line(40)
    BY <2>1 DEF ScreenInv
  <2>3. inked' = Display!MacLine(digit)
    <3>1. \A p \in Display!MacLine(digit) : p[2] \in Int /\ p[2] < 40 - 1
      BY MacWritten
    <3>2. 40 \in Nat \ {0}
      OBVIOUS
    <3> QED
      BY <2>1, <2>2, <3>1, <3>2, SquareRemoves
  <2> QED
    BY <2>1, <2>3 DEF ScreenInv
<1>6. CASE UNCHANGED Display!vars
  BY <1>6 DEF Display!vars, ScreenInv
<1> QED
  BY <1>1, <1>2, <1>3, <1>4, <1>5, <1>6 DEF Display!Next

LEMMA ScreenAlways == Spec => []ScreenInv
<1>1. Init => ScreenInv
  BY ScreenInit DEF Init
<1>2. ScreenInv /\ [Next]_vars => ScreenInv'
  BY ScreenStep DEF Next, vars, screen, Display!vars
<1> QED
  BY <1>1, <1>2, PTL DEF Spec

\* Whatever has been shown and removed, the screen is left with the address, whole.
THEOREM AddressStays == Spec => []OnlyMacStays
<1>1. ScreenInv => OnlyMacStays
  <2> SUFFICES ASSUME ScreenInv, scene \in {"mac", "removed"}
               PROVE  \E digit \in MacDigits \intersect letters :
                        inked = Display!MacLine(digit)
    BY DEF OnlyMacStays, Display!OnlyMacStays
  <2>1. PICK digit \in MacDigits \intersect letters :
          Display!MacLine(digit) \subseteq inked /\ inked \subseteq Display!MacLine(digit)
    BY DEF ScreenInv
  <2> QED
    BY <2>1
<1> QED
  BY <1>1, ScreenAlways, PTL

-------------------------------------------------------------------------------
(* Texts in every font *)

\* How the fonts are made: windows of whole bytes, letters not wider than they are
\* apart.
LEMMA LetterWindows ==
  ASSUME NEW f \in Lcd!Font
  PROVE  /\ Lcd!LetterSize(f).width \in Nat \ {0} /\ Lcd!LetterSize(f).height \in Nat \ {0}
         /\ Lcd!Pitch(f) \in {5, 7, 11, 14, 17}
         /\ Lcd!Pitch(f) <= Lcd!LetterSize(f).width
<1>1. ASSUME f = 8
      PROVE  Lcd!LetterSize(f) = [width |-> 8, height |-> 8, bytes |-> 8] /\ Lcd!Pitch(f) = 5
  BY <1>1 DEF Lcd!LetterSize, Lcd!Pitch
<1>2. ASSUME f = 12
      PROVE  Lcd!LetterSize(f) = [width |-> 8, height |-> 12, bytes |-> 12] /\ Lcd!Pitch(f) = 7
  BY <1>2 DEF Lcd!LetterSize, Lcd!Pitch
<1>3. ASSUME f = 16
      PROVE  Lcd!LetterSize(f) = [width |-> 16, height |-> 16, bytes |-> 2 * 16] /\ Lcd!Pitch(f) = 11
  BY <1>3 DEF Lcd!LetterSize, Lcd!Pitch
<1>4. ASSUME f = 20
      PROVE  Lcd!LetterSize(f) = [width |-> 16, height |-> 20, bytes |-> 2 * 20] /\ Lcd!Pitch(f) = 14
  BY <1>4 DEF Lcd!LetterSize, Lcd!Pitch
<1>5. ASSUME f = 24
      PROVE  Lcd!LetterSize(f) = [width |-> 24, height |-> 24, bytes |-> 3 * 24] /\ Lcd!Pitch(f) = 17
  BY <1>5 DEF Lcd!LetterSize, Lcd!Pitch
<1> QED
  BY <1>1, <1>2, <1>3, <1>4, <1>5 DEF Lcd!Font

LEMMA Fonts ==
  ASSUME NEW f \in Lcd!Font
  PROVE  /\ \A g \in Lcd!Letters(f) :
              /\ g.rows \subseteq 0 .. Lcd!LetterSize(f).height - 1
              /\ g.columns \subseteq 0 .. Lcd!Pitch(f) - 1
         /\ \A letter \in Lcd!Codes : \E g \in Lcd!Letters(f) : letter \in g.codes
<1>1. CASE f = 8
  <2>1. \A g \in Lcd!letters8 : g.rows \subseteq 0 .. 7 /\ g.columns \subseteq 0 .. 4
    BY DEF Lcd!letters8,
       Lcd!Punctuation8, Lcd!Digits8, Lcd!Signs8, Lcd!Capitals8, Lcd!Brackets8,
       Lcd!SmallLetters8, Lcd!Braces8
  <2>2. \A letter \in Lcd!Codes : \E g \in Lcd!letters8 : letter \in g.codes
    BY DEF Lcd!Codes, Lcd!letters8,
       Lcd!Punctuation8, Lcd!Digits8, Lcd!Signs8, Lcd!Capitals8, Lcd!Brackets8,
       Lcd!SmallLetters8, Lcd!Braces8
  <2>3. Lcd!Letters(f) = Lcd!letters8 /\ Lcd!LetterSize(f).height = 8 /\ Lcd!Pitch(f) = 5
    BY <1>1 DEF Lcd!Letters, Lcd!LetterSize, Lcd!Pitch
  <2> QED
    BY <2>1, <2>2, <2>3
<1>2. CASE f = 12
  <2>1. \A g \in Lcd!letters12 : g.rows \subseteq 0 .. 11 /\ g.columns \subseteq 0 .. 6
    BY DEF Lcd!letters12,
       Lcd!Punctuation12, Lcd!Digits12, Lcd!Signs12, Lcd!Capitals12, Lcd!Brackets12,
       Lcd!SmallLetters12, Lcd!Braces12
  <2>2. \A letter \in Lcd!Codes : \E g \in Lcd!letters12 : letter \in g.codes
    BY DEF Lcd!Codes, Lcd!letters12,
       Lcd!Punctuation12, Lcd!Digits12, Lcd!Signs12, Lcd!Capitals12, Lcd!Brackets12,
       Lcd!SmallLetters12, Lcd!Braces12
  <2>3. Lcd!Letters(f) = Lcd!letters12 /\ Lcd!LetterSize(f).height = 12 /\ Lcd!Pitch(f) = 7
    BY <1>2 DEF Lcd!Letters, Lcd!LetterSize, Lcd!Pitch
  <2> QED
    BY <2>1, <2>2, <2>3
<1>3. CASE f = 16
  <2>1. \A g \in Lcd!letters16 : g.rows \subseteq 0 .. 15 /\ g.columns \subseteq 0 .. 10
    BY DEF Lcd!letters16,
       Lcd!Punctuation16, Lcd!Digits16, Lcd!Signs16, Lcd!Capitals16, Lcd!Brackets16,
       Lcd!SmallLetters16, Lcd!Braces16
  <2>2. \A letter \in Lcd!Codes : \E g \in Lcd!letters16 : letter \in g.codes
    BY DEF Lcd!Codes, Lcd!letters16,
       Lcd!Punctuation16, Lcd!Digits16, Lcd!Signs16, Lcd!Capitals16, Lcd!Brackets16,
       Lcd!SmallLetters16, Lcd!Braces16
  <2>3. Lcd!Letters(f) = Lcd!letters16 /\ Lcd!LetterSize(f).height = 16 /\ Lcd!Pitch(f) = 11
    BY <1>3 DEF Lcd!Letters, Lcd!LetterSize, Lcd!Pitch
  <2> QED
    BY <2>1, <2>2, <2>3
<1>4. CASE f = 20
  <2>1. \A g \in Lcd!letters20 : g.rows \subseteq 0 .. 19 /\ g.columns \subseteq 0 .. 13
    BY DEF Lcd!letters20,
       Lcd!Punctuation20, Lcd!Digits20, Lcd!Signs20, Lcd!Capitals20, Lcd!Brackets20,
       Lcd!SmallLetters20, Lcd!Braces20
  <2>2. \A letter \in Lcd!Codes : \E g \in Lcd!letters20 : letter \in g.codes
    BY DEF Lcd!Codes, Lcd!letters20,
       Lcd!Punctuation20, Lcd!Digits20, Lcd!Signs20, Lcd!Capitals20, Lcd!Brackets20,
       Lcd!SmallLetters20, Lcd!Braces20
  <2>3. Lcd!Letters(f) = Lcd!letters20 /\ Lcd!LetterSize(f).height = 20 /\ Lcd!Pitch(f) = 14
    BY <1>4 DEF Lcd!Letters, Lcd!LetterSize, Lcd!Pitch
  <2> QED
    BY <2>1, <2>2, <2>3
<1>5. CASE f = 24
  <2>1. \A g \in Lcd!letters24 : g.rows \subseteq 0 .. 23 /\ g.columns \subseteq 0 .. 16
    BY DEF Lcd!letters24,
       Lcd!Punctuation24, Lcd!Digits24, Lcd!Signs24, Lcd!Capitals24, Lcd!Brackets24,
       Lcd!SmallLetters24, Lcd!Braces24
  <2>2. \A letter \in Lcd!Codes : \E g \in Lcd!letters24 : letter \in g.codes
    BY DEF Lcd!Codes, Lcd!letters24,
       Lcd!Punctuation24, Lcd!Digits24, Lcd!Signs24, Lcd!Capitals24, Lcd!Brackets24,
       Lcd!SmallLetters24, Lcd!Braces24
  <2>3. Lcd!Letters(f) = Lcd!letters24 /\ Lcd!LetterSize(f).height = 24 /\ Lcd!Pitch(f) = 17
    BY <1>5 DEF Lcd!Letters, Lcd!LetterSize, Lcd!Pitch
  <2> QED
    BY <2>1, <2>2, <2>3
<1> QED
  BY <1>1, <1>2, <1>3, <1>4, <1>5 DEF Lcd!Font

\* The window of a letter is filled, to the last pixel.
Frame(f, x) == (x - 1 .. x + Lcd!LetterSize(f).width - 2) \X (0 .. Lcd!LetterSize(f).height - 1)

LEMMA FrameFilled ==
  ASSUME NEW f \in Lcd!Font, NEW x \in Nat \ {0}
  PROVE  LET size == Lcd!LetterSize(f) IN
         Lcd!Written(x, 1, x + size.width - 1, 1 + size.height - 1, 8 * size.bytes)
           = Frame(f, x)
<1> DEFINE w == Lcd!LetterSize(f).width
           h == Lcd!LetterSize(f).height
           count == 8 * Lcd!LetterSize(f).bytes
<1>1. \/ w = 8 /\ h = 8 /\ count = 64
      \/ w = 8 /\ h = 12 /\ count = 96
      \/ w = 16 /\ h = 16 /\ count = 256
      \/ w = 16 /\ h = 20 /\ count = 320
      \/ w = 24 /\ h = 24 /\ count = 576
  BY DEF Lcd!Font, Lcd!LetterSize
<1>2. Frame(f, x) = (x - 1 .. x + w - 2) \X (0 .. h - 1)
  BY DEF Frame
<1> HIDE DEF w, h, count
<1> DEFINE left == Lcd!Coordinate(x)
           right == Lcd!Coordinate(x + w - 1)
           top == Lcd!Coordinate(1)
<1>3. left = x - 1 /\ right = x + w - 2 /\ top = 0 /\ Lcd!Coordinate(1 + h - 1) = h - 1
  BY <1>1 DEF Lcd!Coordinate
<1>4. Lcd!lcd_set_window(x, 1, x + w - 1, 1 + h - 1) = Frame(f, x)
  BY <1>2, <1>3 DEF Lcd!lcd_set_window
<1> HIDE DEF left, right, top
<1>5. ASSUME NEW c \in x - 1 .. x + w - 2, NEW r \in 0 .. h - 1
      PROVE  (r - top) * (right - left + 1) + (c - left) < count
  <2>1. right - left + 1 = w /\ w \in Int /\ h \in Int /\ r - top = r
    BY <1>1, <1>3
  <2>2. c - left <= w - 1 /\ r <= h - 1
    BY <1>1, <1>3
  <2>3. r * w + (c - left) < count
    BY <1>1, <1>3, <2>1, <2>2
  <2> QED
    BY <2>1, <2>3
<1>6. \A p \in Frame(f, x) :
        (p[2] - top) * (right - left + 1) + (p[1] - left) < count
  BY <1>2, <1>5
<1>7. Lcd!Written(x, 1, x + w - 1, 1 + h - 1, count) = Frame(f, x)
  BY <1>4, <1>6, Zenon DEF Lcd!Written, left, right, top
<1> QED
  BY <1>7 DEF w, h, count

\* A letter stays in its place.
Room(f, x) ==
  (x - 1 .. x - 1 + Lcd!Pitch(f) - 1) \X (0 .. Lcd!LetterSize(f).height - 1)

LEMMA GlyphInRoom ==
  ASSUME NEW f \in Lcd!Font, NEW x \in Nat \ {0}, NEW letter \in Lcd!Codes
  PROVE  Lcd!Glyph(letter, x, 1, f) \subseteq Room(f, x)
<1> DEFINE group == CHOOSE g \in Lcd!Letters(f) : letter \in g.codes
<1>1. /\ group.rows \subseteq 0 .. Lcd!LetterSize(f).height - 1
      /\ group.columns \subseteq 0 .. Lcd!Pitch(f) - 1
  BY Fonts
<1>2. Lcd!LetterSize(f).height \in Int /\ Lcd!Pitch(f) \in Int
  BY LetterWindows
<1>c. Lcd!Coordinate(x) = x - 1 /\ Lcd!Coordinate(1) = 0
  BY DEF Lcd!Coordinate
<1>3. Lcd!Glyph(letter, x, 1, f) =
        {<<x - 1 + column, 0 + row>> : column \in group.columns, row \in group.rows}
  BY <1>c DEF Lcd!Glyph
<1> HIDE DEF group
<1> SUFFICES ASSUME NEW column \in group.columns, NEW row \in group.rows
             PROVE  <<x - 1 + column, 0 + row>> \in Room(f, x)
  BY <1>3
<1> DEFINE q == Lcd!Pitch(f)
           h == Lcd!LetterSize(f).height
<1>4. column \in 0 .. q - 1 /\ row \in 0 .. h - 1 /\ q \in Int /\ h \in Int
  BY <1>1, <1>2
<1>5. Room(f, x) = (x - 1 .. x - 1 + q - 1) \X (0 .. h - 1)
  BY DEF Room
<1> HIDE DEF q, h
<1> QED
  BY <1>4, <1>5

\* The next letter begins where this one's place ends.
LEMMA PlacesApart ==
  ASSUME NEW i \in Nat, NEW k \in Nat, i < k, NEW q \in {5, 7, 11, 14, 17}
  PROVE  i * q + q <= k * q /\ i * q \in Nat /\ k * q \in Nat
<1>1. q = 5 \/ q = 7 \/ q = 11 \/ q = 14 \/ q = 17
  OBVIOUS
<1> QED
  BY <1>1

TextInv ==
  /\ font \in FontSizes /\ text \in Seq(TextCodes)
  /\ Lcd!TextStaysWhole

LEMMA PlaceIsRoom ==
  ASSUME font \in FontSizes, NEW i \in Nat \ {0}
  PROVE  Lcd!Place(i) = Room(font, Lcd!Column(i)) /\ Lcd!Column(i) \in Nat \ {0}
<1>1. font \in Lcd!Font
  BY LcdAssumption
<1>2. Lcd!Pitch(font) \in {5, 7, 11, 14, 17}
  BY <1>1, LetterWindows
<1>3. (i - 1) * Lcd!Pitch(font) \in Nat
  <2> PICK j \in Nat, q \in {5, 7, 11, 14, 17} : j = i - 1 /\ q = Lcd!Pitch(font)
    BY <1>2
  <2>1. j * q \in Nat
    OBVIOUS
  <2> QED
    BY <2>1
<1>4. Lcd!Column(i) \in Nat \ {0}
  BY <1>3 DEF Lcd!Column
<1>5. Lcd!Coordinate(Lcd!Column(i)) = Lcd!Column(i) - 1
  BY <1>4 DEF Lcd!Coordinate
<1> QED
  BY <1>4, <1>5 DEF Lcd!Place, Room

LEMMA WriteKeepsText ==
  ASSUME TextInv, Lcd!WriteLetter
  PROVE  TextInv'
<1>1. PICK letter \in TextCodes :
        /\ pixels' = Lcd!lcd_write_letter(pixels, letter, Lcd!Column(Len(text) + 1), 1, font)
        /\ text' = Append(text, letter)
  BY DEF Lcd!WriteLetter
<1>2. font' = font /\ font \in Lcd!Font /\ font \in FontSizes
      /\ letter \in Lcd!Codes /\ text \in Seq(TextCodes)
  BY LcdAssumption DEF Lcd!WriteLetter, TextInv
<1> PICK n \in Nat : n = Len(text)
  BY <1>2
<1> DEFINE x == Lcd!Column(n + 1)
           glyph == Lcd!Glyph(letter, x, 1, font)
<1>3. x \in Nat \ {0}
  BY <1>2, PlaceIsRoom
<1>4. pixels' = (pixels \ Frame(font, x)) \union glyph
  BY <1>1, <1>2, <1>3, FrameFilled DEF Lcd!lcd_write_letter
<1>5. glyph \subseteq Room(font, x)
  BY <1>2, <1>3, GlyphInRoom
<1>6. Room(font, x) \subseteq Frame(font, x)
  <2> PICK q \in Nat, w \in Nat : q = Lcd!Pitch(font) /\ w = Lcd!LetterSize(font).width
    BY <1>2, LetterWindows
  <2>1. q <= w
    BY <1>2, LetterWindows
  <2>2. x - 1 .. x - 1 + q - 1 \subseteq x - 1 .. x + w - 2
    BY <1>3, <2>1
  <2> QED
    BY <2>2 DEF Room, Frame
<1>7. ASSUME NEW i \in 1 .. n
      PROVE  Room(font, Lcd!Column(i)) \intersect Frame(font, x) = {}
  <2> PICK q \in {5, 7, 11, 14, 17} : q = Lcd!Pitch(font)
    BY <1>2, LetterWindows
  <2> PICK j \in Nat : j = i - 1 /\ j < n
    OBVIOUS
  <2>1. Lcd!Column(i) = 1 + j * q /\ x = 1 + n * q
    BY DEF Lcd!Column
  <2>2. j * q + q <= n * q /\ j * q \in Nat /\ n * q \in Nat
    BY PlacesApart
  <2>3. \A p \in Room(font, Lcd!Column(i)) : p[1] \in Int /\ p[1] <= j * q + q - 1
    BY <2>1, <2>2 DEF Room
  <2>4. \A p \in Frame(font, x) : p[1] \in Int /\ n * q <= p[1]
    <3> PICK w \in Nat : w = Lcd!LetterSize(font).width
      BY <1>2, LetterWindows
    <3> QED
      BY <2>1, <2>2 DEF Frame
  <2> QED
    BY <2>2, <2>3, <2>4
<1>8. Len(text') = n + 1 /\ text'[n + 1] = letter /\ text' \in Seq(TextCodes)
      /\ \A i \in 1 .. n : text'[i] = text[i]
  BY <1>1, <1>2
<1> HIDE DEF x, glyph
<1>9. ASSUME NEW i \in 1 .. n + 1
      PROVE  pixels' \intersect Room(font, Lcd!Column(i))
               = Lcd!Glyph(text'[i], Lcd!Column(i), 1, font)
  <2>1. CASE i = n + 1
    BY <1>4, <1>5, <1>6, <1>8, <2>1 DEF x, glyph
  <2>2. CASE i # n + 1
    <3>1. i \in 1 .. n /\ i \in Nat \ {0}
      BY <2>2
    <3>2. pixels \intersect Room(font, Lcd!Column(i))
            = Lcd!Glyph(text[i], Lcd!Column(i), 1, font)
      BY <1>2, <3>1, PlaceIsRoom DEF TextInv, Lcd!TextStaysWhole
    <3> QED
      BY <1>4, <1>5, <1>6, <1>7, <1>8, <3>1, <3>2
  <2> QED
    BY <2>1, <2>2
<1>10. ASSUME NEW i \in 1 .. n + 1
       PROVE  /\ Lcd!Place(i)' = Room(font, Lcd!Column(i))
              /\ Lcd!Column(i)' = Lcd!Column(i)
  BY <1>2, PlaceIsRoom DEF Lcd!Place, Lcd!Column
<1>11. Lcd!TextStaysWhole'
  BY <1>2, <1>8, <1>9, <1>10 DEF Lcd!TextStaysWhole
<1> QED
  BY <1>2, <1>8, <1>11 DEF TextInv

\* A text stays whole in every font, whatever it is written upon.
THEOREM TextsStayWhole == Spec => []TextStaysWhole
<1>1. Init => TextInv
  BY DEF Init, Lcd!Init, TextInv, Lcd!TextStaysWhole
<1>2. TextInv /\ [Next]_vars => TextInv'
  <2> SUFFICES ASSUME TextInv, [Next]_vars PROVE TextInv'
    OBVIOUS
  <2>1. Lcd!Next \/ UNCHANGED <<pixels, font, text>>
    BY DEF Next, vars, writing
  <2>2. CASE Lcd!BeginText
    BY <2>2 DEF Lcd!BeginText, TextInv, Lcd!TextStaysWhole
  <2>3. CASE Lcd!FillScreen
    BY <2>3 DEF Lcd!FillScreen, TextInv, Lcd!TextStaysWhole
  <2>4. CASE UNCHANGED <<pixels, font, text>>
    BY <2>4 DEF TextInv, Lcd!TextStaysWhole, Lcd!Place, Lcd!Column
  <2> QED
    BY <2>1, <2>2, <2>3, <2>4, WriteKeepsText DEF Lcd!Next
<1>3. TextInv => TextStaysWhole
  BY DEF TextInv, TextStaysWhole
<1> QED
  BY <1>1, <1>2, <1>3, PTL DEF Spec
===============================================================================
