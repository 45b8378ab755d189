------------------------------ MODULE MCPrograms ------------------------------
(***************************************************************************)
(* The programs that stand beside the firmware and have nothing to do with *)
(* each other, in one instance for TLC: a behaviour is one of theirs.      *)
(***************************************************************************)
EXTENDS Integers, Sequences

\* Simulation
CONSTANTS NodesCount, BalancerSize, DeviationMax, MinLatency, MaxLatency,
          RttPeriod, TimePeriod, DriftPeriod, StartTime, Deadline
VARIABLES time, phase, turn, clock, pipe, queue, fresh, ring, rtt_index, first,
          deviation_avg
sim == <<time, phase, turn, clock, pipe, queue, fresh, ring, rtt_index, first,
         deviation_avg>>

\* LatencyTest
CONSTANTS MessageCount, ErrorTime, ArraySize
VARIABLES step, message_count, error_time, handler, echoing, frames, samples,
          ber, excused
test == <<step, message_count, error_time, handler, echoing, frames, samples,
          ber, excused>>

\* Display
CONSTANTS Width, Height, Percents, MacDigits, Measurements
VARIABLES inked, letters, scene, measured
screen == <<inked, letters, scene, measured>>

\* Lcd
CONSTANTS FontSizes, TextCodes, MaxLetters, MaxTexts
VARIABLES pixels, font, text, texts
writing == <<pixels, font, text, texts>>

\* NeighborCheck
CONSTANT TableLength
VARIABLE neighbor

\* EspNowParameters
CONSTANTS Master, Receivers, Pause, MaxFlight, MaxEdges, LastInstant
VARIABLES instant, start_time, time_reseted, round, resume, flying, printed,
          edges
bench == <<instant, start_time, time_reseted, round, resume, flying, printed,
           edges>>

\* Led
CONSTANTS Rounds, MaxReceived
VARIABLES task, lit, blinks, loop, rounds, callback, heard
lamps == <<task, lit, blinks, loop, rounds, callback, heard>>

\* Button
CONSTANTS TickLength, ShortPush, LongPush, ResetPolls, MinGap, MaxGap, MaxPushes
VARIABLES moment, pin, turnAt, isr_event, poller, wakeAt, held, logged, pushed
button == <<moment, pin, turnAt, isr_event, poller, wakeAt, held, logged, pushed>>

VARIABLE program   \* the one that runs

Simulation == INSTANCE Simulation
LatencyTest == INSTANCE LatencyTest
Display == INSTANCE Display
Lcd == INSTANCE Lcd
NeighborCheck == INSTANCE NeighborCheck
EspNowParameters == INSTANCE EspNowParameters
Led == INSTANCE Led
Button == INSTANCE Button

\* What the sizes of each program have to do with each other
ASSUME SimulationAssumption ==
  /\ NodesCount \in Nat \ {0} /\ BalancerSize \in Nat \ {0}
  /\ MinLatency \in Nat \ {0} /\ MaxLatency \in Nat /\ MinLatency <= MaxLatency
  /\ RttPeriod \in Nat \ {0} /\ TimePeriod \in Nat /\ 3 * MaxLatency < TimePeriod
  /\ DriftPeriod \in [0 .. NodesCount - 1 -> Nat \ {0}]
  /\ DeviationMax \in Nat /\ StartTime \in Nat

\* esp_now_test_latency returns at once if there is nothing to send.
ASSUME LatencyTestAssumption == MessageCount \in Nat \ {0} /\ ErrorTime \in Nat

\* The labels of the progress bar end in column 158; digits are 0 to 9 and A to F.
ASSUME DisplayAssumption ==
  /\ Width \in Nat /\ Width >= 158
  /\ Percents \subseteq 0 .. 100
  /\ MacDigits \subseteq (48 .. 57) \union (65 .. 70)

\* The fonts have letters from the space to the tilde.
ASSUME LcdAssumption ==
  /\ FontSizes \subseteq Lcd!Font
  /\ TextCodes \subseteq Lcd!Codes

ASSUME NeighborCheckAssumption == TableLength \in 1 .. 99

ASSUME EspNowParametersAssumption ==
  Receivers \in Seq(EspNowParameters!Device) /\ Receivers # <<>>

\* The rig holds the pin for one tick or for 600, a RESET takes more than 500, and
\* an operator types at most one push in two ticks.
ASSUME ButtonAssumption ==
  /\ TickLength \in Nat \ {0} /\ ResetPolls \in Nat \ {0}
  /\ ShortPush \in 1 .. TickLength * (ResetPolls - 1)
  /\ LongPush \in Nat /\ LongPush > TickLength * ResetPolls
  /\ MinGap \in Nat /\ MinGap > 2 * TickLength

vars == <<program, sim, test, screen, writing, neighbor, bench, lamps, button>>

Init ==
  /\ Simulation!Init /\ LatencyTest!Init /\ Display!Init /\ Lcd!Init
  /\ NeighborCheck!Init /\ EspNowParameters!Init /\ Led!Init
  /\ Button!Init
  /\ program \in {"Simulation", "LatencyTest", "Display", "Lcd",
                  "NeighborCheck", "EspNowParameters", "Led", "Button"}
  \* What does not run has one initial state.
  /\ program # "NeighborCheck" => neighbor \in [NeighborCheck!Slot -> {"ACTIVE"}]
  /\ program # "Lcd" => font = CHOOSE size \in FontSizes : TRUE
  /\ program # "Led" => task = "measure_unicast_task_master"

Next ==
  /\ UNCHANGED program
  /\ \/ /\ program = "Simulation" /\ Simulation!Next
        /\ UNCHANGED <<test, screen, writing, neighbor, bench, lamps, button>>
     \/ /\ program = "LatencyTest" /\ LatencyTest!Next
        /\ UNCHANGED <<sim, screen, writing, neighbor, bench, lamps, button>>
     \/ /\ program = "Display" /\ Display!Next
        /\ UNCHANGED <<sim, test, writing, neighbor, bench, lamps, button>>
     \/ /\ program = "Lcd" /\ Lcd!Next
        /\ UNCHANGED <<sim, test, screen, neighbor, bench, lamps, button>>
     \/ /\ program = "NeighborCheck" /\ NeighborCheck!Next
        /\ UNCHANGED <<sim, test, screen, writing, bench, lamps, button>>
     \/ /\ program = "EspNowParameters" /\ EspNowParameters!Next
        /\ UNCHANGED <<sim, test, screen, writing, neighbor, lamps, button>>
     \/ /\ program = "Led" /\ Led!Next
        /\ UNCHANGED <<sim, test, screen, writing, neighbor, bench, button>>
     \/ /\ program = "Button" /\ Button!Next
        /\ UNCHANGED <<sim, test, screen, writing, neighbor, bench, lamps>>

Spec == Init /\ [][Next]_vars

\* Instances of the constants
CONSTANTS d1, d2, d3
Others == <<d2, d3>>
Drifts == [n \in 0 .. NodesCount - 1 |-> 4 + n]

\* The properties of the programs, stated where they are
OnTime == Simulation!OnTime
StaysNear == Simulation!StaysNear
OwnEcho == LatencyTest!OwnEcho
ErrorsAreReal == LatencyTest!ErrorsAreReal
OnlyMacStays == Display!OnlyMacStays
TextStaysWhole == Lcd!TextStaysWhole
CheckTellsCounts ==
  program = "NeighborCheck" => NeighborCheck!CheckTellsCounts
PrintsFlight == EspNowParameters!PrintsFlight
AllDark == Led!AllDark
LoggedAsPushed == Button!LoggedAsPushed
===============================================================================
