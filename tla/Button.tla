-------------------------------- MODULE Button --------------------------------
(***************************************************************************)
(* How long a button is held decides what is logged: the program that      *)
(* tests the voting (test-voting.ino) drives the pin of a device, and      *)
(* handle_isr_event_task polls it.  The ticks of the device are not those  *)
(* of the tester.                                                          *)
(***************************************************************************)
EXTENDS Integers, Sequences, SequencesExt

CONSTANTS
  TickLength,   \* a tick of the device, the period of the polls
  ShortPush,    \* how long pushButton holds the pin
  LongPush,     \* how long longPushButton does
  ResetPolls,   \* polls that a RESET exceeds
  MinGap,       \* bound: the pin is low at least so long between two pushes
  MaxGap,       \* bound: and the next push comes after so long at most
  MaxPushes     \* bound: pushes

VARIABLES
  moment,      \* real time
  pin,         \* the level of the pin
  turnAt,      \* when the pin is released, or since when it may be pushed
  isr_event,   \* the queue of one edge
  poller,      \* where handle_isr_event_task is
  wakeAt,      \* when its delay ends
  held,        \* `time', the polls that found the pin high
  logged,      \* the types handed to log_event
  pushed       \* history: what the tester has been asked for

taskVars == <<isr_event, poller, wakeAt, held, logged>>
vars == <<moment, pin, turnAt, taskVars, pushed>>

\* The end of a delay of one tick that begins now.
NextTick == (moment \div TickLength + 1) * TickLength

-------------------------------------------------------------------------------
Init ==
  /\ moment = 0 /\ pin = 0 /\ turnAt = 0
  /\ isr_event = FALSE /\ poller = "wait" /\ wakeAt = 0 /\ held = 0
  /\ logged = <<>> /\ pushed = <<>>

\* pushButton and longPushButton begin, and the edge reaches gpio_handler_isr.
Push(type, duration) ==
  /\ pin = 0 /\ moment >= turnAt /\ Len(pushed) < MaxPushes
  /\ pin' = 1
  /\ turnAt' = moment + duration
  /\ isr_event' = TRUE
  /\ pushed' = Append(pushed, type)
  /\ UNCHANGED <<moment, poller, wakeAt, held, logged>>

\* and end
Release ==
  /\ pin = 1 /\ moment >= turnAt
  /\ pin' = 0
  /\ turnAt' = moment + MinGap
  /\ UNCHANGED <<moment, taskVars, pushed>>

TakeEdge ==
  /\ poller = "wait" /\ isr_event
  /\ isr_event' = FALSE /\ poller' = "poll" /\ held' = 0
  /\ UNCHANGED <<moment, pin, turnAt, wakeAt, logged, pushed>>

PollHigh ==
  /\ poller = "poll" /\ pin = 1
  /\ poller' = "sleep" /\ wakeAt' = NextTick
  /\ UNCHANGED <<moment, pin, turnAt, isr_event, held, logged, pushed>>

WakeUp ==
  /\ poller = "sleep" /\ moment = wakeAt
  /\ poller' = "poll" /\ held' = held + 1
  /\ UNCHANGED <<moment, pin, turnAt, isr_event, wakeAt, logged, pushed>>

\* Faulty variant: the limit is not above a short push.
TypeOfAny == IF held > 0 THEN "RESET" ELSE "PUSH"

TypeOfPush == IF held > ResetPolls THEN "RESET" ELSE "PUSH"

PollLow ==
  /\ poller = "poll" /\ pin = 0
  /\ logged' = Append(logged, TypeOfPush)
  /\ poller' = "clean" /\ wakeAt' = NextTick
  /\ UNCHANGED <<moment, pin, turnAt, isr_event, held, pushed>>

\* An edge that comes within CLEANING_DELAY is dropped.
Clean ==
  /\ poller = "clean"
  /\ \/ isr_event /\ isr_event' = FALSE /\ wakeAt' = NextTick /\ UNCHANGED poller
     \/ ~isr_event /\ moment = wakeAt /\ poller' = "wait" /\ UNCHANGED <<isr_event, wakeAt>>
  /\ UNCHANGED <<moment, pin, turnAt, held, logged, pushed>>

\* The task needs no time of its own.
Elapse ==
  /\ poller # "poll" /\ ~(isr_event /\ poller \in {"wait", "clean"})
  /\ poller \in {"sleep", "clean"} => moment < wakeAt
  /\ IF pin = 1 THEN moment < turnAt ELSE moment < turnAt + MaxGap
  /\ moment' = moment + 1
  /\ UNCHANGED <<pin, turnAt, taskVars, pushed>>

Next ==
  \/ Push("PUSH", ShortPush) \/ Push("RESET", LongPush) \/ Release
  \/ TakeEdge \/ PollHigh \/ WakeUp \/ PollLow \/ Clean \/ Elapse

Spec == Init /\ [][Next]_vars

-------------------------------------------------------------------------------
(* Properties *)

\* Every push that comes two ticks after the last one is logged once, and as what
\* it was: none is taken for a part of the last one or cleaned away with it.
LoggedAsPushed ==
  IF poller = "wait" /\ ~isr_event /\ pin = 0 THEN logged = pushed
  ELSE IsPrefix(logged, pushed)
===============================================================================
