----------------------------- MODULE LatencyTest -----------------------------
(***************************************************************************)
(* The latency test of the semester project (samostatny-projekt): one      *)
(* device sends message after message and waits for the echo of each, the  *)
(* other one runs esp_now_echo.  Both have one esp_now_handler, which      *)
(* receive_callback overwrites at any moment.  Frames carry no number, so  *)
(* the tester cannot tell whose echo it holds; the model gives each its    *)
(* id.  Time is what the loop sleeps; a frame may take any time and come   *)
(* after any later one.                                                    *)
(***************************************************************************)
EXTENDS Integers

CONSTANTS
  MessageCount,   \* message_count, the messages of one measurement
  ErrorTime,      \* ERROR_TIME, the ticks an echo is waited for
  ArraySize       \* LATENCY_ARR_SIZE, in ticks; greater latencies are dropped

VARIABLES
  step,           \* where the loop of esp_now_test_latency is
  message_count,  \* messages still to be sent, the id of the present one
  error_time,     \* ticks before the echo is given up
  handler,        \* esp_now_handler of both devices
  echoing,        \* the echo has been sent, isEmpty is not yet TRUE
  frames,         \* what is in the air
  samples,        \* the messages counted in latency[]
  ber,            \* the messages counted in ber
  excused         \* history: the messages that did not come back in time

loopVars == <<step, message_count, error_time, samples, ber>>
vars == <<loopVars, handler, echoing, frames, excused>>

Side == {"tester", "echo"}

\* isEmpty
Empty == [id |-> 0, awaited |-> FALSE]

-------------------------------------------------------------------------------
(* The tester *)

Init ==
  /\ step = "clear" /\ message_count = MessageCount /\ error_time = 0
  /\ handler = [s \in Side |-> Empty] /\ echoing = FALSE
  /\ frames = {} /\ samples = {} /\ ber = {} /\ excused = {}

\* Faulty variant: the handler keeps an echo that came too late.
ClearNothing ==
  /\ step = "clear"
  /\ error_time' = ErrorTime
  /\ step' = "send"
  /\ UNCHANGED <<message_count, samples, ber, handler, echoing, frames, excused>>

\* The progress bar is drawn, then the handler is emptied.
Clear ==
  /\ step = "clear"
  /\ error_time' = ErrorTime
  /\ handler' = [handler EXCEPT !["tester"] = Empty]
  /\ step' = "send"
  /\ UNCHANGED <<message_count, samples, ber, echoing, frames, excused>>

Send ==
  /\ step = "send"
  /\ frames' = frames \union {[to |-> "echo", id |-> message_count]}
  /\ step' = "wait"
  /\ UNCHANGED <<message_count, error_time, samples, ber, handler, echoing, excused>>

\* esp_now_send reports an error: the measurement is given up.
SendFails ==
  /\ step = "send"
  /\ step' = "over"
  /\ UNCHANGED <<message_count, error_time, samples, ber, handler, echoing, frames,
                 excused>>

\* vTaskDelay(1)
Sleep ==
  /\ step = "wait" /\ handler["tester"] = Empty /\ error_time # 0
  /\ error_time' = error_time - 1
  /\ UNCHANGED <<step, message_count, samples, ber, handler, echoing, frames, excused>>

\* What is counted by its latency.
Sample ==
  IF ErrorTime - error_time < ArraySize
  THEN {[message |-> message_count, echo |-> handler["tester"].id,
         awaited |-> handler["tester"].awaited]}
  ELSE {}

\* The message is counted by its latency, or as an error, or not at all.
Record ==
  /\ step = "wait" /\ (handler["tester"] # Empty \/ error_time = 0)
  /\ handler' = [handler EXCEPT !["tester"] = Empty]
  /\ \/ error_time = 0 /\ ber' = ber \union {message_count} /\ UNCHANGED samples
     \/ error_time # 0 /\ samples' = samples \union Sample /\ UNCHANGED ber
  /\ message_count' = message_count - 1
  /\ step' = IF message_count = 1 THEN "over" ELSE "clear"
  /\ UNCHANGED <<error_time, echoing, frames, excused>>

-------------------------------------------------------------------------------
(* The radio and the echo *)

\* What an arrival keeps from being counted: on the echo's side the frame itself,
\* which EchoClear will take away, or the message it overwrites; on the tester's side
\* an echo nobody waits for any more.
Forgotten(f) ==
  CASE f.to = "echo" /\ echoing -> {f.id}
    [] f.to = "echo" /\ ~echoing -> {handler["echo"].id} \ {Empty.id}
    [] f.to = "tester" /\ step = "wait" /\ f.id = message_count /\ error_time # 0 -> {}
    [] OTHER -> {f.id}

\* receive_callback
Arrive(f) ==
  /\ frames' = frames \ {f}
  /\ handler' = [handler EXCEPT ![f.to] =
                   [id |-> f.id, awaited |-> step \in {"send", "wait"}]]
  /\ excused' = excused \union Forgotten(f)
  /\ UNCHANGED <<loopVars, echoing>>

Lose(f) ==
  /\ frames' = frames \ {f}
  /\ excused' = excused \union {f.id}
  /\ UNCHANGED <<loopVars, handler, echoing>>

\* Faulty variant: the handler is marked as empty, then the echo is sent if it holds one.
EchoLate ==
  /\ handler["echo"] # Empty /\ ~echoing
  /\ echoing' = TRUE
  /\ UNCHANGED <<loopVars, handler, frames, excused>>

\* esp_now_echo: the answer, which esp_now_send may refuse with a line of print ...
EchoSend ==
  /\ handler["echo"] # Empty /\ ~echoing
  /\ echoing' = TRUE
  /\ \/ /\ frames' = frames \union {[to |-> "tester", id |-> handler["echo"].id]}
        /\ UNCHANGED excused
     \/ excused' = excused \union {handler["echo"].id} /\ UNCHANGED frames
  /\ UNCHANGED <<loopVars, handler>>

\* ... and isEmpty, whatever has come since.
EchoClear ==
  /\ echoing
  /\ handler' = [handler EXCEPT !["echo"] = Empty]
  /\ echoing' = FALSE
  /\ UNCHANGED <<loopVars, frames, excused>>

Next ==
  \/ Clear \/ Send \/ SendFails \/ Sleep \/ Record
  \/ EchoSend \/ EchoClear
  \/ \E f \in frames : Arrive(f) \/ Lose(f)

Spec == Init /\ [][Next]_vars

-------------------------------------------------------------------------------
(* Properties *)

\* What is counted by a latency came back while the tester was waiting, after the
\* handler had been emptied; and it is the message's own echo, unless a message at
\* least as old as the one that came back has been given up before: one late echo
\* may shift all those after it.
OwnEcho ==
  \A s \in samples :
    /\ s.awaited
    /\ s.echo = s.message \/ \E m \in ber : m >= s.echo

\* The message or its echo is still to come.
Outstanding(m) ==
  \/ \E f \in frames : f.id = m
  \/ handler["echo"].id = m /\ ~echoing

\* Nothing is counted as an error that came back in time: the message or its echo was
\* lost, refused, overwritten or too late, or is yet to come.
ErrorsAreReal == \A m \in ber : m \in excused \/ Outstanding(m)
===============================================================================
