------------------------------ MODULE SharedLog ------------------------------
(***************************************************************************)
(* What the event log keeps: every device holds some of the events that    *)
(* have been pressed, at most Capacity of them, and whatever it holds it   *)
(* holds until it starts over.  No event, a RESET neither, erases another. *)
(* EventLog implements this specification.                                 *)
(***************************************************************************)
EXTENDS Naturals, FiniteSets

CONSTANTS
  Device,    \* the devices that keep a log
  Event,     \* what can be pressed
  Capacity   \* entries a log has room for

VARIABLES
  pressed,   \* the events that have been pressed
  log        \* the events each device holds

vars == <<pressed, log>>

Init ==
  /\ pressed = {}
  /\ log = [d \in Device |-> {}]

Occur(e) ==
  /\ pressed' = pressed \union {e}
  /\ UNCHANGED log

Record(d, e) ==
  /\ e \in pressed \ log[d]
  /\ Cardinality(log[d]) < Capacity
  /\ log' = [log EXCEPT ![d] = @ \union {e}]
  /\ UNCHANGED pressed

Forget(d) ==
  /\ log' = [log EXCEPT ![d] = {}]
  /\ UNCHANGED pressed

Next ==
  \/ \E e \in Event : Occur(e)
  \/ \E d \in Device, e \in Event : Record(d, e)
  \/ \E d \in Device : Forget(d)

Spec == Init /\ [][Next]_vars
===============================================================================
