--------------------------- MODULE LatencyTestProofs ---------------------------
(***************************************************************************)
(* Theorems about LatencyTest, for any number of messages, every error     *)
(* time, and frames that are lost or take as long as they like.            *)
(***************************************************************************)
EXTENDS LatencyTest, TLAPS

Counted == MessageCount \in Nat \ {0} /\ ErrorTime \in Nat

-------------------------------------------------------------------------------
(* The inductive invariant *)

Id == Nat \ {0}
Mail == [id : Id, awaited : BOOLEAN] \union {Empty}

Types ==
  /\ step \in {"clear", "send", "wait", "over"}
  /\ message_count \in Nat /\ error_time \in Nat
  /\ handler \in [Side -> Mail]
  /\ echoing \in BOOLEAN
  /\ frames \subseteq [to : Side, id : Id]
  /\ samples \subseteq [message : Id, echo : Id, awaited : BOOLEAN]
  /\ ber \subseteq Id /\ \A m \in ber : m > message_count
  /\ step # "over" => message_count > 0

\* A message that is somewhere is there once, in the air or in one of the handlers.
OneCopy ==
  /\ \A f, g \in frames : f.id = g.id => f = g
  /\ \A f \in frames : f.id # handler["tester"].id
  /\ ~echoing => \A f \in frames : f.id # handler["echo"].id
  /\ ~echoing /\ handler["echo"] # Empty =>
       handler["echo"].id # handler["tester"].id

\* What is somewhere has been sent.
Sent(m) == m > message_count \/ (step = "wait" /\ m = message_count)

AllSent ==
  /\ \A f \in frames : Sent(f.id)
  /\ handler["echo"] # Empty => Sent(handler["echo"].id)
  /\ handler["tester"] # Empty => Sent(handler["tester"].id)

\* An echo that is not the present message's comes after one that was given up.
Late(m) == \E g \in ber : g >= m
Present(m) == step = "wait" /\ m = message_count

LateAfterError ==
  /\ \A f \in frames : Present(f.id) \/ Late(f.id)
  /\ handler["echo"] # Empty /\ ~echoing =>
       Present(handler["echo"].id) \/ Late(handler["echo"].id)
  /\ handler["tester"] # Empty =>
       Present(handler["tester"].id) \/ Late(handler["tester"].id)

\* What the tester finds when it waits came after the handler had been emptied.
HeardSince ==
  step \in {"send", "wait"} /\ handler["tester"] # Empty => handler["tester"].awaited

\* The present message is excused, or to come, or will be counted.
Accounted ==
  step = "wait" =>
    \/ message_count \in excused \/ Outstanding(message_count)
    \/ handler["tester"] # Empty /\ error_time # 0

TestInv ==
  /\ Types /\ OneCopy /\ AllSent /\ LateAfterError /\ HeardSince /\ Accounted
  /\ OwnEcho /\ ErrorsAreReal

LEMMA MailId == \A m \in Mail : m # Empty => m.id \in Id /\ m.awaited \in BOOLEAN
  BY DEF Mail, Id, Empty

\* No message has the id of an empty handler.
LEMMA SomeId ==
  ASSUME Types
  PROVE  /\ \A f \in frames : f.id # Empty.id
         /\ \A s \in Side : handler[s] # Empty => handler[s].id # Empty.id
  BY MailId DEF Types, Id, Empty

LEMMA TestInit == ASSUME Counted PROVE Init => TestInv
<1> SUFFICES ASSUME Init PROVE TestInv
  OBVIOUS
<1>1. /\ handler \in [Side -> Mail]
      /\ handler["echo"] = Empty /\ handler["tester"] = Empty
  BY DEF Init, Side, Mail
<1>2. Types
  <2>1. /\ step = "clear" /\ message_count \in Nat \ {0} /\ error_time = 0
    BY DEF Init, Counted
  <2>2. /\ frames \subseteq [to : Side, id : Id] /\ ber \subseteq Id
        /\ samples \subseteq [message : Id, echo : Id, awaited : BOOLEAN]
        /\ \A m \in ber : m > message_count
    BY Zenon DEF Init
  <2>3. /\ step \in {"clear", "send", "wait", "over"} /\ message_count \in Nat
        /\ error_time \in Nat /\ (step # "over" => message_count > 0)
    BY <2>1
  <2>4. echoing \in BOOLEAN
    BY DEF Init
  <2> QED
    BY <1>1, <2>2, <2>3, <2>4 DEF Types
<1>3. OneCopy /\ AllSent /\ LateAfterError /\ HeardSince
  BY <1>1 DEF Init, OneCopy, AllSent, LateAfterError, HeardSince
<1>4. Accounted /\ OwnEcho /\ ErrorsAreReal
  BY DEF Init, Accounted, OwnEcho, ErrorsAreReal
<1> QED
  BY <1>2, <1>3, <1>4 DEF TestInv

-------------------------------------------------------------------------------
(* The tester *)

LEMMA ClearKeeps ==
  ASSUME Counted, TestInv, Clear
  PROVE  TestInv'
<1>1. /\ handler' \in [Side -> Mail] /\ handler'["tester"] = Empty
      /\ handler'["echo"] = handler["echo"]
  BY DEF Clear, TestInv, Types, Side, Mail
<1>2. /\ step = "clear" /\ step' = "send" /\ error_time' = ErrorTime
      /\ UNCHANGED <<message_count, samples, ber, echoing, frames, excused>>
  BY DEF Clear
<1>3. Types' /\ HeardSince' /\ Accounted' /\ AllSent'
  BY <1>1, <1>2 DEF Counted, TestInv, Types, HeardSince, Accounted, AllSent, Sent
<1>4. OneCopy'
  BY <1>1, <1>2, SomeId DEF TestInv, OneCopy, Side
<1>5. LateAfterError'
  BY <1>1, <1>2 DEF TestInv, LateAfterError, Late, Present
<1>6. OwnEcho' /\ ErrorsAreReal'
  BY <1>1, <1>2 DEF TestInv, OwnEcho, ErrorsAreReal, Outstanding
<1> QED
  BY <1>3, <1>4, <1>5, <1>6 DEF TestInv

LEMMA SendKeeps ==
  ASSUME TestInv, Send
  PROVE  TestInv'
<1> DEFINE f == [to |-> "echo", id |-> message_count]
<1>1. /\ f.id = message_count /\ f \in [to : Side, id : Id]
      /\ message_count \in Id /\ frames' = frames \union {f}
  BY DEF Send, TestInv, Types, Side, Id
<1> HIDE DEF f
<1>2. /\ step = "send" /\ step' = "wait"
      /\ UNCHANGED <<message_count, error_time, samples, ber, handler, echoing, excused>>
  BY DEF Send
<1>3. /\ \A g \in frames : g.id > message_count
      /\ handler["echo"] # Empty => handler["echo"].id > message_count
      /\ handler["tester"] # Empty => handler["tester"].id > message_count
  BY <1>2 DEF TestInv, AllSent, Sent
<1>4. Types'
  BY <1>1, <1>2 DEF TestInv, Types
<1>5. OneCopy'
  BY <1>1, <1>2, <1>3 DEF TestInv, Types, OneCopy, Id, Empty
<1>6. AllSent' /\ HeardSince'
  BY <1>1, <1>2 DEF TestInv, AllSent, Sent, HeardSince
<1>7. LateAfterError'
  BY <1>1, <1>2 DEF TestInv, LateAfterError, Late, Present
<1>8. Accounted' /\ OwnEcho' /\ ErrorsAreReal'
  BY <1>1, <1>2 DEF TestInv, Accounted, OwnEcho, ErrorsAreReal, Outstanding
<1> QED
  BY <1>4, <1>5, <1>6, <1>7, <1>8 DEF TestInv

LEMMA SendFailsKeeps ==
  ASSUME TestInv, SendFails
  PROVE  TestInv'
<1>1. /\ step = "send" /\ step' = "over"
      /\ UNCHANGED <<message_count, error_time, samples, ber, handler, echoing, frames,
                     excused>>
  BY DEF SendFails
<1> QED
  BY <1>1 DEF TestInv, Types, OneCopy, AllSent, Sent, LateAfterError, Late, Present,
     HeardSince, Accounted, OwnEcho, ErrorsAreReal, Outstanding

LEMMA SleepKeeps ==
  ASSUME TestInv, Sleep
  PROVE  TestInv'
<1>1. /\ step = "wait" /\ handler["tester"] = Empty /\ error_time # 0
      /\ error_time' = error_time - 1
      /\ UNCHANGED <<step, message_count, samples, ber, handler, echoing, frames, excused>>
  BY DEF Sleep
<1> QED
  BY <1>1 DEF TestInv, Types, OneCopy, AllSent, Sent, LateAfterError, Late, Present,
     HeardSince, Accounted, OwnEcho, ErrorsAreReal, Outstanding

LEMMA RecordKeeps ==
  ASSUME TestInv, Record
  PROVE  TestInv'
<1>1. /\ handler' \in [Side -> Mail] /\ handler'["tester"] = Empty
      /\ handler'["echo"] = handler["echo"]
  BY DEF Record, TestInv, Types, Side, Mail
<1>2. /\ step = "wait" /\ (handler["tester"] # Empty \/ error_time = 0)
      /\ message_count' = message_count - 1
      /\ step' = IF message_count = 1 THEN "over" ELSE "clear"
      /\ UNCHANGED <<error_time, echoing, frames, excused>>
  BY DEF Record
<1>3. /\ error_time = 0 => ber' = ber \union {message_count} /\ samples' = samples
      /\ error_time # 0 => samples' = samples \union Sample /\ ber' = ber
  BY DEF Record
<1>4. /\ message_count \in Id /\ message_count' \in Nat
      /\ step' # "over" => message_count' > 0
      /\ step' \in {"clear", "over"}
  BY <1>2 DEF TestInv, Types, Id
<1>5. /\ handler["tester"] \in Mail
      /\ error_time # 0 => handler["tester"] # Empty /\ handler["tester"].id \in Id
                           /\ handler["tester"].awaited
  BY <1>2, MailId DEF TestInv, Types, Side, HeardSince
<1>6. \A s \in Sample : s \in [message : Id, echo : Id, awaited : BOOLEAN] \/ error_time = 0
  BY <1>4, <1>5, MailId DEF Sample
<1>7. Types'
  <2>1. \A m \in ber' : m \in Id /\ m > message_count'
    <3>1. \A m \in ber : m \in Int /\ m \in Id /\ m > message_count
      BY DEF TestInv, Types, Id
    <3>2. \A m \in ber' : m \in ber \/ m = message_count
      BY <1>3
    <3>3. message_count \in Int /\ message_count' = message_count - 1
      BY <1>2, <1>4 DEF Id
    <3> QED
      BY <1>4, <3>1, <3>2, <3>3
  <2>2. samples' \subseteq [message : Id, echo : Id, awaited : BOOLEAN]
    BY <1>3, <1>6 DEF TestInv, Types
  <2> QED
    BY <1>1, <1>2, <1>4, <2>1, <2>2 DEF TestInv, Types
<1>8. OneCopy'
  BY <1>1, <1>2, SomeId DEF TestInv, OneCopy, Side
<1>9. \A m \in Int : Sent(m) => Sent(m)'
  BY <1>2, <1>4 DEF Sent, Id
<1>10. AllSent'
  <2>1. /\ \A f \in frames : f.id \in Int
        /\ handler["echo"] # Empty => handler["echo"].id \in Int
    BY MailId DEF TestInv, Types, Side, Id
  <2> QED
    BY <1>1, <1>2, <1>9, <2>1 DEF TestInv, AllSent
<1>11. \A m : Late(m) => Late(m)'
  BY <1>3 DEF Late
<1>12. LateAfterError'
  <2>1. CASE error_time = 0
    <3>1. \E g \in ber' : g >= message_count
      BY <1>3, <1>4, <2>1 DEF Id
    <3>2. \A m : Present(m) => Late(m)'
      BY <3>1 DEF Late, Present
    <3> QED
      BY <1>1, <1>2, <1>11, <3>2 DEF TestInv, LateAfterError
  <2>2. CASE error_time # 0
    <3>1. CASE handler["tester"].id = message_count
      \* Its only copy is taken away.
      <4>1. /\ \A f \in frames : f.id # message_count
            /\ handler["echo"] # Empty /\ ~echoing => handler["echo"].id # message_count
        BY <3>1 DEF TestInv, OneCopy
      <4> QED
        BY <1>1, <1>2, <1>11, <4>1 DEF TestInv, LateAfterError, Present
    <3>2. CASE handler["tester"].id # message_count
      \* A later one has been given up.
      <4>1. handler["tester"].id > message_count
        BY <1>5, <2>2, <3>2 DEF TestInv, AllSent, Sent
      <4>2. PICK g \in ber : g >= handler["tester"].id
        BY <1>5, <2>2, <3>2 DEF TestInv, LateAfterError, Present, Late
      <4>3. g >= message_count
        BY <1>4, <1>5, <2>2, <4>1, <4>2 DEF TestInv, Types, Id
      <4>4. \A m : Present(m) => Late(m)'
        BY <1>3, <2>2, <4>2, <4>3 DEF Present, Late
      <4> QED
        BY <1>1, <1>2, <1>11, <4>4 DEF TestInv, LateAfterError
    <3> QED
      BY <3>1, <3>2
  <2> QED
    BY <2>1, <2>2
<1>13. HeardSince' /\ Accounted'
  BY <1>4 DEF HeardSince, Accounted
<1>14. \A m : Outstanding(m) => Outstanding(m)'
  BY <1>1, <1>2 DEF Outstanding
<1>15. ErrorsAreReal'
  <2>1. error_time = 0 => message_count \in excused \/ Outstanding(message_count)
    BY <1>2 DEF TestInv, Accounted
  <2>2. \A m \in ber' : m \in ber \/ (error_time = 0 /\ m = message_count)
    BY <1>3
  <2> QED
    BY <1>2, <1>14, <2>1, <2>2 DEF TestInv, ErrorsAreReal
<1>16. OwnEcho'
  <2>1. \A s \in samples : s.awaited /\ (s.echo = s.message \/ \E m \in ber' : m >= s.echo)
    BY <1>3 DEF TestInv, OwnEcho
  <2>2. ASSUME error_time # 0, NEW s \in Sample
        PROVE  s.awaited /\ (s.echo = s.message \/ \E m \in ber : m >= s.echo)
    <3>1. /\ s.message = message_count /\ s.echo = handler["tester"].id
          /\ s.awaited = handler["tester"].awaited
      BY DEF Sample
    <3> QED
      BY <1>5, <2>2, <3>1 DEF TestInv, LateAfterError, Present, Late
  <2> QED
    BY <1>3, <2>1, <2>2 DEF OwnEcho
<1> QED
  BY <1>7, <1>8, <1>10, <1>12, <1>13, <1>15, <1>16 DEF TestInv

-------------------------------------------------------------------------------
(* The radio and the echo *)

LEMMA ArriveKeeps ==
  ASSUME TestInv, NEW f \in frames, Arrive(f)
  PROVE  TestInv'
<1> DEFINE m == [id |-> f.id, awaited |-> step \in {"send", "wait"}]
<1>1. /\ f.to \in Side /\ f.id \in Id /\ Sent(f.id)
      /\ Present(f.id) \/ Late(f.id)
      /\ \A g \in frames : g.id = f.id => g = f
  BY DEF TestInv, Types, AllSent, LateAfterError, OneCopy
<1>2. /\ m \in Mail /\ m # Empty /\ m.id = f.id
      /\ m.awaited = (step \in {"send", "wait"})
  BY <1>1 DEF Mail, Empty, Id
<1>3. handler' = [handler EXCEPT ![f.to] = m]
  BY DEF Arrive
<1> HIDE DEF m
<1>4. /\ handler' \in [Side -> Mail] /\ handler'[f.to] = m
      /\ \A s \in Side : s # f.to => handler'[s] = handler[s]
  BY <1>1, <1>2, <1>3 DEF TestInv, Types
<1>5. /\ frames' = frames \ {f} /\ excused' = excused \union Forgotten(f)
      /\ UNCHANGED <<step, message_count, error_time, samples, ber, echoing>>
  BY DEF Arrive, loopVars
<1>6. Types' /\ OwnEcho'
  BY <1>4, <1>5 DEF TestInv, Types, OwnEcho
<1>7. CASE f.to = "echo"
  <2>1. handler'["echo"] = m /\ handler'["tester"] = handler["tester"]
    BY <1>4, <1>7 DEF Side
  <2>2. OneCopy'
    BY <1>1, <1>2, <1>5, <2>1 DEF TestInv, OneCopy
  <2>3. AllSent' /\ LateAfterError' /\ HeardSince'
    BY <1>1, <1>2, <1>5, <2>1 DEF TestInv, AllSent, Sent, LateAfterError, Late, Present,
       HeardSince
  <2>4. \A k \in Id : Outstanding(k) => k \in excused' \/ Outstanding(k)'
    <3>1. CASE echoing
      <4>1. Forgotten(f) = {f.id}
        BY <1>7, <3>1 DEF Forgotten
      <4> QED
        BY <1>5, <3>1, <4>1 DEF Outstanding
    <3>2. CASE ~echoing
      <4>1. Forgotten(f) = {handler["echo"].id} \ {Empty.id}
        BY <1>7, <3>2 DEF Forgotten
      <4> QED
        BY <1>2, <1>5, <2>1, <3>2, <4>1 DEF Outstanding, Empty, Id
    <3> QED
      BY <3>1, <3>2
  <2>5. ErrorsAreReal' /\ Accounted'
    BY <1>5, <2>1, <2>4 DEF TestInv, Types, Id, ErrorsAreReal, Accounted
  <2> QED
    BY <1>6, <2>2, <2>3, <2>5 DEF TestInv
<1>8. CASE f.to = "tester"
  <2>1. handler'["tester"] = m /\ handler'["echo"] = handler["echo"]
    BY <1>4, <1>8 DEF Side
  <2>2. OneCopy'
    <3>1. \A g \in frames' : g \in frames /\ g.id # f.id
      BY <1>1, <1>5
    <3>2. ~echoing => f.id # handler["echo"].id
      BY DEF TestInv, OneCopy
    <3> QED
      BY <1>2, <1>5, <2>1, <3>1, <3>2 DEF TestInv, OneCopy
  <2>3. AllSent' /\ LateAfterError' /\ HeardSince'
    BY <1>1, <1>2, <1>5, <2>1 DEF TestInv, AllSent, Sent, LateAfterError, Late, Present,
       HeardSince
  <2>4. \A k : Outstanding(k) => Outstanding(k)' \/ k = f.id
    BY <1>5, <2>1 DEF Outstanding
  <2>5. f.id \in excused' \/ (Present(f.id) /\ error_time # 0)
    BY <1>5, <1>8 DEF Forgotten, Present
  <2>6. Accounted'
    BY <1>2, <1>5, <2>1, <2>4, <2>5 DEF TestInv, Accounted
  <2>7. ErrorsAreReal'
    <3>1. \A k \in ber : ~Present(k)
      BY DEF TestInv, Types, Present, Id
    <3> QED
      BY <1>5, <2>4, <2>5, <3>1 DEF TestInv, ErrorsAreReal
  <2> QED
    BY <1>6, <2>2, <2>3, <2>6, <2>7 DEF TestInv
<1> QED
  BY <1>1, <1>7, <1>8 DEF Side

LEMMA LoseKeeps ==
  ASSUME TestInv, NEW f \in frames, Lose(f)
  PROVE  TestInv'
<1>1. /\ frames' = frames \ {f} /\ excused' = excused \union {f.id}
      /\ UNCHANGED <<step, message_count, error_time, samples, ber, handler, echoing>>
  BY DEF Lose, loopVars
<1>2. Types' /\ OneCopy' /\ AllSent' /\ LateAfterError' /\ HeardSince' /\ OwnEcho'
  BY <1>1 DEF TestInv, Types, OneCopy, AllSent, Sent, LateAfterError, Late, Present,
     HeardSince, OwnEcho
<1>3. \A k : Outstanding(k) => k \in excused' \/ Outstanding(k)'
  BY <1>1 DEF Outstanding
<1> QED
  BY <1>1, <1>2, <1>3 DEF TestInv, ErrorsAreReal, Accounted

LEMMA EchoSendKeeps ==
  ASSUME TestInv, EchoSend
  PROVE  TestInv'
<1> DEFINE f == [to |-> "tester", id |-> handler["echo"].id]
<1>1. /\ handler["echo"] # Empty /\ ~echoing /\ echoing' = TRUE
      /\ UNCHANGED <<step, message_count, error_time, samples, ber, handler>>
      /\ \/ frames' = frames \union {f} /\ excused' = excused
         \/ excused' = excused \union {handler["echo"].id} /\ frames' = frames
  BY DEF EchoSend, loopVars
<1>2. handler["echo"].id \in Id /\ f \in [to : Side, id : Id] /\ f.id = handler["echo"].id
  BY <1>1, MailId DEF TestInv, Types, Side
<1> HIDE DEF f
<1>3. Types' /\ AllSent' /\ HeardSince' /\ OwnEcho'
  BY <1>1, <1>2 DEF TestInv, Types, AllSent, Sent, HeardSince, OwnEcho
<1>4. OneCopy'
  BY <1>1, <1>2 DEF TestInv, OneCopy
<1>5. LateAfterError'
  BY <1>1, <1>2 DEF TestInv, LateAfterError, Late, Present
<1>6. \A k : Outstanding(k) => k \in excused' \/ Outstanding(k)'
  BY <1>1, <1>2 DEF Outstanding
<1> QED
  BY <1>1, <1>3, <1>4, <1>5, <1>6 DEF TestInv, ErrorsAreReal, Accounted

LEMMA EchoClearKeeps ==
  ASSUME TestInv, EchoClear
  PROVE  TestInv'
<1>1. /\ handler' \in [Side -> Mail] /\ handler'["echo"] = Empty
      /\ handler'["tester"] = handler["tester"]
  BY DEF EchoClear, TestInv, Types, Side, Mail
<1>2. /\ echoing /\ echoing' = FALSE
      /\ UNCHANGED <<step, message_count, error_time, samples, ber, frames, excused>>
  BY DEF EchoClear, loopVars
<1>3. Types' /\ AllSent' /\ LateAfterError' /\ HeardSince' /\ OwnEcho'
  BY <1>1, <1>2 DEF TestInv, Types, AllSent, Sent, LateAfterError, Late, Present,
     HeardSince, OwnEcho
<1>4. OneCopy'
  BY <1>1, <1>2, SomeId DEF TestInv, OneCopy
<1>5. \A k : Outstanding(k) => Outstanding(k)'
  BY <1>1, <1>2 DEF Outstanding
<1> QED
  BY <1>1, <1>2, <1>3, <1>4, <1>5 DEF TestInv, ErrorsAreReal, Accounted

LEMMA TestNext == ASSUME Counted PROVE TestInv /\ [Next]_vars => TestInv'
<1> SUFFICES ASSUME TestInv, [Next]_vars
             PROVE  TestInv'
  OBVIOUS
<1>1. CASE UNCHANGED vars
  BY <1>1 DEF vars, loopVars, TestInv, Types, OneCopy, AllSent, Sent, LateAfterError, Late,
     Present, HeardSince, Accounted, OwnEcho, ErrorsAreReal, Outstanding
<1> QED
  BY <1>1, ClearKeeps, SendKeeps, SendFailsKeeps, SleepKeeps, RecordKeeps, ArriveKeeps,
     LoseKeeps, EchoSendKeeps, EchoClearKeeps DEF Next

\* Each latency is that of its own message until one has been given up, and none is
\* counted by an echo that came before its message, for frames that take any time.
THEOREM EchoesMatch == ASSUME Counted PROVE Spec => []OwnEcho
<1>1. TestInv => OwnEcho
  BY DEF TestInv
<1> QED
  BY <1>1, TestInit, TestNext, PTL DEF Spec

\* Every error that is counted has one of the reasons an echo may fail to come in time.
THEOREM ErrorsHaveReasons == ASSUME Counted PROVE Spec => []ErrorsAreReal
<1>1. TestInv => ErrorsAreReal
  BY DEF TestInv
<1> QED
  BY <1>1, TestInit, TestNext, PTL DEF Spec
================================================================================
