---------------------------- MODULE ElectionProofs ----------------------------
(***************************************************************************)
(* Theorems about Election, for every set of devices and every bound.      *)
(***************************************************************************)
EXTENDS Election, FiniteSetTheorems, TLAPS

Channels == [Device -> [Device -> Seq(Message)]]

-------------------------------------------------------------------------------
(* Frames *)

LEMMA SendType ==
  ASSUME NEW ch \in Channels, NEW s \in Device, NEW d \in Device, NEW m \in Message
  PROVE  Send(ch, s, d, m) \in Channels
<1>1. ch[s][d] \in Seq(Message)
  BY DEF Channels
<1>2. Append(ch[s][d], m) \in Seq(Message)
  BY <1>1
<1> QED
  BY <1>1, <1>2 DEF Channels, Send

LEMMA TakeType ==
  ASSUME NEW ch \in Channels, NEW s \in Device, NEW d \in Device, ch[s][d] # <<>>
  PROVE  Take(ch, s, d) \in Channels
<1>1. Tail(ch[s][d]) \in Seq(Message)
  BY DEF Channels
<1> QED
  BY <1>1 DEF Channels, Take

LEMMA HeadType ==
  ASSUME NEW ch \in Channels, NEW s \in Device, NEW d \in Device, ch[s][d] # <<>>
  PROVE  Head(ch[s][d]) \in Message
BY DEF Channels

LEMMA MessageOf ==
  ASSUME NEW k \in Kind, NEW e \in Nat
  PROVE  [kind |-> k, epoch |-> e] \in Message
BY DEF Message

LEMMA SeenEpochType ==
  ASSUME TypeOK, NEW s \in Device, NEW d \in Device, chan[s][d] # <<>>
  PROVE  SeenEpoch(s, d) \in Nat
<1>1. Head(chan[s][d]) \in Message
  BY HeadType DEF TypeOK, Channels
<1> QED
  BY <1>1 DEF TypeOK, SeenEpoch, AdoptEpoch, Message

-------------------------------------------------------------------------------
(* Type correctness *)

LEMMA InitType == Init => TypeOK
BY DEF Init, TypeOK, Expense, Title, VotePc, Neighbours

LEMMA NextType == TypeOK /\ [Next]_vars => TypeOK'
<1> SUFFICES ASSUME TypeOK, [Next]_vars
             PROVE  TypeOK'
  OBVIOUS
<1> USE DEF Neighbours, taskVars
<1>0. chan \in Channels
  BY DEF TypeOK, Channels
<1>1. ASSUME NEW d \in Device, Restart(d)
      PROVE  TypeOK'
  <2>1. chan' \in Channels
    BY <1>0, <1>1 DEF Restart, Channels
  <2> QED
    BY <1>1, <2>1 DEF Restart, TypeOK, Channels, Title, VotePc, Spend, Expense
<1>2. ASSUME NEW d \in Device, CountVote(d)
      PROVE  TypeOK'
  BY <1>2 DEF CountVote, TypeOK, Title
<1>3. ASSUME NEW d \in Device, Lapse(d)
      PROVE  TypeOK'
  BY <1>3 DEF Lapse, TypeOK
<1>4. ASSUME NEW d \in Device, Expire(d)
      PROVE  TypeOK'
  BY <1>4 DEF Expire, TypeOK, VotePc, Spend, Expense
<1>5. ASSUME NEW d \in Device, Stand(d)
      PROVE  TypeOK'
  BY <1>5 DEF Stand, TypeOK, VotePc, Title
<1>6. ASSUME NEW d \in Device, NEW n \in Neighbours(d), AskVote(d, n)
      PROVE  TypeOK'
  <2>1. [kind |-> "REQUEST_VOTE", epoch |-> epoch_id[d]] \in Message
    BY MessageOf DEF TypeOK, Kind
  <2>2. chan' \in Channels
    BY <1>0, <1>6, <2>1, SendType DEF AskVote
  <2> QED
    BY <1>6, <2>2 DEF AskVote, TypeOK, Channels
<1>7. ASSUME NEW d \in Device, StartWaiting(d)
      PROVE  TypeOK'
  BY <1>7 DEF StartWaiting, TypeOK, VotePc
<1>8. ASSUME NEW d \in Device, Decided(d)
      PROVE  TypeOK'
  BY <1>8 DEF Decided, TypeOK, VotePc
<1>9. ASSUME NEW d \in Device, VoteTimeout(d)
      PROVE  TypeOK'
  BY <1>9 DEF VoteTimeout, TypeOK, VotePc
<1>10. ASSUME NEW d \in Device, GiveUp(d)
       PROVE  TypeOK'
  BY <1>10 DEF GiveUp, TypeOK, VotePc, Title
<1>11. ASSUME NEW d \in Device, BeginTime(d)
       PROVE  TypeOK'
  BY <1>11 DEF BeginTime, TypeOK
<1>12. ASSUME NEW d \in Device, NEW n \in Neighbours(d), SendTime(d, n)
       PROVE  TypeOK'
  <2>1. [kind |-> "TIME", epoch |-> epoch_id[d]] \in Message
    BY MessageOf DEF TypeOK, Kind
  <2>2. chan' \in Channels
    BY <1>0, <1>12, <2>1, SendType DEF SendTime
  <2> QED
    BY <1>12, <2>2 DEF SendTime, TypeOK, Channels
<1>13. ASSUME NEW s \in Device, NEW d \in Neighbours(s), ReceiveTime(s, d)
       PROVE  TypeOK'
  <2>1. chan' \in Channels /\ SeenEpoch(s, d) \in Nat
    BY <1>0, <1>13, TakeType, SeenEpochType DEF ReceiveTime, Arrived
  <2> QED
    BY <1>13, <2>1 DEF ReceiveTime, TypeOK, Channels, Title
<1>14. ASSUME NEW s \in Device, NEW d \in Neighbours(s), ReceiveRequestVote(s, d)
       PROVE  TypeOK'
  <2>1. Take(chan, s, d) \in Channels /\ SeenEpoch(s, d) \in Nat
    BY <1>0, <1>14, TakeType, SeenEpochType DEF ReceiveRequestVote, Arrived
  <2>2. [kind |-> "GIVE_VOTE", epoch |-> SeenEpoch(s, d)] \in Message
    BY <2>1, MessageOf DEF Kind
  <2>3. chan' \in Channels
    BY <1>14, <2>1, <2>2, SendType DEF ReceiveRequestVote
  <2> QED
    BY <1>14, <2>1, <2>3 DEF ReceiveRequestVote, TypeOK, Channels
<1>15. ASSUME NEW s \in Device, NEW d \in Neighbours(s), ReceiveGiveVote(s, d)
       PROVE  TypeOK'
  <2>1. chan' \in Channels /\ SeenEpoch(s, d) \in Nat
    BY <1>0, <1>15, TakeType, SeenEpochType DEF ReceiveGiveVote, Arrived
  <2>2. counting' \in [Device -> BOOLEAN]
    BY <1>15 DEF ReceiveGiveVote, TypeOK
  <2> QED
    BY <1>15, <2>1, <2>2 DEF ReceiveGiveVote, TypeOK, Channels
<1>16. ASSUME NEW s \in Device, NEW d \in Neighbours(s), ReceiveOther(s, d)
       PROVE  TypeOK'
  <2>1. Take(chan, s, d) \in Channels /\ SeenEpoch(s, d) \in Nat
    BY <1>0, <1>16, TakeType, SeenEpochType DEF ReceiveOther, Arrived
  <2>2. [kind |-> "OTHER", epoch |-> SeenEpoch(s, d)] \in Message
    BY <2>1, MessageOf DEF Kind
  <2>3. Send(Take(chan, s, d), d, s, [kind |-> "OTHER", epoch |-> SeenEpoch(s, d)]) \in Channels
    BY <2>1, <2>2, SendType
  <2>4. chan' \in Channels
    BY <1>16, <2>1, <2>3 DEF ReceiveOther
  <2>5. spent' \in [Expense -> Nat]
    BY <1>16 DEF ReceiveOther, TypeOK, Spend, Expense
  <2>6. active' \in [Device -> SUBSET Device] /\ \A e \in Device : e \notin active'[e]
    BY <1>16 DEF ReceiveOther, TypeOK
  <2> QED
    BY <1>16, <2>1, <2>4, <2>5, <2>6 DEF ReceiveOther, TypeOK, Channels
<1>17. ASSUME NEW s \in Device, NEW d \in Neighbours(s), MarkInactive(s, d)
       PROVE  TypeOK'
  BY <1>17 DEF MarkInactive, TypeOK
<1>18. ASSUME NEW s \in Device, NEW d \in Neighbours(s), SendOther(s, d)
       PROVE  TypeOK'
  <2>1. [kind |-> "OTHER", epoch |-> epoch_id[s]] \in Message
    BY MessageOf DEF TypeOK, Kind
  <2>2. chan' \in Channels
    BY <1>0, <1>18, <2>1, SendType DEF SendOther
  <2>3. spent' \in [Expense -> Nat]
    BY <1>18 DEF SendOther, TypeOK, Spend, Expense
  <2> QED
    BY <1>18, <2>2, <2>3 DEF SendOther, TypeOK, Channels
<1>19. ASSUME NEW s \in Device, NEW d \in Neighbours(s), Lose(s, d)
       PROVE  TypeOK'
  <2>1. chan' \in Channels
    BY <1>0, <1>19, TakeType DEF Lose
  <2> QED
    BY <1>19, <2>1 DEF Lose, TypeOK, Channels
<1>20. CASE UNCHANGED vars
  BY <1>20 DEF vars, TypeOK
<1> QED
  BY <1>1, <1>2, <1>3, <1>4, <1>5, <1>6, <1>7, <1>8, <1>9, <1>10, <1>11, <1>12,
     <1>13, <1>14, <1>15, <1>16, <1>17, <1>18, <1>19, <1>20
     DEF Next, VoteTask, TimeTask, Receive

\* Every variable keeps its type, whatever the bounds.
THEOREM TypeCorrect == Spec => []TypeOK
<1> QED
  BY InitType, NextType, PTL DEF Spec

-------------------------------------------------------------------------------
(* The candidacy and its task *)

\* Between the test of the title and the new title of a campaign the device is
\* still SLAVE and its handler is not counting a vote: TIME only writes SLAVE, and
\* votes only count for a CANDIDATE.
StandsAsSlave ==
  \A d \in Device : votePc[d] = "stand" => title[d] = "SLAVE" /\ ~counting[d]

CandidacyInv == NoOrphanCandidate /\ StandsAsSlave

LEMMA CandidacyStep == TypeOK /\ CandidacyInv /\ [Next]_vars => CandidacyInv'
<1> SUFFICES ASSUME TypeOK, CandidacyInv, [Next]_vars
             PROVE  CandidacyInv'
  OBVIOUS
<1> USE DEF TypeOK, CandidacyInv, NoOrphanCandidate, StandsAsSlave, Neighbours, taskVars
<1>1. ASSUME NEW d \in Device, Restart(d)
      PROVE  CandidacyInv'
  BY <1>1 DEF Restart
<1>2. ASSUME NEW d \in Device, CountVote(d)
      PROVE  CandidacyInv'
  BY <1>2 DEF CountVote
<1>3. ASSUME NEW d \in Device, Expire(d)
      PROVE  CandidacyInv'
  BY <1>3 DEF Expire
<1>4. ASSUME NEW d \in Device, Stand(d)
      PROVE  CandidacyInv'
  BY <1>4 DEF Stand
<1>5. ASSUME NEW d \in Device, StartWaiting(d) \/ Decided(d) \/ VoteTimeout(d) \/ GiveUp(d)
      PROVE  CandidacyInv'
  BY <1>5 DEF StartWaiting, Decided, VoteTimeout, GiveUp
<1>6. ASSUME NEW s \in Device, NEW d \in Neighbours(s), ReceiveTime(s, d)
      PROVE  CandidacyInv'
  BY <1>6 DEF ReceiveTime
<1>7. ASSUME NEW s \in Device, NEW d \in Neighbours(s), ReceiveGiveVote(s, d)
      PROVE  CandidacyInv'
  <2>1. title[d] = "SLAVE" => ~counting'[d]
    BY <1>7 DEF ReceiveGiveVote
  <2>2. \A e \in Device : e # d => counting'[e] = counting[e]
    BY <1>7 DEF ReceiveGiveVote
  <2> QED
    BY <1>7, <2>1, <2>2 DEF ReceiveGiveVote
<1>8. ASSUME UNCHANGED <<title, votePc, counting>>
      PROVE  CandidacyInv'
  BY <1>8
<1>9. ASSUME NEW d \in Device,
             Lapse(d) \/ BeginTime(d) \/ (\E n \in Neighbours(d) : AskVote(d, n) \/ SendTime(d, n))
      PROVE  CandidacyInv'
  BY <1>8, <1>9 DEF Lapse, BeginTime, AskVote, SendTime
<1>10. ASSUME NEW s \in Device, NEW d \in Neighbours(s),
              \/ ReceiveRequestVote(s, d) \/ ReceiveOther(s, d)
              \/ MarkInactive(s, d) \/ SendOther(s, d) \/ Lose(s, d)
       PROVE  CandidacyInv'
  BY <1>8, <1>10 DEF ReceiveRequestVote, ReceiveOther, MarkInactive, SendOther, Lose
<1>11. CASE UNCHANGED vars
  BY <1>8, <1>11 DEF vars
<1> QED
  BY <1>1, <1>2, <1>3, <1>4, <1>5, <1>6, <1>7, <1>9, <1>10, <1>11
     DEF Next, VoteTask, TimeTask, Receive

THEOREM CandidacyInvariant == Spec => []CandidacyInv
<1>1. Init => CandidacyInv
  BY DEF Init, CandidacyInv, NoOrphanCandidate, StandsAsSlave
<1> QED
  BY <1>1, TypeCorrect, CandidacyStep, PTL DEF Spec

\* A device is never left CANDIDATE without a vote task that will end it.
THEOREM NoOrphan == Spec => []NoOrphanCandidate
<1>1. CandidacyInv => NoOrphanCandidate
  BY DEF CandidacyInv
<1> QED
  BY <1>1, CandidacyInvariant, PTL

-------------------------------------------------------------------------------
(* The vote counter *)

\* While a vote is being counted, and while a CANDIDATE has counted some, the
\* counter is below half the devices: had it reached the quorum the device would
\* be MASTER.
VoteInv ==
  /\ VotesBounded
  /\ \A d \in Device : counting[d] => count_of_vote[d] < Cardinality(Device) \div 2
  /\ \A d \in Device : title[d] = "CANDIDATE" =>
       count_of_vote[d] = 0 \/ count_of_vote[d] < Cardinality(Device) \div 2

\* A device has at most all other devices ACTIVE.
LEMMA ActiveBound ==
  ASSUME TypeOK, NEW d \in Device
  PROVE  /\ Cardinality(Device) \in Nat
         /\ Cardinality(active[d]) \in Nat
         /\ Cardinality(active[d]) <= Cardinality(Device) - 1
         /\ Quorum(d) \in Nat
         /\ Quorum(d) <= Cardinality(Device) \div 2
<1>1. active[d] \subseteq Device \ {d}
  BY DEF TypeOK
<1>2. IsFiniteSet(Device \ {d}) /\ Cardinality(Device \ {d}) = Cardinality(Device) - 1
  BY DeviceAssumption, FS_RemoveElement
<1>3. Cardinality(active[d]) <= Cardinality(Device) - 1 /\ IsFiniteSet(active[d])
  BY <1>1, <1>2, FS_Subset
<1>4. Cardinality(Device) \in Nat /\ Cardinality(active[d]) \in Nat
  BY <1>3, DeviceAssumption, FS_CardinalityType
<1>5. \A a, n \in Nat : a <= n - 1 => (a + 1) \div 2 \in Nat /\ (a + 1) \div 2 <= n \div 2
  OBVIOUS
<1> QED
  BY <1>3, <1>4, <1>5 DEF Quorum

\* Two devices make half of the devices at least one.
LEMMA TwoDevices ==
  ASSUME NEW s \in Device, NEW d \in Neighbours(s)
  PROVE  1 <= Cardinality(Device) \div 2
<1> DEFINE Rest == (Device \ {s}) \ {d}
<1>1. IsFiniteSet(Device \ {s}) /\ Cardinality(Device \ {s}) = Cardinality(Device) - 1
  BY DeviceAssumption, FS_RemoveElement
<1>2. IsFiniteSet(Rest) /\ Cardinality(Rest) = Cardinality(Device \ {s}) - 1
  BY <1>1, FS_RemoveElement DEF Neighbours
<1>3. Cardinality(Device) \in Nat /\ Cardinality(Rest) \in Nat
  BY <1>2, DeviceAssumption, FS_CardinalityType
<1> QED
  BY <1>1, <1>2, <1>3

\* A quorum of votes and the device's own make more than half of the device and
\* its ACTIVE neighbours, and one vote less does not.
THEOREM QuorumIsMajority ==
  ASSUME TypeOK, NEW d \in Device
  PROVE  LET members == Cardinality(active[d]) + 1 IN
         /\ 2 * (Quorum(d) + 1) > members
         /\ 2 * Quorum(d) <= members
<1>1. \A a \in Nat : 2 * (((a + 1) \div 2) + 1) > a + 1 /\ 2 * ((a + 1) \div 2) <= a + 1
  OBVIOUS
<1> QED
  BY <1>1, ActiveBound DEF Quorum

LEMMA VoteStep == TypeOK /\ VoteInv /\ [Next]_vars => VoteInv'
<1> SUFFICES ASSUME TypeOK, VoteInv, [Next]_vars
             PROVE  VoteInv'
  OBVIOUS
<1> DEFINE Half == Cardinality(Device) \div 2
<1>0. Cardinality(Device) \in Nat /\ Half \in Nat
  BY DeviceAssumption, FS_CardinalityType
<1> HIDE DEF Half
<1> USE DEF TypeOK, Neighbours, taskVars
<1>a. VoteInv <=>
        /\ \A d \in Device : count_of_vote[d] <= Half
        /\ \A d \in Device : counting[d] => count_of_vote[d] < Half
        /\ \A d \in Device : title[d] = "CANDIDATE" =>
             count_of_vote[d] = 0 \/ count_of_vote[d] < Half
  BY DEF VoteInv, VotesBounded, Half
<1>b. VoteInv' <=>
        /\ \A d \in Device : count_of_vote'[d] <= Half
        /\ \A d \in Device : counting'[d] => count_of_vote'[d] < Half
        /\ \A d \in Device : title'[d] = "CANDIDATE" =>
             count_of_vote'[d] = 0 \/ count_of_vote'[d] < Half
  BY DEF VoteInv, VotesBounded, Half
<1>1. ASSUME NEW d \in Device, Restart(d)
      PROVE  VoteInv'
  BY <1>0, <1>1, <1>a, <1>b DEF Restart
<1>2. ASSUME NEW d \in Device, CountVote(d)
      PROVE  VoteInv'
  <2>1. Quorum(d) \in Nat /\ Quorum(d) <= Half
    BY ActiveBound DEF Half
  <2>2. count_of_vote'[d] = count_of_vote[d] + 1 /\ count_of_vote[d] + 1 <= Half
    BY <1>0, <1>2, <1>a DEF CountVote
  <2>3. title'[d] # "MASTER" => count_of_vote'[d] < Half
    BY <1>0, <1>2, <2>1, <2>2 DEF CountVote
  <2>4. \A e \in Device : e # d => /\ count_of_vote'[e] = count_of_vote[e]
                                   /\ counting'[e] = counting[e]
                                   /\ title'[e] = title[e]
    BY <1>2 DEF CountVote
  <2>5. ~counting'[d]
    BY <1>2 DEF CountVote
  <2> QED
    BY <1>a, <1>b, <2>2, <2>3, <2>4, <2>5
<1>3. ASSUME NEW d \in Device, Stand(d)
      PROVE  VoteInv'
  <2>1. count_of_vote'[d] = 0
    BY <1>3 DEF Stand
  <2>2. \A e \in Device : e # d => count_of_vote'[e] = count_of_vote[e] /\ title'[e] = title[e]
    BY <1>3 DEF Stand
  <2>3. \A e \in Device : counting'[e] => counting[e]
    BY <1>3 DEF Stand
  <2>4. counting[d] => 0 < Half
    BY <1>0, <1>a
  <2>5. ASSUME NEW e \in Device
        PROVE  /\ count_of_vote'[e] <= Half
               /\ counting'[e] => count_of_vote'[e] < Half
               /\ title'[e] = "CANDIDATE" => count_of_vote'[e] = 0 \/ count_of_vote'[e] < Half
    <3>1. CASE e = d
      BY <1>0, <2>1, <2>3, <2>4, <3>1
    <3>2. CASE e # d
      BY <1>a, <2>2, <2>3, <3>2
    <3> QED
      BY <3>1, <3>2
  <2> QED
    BY <1>b, <2>5
<1>4. ASSUME NEW s \in Device, NEW d \in Neighbours(s), ReceiveGiveVote(s, d)
      PROVE  VoteInv'
  <2>1. 1 <= Half
    BY TwoDevices DEF Half
  <2>2. counting'[d] => title[d] = "CANDIDATE"
    BY <1>4 DEF ReceiveGiveVote
  <2>3. \A e \in Device : e # d => (counting'[e] => counting[e])
    BY <1>4 DEF ReceiveGiveVote
  <2>4. count_of_vote' = count_of_vote /\ title' = title
    BY <1>4 DEF ReceiveGiveVote
  <2> QED
    BY <1>0, <1>a, <1>b, <2>1, <2>2, <2>3, <2>4
<1>5. ASSUME count_of_vote' = count_of_vote, counting' = counting,
             \A d \in Device : title'[d] = "CANDIDATE" => title[d] = "CANDIDATE"
      PROVE  VoteInv'
  BY <1>5, <1>a, <1>b
<1>6. ASSUME NEW d \in Device,
             \/ Lapse(d) \/ BeginTime(d) \/ Expire(d) \/ StartWaiting(d) \/ Decided(d)
             \/ VoteTimeout(d) \/ GiveUp(d)
             \/ \E n \in Neighbours(d) : AskVote(d, n) \/ SendTime(d, n)
      PROVE  VoteInv'
  BY <1>5, <1>6 DEF Lapse, BeginTime, Expire, StartWaiting, Decided, VoteTimeout, GiveUp,
                    AskVote, SendTime
<1>7. ASSUME NEW s \in Device, NEW d \in Neighbours(s),
             \/ ReceiveTime(s, d) \/ ReceiveRequestVote(s, d) \/ ReceiveOther(s, d)
             \/ MarkInactive(s, d) \/ SendOther(s, d) \/ Lose(s, d)
      PROVE  VoteInv'
  BY <1>5, <1>7 DEF ReceiveTime, ReceiveRequestVote, ReceiveOther, MarkInactive, SendOther, Lose
<1>8. CASE UNCHANGED vars
  BY <1>5, <1>8 DEF vars
<1> QED
  BY <1>1, <1>2, <1>3, <1>4, <1>6, <1>7, <1>8 DEF Next, VoteTask, TimeTask, Receive

\* However many campaigns, late answers and changes of the neighbour table, the
\* counter never passes half the devices.
THEOREM VotesStayBounded == Spec => []VotesBounded
<1>1. Init => VoteInv
  <2>1. Cardinality(Device) \in Nat
    BY DeviceAssumption, FS_CardinalityType
  <2> QED
    BY <2>1 DEF Init, VoteInv, VotesBounded
<1>2. VoteInv => VotesBounded
  BY DEF VoteInv
<1> QED
  BY <1>1, <1>2, TypeCorrect, VoteStep, PTL DEF Spec

-------------------------------------------------------------------------------
(* Epoch numbers *)

FramesUpTo(ch, e) ==
  \A s, d \in Device : \A i \in 1..Len(ch[s][d]) : ch[s][d][i].epoch <= e

\* No frame, no device and no vote task that is about to increment knows an epoch
\* beyond the number of campaigns begun.
EpochInv ==
  /\ EpochsEarned
  /\ \A d \in Device : votePc[d] = "stand" => loaded[d] < spent["campaigns"]
  /\ FramesUpTo(chan, spent["campaigns"])

LEMMA SendUpTo ==
  ASSUME NEW ch \in Channels, NEW s \in Device, NEW d \in Device, NEW m \in Message,
         NEW e \in Nat, FramesUpTo(ch, e), m.epoch <= e
  PROVE  FramesUpTo(Send(ch, s, d, m), e)
<1> DEFINE q == ch[s][d]
<1>1. q \in Seq(Message)
  BY DEF Channels
<1>2. \A i \in 1..Len(Append(q, m)) : Append(q, m)[i].epoch <= e
  BY <1>1 DEF FramesUpTo
<1> QED
  BY <1>2 DEF FramesUpTo, Send, Channels

LEMMA TakeUpTo ==
  ASSUME NEW ch \in Channels, NEW s \in Device, NEW d \in Device, ch[s][d] # <<>>,
         NEW e \in Nat, FramesUpTo(ch, e)
  PROVE  /\ FramesUpTo(Take(ch, s, d), e)
         /\ Head(ch[s][d]).epoch <= e
<1> DEFINE q == ch[s][d]
<1>1. q \in Seq(Message) /\ q # <<>>
  BY DEF Channels
<1>2. \A i \in 1..Len(Tail(q)) : Tail(q)[i].epoch <= e
  BY <1>1 DEF FramesUpTo
<1>3. Head(q).epoch <= e
  BY <1>1 DEF FramesUpTo
<1> QED
  BY <1>2, <1>3 DEF FramesUpTo, Take, Channels

LEMMA FramesGrow ==
  ASSUME NEW ch \in Channels, NEW e \in Nat, NEW f \in Nat, e <= f, FramesUpTo(ch, e)
  PROVE  FramesUpTo(ch, f)
<1> SUFFICES ASSUME NEW s \in Device, NEW d \in Device, NEW i \in 1..Len(ch[s][d])
             PROVE  ch[s][d][i].epoch <= f
  BY DEF FramesUpTo
<1>1. ch[s][d] \in Seq(Message)
  BY DEF Channels
<1>2. ch[s][d][i] \in Message
  BY <1>1
<1>3. ch[s][d][i].epoch \in Nat
  BY <1>2 DEF Message
<1> QED
  BY <1>3 DEF FramesUpTo

LEMMA ClearUpTo ==
  ASSUME NEW ch \in Channels, NEW d \in Device, NEW e \in Nat, FramesUpTo(ch, e)
  PROVE  FramesUpTo([s \in Device |->
                       IF s = d THEN ch[s] ELSE [ch[s] EXCEPT ![d] = <<>>]], e)
<1> DEFINE new == [s \in Device |->
                     IF s = d THEN ch[s] ELSE [ch[s] EXCEPT ![d] = <<>>]]
<1>1. \A s, r \in Device : new[s][r] = <<>> \/ new[s][r] = ch[s][r]
  BY DEF Channels
<1> HIDE DEF new
<1>2. \A s, r \in Device : \A i \in 1..Len(new[s][r]) : new[s][r][i].epoch <= e
  BY <1>1 DEF FramesUpTo
<1> QED
  BY <1>2 DEF FramesUpTo, new

LEMMA EpochStep == TypeOK /\ EpochInv /\ [Next]_vars => EpochInv'
<1> SUFFICES ASSUME TypeOK, EpochInv, [Next]_vars
             PROVE  EpochInv'
  OBVIOUS
<1> DEFINE C == spent["campaigns"]
<1>0. /\ C \in Nat
      /\ chan \in Channels
      /\ \A d \in Device : epoch_id[d] \in Nat /\ loaded[d] \in Nat
  BY DEF TypeOK, Channels, Expense
<1>a. /\ \A d \in Device : epoch_id[d] <= C
      /\ \A d \in Device : votePc[d] = "stand" => loaded[d] < C
      /\ FramesUpTo(chan, C)
  BY DEF EpochInv, EpochsEarned
<1>b. ASSUME C' \in Nat, C <= C',
             \A d \in Device : epoch_id'[d] <= C',
             \A d \in Device : votePc'[d] = "stand" => loaded'[d] < C',
             FramesUpTo(chan', C')
      PROVE  EpochInv'
  BY <1>b DEF EpochInv, EpochsEarned
<1> USE DEF TypeOK, Neighbours, taskVars, Spend, Expense
<1>1. ASSUME NEW d \in Device, Restart(d)
      PROVE  EpochInv'
  <2>1. C' = C /\ \A e \in Device : epoch_id'[e] <= C
    BY <1>0, <1>1, <1>a DEF Restart
  <2>2. \A e \in Device : votePc'[e] = "stand" => loaded'[e] < C
    BY <1>1, <1>a DEF Restart
  <2>3. chan' = [s \in Device |->
                   IF s = d THEN chan[s] ELSE [chan[s] EXCEPT ![d] = <<>>]]
    BY <1>1 DEF Restart
  <2>4. FramesUpTo(chan', C)
    BY ONLY <1>0, <1>a, <2>3, ClearUpTo
  <2> QED
    BY <1>0, <1>b, <2>1, <2>2, <2>4
<1>2. ASSUME NEW d \in Device, Expire(d)
      PROVE  EpochInv'
  <2>1. C' = C + 1 /\ chan' = chan /\ epoch_id' = epoch_id
    BY <1>2 DEF Expire
  <2>2. \A e \in Device : votePc'[e] = "stand" => loaded'[e] < C'
    BY <1>0, <1>2, <1>a, <2>1 DEF Expire
  <2>3. FramesUpTo(chan', C')
    BY <1>0, <1>a, <2>1, FramesGrow
  <2> QED
    BY <1>0, <1>a, <1>b, <2>1, <2>2, <2>3
<1>3. ASSUME NEW d \in Device, Stand(d)
      PROVE  EpochInv'
  <2>1. C' = C /\ chan' = chan
    BY <1>3 DEF Stand
  <2>2. \A e \in Device : epoch_id'[e] <= C
    BY <1>0, <1>3, <1>a DEF Stand
  <2>3. \A e \in Device : votePc'[e] = "stand" => loaded'[e] < C
    BY <1>3, <1>a DEF Stand
  <2> QED
    BY <1>0, <1>a, <1>b, <2>1, <2>2, <2>3
<1>4. ASSUME NEW d \in Device,
             StartWaiting(d) \/ Decided(d) \/ VoteTimeout(d) \/ GiveUp(d) \/ CountVote(d)
               \/ Lapse(d) \/ BeginTime(d)
      PROVE  EpochInv'
  <2>1. C' = C /\ chan' = chan /\ epoch_id' = epoch_id /\ loaded' = loaded
    BY <1>4 DEF StartWaiting, Decided, VoteTimeout, GiveUp, CountVote, Lapse, BeginTime
  <2>2. \A e \in Device : votePc'[e] = "stand" => votePc[e] = "stand"
    BY <1>4 DEF StartWaiting, Decided, VoteTimeout, GiveUp, CountVote, Lapse, BeginTime
  <2> QED
    BY <1>0, <1>a, <1>b, <2>1, <2>2
<1>5. ASSUME NEW d \in Device, NEW n \in Neighbours(d), AskVote(d, n) \/ SendTime(d, n)
      PROVE  EpochInv'
  <2>1. C' = C /\ epoch_id' = epoch_id /\ loaded' = loaded /\ votePc' = votePc
    BY <1>5 DEF AskVote, SendTime
  <2>2. FramesUpTo(chan', C)
    <3>1. ASSUME NEW k \in Kind
          PROVE  FramesUpTo(Send(chan, d, n, [kind |-> k, epoch |-> epoch_id[d]]), C)
      BY <1>0, <1>a, MessageOf, SendUpTo
    <3> QED
      BY <1>5, <1>a, <3>1 DEF AskVote, SendTime, Kind
  <2> QED
    BY <1>0, <1>a, <1>b, <2>1, <2>2
<1>6. ASSUME NEW s \in Device, NEW d \in Neighbours(s), chan[s][d] # <<>>
      PROVE  /\ Take(chan, s, d) \in Channels
             /\ FramesUpTo(Take(chan, s, d), C)
             /\ SeenEpoch(s, d) \in Nat
             /\ SeenEpoch(s, d) <= C
             /\ \A k \in Kind : FramesUpTo(
                  Send(Take(chan, s, d), d, s, [kind |-> k, epoch |-> SeenEpoch(s, d)]), C)
  <2>1. Take(chan, s, d) \in Channels /\ SeenEpoch(s, d) \in Nat
    BY <1>0, <1>6, TakeType, SeenEpochType
  <2>2. FramesUpTo(Take(chan, s, d), C) /\ Head(chan[s][d]).epoch <= C
    BY <1>0, <1>6, <1>a, TakeUpTo
  <2>3. SeenEpoch(s, d) <= C
    BY <1>a, <2>2 DEF SeenEpoch, AdoptEpoch
  <2> QED
    BY <1>0, <2>1, <2>2, <2>3, MessageOf, SendUpTo
<1>7. ASSUME NEW s \in Device, NEW d \in Neighbours(s),
             \/ ReceiveTime(s, d) \/ ReceiveRequestVote(s, d)
             \/ ReceiveGiveVote(s, d) \/ ReceiveOther(s, d)
      PROVE  EpochInv'
  <2>1. chan[s][d] # <<>>
    BY <1>7 DEF ReceiveTime, ReceiveRequestVote, ReceiveGiveVote, ReceiveOther, Arrived
  <2>2. C' = C /\ loaded' = loaded /\ votePc' = votePc
    BY <1>7 DEF ReceiveTime, ReceiveRequestVote, ReceiveGiveVote, ReceiveOther
  <2>3. epoch_id' = [epoch_id EXCEPT ![d] = SeenEpoch(s, d)]
    BY <1>7 DEF ReceiveTime, ReceiveRequestVote, ReceiveGiveVote, ReceiveOther
  <2>4. \A e \in Device : epoch_id'[e] <= C
    BY <1>6, <1>a, <2>1, <2>3
  <2>5. FramesUpTo(chan', C)
    <3>1. \/ chan' = Take(chan, s, d)
          \/ chan' = Send(Take(chan, s, d), d, s, [kind |-> "GIVE_VOTE", epoch |-> SeenEpoch(s, d)])
          \/ chan' = Send(Take(chan, s, d), d, s, [kind |-> "OTHER", epoch |-> SeenEpoch(s, d)])
      BY <1>7 DEF ReceiveTime, ReceiveRequestVote, ReceiveGiveVote, ReceiveOther
    <3>2. "GIVE_VOTE" \in Kind /\ "OTHER" \in Kind
      BY DEF Kind
    <3> QED
      BY <1>6, <2>1, <3>1, <3>2
  <2> QED
    BY <1>0, <1>a, <1>b, <2>2, <2>4, <2>5
<1>8. ASSUME NEW s \in Device, NEW d \in Neighbours(s), SendOther(s, d)
      PROVE  EpochInv'
  <2>1. C' = C /\ epoch_id' = epoch_id /\ loaded' = loaded /\ votePc' = votePc
    BY <1>8 DEF SendOther
  <2>2. FramesUpTo(chan', C)
    <3>1. [kind |-> "OTHER", epoch |-> epoch_id[s]] \in Message
      BY <1>0, MessageOf DEF Kind
    <3> QED
      BY <1>0, <1>8, <1>a, <3>1, SendUpTo DEF SendOther
  <2> QED
    BY <1>0, <1>a, <1>b, <2>1, <2>2
<1>9. ASSUME NEW s \in Device, NEW d \in Neighbours(s), MarkInactive(s, d) \/ Lose(s, d)
      PROVE  EpochInv'
  <2>1. C' = C /\ epoch_id' = epoch_id /\ loaded' = loaded /\ votePc' = votePc
    BY <1>9 DEF MarkInactive, Lose
  <2>2. FramesUpTo(chan', C)
    BY <1>6, <1>9, <1>a DEF MarkInactive, Lose
  <2> QED
    BY <1>0, <1>a, <1>b, <2>1, <2>2
<1>10. CASE UNCHANGED vars
  BY <1>0, <1>10, <1>a, <1>b DEF vars
<1> QED
  BY <1>1, <1>2, <1>3, <1>4, <1>5, <1>7, <1>8, <1>9, <1>10
     DEF Next, VoteTask, TimeTask, Receive

\* Epoch numbers never run ahead of the campaigns begun.
THEOREM EpochsAreEarned == Spec => []EpochsEarned
<1>1. Init => EpochInv
  BY DEF Init, EpochInv, EpochsEarned, FramesUpTo, Expense
<1>2. EpochInv => EpochsEarned
  BY DEF EpochInv
<1> QED
  BY <1>1, <1>2, TypeCorrect, EpochStep, PTL DEF Spec

-------------------------------------------------------------------------------
(* The role diagram *)

\* A step of one device that leaves the roles and the counters of the others.
LEMMA RoleMapping ==
  ASSUME TypeOK, NEW d \in Device,
         title' \in [Device -> Title], count_of_vote' \in [Device -> Nat],
         counting' \in [Device -> BOOLEAN],
         \A e \in Device : e # d => /\ RoleOf(e)' = RoleOf(e)
                                    /\ count_of_vote'[e] = count_of_vote[e],
         \/ RoleOf(d)' = "SLAVE"
         \/ RoleOf(d) = "SLAVE" /\ RoleOf(d)' = "CANDIDATE" /\ count_of_vote'[d] = 0
         \/ RoleOf(d) = "CANDIDATE" /\ count_of_vote'[d] > 0
              /\ RoleOf(d)' \in {"CANDIDATE", "MASTER"}
         \/ RoleOf(d)' = RoleOf(d) /\ count_of_vote'[d] = count_of_vote[d]
  PROVE  [Role!Next]_(Role!vars)
<1> DEFINE r == [e \in Device |-> RoleOf(e)]
           a == [e \in Device |-> count_of_vote[e] > 0]
<1>1. \A e \in Device : e # d => r'[e] = r[e] /\ (a'[e] = a[e])
  OBVIOUS
<1>2. r'[d] = RoleOf(d)' /\ r[d] = RoleOf(d) /\ a'[d] = (count_of_vote'[d] > 0)
  OBVIOUS
<1>3. r' = [r EXCEPT ![d] = RoleOf(d)'] /\ a' = [a EXCEPT ![d] = count_of_vote'[d] > 0]
  BY <1>1, <1>2
<1>4. CASE RoleOf(d)' = "SLAVE"
  <2>1. r' = [r EXCEPT ![d] = "SLAVE"]
    BY <1>3, <1>4
  <2>2. \E b \in BOOLEAN : a' = [a EXCEPT ![d] = b]
    <3>1. (count_of_vote'[d] > 0) \in BOOLEAN
      OBVIOUS
    <3> QED
      BY <1>3, <3>1
  <2>3. Role!Retreat(d)
    BY <2>1, <2>2 DEF Role!Retreat
  <2> QED
    BY <2>3 DEF Role!Next
<1>5. CASE RoleOf(d) = "SLAVE" /\ RoleOf(d)' = "CANDIDATE" /\ count_of_vote'[d] = 0
  <2>1. (count_of_vote'[d] > 0) = FALSE
    BY <1>5
  <2>2. r' = [r EXCEPT ![d] = "CANDIDATE"] /\ a' = [a EXCEPT ![d] = FALSE]
    BY <1>3, <1>5, <2>1
  <2>3. Role!Campaign(d)
    BY <1>2, <1>5, <2>2 DEF Role!Campaign
  <2> QED
    BY <2>3 DEF Role!Next
<1>6. CASE RoleOf(d) = "CANDIDATE" /\ count_of_vote'[d] > 0 /\ RoleOf(d)' = "CANDIDATE"
  <2>1. r' = r
    BY <1>1, <1>2, <1>6
  <2>2. Role!Answer(d)
    BY <1>2, <1>3, <1>6, <2>1 DEF Role!Answer
  <2> QED
    BY <2>2 DEF Role!Next
<1>7. CASE RoleOf(d) = "CANDIDATE" /\ count_of_vote'[d] > 0 /\ RoleOf(d)' = "MASTER"
  <2>1. Role!Win(d)
    BY <1>2, <1>3, <1>7 DEF Role!Win
  <2> QED
    BY <2>1 DEF Role!Next
<1>8. CASE RoleOf(d)' = RoleOf(d) /\ count_of_vote'[d] = count_of_vote[d]
  <2>1. r' = r /\ a' = a
    BY <1>1, <1>2, <1>8
  <2> QED
    BY <2>1 DEF Role!vars
<1> QED
  BY <1>4, <1>5, <1>6, <1>7, <1>8

LEMMA RoleStep ==
  TypeOK /\ TypeOK' /\ StandsAsSlave /\ [Next]_vars => [Role!Next]_(Role!vars)
<1> SUFFICES ASSUME TypeOK, TypeOK', StandsAsSlave, [Next]_vars
             PROVE  [Role!Next]_(Role!vars)
  OBVIOUS
<1>0. /\ title' \in [Device -> Title] /\ count_of_vote' \in [Device -> Nat]
      /\ counting' \in [Device -> BOOLEAN]
  BY DEF TypeOK
<1>a. /\ title \in [Device -> Title] /\ count_of_vote \in [Device -> Nat]
      /\ counting \in [Device -> BOOLEAN]
  BY DEF TypeOK
<1> USE DEF Neighbours, taskVars, RoleOf
<1>1. ASSUME NEW d \in Device, Restart(d)
      PROVE  [Role!Next]_(Role!vars)
  <2>1. \A e \in Device : e # d => RoleOf(e)' = RoleOf(e) /\ count_of_vote'[e] = count_of_vote[e]
    BY <1>1, <1>a DEF Restart
  <2>2. RoleOf(d)' = "SLAVE"
    BY <1>1, <1>a DEF Restart
  <2> QED
    BY <1>0, <2>1, <2>2, RoleMapping
<1>2. ASSUME NEW d \in Device, CountVote(d)
      PROVE  [Role!Next]_(Role!vars)
  <2>1. \A e \in Device : e # d => RoleOf(e)' = RoleOf(e) /\ count_of_vote'[e] = count_of_vote[e]
    BY <1>2, <1>a DEF CountVote
  <2>2. RoleOf(d) = "CANDIDATE" /\ RoleOf(d)' = title'[d] /\ count_of_vote'[d] > 0
    BY <1>2, <1>a DEF CountVote
  <2>3. title'[d] \in {"SLAVE", "CANDIDATE", "MASTER"}
    BY <1>0 DEF Title
  <2> QED
    BY <1>0, <2>1, <2>2, <2>3, RoleMapping
<1>3. ASSUME NEW d \in Device, Stand(d)
      PROVE  [Role!Next]_(Role!vars)
  <2>1. \A e \in Device : e # d => RoleOf(e)' = RoleOf(e) /\ count_of_vote'[e] = count_of_vote[e]
    BY <1>3, <1>a DEF Stand
  <2>2. RoleOf(d) = "SLAVE"
    BY <1>3 DEF Stand, StandsAsSlave
  <2>3. RoleOf(d)' = "CANDIDATE" /\ count_of_vote'[d] = 0
    BY <1>3, <1>a DEF Stand
  <2> QED
    BY <1>0, <2>1, <2>2, <2>3, RoleMapping
<1>4. ASSUME NEW d \in Device, GiveUp(d)
      PROVE  [Role!Next]_(Role!vars)
  <2>1. \A e \in Device : e # d => RoleOf(e)' = RoleOf(e) /\ count_of_vote'[e] = count_of_vote[e]
    BY <1>4, <1>a DEF GiveUp
  <2>2. count_of_vote' = count_of_vote /\ (RoleOf(d)' = "SLAVE" \/ RoleOf(d)' = RoleOf(d))
    BY <1>4, <1>a DEF GiveUp
  <2> QED
    BY <1>0, <2>1, <2>2, RoleMapping
<1>5. ASSUME NEW s \in Device, NEW d \in Neighbours(s), ReceiveTime(s, d)
      PROVE  [Role!Next]_(Role!vars)
  <2>1. \A e \in Device : e # d => RoleOf(e)' = RoleOf(e) /\ count_of_vote'[e] = count_of_vote[e]
    BY <1>5, <1>a DEF ReceiveTime
  <2>2. RoleOf(d)' = "SLAVE"
    BY <1>5, <1>a DEF ReceiveTime, Arrived
  <2> QED
    BY <1>0, <2>1, <2>2, RoleMapping
<1>6. ASSUME NEW s \in Device, NEW d \in Neighbours(s), ReceiveGiveVote(s, d)
      PROVE  [Role!Next]_(Role!vars)
  <2>1. \A e \in Device : RoleOf(e)' = RoleOf(e)
    BY <1>6, <1>a DEF ReceiveGiveVote, Arrived
  <2>2. count_of_vote' = count_of_vote
    BY <1>6 DEF ReceiveGiveVote
  <2> QED
    BY <1>0, <2>1, <2>2, RoleMapping
<1>7. ASSUME UNCHANGED <<title, count_of_vote, counting>>
      PROVE  [Role!Next]_(Role!vars)
  BY <1>7 DEF Role!vars
<1>8. ASSUME NEW d \in Device,
             \/ Lapse(d) \/ BeginTime(d) \/ Expire(d) \/ StartWaiting(d) \/ Decided(d)
             \/ VoteTimeout(d) \/ \E n \in Neighbours(d) : AskVote(d, n) \/ SendTime(d, n)
      PROVE  [Role!Next]_(Role!vars)
  BY <1>7, <1>8 DEF Lapse, BeginTime, Expire, StartWaiting, Decided, VoteTimeout,
                    AskVote, SendTime
<1>9. ASSUME NEW s \in Device, NEW d \in Neighbours(s),
             \/ ReceiveRequestVote(s, d) \/ ReceiveOther(s, d)
             \/ MarkInactive(s, d) \/ SendOther(s, d) \/ Lose(s, d)
      PROVE  [Role!Next]_(Role!vars)
  BY <1>7, <1>9 DEF ReceiveRequestVote, ReceiveOther, MarkInactive, SendOther, Lose
<1>10. CASE UNCHANGED vars
  BY <1>7, <1>10 DEF vars
<1> QED
  BY <1>1, <1>2, <1>3, <1>4, <1>5, <1>6, <1>8, <1>9, <1>10
     DEF Next, VoteTask, TimeTask, Receive

\* Every device follows the role diagram: Election implements Roles.
THEOREM ElectionImplementsRoles == Spec => RoleDiagram
<1>1. Init => Role!Init
  <2>1. Init => \A d \in Device : RoleOf(d) = "SLAVE" /\ (count_of_vote[d] > 0) = FALSE
    BY DEF Init, RoleOf
  <2> QED
    BY <2>1 DEF Role!Init
<1>2. CandidacyInv => StandsAsSlave
  BY DEF CandidacyInv
<1> QED
  BY <1>1, <1>2, TypeCorrect, CandidacyInvariant, RoleStep, PTL DEF Spec, RoleDiagram, Role!Spec

-------------------------------------------------------------------------------
(* What the role diagram promises *)

\* In every behaviour of the role diagram whoever leads has been answered by
\* another device in the campaign that made it leader.
THEOREM AnsweredLeaders == Role!Spec => [](Role!TypeOK /\ Role!NobodyLeadsAlone)
<1> DEFINE Inv == Role!TypeOK /\ Role!NobodyLeadsAlone
<1>1. Role!Init => Inv
  BY DEF Role!Init, Role!TypeOK, Role!NobodyLeadsAlone
<1>2. Inv /\ [Role!Next]_(Role!vars) => Inv'
  <2> SUFFICES ASSUME Inv, [Role!Next]_(Role!vars)
               PROVE  Inv'
    OBVIOUS
  <2> USE DEF Role!TypeOK, Role!NobodyLeadsAlone
  <2>1. ASSUME NEW d \in Device, Role!Campaign(d)
        PROVE  Inv'
    BY <2>1 DEF Role!Campaign
  <2>2. ASSUME NEW d \in Device, Role!Answer(d)
        PROVE  Inv'
    BY <2>2 DEF Role!Answer
  <2>3. ASSUME NEW d \in Device, Role!Win(d)
        PROVE  Inv'
    BY <2>3 DEF Role!Win
  <2>4. ASSUME NEW d \in Device, Role!Retreat(d)
        PROVE  Inv'
    BY <2>4 DEF Role!Retreat
  <2>5. CASE UNCHANGED Role!vars
    BY <2>5 DEF Role!vars
  <2> QED
    BY <2>1, <2>2, <2>3, <2>4, <2>5 DEF Role!Next
<1> QED
  BY <1>1, <1>2, PTL DEF Role!Spec

\* So every device that leads has an answer: with no vote but its own nobody
\* becomes MASTER.
THEOREM LeadersWereAnswered == Spec => []Role!NobodyLeadsAlone
<1> QED
  BY ElectionImplementsRoles, AnsweredLeaders, PTL DEF RoleDiagram
===============================================================================
