---------------------------- MODULE TimeSyncProofs ---------------------------
(***************************************************************************)
(* Theorems about TimeSync, for every set of devices, every length of      *)
(* rtt_balancer and every delay.                                           *)
(***************************************************************************)
EXTENDS TimeSync, FiniteSetTheorems, TLAPS

-------------------------------------------------------------------------------
(* The mean of rtt_balancer *)

LEMMA Quotient ==
  ASSUME NEW n \in Nat \ {0}, NEW total \in Nat, NEW lo \in Nat, NEW hi \in Nat,
         lo * n <= total, total <= hi * n
  PROVE  total \div n \in lo .. hi
<1> DEFINE q == total \div n
<1>1. q \in Int /\ n * q <= total /\ total < n * q + n
  OBVIOUS
<1> HIDE DEF q
<1>2. q >= lo
  <2> SUFFICES ASSUME q + 1 <= lo PROVE FALSE
    BY <1>1
  <2>1. n * (q + 1) <= n * lo
    BY <1>1
  <2> QED
    BY <1>1, <2>1
<1>3. q <= hi
  <2> SUFFICES ASSUME hi + 1 <= q PROVE FALSE
    BY <1>1
  <2>1. n * (hi + 1) <= n * q
    BY <1>1
  <2> QED
    BY <1>1, <2>1
<1> QED
  BY <1>1, <1>2, <1>3 DEF q

\* The mean lies between any bounds of the samples.
LEMMA MeanWithin ==
  ASSUME NEW samples \in [Slots -> Nat], NEW lo \in Nat, NEW hi \in Nat,
         \A k \in Slots : lo <= samples[k] /\ samples[k] <= hi
  PROVE  get_rtt_avg(samples) \in lo .. hi
<1> DEFINE units == UNION {{k} \X (1 .. samples[k]) : k \in Slots}
<1>1. IsFiniteSet(Slots) /\ Cardinality(Slots) = BalancerSize
  BY FS_Interval, BalancerAssumption DEF Slots
<1>2. IsFiniteSet(1 .. lo) /\ Cardinality(1 .. lo) = lo
  BY FS_Interval
<1>3. IsFiniteSet(1 .. hi) /\ Cardinality(1 .. hi) = hi
  BY FS_Interval
<1>4. /\ IsFiniteSet(Slots \X (1 .. lo)) /\ IsFiniteSet(Slots \X (1 .. hi))
      /\ Cardinality(Slots \X (1 .. lo)) = BalancerSize * lo
      /\ Cardinality(Slots \X (1 .. hi)) = BalancerSize * hi
  BY <1>1, <1>2, <1>3, FS_Product
<1>5. units \in SUBSET (Slots \X (1 .. hi))
  OBVIOUS
<1>6. Slots \X (1 .. lo) \in SUBSET units
  OBVIOUS
<1>7. IsFiniteSet(units) /\ Cardinality(units) <= BalancerSize * hi
  BY <1>4, <1>5, FS_Subset
<1>8. BalancerSize * lo <= Cardinality(units)
  BY <1>4, <1>6, <1>7, FS_Subset
<1>9. Cardinality(units) \in Nat
  BY <1>7, FS_CardinalityType
<1> HIDE DEF units
<1>10. Cardinality(units) \div BalancerSize \in lo .. hi
  BY <1>7, <1>8, <1>9, BalancerAssumption, Quotient
<1> QED
  BY <1>10 DEF get_rtt_avg, Total, units

-------------------------------------------------------------------------------
(* What frames and events are known to be *)

\* Longest half of a round trip.
Slowest == MaxDelay + MaxWait \div 2

\* The device that has read its timer into a calibration frame still runs on that
\* timer, or has lost power since and not come back.
Measuring(d, f) ==
  IF up[d] THEN boot[d] = f.origin ELSE f.content + f.origin <= boot[d]

Genuine(f) ==
  /\ f.type = "RTT_CAL_MASTER" =>
       f.sent = f.content + f.origin /\ Measuring(f.from, f)
  /\ f.type = "RTT_CAL_SLAVE" =>
       /\ f.content + f.origin + MinDelay <= f.sent
       /\ f.sent <= f.content + f.origin + MaxDelay + MaxWait
       /\ Measuring(f.to, f)
  /\ f.type = "RTT" => f.content \in PossibleRtt
  /\ f.type = "TIME" => f.sent = f.content + f.origin

Flying(f) == f.sent <= now /\ now <= f.sent + MaxDelay /\ Genuine(f)

\* The stamp tells when the callback was called.
Waiting(d, e) ==
  /\ e.frame.to = d
  /\ Genuine(e.frame)
  /\ e.frame.sent + MinDelay <= e.stamp + boot[d]
  /\ e.stamp + boot[d] <= e.frame.sent + MaxDelay
  /\ e.stamp + boot[d] <= now /\ now <= e.stamp + boot[d] + MaxWait

Frames == \A f \in air : Flying(f)
Events == \A d \in Device : \A n \in DOMAIN queue[d] : Waiting(d, queue[d][n])
Off == \A d \in Device : ~up[d] => queue[d] = <<>> /\ ~synced[d] /\ title[d] = "SLAVE"
Samples ==
  \A d \in Device : \A k \in Slots :
    IF fresh[d] THEN ring[d][k] = 0 ELSE ring[d][k] \in PossibleRtt

\* The inductive invariant.
RadioInv == TypeOK /\ Frames /\ Events /\ Off /\ Samples

LEMMA Halves ==
  /\ PossibleRtt \subseteq Nat
  /\ Slowest \in Nat /\ Slowest <= MaxDelay + MaxWait
  /\ PossibleRtt = MinDelay .. Slowest
BY DelayAssumption DEF PossibleRtt, Slowest

LEMMA AppendElements ==
  ASSUME NEW S, NEW q \in Seq(S), NEW x \in S
  PROVE  /\ Append(q, x) \in Seq(S)
         /\ \A n \in DOMAIN Append(q, x) :
              \/ n \in DOMAIN q /\ Append(q, x)[n] = q[n]
              \/ Append(q, x)[n] = x
OBVIOUS

LEMMA TailElements ==
  ASSUME NEW S, NEW q \in Seq(S), q # <<>>
  PROVE  /\ Head(q) \in S /\ Tail(q) \in Seq(S)
         /\ 1 \in DOMAIN q /\ Head(q) = q[1]
         /\ \A n \in DOMAIN Tail(q) : n + 1 \in DOMAIN q /\ Tail(q)[n] = q[n + 1]
OBVIOUS

LEMMA FirstElement ==
  ASSUME NEW S, NEW q \in Seq(S), Len(q) = 1
  PROVE  q[1] \in S
<1>1. 1 \in DOMAIN q /\ q \in [DOMAIN q -> S]
  OBVIOUS
<1> QED
  BY <1>1

\* The event the handler takes is one that waits.
LEMMA HeadWaits ==
  ASSUME RadioInv, NEW d \in Device, queue[d] # <<>>
  PROVE  /\ Head(queue[d]) \in Entry /\ Waiting(d, Head(queue[d]))
         /\ up[d] /\ boot[d] \in Int /\ now \in Int
<1>1. queue[d] \in Seq(Entry)
  BY DEF RadioInv, TypeOK
<1>2. Head(queue[d]) \in Entry /\ 1 \in DOMAIN queue[d] /\ Head(queue[d]) = queue[d][1]
  BY <1>1, TailElements
<1> QED
  BY <1>2, HorizonAssumption DEF RadioInv, Events, Off, TypeOK

LEMMA EntryType ==
  ASSUME NEW e \in Entry
  PROVE  /\ e.stamp \in Int /\ e.frame \in Frame
         /\ e.frame.content \in Int /\ e.frame.origin \in Int /\ e.frame.sent \in Int
         /\ e.frame.from \in Device /\ e.frame.to \in Device
BY DEF Entry, Frame

\* A step that only takes an event leaves events that wait.
LEMMA TakeEvent ==
  ASSUME RadioInv, NEW d \in Device, queue[d] # <<>>, Taken(d),
         now' = now, up' = up, boot' = boot
  PROVE  Events' /\ queue' \in [Device -> Seq(Entry)]
<1>1. queue[d] \in Seq(Entry) /\ queue \in [Device -> Seq(Entry)]
  BY DEF RadioInv, TypeOK
<1>2. queue' \in [Device -> Seq(Entry)]
  BY <1>1, TailElements DEF Taken
<1>3. ASSUME NEW r \in Device, NEW n \in DOMAIN queue'[r]
      PROVE  \E m \in DOMAIN queue[r] : queue'[r][n] = queue[r][m]
  BY <1>1, <1>3, TailElements DEF Taken
<1>4. \A r \in Device : \A e : Waiting(r, e) => Waiting(r, e)'
  BY DEF Waiting, Genuine, Measuring
<1> QED
  BY <1>2, <1>3, <1>4 DEF Events, RadioInv

\* A step that sends one frame.
LEMMA SendFrame ==
  ASSUME Frames, NEW f, air' \subseteq air \union {f}, Flying(f),
         now' = now, up' = up, boot' = boot
  PROVE  Frames'
<1>1. \A g : Flying(g) => Flying(g)'
  BY DEF Flying, Genuine, Measuring
<1> QED
  BY <1>1 DEF Frames

LEMMA SameEvents ==
  ASSUME Events, UNCHANGED <<now, up, boot, queue>>
  PROVE  Events'
BY DEF Events, Waiting, Genuine, Measuring

LEMMA SameFrames ==
  ASSUME Frames, UNCHANGED <<now, up, boot, air>>
  PROVE  Frames'
BY DEF Frames, Flying, Genuine, Measuring

LEMMA SentFrame ==
  ASSUME TypeOK, NEW type \in Kind, NEW from \in Device, NEW to \in Device,
         NEW content \in Int, NEW origin \in Int
  PROVE  /\ Made(type, from, to, content, origin) \in Frame
         /\ Made(type, from, to, content, origin).type = type
         /\ Made(type, from, to, content, origin).from = from
         /\ Made(type, from, to, content, origin).to = to
         /\ Made(type, from, to, content, origin).content = content
         /\ Made(type, from, to, content, origin).origin = origin
         /\ Made(type, from, to, content, origin).sent = now
BY HorizonAssumption DEF Made, Frame, TypeOK

\* The estimate of the delay: zero without samples.
LEMMA MeanOfSamples ==
  ASSUME TypeOK, Samples, NEW d \in Device
  PROVE  /\ get_rtt_avg(ring[d]) \in Int
         /\ fresh[d] => get_rtt_avg(ring[d]) = 0
         /\ ~fresh[d] => get_rtt_avg(ring[d]) \in MinDelay .. Slowest
<1>1. ring[d] \in [Slots -> Nat]
  BY DEF TypeOK
<1>2. CASE fresh[d]
  <2>1. \A k \in Slots : 0 <= ring[d][k] /\ ring[d][k] <= 0
    BY <1>2 DEF Samples
  <2>2. get_rtt_avg(ring[d]) \in 0 .. 0
    BY <1>1, <2>1, MeanWithin
  <2> QED
    BY <1>2, <2>2
<1>3. CASE ~fresh[d]
  <2>1. \A k \in Slots : MinDelay <= ring[d][k] /\ ring[d][k] <= Slowest
    BY <1>3, Halves, DelayAssumption DEF Samples
  <2>2. get_rtt_avg(ring[d]) \in MinDelay .. Slowest
    BY <1>1, <2>1, MeanWithin, Halves, DelayAssumption
  <2> QED
    BY <1>3, <2>2, Halves, DelayAssumption
<1> QED
  BY <1>2, <1>3

-------------------------------------------------------------------------------
(* The invariant is inductive *)

LEMMA RadioInit == Init => RadioInv
<1> SUFFICES ASSUME Init PROVE RadioInv
  OBVIOUS
<1> USE DEF Init, ClocksInit
<1>1. TypeOK
  BY StartsAssumption, BalancerAssumption, HorizonAssumption DEF TypeOK, Slots
<1>2. Frames /\ Events /\ Off
  BY DEF Frames, Events, Off
<1>3. Samples
  BY DEF Samples
<1> QED
  BY <1>1, <1>2, <1>3 DEF RadioInv

LEMMA RadioStep == RadioInv /\ [Next]_vars => RadioInv'
<1> SUFFICES ASSUME RadioInv, [Next]_vars
             PROVE  RadioInv'
  OBVIOUS
<1>0. TypeOK /\ Frames /\ Events /\ Off /\ Samples
  BY DEF RadioInv
<1> USE DEF sessionVars, clocksVars, clockVars, rttVars, radioVars
<1>1. ASSUME NEW d \in Device, Elected(d)
      PROVE  RadioInv'
  <2>1. Frames' /\ Events' /\ Samples'
    BY <1>0, <1>1, SameFrames, SameEvents DEF Elected, Samples
  <2>2. TypeOK' /\ Off'
    BY <1>0, <1>1 DEF Elected, TypeOK, Off
  <2> QED
    BY <2>1, <2>2 DEF RadioInv
<1>2. ASSUME NEW d \in Device, NEW r \in Device \ {d}, Calibrate(d, r)
      PROVE  RadioInv'
  <2> DEFINE f == Made("RTT_CAL_MASTER", d, r, Timer(d), boot[d])
  <2>1. boot[d] \in Int /\ now \in Int /\ Timer(d) \in Int /\ Timer(d) = now - boot[d]
    BY <1>0, HorizonAssumption DEF TypeOK, Timer
  <2>2. /\ f \in Frame /\ f.type = "RTT_CAL_MASTER" /\ f.from = d /\ f.sent = now
        /\ f.content = Timer(d) /\ f.origin = boot[d]
    BY <1>0, <2>1, SentFrame DEF Kind
  <2>3. up[d] /\ air' = air \union {f} /\ UNCHANGED <<now, up, boot, queue>>
    BY <1>2 DEF Calibrate, SendRttCal
  <2> HIDE DEF f
  <2>4. Flying(f)
    BY <2>1, <2>2, <2>3, DelayAssumption DEF Flying, Genuine, Measuring
  <2>5. Frames' /\ Events'
    BY <1>0, <2>3, <2>4, SendFrame, SameEvents
  <2>6. TypeOK' /\ Off' /\ Samples'
    BY <1>0, <1>2, <2>2, <2>3 DEF Calibrate, SendRttCal, TypeOK, Off, Samples
  <2> QED
    BY <2>5, <2>6 DEF RadioInv
<1>3. ASSUME NEW d \in Device, NEW r \in Device \ {d}, Announce(d, r)
      PROVE  RadioInv'
  <2> DEFINE f == Made("TIME", d, r, Timer(d), now - Timer(d))
  <2>1. boot[d] \in Int /\ now \in Int /\ Timer(d) \in Int /\ now - Timer(d) \in Int
    BY <1>0, HorizonAssumption DEF TypeOK, Timer
  <2>2. /\ f \in Frame /\ f.type = "TIME" /\ f.sent = now
        /\ f.content = Timer(d) /\ f.origin = now - Timer(d)
    BY <1>0, <2>1, SentFrame DEF Kind
  <2>3. air' = air \union {f} /\ UNCHANGED <<now, up, boot, queue>>
    BY <1>3 DEF Announce, SendTime
  <2> HIDE DEF f
  <2>4. Flying(f)
    BY <2>1, <2>2, DelayAssumption DEF Flying, Genuine
  <2>5. Frames' /\ Events'
    BY <1>0, <2>3, <2>4, SendFrame, SameEvents
  <2>6. TypeOK' /\ Off' /\ Samples'
    BY <1>0, <1>3, <2>2, <2>3 DEF Announce, SendTime, TypeOK, Off, Samples
  <2> QED
    BY <2>5, <2>6 DEF RadioInv
<1>4. ASSUME NEW d \in Device, Follow(d)
      PROVE  RadioInv'
  <2>1. /\ queue[d] # <<>> /\ Taken(d) /\ UNCHANGED <<now, up, boot, air, rttVars>>
        /\ StepClock(d) \/ SetClock(d)
        /\ title' = [title EXCEPT ![d] = "SLAVE"]
        /\ UNCHANGED <<reigns, failures>>
    BY <1>4 DEF Follow, TakeOverTime, Pending
  <2>2. Frames' /\ Events' /\ queue' \in [Device -> Seq(Entry)]
    BY <1>0, <2>1, SameFrames, TakeEvent
  <2>3. up[d] /\ Head(queue[d]).frame.content \in Int
    BY <2>1, HeadWaits, EntryType
  <2>4. get_rtt_avg(ring[d]) \in Int
    BY <1>0, Halves, MeanOfSamples
  <2>5. corr' \in [Device -> Int] /\ synced' \in [Device -> BOOLEAN]
    <3>1. Timer(d) \in Int /\ Correction(d) \in Int
      BY <1>0, DeviationAssumption, HorizonAssumption DEF Correction, Timer, TypeOK
    <3>2. ASSUME StepClock(d)
          PROVE  corr' \in [Device -> Int] /\ synced' \in [Device -> BOOLEAN]
      BY <1>0, <3>1, <3>2 DEF StepClock, TypeOK
    <3>3. ASSUME SetClock(d)
          PROVE  corr' \in [Device -> Int] /\ synced' \in [Device -> BOOLEAN]
      BY <1>0, <2>3, <2>4, <3>1, <3>3 DEF SetClock, TypeOK
    <3> QED
      BY <2>1, <3>2, <3>3
  <2>6. TypeOK' /\ Samples'
    BY <1>0, <2>1, <2>2, <2>5 DEF TypeOK, Samples
  <2>7. Off'
    BY <1>0, <2>1, <2>3 DEF Off, Taken, StepClock, SetClock, TypeOK
  <2> QED
    BY <2>2, <2>6, <2>7 DEF RadioInv
<1>5. ASSUME NEW d \in Device, AnswerRtt(d), UNCHANGED sessionVars
      PROVE  RadioInv'
  <2> DEFINE e == Head(queue[d])
             f == Made("RTT_CAL_SLAVE", d, e.frame.from, e.frame.content,
                       e.frame.origin)
  <2>1. /\ queue[d] # <<>> /\ e.frame.type = "RTT_CAL_MASTER" /\ Taken(d)
        /\ air' = air \union {f}
        /\ UNCHANGED <<now, up, boot, clockVars, rttVars>>
    BY <1>5 DEF AnswerRtt, Pending
  <2>0. e \in Entry /\ Waiting(d, e) /\ up[d] /\ boot[d] \in Int /\ now \in Int
    BY <2>1, HeadWaits
  <2>2. /\ Waiting(d, e) /\ up[d] /\ boot[d] \in Int /\ now \in Int
        /\ e.stamp \in Int
        /\ e.frame.content \in Int /\ e.frame.origin \in Int /\ e.frame.sent \in Int
        /\ e.frame.from \in Device
    BY <2>0, EntryType
  <2>3. /\ f \in Frame /\ f.type = "RTT_CAL_SLAVE" /\ f.to = e.frame.from
        /\ f.sent = now /\ f.content = e.frame.content /\ f.origin = e.frame.origin
    BY <1>0, <2>2, SentFrame DEF Kind
  <2> HIDE DEF e, f
  <2>4. /\ e.frame.sent = e.frame.content + e.frame.origin
        /\ Measuring(e.frame.from, e.frame)
        /\ e.frame.sent + MinDelay <= now
        /\ now <= e.frame.sent + MaxDelay + MaxWait
    <3>1. /\ e.frame.sent = e.frame.content + e.frame.origin
          /\ Measuring(e.frame.from, e.frame)
      BY <2>1, <2>2 DEF Waiting, Genuine
    <3>2. /\ e.frame.sent + MinDelay <= now
          /\ now <= e.frame.sent + MaxDelay + MaxWait
      BY <2>2, DelayAssumption DEF Waiting
    <3> QED
      BY <3>1, <3>2
  <2>5. Flying(f)
    BY <2>2, <2>3, <2>4, DelayAssumption DEF Flying, Genuine, Measuring
  <2>6. Frames' /\ Events' /\ queue' \in [Device -> Seq(Entry)]
    BY <1>0, <2>1, <2>5, SendFrame, TakeEvent DEF e
  <2>7. TypeOK' /\ Samples'
    BY <1>0, <1>5, <2>1, <2>3, <2>6 DEF TypeOK, Samples
  <2>8. Off'
    BY <1>0, <1>5, <2>1, <2>2 DEF Off, Taken, TypeOK
  <2> QED
    BY <2>6, <2>7, <2>8 DEF RadioInv
<1>6. ASSUME NEW d \in Device, ReturnRtt(d), UNCHANGED sessionVars
      PROVE  RadioInv'
  <2> DEFINE e == Head(queue[d])
             f == Made("RTT", d, e.frame.from, HalfTrip(e), 0)
  <2>1. /\ queue[d] # <<>> /\ e.frame.type = "RTT_CAL_SLAVE" /\ Taken(d)
        /\ air' = air \union {f}
        /\ UNCHANGED <<now, up, boot, clockVars, rttVars>>
    BY <1>6 DEF ReturnRtt, Pending
  <2>0. e \in Entry /\ Waiting(d, e) /\ up[d] /\ boot[d] \in Int /\ now \in Int
    BY <2>1, HeadWaits
  <2>2. /\ Waiting(d, e) /\ up[d] /\ boot[d] \in Int /\ now \in Int
        /\ e.stamp \in Int
        /\ e.frame.content \in Int /\ e.frame.origin \in Int /\ e.frame.sent \in Int
        /\ e.frame.from \in Device
    BY <2>0, EntryType
  <2>3. /\ e.frame.content + e.frame.origin + MinDelay <= e.frame.sent
        /\ e.frame.sent <= e.frame.content + e.frame.origin + MaxDelay + MaxWait
        /\ boot[d] = e.frame.origin
    BY <2>1, <2>2 DEF Waiting, Genuine, Measuring
  <2>4. /\ 2 * MinDelay <= e.stamp - e.frame.content
        /\ e.stamp - e.frame.content <= 2 * MaxDelay + MaxWait
    BY <2>2, <2>3, DelayAssumption DEF Waiting
  <2>5. HalfTrip(e) \in PossibleRtt
    BY <2>2, <2>4, DelayAssumption DEF HalfTrip, PossibleRtt
  <2>6. HalfTrip(e) \in Int
    BY <2>5, Halves
  <2>7. /\ f \in Frame /\ f.type = "RTT" /\ f.sent = now /\ f.content = HalfTrip(e)
    BY <1>0, <2>2, <2>6, SentFrame DEF Kind
  <2> HIDE DEF e, f
  <2>8. Flying(f)
    BY <2>2, <2>5, <2>7, DelayAssumption DEF Flying, Genuine
  <2>9. Frames' /\ Events' /\ queue' \in [Device -> Seq(Entry)]
    BY <1>0, <2>1, <2>8, SendFrame, TakeEvent DEF e
  <2>10. TypeOK' /\ Samples'
    BY <1>0, <1>6, <2>1, <2>7, <2>9 DEF TypeOK, Samples
  <2>11. Off'
    BY <1>0, <1>6, <2>1, <2>2 DEF Off, Taken, TypeOK
  <2> QED
    BY <2>9, <2>10, <2>11 DEF RadioInv
<1>7. ASSUME NEW d \in Device, SaveRtt(d), UNCHANGED sessionVars
      PROVE  RadioInv'
  <2> DEFINE value == Head(queue[d]).frame.content
  <2>1. /\ queue[d] # <<>> /\ Head(queue[d]).frame.type = "RTT" /\ Taken(d)
        /\ FillRing(d, value) \/ PutInRing(d, value)
        /\ UNCHANGED <<now, up, boot, clockVars, air>>
    BY <1>7 DEF SaveRtt, Pending
  <2>2. value \in PossibleRtt /\ value \in Nat /\ up[d]
    BY <2>1, HeadWaits, Halves DEF Waiting, Genuine
  <2>3. Frames' /\ Events' /\ queue' \in [Device -> Seq(Entry)]
    BY <1>0, <2>1, SameFrames, TakeEvent
  <2> HIDE DEF value
  <2>4. ASSUME FillRing(d, value)
        PROVE  /\ fresh' \in [Device -> BOOLEAN] /\ ring' \in [Device -> [Slots -> Nat]]
               /\ index' \in [Device -> Slots] /\ Samples'
    BY <1>0, <2>2, <2>4 DEF FillRing, TypeOK, Samples
  <2>5. ASSUME PutInRing(d, value)
        PROVE  /\ fresh' \in [Device -> BOOLEAN] /\ ring' \in [Device -> [Slots -> Nat]]
               /\ index' \in [Device -> Slots] /\ Samples'
    <3>1. fresh' \in [Device -> BOOLEAN] /\ ring' \in [Device -> [Slots -> Nat]]
      BY <1>0, <2>2, <2>5 DEF PutInRing, TypeOK
    <3>2. index' \in [Device -> Slots]
      BY <1>0, <2>5, BalancerAssumption DEF PutInRing, TypeOK, Slots
    <3>3. Samples'
      BY <1>0, <2>2, <2>5 DEF PutInRing, TypeOK, Samples
    <3> QED
      BY <3>1, <3>2, <3>3
  <2>6. /\ fresh' \in [Device -> BOOLEAN] /\ ring' \in [Device -> [Slots -> Nat]]
        /\ index' \in [Device -> Slots] /\ Samples'
    BY <2>1, <2>4, <2>5
  <2>7. TypeOK'
    BY <1>0, <1>7, <2>1, <2>3, <2>6 DEF TypeOK
  <2>8. Off'
    BY <1>0, <1>7, <2>1, <2>2 DEF Off, Taken, TypeOK
  <2> QED
    BY <2>3, <2>6, <2>7, <2>8 DEF RadioInv
<1>8. ASSUME NEW d \in Device, Press(d)
      PROVE  RadioInv'
  <2>1. Frames' /\ Events'
    BY <1>0, <1>8, SameFrames, SameEvents DEF Press
  <2>2. TypeOK' /\ Off' /\ Samples'
    BY <1>0, <1>8 DEF Press, TypeOK, Off, Samples
  <2> QED
    BY <2>1, <2>2 DEF RadioInv
<1>9. ASSUME NEW f \in air, Arrive(f), UNCHANGED sessionVars
      PROVE  RadioInv'
  <2> DEFINE e == [frame |-> f, stamp |-> Timer(f.to)]
             d == f.to
  <2>1. /\ up[d] /\ now >= f.sent + MinDelay /\ air' = air \ {f}
        /\ queue' = [queue EXCEPT ![d] = Append(@, e)]
        /\ UNCHANGED <<now, up, boot, clockVars, rttVars>>
    BY <1>9 DEF Arrive
  <2>2. /\ f \in Frame /\ Flying(f) /\ d \in Device /\ now \in Int /\ boot[d] \in Int
        /\ f.sent \in Int
    BY <1>0, HorizonAssumption DEF TypeOK, Frames, Frame
  <2>3. e \in Entry /\ e.frame = f /\ e.stamp + boot[d] = now
    BY <2>2 DEF Entry, Timer
  <2> HIDE DEF e
  <2>4. Waiting(d, e)
    BY <2>1, <2>2, <2>3, DelayAssumption DEF Waiting, Flying
  <2>5. Frames'
    BY <1>0, <2>1 DEF Frames, Flying, Genuine, Measuring
  <2>6. queue \in [Device -> Seq(Entry)]
    BY <1>0 DEF TypeOK
  <2> HIDE DEF d
  <2>7. /\ queue' \in [Device -> Seq(Entry)]
        /\ \A r \in Device : \A n \in DOMAIN queue'[r] :
             \/ n \in DOMAIN queue[r] /\ queue'[r][n] = queue[r][n]
             \/ r = d /\ queue'[r][n] = e
    BY <2>1, <2>2, <2>3, <2>6, AppendElements
  <2>8. \A r \in Device : \A x : Waiting(r, x) => Waiting(r, x)'
    BY <2>1 DEF Waiting, Genuine, Measuring
  <2>9. Events'
    BY <1>0, <2>4, <2>7, <2>8 DEF Events
  <2>10. TypeOK' /\ Samples'
    BY <1>0, <1>9, <2>1, <2>7 DEF TypeOK, Samples
  <2>11. Off'
    BY <1>0, <1>9, <2>1, <2>2 DEF Off, TypeOK
  <2> QED
    BY <2>5, <2>9, <2>10, <2>11 DEF RadioInv
<1>10. ASSUME NEW f \in air, Lose(f), UNCHANGED sessionVars
       PROVE  RadioInv'
  <2>1. Frames' /\ Events'
    BY <1>0, <1>10, SameEvents DEF Lose, Frames, Flying, Genuine, Measuring
  <2>2. TypeOK' /\ Off' /\ Samples'
    BY <1>0, <1>10 DEF Lose, TypeOK, Off, Samples
  <2> QED
    BY <2>1, <2>2 DEF RadioInv
<1>11. ASSUME NEW d \in Device, Fail(d)
       PROVE  RadioInv'
  <2>1. /\ up' = [up EXCEPT ![d] = FALSE] /\ boot' = [boot EXCEPT ![d] = now]
        /\ queue' = [queue EXCEPT ![d] = <<>>]
        /\ synced' = [synced EXCEPT ![d] = FALSE]
        /\ title' = [title EXCEPT ![d] = "SLAVE"]
        /\ fresh' = [fresh EXCEPT ![d] = TRUE]
        /\ ring' = [ring EXCEPT ![d] = [k \in Slots |-> 0]]
        /\ UNCHANGED <<now, air>>
    BY <1>11 DEF Fail, PowerLoss
  <2>2. now \in Int /\ boot \in [Device -> Int] /\ up \in [Device -> BOOLEAN]
    BY <1>0, HorizonAssumption DEF TypeOK
  <2>3. ASSUME NEW f \in Frame, Genuine(f), f.sent <= now
        PROVE  Genuine(f)'
    <3>1. f.sent \in Int /\ f.content \in Int /\ f.origin \in Int
      BY <2>3 DEF Frame
    <3>2. f.type \in {"RTT_CAL_MASTER", "RTT_CAL_SLAVE"} =>
            f.content + f.origin <= now
      BY <2>2, <2>3, <3>1, DelayAssumption DEF Genuine
    <3>3. \A r \in Device : Measuring(r, f) /\ f.content + f.origin <= now
                              => Measuring(r, f)'
      BY <2>1, <2>2 DEF Measuring
    <3>4. f.from \in Device /\ f.to \in Device
      BY DEF Frame
    <3> QED
      BY <2>3, <3>2, <3>3, <3>4 DEF Genuine
  <2>4. Frames'
    BY <1>0, <2>1, <2>3 DEF Frames, Flying, TypeOK
  <2>5. ASSUME NEW r \in Device, r # d, NEW e \in Entry, Waiting(r, e)
        PROVE  Waiting(r, e)'
    <3>1. boot'[r] = boot[r] /\ boot[r] \in Int
      BY <2>1, <2>2, <2>5
    <3>2. e.frame.sent <= now
      BY <2>2, <2>5, <3>1, EntryType, DelayAssumption DEF Waiting
    <3>3. Genuine(e.frame)'
      BY <2>3, <2>5, <3>2, EntryType DEF Waiting
    <3> QED
      BY <2>1, <2>5, <3>1, <3>3 DEF Waiting
  <2>6. Events'
    BY <1>0, <2>1, <2>5 DEF Events, TypeOK
  <2>7. Off'
    BY <1>0, <2>1 DEF Off, TypeOK
  <2>8. TypeOK'
    BY <1>0, <1>11, <2>2, BalancerAssumption DEF Fail, PowerLoss, TypeOK, Slots
  <2>9. Samples'
    BY <1>0, <2>1 DEF Samples, TypeOK
  <2> QED
    BY <2>4, <2>6, <2>7, <2>8, <2>9 DEF RadioInv
<1>12. ASSUME NEW d \in Device, Return(d)
       PROVE  RadioInv'
  <2>1. /\ ~up[d] /\ now >= boot[d] + BootTime
        /\ up' = [up EXCEPT ![d] = TRUE] /\ boot' = [boot EXCEPT ![d] = now]
        /\ UNCHANGED <<now, clockVars, rttVars, radioVars>>
        /\ UNCHANGED sessionVars
    BY <1>12 DEF Return, Boot
  <2>2. /\ now \in Int /\ boot \in [Device -> Int] /\ up \in [Device -> BOOLEAN]
        /\ queue[d] = <<>> /\ ~synced[d] /\ title[d] = "SLAVE"
    BY <1>0, <2>1, HorizonAssumption DEF TypeOK, Off
  <2>3. ASSUME NEW r \in Device, NEW f, Measuring(r, f),
               r = d => now < f.content + f.origin + BootTime,
               f.content \in Int, f.origin \in Int
        PROVE  Measuring(r, f)'
    BY <2>1, <2>2, <2>3, BootAssumption DEF Measuring
  <2>4. ASSUME NEW f \in air
        PROVE  Flying(f)'
    <3>1. /\ Flying(f) /\ f.content \in Int /\ f.origin \in Int /\ f.sent \in Int
          /\ f.from \in Device /\ f.to \in Device
      BY <1>0 DEF Frames, TypeOK, Frame
    <3>2. now <= f.sent + MaxDelay /\ f.sent <= now /\ Genuine(f)
      BY <3>1 DEF Flying
    <3>3. ASSUME f.type = "RTT_CAL_MASTER"
          PROVE  Measuring(f.from, f) /\ Measuring(f.from, f)'
      <4>1. f.sent = f.content + f.origin /\ Measuring(f.from, f)
        BY <3>2, <3>3 DEF Genuine
      <4>2. now < f.content + f.origin + BootTime
        BY <2>2, <3>1, <3>2, <4>1, DelayAssumption, BootAssumption
      <4> QED
        BY <2>3, <3>1, <4>1, <4>2
    <3>4. ASSUME f.type = "RTT_CAL_SLAVE"
          PROVE  Measuring(f.to, f) /\ Measuring(f.to, f)'
      <4>1. /\ f.sent <= f.content + f.origin + MaxDelay + MaxWait
            /\ Measuring(f.to, f)
        BY <3>2, <3>4 DEF Genuine
      <4>2. now < f.content + f.origin + BootTime
        BY <2>2, <3>1, <3>2, <4>1, DelayAssumption, BootAssumption
      <4> QED
        BY <2>3, <3>1, <4>1, <4>2
    <3>5. Genuine(f)'
      BY <3>2, <3>3, <3>4 DEF Genuine
    <3> QED
      BY <2>1, <3>2, <3>5 DEF Flying
  <2>5. Frames'
    BY <2>1, <2>4 DEF Frames
  <2>6. ASSUME NEW r \in Device, r # d, NEW e \in Entry, Waiting(r, e)
        PROVE  Waiting(r, e)'
    <3>1. boot'[r] = boot[r] /\ boot[r] \in Int
      BY <2>1, <2>2, <2>6
    <3>2. Genuine(e.frame) /\ e.frame.to = r /\ now <= e.frame.sent + MaxDelay + MaxWait
      BY <2>2, <2>6, <3>1, EntryType, DelayAssumption DEF Waiting
    <3>3. e.frame.type = "RTT_CAL_MASTER" =>
            now < e.frame.content + e.frame.origin + BootTime
      BY <2>2, <3>2, EntryType, DelayAssumption, BootAssumption DEF Genuine
    <3>4. Genuine(e.frame)'
      BY <2>3, <2>6, <3>2, <3>3, EntryType DEF Genuine
    <3> QED
      BY <2>1, <2>6, <3>1, <3>4 DEF Waiting
  <2>7. Events'
    <3>1. ASSUME NEW r \in Device, NEW n \in DOMAIN queue[r]
          PROVE  Waiting(r, queue[r][n])'
      <4>1. queue[r][n] \in Entry /\ Waiting(r, queue[r][n]) /\ r # d
        BY <1>0, <2>2, <3>1 DEF Events, TypeOK
      <4> QED
        BY <2>1, <2>6, <4>1
    <3> QED
      BY <2>1, <3>1 DEF Events
  <2>8. TypeOK' /\ Off' /\ Samples'
    BY <1>0, <2>1, <2>2 DEF TypeOK, Off, Samples
  <2> QED
    BY <2>5, <2>7, <2>8 DEF RadioInv
<1>13. ASSUME Passing
       PROVE  RadioInv'
  <2>1. /\ now < Horizon /\ now' = now + 1
        /\ \A f \in air : now < f.sent + MaxDelay
        /\ \A d \in Device : \A n \in DOMAIN queue[d] :
             Timer(d) < queue[d][n].stamp + MaxWait
        /\ UNCHANGED <<up, boot, clockVars, rttVars, radioVars, sessionVars>>
    BY <1>13 DEF Passing, Tick
  <2>2. now \in Int /\ boot \in [Device -> Int]
    BY <1>0, HorizonAssumption DEF TypeOK
  <2>3. ASSUME NEW f \in air
        PROVE  Flying(f)'
    <3>1. Flying(f) /\ f.sent \in Int
      BY <1>0 DEF Frames, TypeOK, Frame
    <3>2. Genuine(f)'
      BY <2>1, <3>1 DEF Flying, Genuine, Measuring
    <3> QED
      BY <2>1, <2>2, <3>1, <3>2, DelayAssumption DEF Flying
  <2>4. ASSUME NEW d \in Device, NEW n \in DOMAIN queue[d]
        PROVE  Waiting(d, queue[d][n])'
    <3>1. queue[d][n] \in Entry /\ Waiting(d, queue[d][n])
      BY <1>0, <2>4 DEF Events, TypeOK
    <3>2. queue[d][n].stamp \in Int /\ boot[d] \in Int
      BY <2>2, <3>1 DEF Entry
    <3>3. Genuine(queue[d][n].frame)'
      BY <2>1, <3>1 DEF Waiting, Genuine, Measuring
    <3>4. now < queue[d][n].stamp + boot[d] + MaxWait
      BY <2>1, <2>2, <3>2, DelayAssumption DEF Timer
    <3> QED
      BY <2>1, <2>2, <3>1, <3>2, <3>3, <3>4, DelayAssumption DEF Waiting
  <2>5. Frames' /\ Events'
    BY <2>1, <2>3, <2>4 DEF Frames, Events
  <2>6. TypeOK' /\ Off' /\ Samples'
    BY <1>0, <2>1, HorizonAssumption DEF TypeOK, Off, Samples
  <2> QED
    BY <2>5, <2>6 DEF RadioInv
<1>14. ASSUME UNCHANGED vars
       PROVE  RadioInv'
  <2>1. Frames' /\ Events'
    BY <1>0, <1>14, SameFrames, SameEvents DEF vars
  <2>2. TypeOK' /\ Off' /\ Samples'
    BY <1>0, <1>14 DEF vars, TypeOK, Off, Samples
  <2> QED
    BY <2>1, <2>2 DEF RadioInv
<1> QED
  BY <1>1, <1>2, <1>3, <1>4, <1>5, <1>6, <1>7, <1>8, <1>9, <1>10, <1>11, <1>12,
     <1>13, <1>14 DEF Next, Measure, Transmission

LEMMA RadioAlways == Spec => []RadioInv
<1> QED
  BY RadioInit, RadioStep, PTL DEF Spec

\* Every variable keeps its type; the halves of the round trips are natural
\* numbers, although they are unsigned differences of two devices' messages.
THEOREM TypeCorrect == Spec => []TypeOK
<1>1. RadioInv => TypeOK
  BY DEF RadioInv
<1> QED
  BY <1>1, RadioAlways, PTL

\* rtt_balancer never takes up an answer to an earlier life of the device, for
\* any number of devices, of changes of the leader and of restarts.
THEOREM RoundTripsMeasured == Spec => []RttMeasured
<1>1. RadioInv => RttMeasured
  BY DEF RadioInv, Samples, RttMeasured
<1> QED
  BY <1>1, RadioAlways, PTL

-------------------------------------------------------------------------------
(* 32 bits *)

\* The cast takes away whole turns, until the value is in range.
LEMMA Cast ==
  ASSUME NEW x \in Int
  PROVE  /\ Int32(x) \in Int /\ -Int32Limit <= Int32(x) /\ Int32(x) < Int32Limit
         /\ \E k \in Int : Int32(x) = x - k * (2 * Int32Limit)
<1> PICK m \in Nat \ {0}, half \in Nat \ {0} : m = 2 * Int32Limit /\ half = Int32Limit
  BY Int32Assumption
<1> PICK y \in Int : y = x + half
  OBVIOUS
<1>1. y % m \in Int /\ 0 <= y % m /\ y % m < m
  OBVIOUS
<1>2. y \div m \in Int /\ y % m = y - (y \div m) * m
  OBVIOUS
<1>3. Int32(x) = (y % m) - half
  BY DEF Int32
<1> PICK r \in Int, q \in Int : r = y % m /\ q = y \div m
  BY <1>1, <1>2
<1>4. Int32(x) = r - half /\ r = y - q * m /\ 0 <= r /\ r < m /\ m = 2 * half
  BY <1>1, <1>2, <1>3
<1>5. Int32(x) = x - q * m
  BY <1>4
<1>6. Int32(x) = x - q * (2 * Int32Limit)
  BY <1>5
<1>7. Int32(x) \in Int /\ -Int32Limit <= Int32(x) /\ Int32(x) < Int32Limit
  BY <1>4
<1> QED
  BY <1>6, <1>7

\* Nothing else takes it there.
LEMMA CastIsOne ==
  ASSUME NEW x \in Int, NEW y \in Int, NEW k \in Int,
         y = x - k * (2 * Int32Limit), -Int32Limit <= y, y < Int32Limit
  PROVE  Int32(x) = y
<1> PICK m \in Nat \ {0} : m = 2 * Int32Limit
  BY Int32Assumption
<1> PICK z \in Int, j \in Int :
      z = Int32(x) /\ z = x - j * m /\ -Int32Limit <= z /\ z < Int32Limit
  BY Cast
<1>1. y = x - k * m /\ y - z = j * m - k * m /\ y - z < m /\ z - y < m
  BY Int32Assumption
<1>2. ~(k < j)
  <2> SUFFICES ASSUME k + 1 <= j PROVE FALSE
    OBVIOUS
  <2>1. (k + 1) * m <= j * m
    OBVIOUS
  <2> QED
    BY <1>1, <2>1
<1>3. ~(j < k)
  <2> SUFFICES ASSUME j + 1 <= k PROVE FALSE
    OBVIOUS
  <2>1. (j + 1) * m <= k * m
    OBVIOUS
  <2> QED
    BY <1>1, <2>1
<1>4. j = k
  BY <1>2, <1>3
<1> QED
  BY <1>1, <1>4

\* A value in range is its own cast.
LEMMA CastOfSmall ==
  ASSUME NEW x \in Int, -Int32Limit <= x, x < Int32Limit
  PROVE  Int32(x) = x
<1> PICK none \in Int : none = 0
  OBVIOUS
<1>1. x = x - none * (2 * Int32Limit)
  BY Int32Assumption
<1> QED
  BY <1>1, CastIsOne

\* What is done to the cast is done to the value, as long as it stays in range.
LEMMA CastShifted ==
  ASSUME NEW x \in Int, NEW b \in Int,
         -Int32Limit <= Int32(x) + b, Int32(x) + b < Int32Limit
  PROVE  Int32(x + b) = Int32(x) + b
<1> PICK z \in Int, k \in Int : z = Int32(x) /\ z = x - k * (2 * Int32Limit)
  BY Cast
<1> PICK m \in Nat \ {0} : m = 2 * Int32Limit
  BY Int32Assumption
<1> PICK y \in Int, w \in Int : y = x + b /\ w = z + b
  OBVIOUS
<1>1. w = y - k * m
  OBVIOUS
<1>2. w = y - k * (2 * Int32Limit)
  BY <1>1
<1>3. Int32(y) = w
  BY <1>2, CastIsOne
<1> QED
  BY <1>3

\* The operands of a difference may be cast before or after.
LEMMA CastOfDifference ==
  ASSUME NEW a \in Int, NEW b \in Int, NEW c \in Int
  PROVE  Int32(Int32(a) - Int32(b) - Int32(c)) = Int32(a - b - c)
<1> PICK m \in Nat \ {0} : m = 2 * Int32Limit
  BY Int32Assumption
<1> PICK ka \in Int, kb \in Int, kc \in Int :
      Int32(a) = a - ka * m /\ Int32(b) = b - kb * m /\ Int32(c) = c - kc * m
  BY Cast
<1> PICK x \in Int, y \in Int :
      x = Int32(a) - Int32(b) - Int32(c) /\ y = a - b - c
  BY Cast
<1> PICK z \in Int, k \in Int :
      z = Int32(x) /\ z = x - k * m /\ -Int32Limit <= z /\ z < Int32Limit
  BY Cast
<1>1. z = y - (k + ka - kb - kc) * m
  OBVIOUS
<1>2. k + ka - kb - kc \in Int
  OBVIOUS
<1>3. Int32(y) = z
  BY <1>1, <1>2, CastIsOne
<1> QED
  BY <1>3

-------------------------------------------------------------------------------
(* How far a clock is off after a TIME *)

\* What a device knows when it takes a TIME off the queue, in 32 bits: how far it is
\* off, but for the delay of the frame less its estimate.
LEMMA DeviationExact ==
  ASSUME RadioInv, NEW d \in Device, Pending(d, "TIME")
  PROVE  LET e == Head(queue[d])
             avg == get_rtt_avg(ring[d])
             off == Offset(d, e.frame.origin)
             error == e.stamp + boot[d] - e.frame.sent - avg
         IN /\ Deviation(d) = Int32(off + error)
            /\ off \in Int /\ error \in Int /\ Error(d) \in Nat
            /\ -Error(d) <= error /\ error <= Error(d)
            /\ Error(d) <= MaxDelay + MaxWait
            /\ Timer(d) - (e.frame.content + avg) \in
                 e.frame.origin - boot[d] - Error(d)
                   .. e.frame.origin - boot[d] + Error(d)
<1> DEFINE e == Head(queue[d])
           avg == get_rtt_avg(ring[d])
           c == e.frame.content
           o == e.frame.origin
           s == e.frame.sent
<1>1. queue[d] # <<>> /\ e.frame.type = "TIME"
  BY DEF Pending
<1>2. /\ e \in Entry /\ Waiting(d, e) /\ boot[d] \in Int /\ now \in Int
  BY <1>1, HeadWaits, HorizonAssumption DEF RadioInv, TypeOK
<1>3. /\ e.stamp \in Int /\ c \in Int /\ o \in Int /\ s \in Int
      /\ s = c + o
  BY <1>1, <1>2, EntryType DEF Waiting, Genuine
<1>5. Slowest \in Nat /\ Slowest <= MaxDelay + MaxWait /\ MinDelay <= Slowest
  BY DelayAssumption, Halves DEF Slowest
<1>6. corr[d] \in Int
  BY DEF RadioInv, TypeOK
<1>7. /\ avg \in Int /\ avg \in 0 .. Slowest
      /\ avg \in (IF fresh[d] THEN 0 ELSE MinDelay) .. Slowest
      /\ fresh[d] => avg = 0
  BY <1>5, MeanOfSamples, DelayAssumption DEF RadioInv
<1>8. /\ s + MinDelay <= e.stamp + boot[d] /\ e.stamp + boot[d] <= s + MaxDelay
      /\ e.stamp + boot[d] <= now /\ now <= e.stamp + boot[d] + MaxWait
  BY <1>2 DEF Waiting
<1>9. Timer(d) = now - boot[d]
  BY DEF Timer
<1> HIDE DEF c, o, s, avg
<1>10. Deviation(d) = Int32(e.stamp - corr[d] - c - avg)
  <2>1. Deviation(d) = Int32(Int32(e.stamp - corr[d]) - Int32(c) - Int32(avg))
    BY DEF Deviation, get_time_with_timer, c, avg, e
  <2>2. e.stamp - corr[d] \in Int
    BY <1>3, <1>6
  <2> QED
    BY <1>3, <1>7, <2>1, <2>2, CastOfDifference
<1>11. Error(d) = MaxDelay + MaxWait - (IF fresh[d] THEN 0 ELSE MinDelay)
  BY DEF Error
<1>12. Offset(d, o) = o - boot[d] - corr[d]
  BY DEF Offset
<1>13. Error(d) \in Nat /\ Error(d) <= MaxDelay + MaxWait
  BY <1>11, DelayAssumption
<1>14. /\ -Error(d) <= e.stamp + boot[d] - s - avg
       /\ e.stamp + boot[d] - s - avg <= Error(d)
  BY <1>2, <1>3, <1>5, <1>7, <1>8, <1>11, DelayAssumption
<1>15. Timer(d) - (c + avg) \in o - boot[d] - Error(d) .. o - boot[d] + Error(d)
  BY <1>2, <1>3, <1>5, <1>7, <1>8, <1>9, <1>11, DelayAssumption
<1>16. Deviation(d) = Int32(Offset(d, o) + (e.stamp + boot[d] - s - avg))
  <2>1. Offset(d, o) + (e.stamp + boot[d] - s - avg) = e.stamp - corr[d] - c - avg
    BY <1>2, <1>3, <1>6, <1>7, <1>12
  <2> QED
    BY <1>10, <2>1
<1>17. /\ Offset(d, o) \in Int /\ e.stamp + boot[d] - s - avg \in Int
  BY <1>2, <1>3, <1>6, <1>7, <1>12
<1> QED
  BY <1>13, <1>14, <1>15, <1>16, <1>17 DEF c, o, s, avg

Step(deviation) ==
  IF deviation > DeviationMax THEN DeviationMax
  ELSE IF deviation < -DeviationMax THEN -DeviationMax
  ELSE 0

\* A TIME either moves a synced clock by a step or sets the clock.
LEMMA TakeOver ==
  ASSUME RadioInv, NEW d \in Device, Follow(d),
         NEW origin, origin = Head(queue[d]).frame.origin
  PROVE  /\ Offset(d, origin) \in Int /\ Offset(d, origin)' \in Int
         /\ Error(d) \in Nat /\ Error(d) <= MaxDelay + MaxWait
         /\ \E error \in -Error(d) .. Error(d) :
              \/ /\ \/ synced[d]
                    \/ /\ Int32(Offset(d, origin) + error) < DeviationLimit
                       /\ -DeviationLimit < Int32(Offset(d, origin) + error)
                 /\ synced'[d]
                 /\ Offset(d, origin)' =
                      Offset(d, origin) - Step(Int32(Offset(d, origin) + error))
              \/ /\ ~synced[d] /\ ~synced'[d]
                 /\ Offset(d, origin)' \in -Error(d) .. Error(d)
<1> DEFINE e == Head(queue[d])
           avg == get_rtt_avg(ring[d])
           c == e.frame.content
           error == e.stamp + boot[d] - e.frame.sent - avg
           off == Offset(d, origin)
           deviation == Int32(off + error)
<1>1. /\ Pending(d, "TIME") /\ queue[d] # <<>> /\ boot' = boot
      /\ StepClock(d) \/ SetClock(d)
  BY DEF Follow, TakeOverTime, Pending
<1>2. /\ Deviation(d) = deviation
      /\ off \in Int /\ error \in Int /\ Error(d) \in Nat
      /\ -Error(d) <= error /\ error <= Error(d)
      /\ Error(d) <= MaxDelay + MaxWait
      /\ Timer(d) - (c + avg) \in
           origin - boot[d] - Error(d) .. origin - boot[d] + Error(d)
  BY <1>1, DeviationExact
<1>i. off + error \in Int
  BY <1>2
<1>3. /\ e \in Entry /\ boot[d] \in Int /\ corr \in [Device -> Int]
      /\ synced \in [Device -> BOOLEAN]
  BY <1>1, HeadWaits DEF RadioInv, TypeOK
<1>4. origin \in Int /\ corr[d] \in Int
  BY <1>3, EntryType
<1>5. off = origin - boot[d] - corr[d] /\ off' = origin - boot[d] - corr'[d]
  BY <1>1 DEF Offset
<1> HIDE DEF error
<1>d. deviation \in Int
  BY <1>i, Cast
<1>6. ASSUME StepClock(d)
      PROVE  /\ Offset(d, origin)' = off - Step(deviation) /\ Offset(d, origin)' \in Int
             /\ synced[d] \/ (deviation < DeviationLimit /\ -DeviationLimit < deviation)
             /\ synced'[d]
  <2>1. corr'[d] = corr[d] + Correction(d) /\ synced'[d]
    BY <1>3, <1>6 DEF StepClock
  <2>2. synced[d] \/ (Deviation(d) < DeviationLimit /\ Deviation(d) > -DeviationLimit)
    BY <1>6 DEF StepClock, WithinLimit
  <2> HIDE DEF deviation
  <2>3. Correction(d) = Step(deviation) /\ Correction(d) \in Int
    BY <1>2, <1>d, DeviationAssumption DEF Correction, Step
  <2> HIDE DEF off
  <2>4. off' = off - Correction(d) /\ off' \in Int
    BY <1>3, <1>4, <1>5, <2>1, <2>3
  <2> QED
    BY <1>2, <1>d, <2>1, <2>2, <2>3, <2>4, DeviationAssumption DEF off
<1>7. ASSUME SetClock(d)
      PROVE  /\ ~synced[d] /\ ~synced'[d] /\ Offset(d, origin)' \in Int
             /\ Offset(d, origin)' \in -Error(d) .. Error(d)
  <2>1. corr'[d] = Timer(d) - (c + avg) /\ ~synced[d] /\ synced' = synced
    BY <1>3, <1>7 DEF SetClock
  <2>2. corr'[d] \in origin - boot[d] - Error(d) .. origin - boot[d] + Error(d)
    BY <1>2, <2>1
  <2>3. Offset(d, origin)' = origin - boot[d] - corr'[d]
    BY <1>1 DEF Offset
  <2> HIDE DEF e, avg, c
  <2> QED
    BY <1>2, <1>3, <1>4, <2>1, <2>2, <2>3
<1>9. error \in -Error(d) .. Error(d)
  BY <1>2
<1> HIDE DEF e
<1> QED
  BY <1>1, <1>2, <1>6, <1>7, <1>9

LEMMA StepIsNoWorse ==
  ASSUME NEW off \in Int, NEW limit \in Nat, NEW error \in -limit .. limit
  PROVE  \/ Distance(off - Step(off + error)) <= Distance(off)
         \/ Distance(off - Step(off + error)) <= limit
BY DeviationAssumption DEF Distance, Step

LEMMA StepApproaches ==
  ASSUME NEW off \in Int, NEW limit \in Nat, NEW error \in -limit .. limit,
         Distance(off) > limit + DeviationMax
  PROVE  Distance(off - Step(off + error)) = Distance(off) - DeviationMax
BY DeviationAssumption DEF Distance, Step

LEMMA StepWithin ==
  ASSUME NEW deviation \in Int, NEW limit \in Nat, NEW error \in -limit .. limit,
         deviation < DeviationLimit, -DeviationLimit < deviation
  PROVE  Distance(deviation - error - Step(deviation)) <= DeviationLimit - 1 + limit
BY DeviationAssumption DEF Distance, Step

LEMMA StepType ==
  ASSUME NEW deviation \in Int
  PROVE  Step(deviation) \in Int
BY DeviationAssumption DEF Step

\* With the clock within range, 32 bits tell how far it is off, but for the error.
LEMMA Told ==
  ASSUME NEW off \in Int, NEW limit \in Nat, NEW error \in -limit .. limit,
         Distance(off) + limit < Int32Limit
  PROVE  Int32(off + error) = off + error /\ Int32(off) = off
<1>1. /\ -Int32Limit <= off + error /\ off + error < Int32Limit /\ off + error \in Int
      /\ -Int32Limit <= off /\ off < Int32Limit
  BY Int32Assumption DEF Distance
<1> QED
  BY <1>1, CastOfSmall

\* The same of what 32 bits show of any clock, and of the step.
LEMMA ToldOfCast ==
  ASSUME NEW off \in Int, NEW limit \in Nat, NEW error \in -limit .. limit,
         Distance(Int32(off)) + limit < Int32Limit
  PROVE  Int32(off + error) = Int32(off) + error
<1>1. Int32(off) \in Int
  BY Cast
<1>2. -Int32Limit <= Int32(off) + error /\ Int32(off) + error < Int32Limit
  BY <1>1, Int32Assumption DEF Distance
<1> QED
  BY <1>2, CastShifted

LEMMA StepOfCast ==
  ASSUME NEW off \in Int, NEW deviation \in Int,
         Distance(Int32(off) - Step(deviation)) < Int32Limit
  PROVE  Int32(off - Step(deviation)) = Int32(off) - Step(deviation)
<1> PICK shown \in Int : shown = Int32(off)
  BY Cast
<1> PICK b \in Int : b = -Step(deviation)
  BY StepType
<1>1. shown - Step(deviation) = shown + b /\ off - Step(deviation) = off + b
  BY StepType
<1>2. -Int32Limit <= shown + b /\ shown + b < Int32Limit
  BY <1>1, Int32Assumption DEF Distance
<1>3. Int32(off + b) = shown + b
  BY <1>2, CastShifted
<1> QED
  BY <1>1, <1>3

\* With any number of leaders that hand over to each other in any order, however far
\* apart their timers have been started, and whatever is lost or late: no TIME takes
\* a clock further from its sender's than it was, or than the error of the
\* measurement, unless 32 bits do not tell on which side it is.
THEOREM ClocksGetNoWorse == Spec => NeverWorse
<1>1. RadioInv /\ [Next]_vars =>
        [\A d \in Device : Follow(d) =>
           \A origin \in {Head(queue[d]).frame.origin} :
             \/ Distance(Offset(d, origin)') <= Error(d)
             \/ Distance(Offset(d, origin)') <= Distance(Offset(d, origin))
             \/ synced[d]' /\ ~Tellable(d, Offset(d, origin))]_vars
  <2> SUFFICES ASSUME RadioInv, NEW d \in Device, Follow(d),
                      NEW origin \in {Head(queue[d]).frame.origin}
               PROVE  \/ Distance(Offset(d, origin)') <= Error(d)
                      \/ Distance(Offset(d, origin)') <= Distance(Offset(d, origin))
                      \/ synced[d]' /\ ~Tellable(d, Offset(d, origin))
    OBVIOUS
  <2> DEFINE off == Offset(d, origin)
             new == Offset(d, origin)'
             limit == Error(d)
  <2>1. /\ off \in Int /\ new \in Int /\ limit \in Nat
        /\ \E error \in -limit .. limit :
             \/ synced'[d] /\ new = off - Step(Int32(off + error))
             \/ new \in -limit .. limit
    BY TakeOver
  <2>2. Tellable(d, off) => Distance(off) + limit < Int32Limit
    BY DEF Tellable
  <2> HIDE DEF off, new, limit
  <2>3. \/ Distance(new) <= limit \/ Distance(new) <= Distance(off)
        \/ synced'[d] /\ ~(Distance(off) + limit < Int32Limit)
    <3>1. new \in -limit .. limit => Distance(new) <= limit
      BY <2>1 DEF Distance
    <3>2. ASSUME NEW error \in -limit .. limit, new = off - Step(Int32(off + error)),
                 Distance(off) + limit < Int32Limit
          PROVE  Distance(new) <= limit \/ Distance(new) <= Distance(off)
      <4>1. Int32(off + error) = off + error
        BY <2>1, <3>2, Told
      <4> QED
        BY <2>1, <3>2, <4>1, StepIsNoWorse
    <3> QED
      BY <2>1, <3>1, <3>2
  <2> QED
    BY <2>2, <2>3 DEF off, new, limit
<1> QED
  BY <1>1, RadioAlways, PTL DEF Spec, NeverWorse

\* A clock that counts as synced and that 32 bits show to be further off than the
\* measurement can be wrong and a step comes nearer with every TIME, however long
\* ago it was set and by whomever.
THEOREM ClocksApproach == Spec => Approaches
<1>1. RadioInv /\ [Next]_vars =>
        [\A d \in Device : Follow(d) /\ synced[d] =>
           \A origin \in {Head(queue[d]).frame.origin} :
             /\ Distance(Int32(Offset(d, origin))) > Error(d) + DeviationMax
             /\ Tellable(d, Int32(Offset(d, origin)))
             => /\ Distance(Int32(Offset(d, origin))') =
                     Distance(Int32(Offset(d, origin))) - DeviationMax
                /\ Tellable(d, Offset(d, origin)) =>
                     Distance(Offset(d, origin)') =
                       Distance(Offset(d, origin)) - DeviationMax]_vars
  <2> SUFFICES ASSUME RadioInv, NEW d \in Device, Follow(d), synced[d],
                      NEW origin \in {Head(queue[d]).frame.origin},
                      Distance(Int32(Offset(d, origin))) > Error(d) + DeviationMax,
                      Tellable(d, Int32(Offset(d, origin)))
               PROVE  /\ Distance(Int32(Offset(d, origin))') =
                           Distance(Int32(Offset(d, origin))) - DeviationMax
                      /\ Tellable(d, Offset(d, origin)) =>
                           Distance(Offset(d, origin)') =
                             Distance(Offset(d, origin)) - DeviationMax
    OBVIOUS
  <2> DEFINE off == Offset(d, origin)
             new == Offset(d, origin)'
             limit == Error(d)
  <2>1. /\ off \in Int /\ new \in Int /\ limit \in Nat
        /\ \E error \in -limit .. limit : new = off - Step(Int32(off + error))
    BY TakeOver
  <2> PICK shown \in Int : shown = Int32(off)
    BY <2>1, Cast
  <2>2. Distance(shown) > limit + DeviationMax /\ Distance(shown) + limit < Int32Limit
    BY DEF Tellable
  <2>3. Tellable(d, off) => Distance(off) + limit < Int32Limit
    BY DEF Tellable
  <2>4. Int32(Offset(d, origin))' = Int32(new)
    BY DEF Int32
  <2> HIDE DEF off, new, limit
  <2> PICK error \in -limit .. limit : new = off - Step(Int32(off + error))
    BY <2>1
  <2>5. Int32(off + error) = shown + error
    BY <2>1, <2>2, ToldOfCast
  <2>6. Distance(shown - Step(shown + error)) = Distance(shown) - DeviationMax
    BY <2>1, <2>2, StepApproaches
  <2>7. Distance(shown) - DeviationMax < Int32Limit
    BY <2>1, <2>2, DeviationAssumption, Int32Assumption DEF Distance
  <2> PICK deviation \in Int : deviation = shown + error
    OBVIOUS
  <2>8. Int32(new) = shown - Step(shown + error)
    BY <2>1, <2>5, <2>6, <2>7, StepOfCast
  <2>9. Distance(off) + limit < Int32Limit => shown = off
    BY <2>1, Told
  <2>10. new = off - Step(shown + error)
    BY <2>5
  <2>11. /\ Distance(Int32(new)) = Distance(shown) - DeviationMax
         /\ Distance(off) + limit < Int32Limit =>
              Distance(new) = Distance(off) - DeviationMax
    BY <2>6, <2>8, <2>9, <2>10
  <2> QED
    BY <2>3, <2>4, <2>11 DEF off, new, limit
<1> QED
  BY <1>1, RadioAlways, PTL DEF Spec, Approaches

-------------------------------------------------------------------------------
(* One leader *)

\* Before anybody has led there is no time to take over.
NoTime ==
  /\ \A d \in Device : title[d] = "SLAVE" /\ ~synced[d] /\ corr[d] = 0
  /\ \A f \in air : f.type # "TIME"
  /\ \A d \in Device : \A n \in DOMAIN queue[d] : queue[d][n].frame.type # "TIME"
  /\ presses = {}

\* While there has been one leader, all time comes from its timer and none goes
\* back to it.
Single(start) ==
  /\ \A d, m \in Device : title[d] = "MASTER" /\ title[m] = "MASTER" => d = m
  /\ \A d \in Device : title[d] = "MASTER" => up[d] /\ boot[d] = start /\ corr[d] = 0
  /\ \A f \in air : f.type = "TIME" => f.origin = start /\ title[f.to] = "SLAVE"
  /\ \A d \in Device : \A n \in DOMAIN queue[d] :
       queue[d][n].frame.type = "TIME" =>
         queue[d][n].frame.origin = start /\ title[d] = "SLAVE"
  /\ \A d \in Device : synced[d] => Distance(Int32(Offset(d, start))) <= SyncError
  /\ \A p \in presses :
       /\ p.at \in Int /\ p.timestamp \in Int
       /\ Distance(p.timestamp - (p.at - start)) <= SyncError

Reign ==
  /\ reigns = <<>> => NoTime
  /\ Len(reigns) = 1 => Single(reigns[1])

LEMMA ReignInit == Init => Reign
BY DEF Init, ClocksInit, Reign, NoTime

LEMMA LimitIsNatural == SyncError \in Nat
BY DeviationAssumption, DelayAssumption DEF SyncError

\* The clock of a device whose timestamps count.
LEMMA FairClock ==
  ASSUME RadioInv, NEW start \in Int, start = reigns[1], Single(start),
         NEW d \in Device, Fair(d)
  PROVE  /\ get_time(d) \in Int /\ now \in Int
         /\ Distance(get_time(d) - (now - start)) <= SyncError
<1>1. boot[d] \in Int /\ corr[d] \in Int /\ now \in Int
  BY HorizonAssumption DEF RadioInv, TypeOK
<1>2. get_time(d) = now - start + Offset(d, start) /\ Offset(d, start) \in Int
  BY <1>1 DEF get_time, get_time_with_timer, Timer, Offset
<1>3. Distance(Offset(d, start)) <= SyncError
  <2>1. CASE synced[d] /\ Distance(Offset(d, start)) < Int32Limit
    <3> PICK off \in Int : off = Offset(d, start)
      BY <1>2
    <3>1. Distance(Int32(off)) <= SyncError
      BY <2>1 DEF Single
    <3>2. -Int32Limit <= off /\ off < Int32Limit
      BY <2>1, Int32Assumption DEF Distance
    <3> QED
      BY <3>1, <3>2, CastOfSmall
  <2>2. CASE title[d] = "MASTER"
    <3>1. Offset(d, start) = 0
      BY <1>1, <2>2 DEF Single, Offset
    <3> QED
      BY <3>1, LimitIsNatural DEF Distance
  <2> QED
    BY <2>1, <2>2 DEF Fair
<1> QED
  BY <1>1, <1>2, <1>3

\* A step leaves a clock that 32 bits show within the error there, and one that
\* they show within the limit comes there.
LEMMA StaysShown ==
  ASSUME NEW off \in Int, NEW limit \in Nat, limit <= MaxDelay + MaxWait,
         NEW error \in -limit .. limit,
         \/ Distance(Int32(off)) <= SyncError
         \/ Int32(off + error) < DeviationLimit /\ -DeviationLimit < Int32(off + error)
  PROVE  Distance(Int32(off - Step(Int32(off + error)))) <= SyncError
<1> PICK shown \in Int, deviation \in Int :
      shown = Int32(off) /\ deviation = Int32(off + error)
  BY Cast
<1>1. /\ SyncError \in Nat /\ limit <= SyncError
      /\ DeviationLimit - 1 + limit <= SyncError /\ SyncError + limit < Int32Limit
  BY DeviationAssumption, DelayAssumption, Int32Assumption DEF SyncError
<1>2. CASE Distance(shown) <= SyncError
  <2>1. Distance(shown) + limit < Int32Limit /\ Distance(shown) \in Int
    BY <1>1, <1>2, Int32Assumption DEF Distance
  <2>2. deviation = shown + error
    BY <2>1, ToldOfCast
  <2> PICK moved \in Int : moved = shown - Step(deviation)
    BY StepType
  <2>3. Distance(moved) <= Distance(shown) \/ Distance(moved) <= limit
    BY <2>2, StepIsNoWorse
  <2>4. Distance(moved) <= SyncError /\ Distance(moved) < Int32Limit
    BY <1>1, <1>2, <2>1, <2>3, Int32Assumption DEF Distance
  <2>5. Int32(off - Step(deviation)) = moved
    BY <2>4, StepOfCast
  <2> QED
    BY <2>4, <2>5
<1>3. CASE deviation < DeviationLimit /\ -DeviationLimit < deviation
  <2> PICK moved \in Int : moved = deviation - error - Step(deviation)
    BY StepType
  <2>1. Distance(moved) <= DeviationLimit - 1 + limit
    BY <1>3, StepWithin
  <2>2. Distance(moved) <= SyncError /\ -Int32Limit <= moved /\ moved < Int32Limit
    BY <1>1, <2>1, Int32Assumption, DeviationAssumption DEF Distance
  <2> PICK x \in Int, b \in Int : x = off + error /\ b = -error - Step(deviation)
    BY StepType
  <2>3. Int32(x) + b = moved /\ off - Step(deviation) = x + b
    BY StepType
  <2>4. Int32(x + b) = moved
    BY <2>2, <2>3, CastShifted
  <2> QED
    BY <2>2, <2>3, <2>4
<1> QED
  BY <1>2, <1>3

LEMMA SingleStep ==
  ASSUME RadioInv, NEW start \in Int, Single(start),
         Len(reigns) = 1, start = reigns[1], Len(reigns') = 1, [Next]_vars
  PROVE  Single(start)'
<1>0. TypeOK /\ Off
  BY DEF RadioInv
<1> USE DEF sessionVars, clocksVars, clockVars, rttVars, radioVars
<1>t. ASSUME NEW r \in Device, queue[r] # <<>>, Taken(r)
      PROVE  \A d \in Device : \A n \in DOMAIN queue'[d] :
               \E m \in DOMAIN queue[d] : queue'[d][n] = queue[d][m]
  <2>1. queue[r] \in Seq(Entry) /\ queue \in [Device -> Seq(Entry)]
    BY <1>0 DEF TypeOK
  <2> QED
    BY <1>t, <2>1, TailElements DEF Taken
\* A step that may take an event and send a frame, but leaves the clocks and the
\* titles.
<1>a. ASSUME UNCHANGED <<title, up, boot, corr, synced, presses>>,
             \A f \in air' : f \in air \/ f.type # "TIME"
                               \/ (f.origin = start /\ title[f.to] = "SLAVE"),
             \A d \in Device : \A n \in DOMAIN queue'[d] :
               \E m \in DOMAIN queue[d] : queue'[d][n] = queue[d][m]
      PROVE  Single(start)'
  BY <1>a DEF Single, Offset
<1>1. ASSUME NEW d \in Device, Elected(d)
      PROVE  FALSE
  <2>1. reigns \in Seq(Int) /\ boot[d] \in Int /\ reigns' = Append(reigns, boot[d])
    BY <1>0, <1>1 DEF Elected, TypeOK
  <2> QED
    BY <2>1
<1>2. ASSUME NEW d \in Device, NEW r \in Device \ {d}, Calibrate(d, r)
      PROVE  Single(start)'
  <2>1. Made("RTT_CAL_MASTER", d, r, Timer(d), boot[d]).type # "TIME"
    BY DEF Made
  <2> QED
    BY <1>2, <1>a, <2>1 DEF Calibrate, SendRttCal
<1>3. ASSUME NEW d \in Device, NEW r \in Device \ {d}, Announce(d, r)
      PROVE  Single(start)'
  <2> DEFINE f == Made("TIME", d, r, Timer(d), now - Timer(d))
  <2>1. f.origin = now - Timer(d) /\ f.to = r
    BY DEF Made
  <2>2. boot[d] \in Int /\ now \in Int /\ title[r] \in {"MASTER", "SLAVE"}
    BY <1>0, HorizonAssumption DEF TypeOK
  <2>3. now - Timer(d) = boot[d]
    BY <2>2 DEF Timer
  <2>4. boot[d] = start /\ title[r] = "SLAVE"
    BY <1>3, <2>2 DEF Announce, Single
  <2>5. air' = air \union {f} /\ UNCHANGED <<title, up, boot, corr, synced, presses, queue>>
    BY <1>3 DEF Announce, SendTime
  <2> HIDE DEF f
  <2> QED
    BY <1>a, <2>1, <2>3, <2>4, <2>5
<1>4. ASSUME NEW d \in Device, Follow(d)
      PROVE  Single(start)'
  <2>1. /\ queue[d] # <<>> /\ Taken(d) /\ Head(queue[d]).frame.type = "TIME"
        /\ UNCHANGED <<up, boot, air, presses>>
        /\ StepClock(d) \/ SetClock(d)
        /\ title' = [title EXCEPT ![d] = "SLAVE"]
    BY <1>4 DEF Follow, TakeOverTime, Pending
  <2>2. Head(queue[d]).frame.origin = start /\ title[d] = "SLAVE"
    <3>1. queue[d] \in Seq(Entry)
      BY <1>0 DEF TypeOK
    <3>2. 1 \in DOMAIN queue[d] /\ Head(queue[d]) = queue[d][1]
      BY <2>1, <3>1, TailElements
    <3> QED
      BY <2>1, <3>2 DEF Single
  <2>3. title' = title
    BY <1>0, <2>1, <2>2 DEF TypeOK
  <2>4. \A r \in Device : r # d => corr'[r] = corr[r] /\ synced'[r] = synced[r]
    BY <1>0, <2>1 DEF StepClock, SetClock, TypeOK
  <2>5. synced'[d] => Distance(Int32(Offset(d, start))') <= SyncError
    <3> DEFINE off == Offset(d, start)
               new == Offset(d, start)'
               limit == Error(d)
    <3>1. /\ off \in Int /\ new \in Int
          /\ limit \in Nat /\ limit <= MaxDelay + MaxWait
          /\ \E error \in -limit .. limit :
               \/ /\ \/ synced[d]
                     \/ /\ Int32(off + error) < DeviationLimit
                        /\ -DeviationLimit < Int32(off + error)
                  /\ new = off - Step(Int32(off + error))
               \/ ~synced'[d]
      BY <1>4, <2>2, TakeOver
    <3>2. Int32(Offset(d, start))' = Int32(new)
      BY DEF Int32
    <3>3. synced[d] => Distance(Int32(off)) <= SyncError
      BY DEF Single
    <3> HIDE DEF off, new, limit
    <3>4. ASSUME NEW error \in -limit .. limit,
                 new = off - Step(Int32(off + error)),
                 \/ synced[d]
                 \/ /\ Int32(off + error) < DeviationLimit
                    /\ -DeviationLimit < Int32(off + error)
          PROVE  Distance(Int32(new)) <= SyncError
      BY <3>1, <3>3, <3>4, StaysShown
    <3> QED
      BY <3>1, <3>2, <3>4
  <2>6. \A m \in Device : title[m] = "MASTER" => corr'[m] = 0
    BY <2>2, <2>4 DEF Single
  <2>7. \A r \in Device : synced'[r] => Distance(Int32(Offset(r, start))') <= SyncError
    BY <2>1, <2>4, <2>5 DEF Single, Offset, Int32
  <2>8. \A r \in Device : \A n \in DOMAIN queue'[r] :
          \E m \in DOMAIN queue[r] : queue'[r][n] = queue[r][m]
    BY <1>t, <2>1
  <2> QED
    BY <2>1, <2>3, <2>6, <2>7, <2>8 DEF Single
<1>5. ASSUME NEW d \in Device, Measure(d)
      PROVE  Single(start)'
  <2>1. /\ queue[d] # <<>> /\ Taken(d)
        /\ UNCHANGED <<title, up, boot, corr, synced, presses>>
    BY <1>5 DEF Measure, AnswerRtt, ReturnRtt, SaveRtt, Pending
  <2>2. \A f \in air' : f \in air \/ f.type # "TIME"
    BY <1>5 DEF Measure, AnswerRtt, ReturnRtt, SaveRtt, Made
  <2> QED
    BY <1>a, <1>t, <2>1, <2>2
<1>6. ASSUME NEW d \in Device, Press(d)
      PROVE  Single(start)'
  <2>1. /\ presses' = presses \union {[at |-> now, timestamp |-> get_time(d)]}
        /\ UNCHANGED <<title, up, boot, corr, synced, queue, air>>
        /\ Fair(d)
    BY <1>6 DEF Press
  <2>2. /\ get_time(d) \in Int /\ now \in Int
        /\ Distance(get_time(d) - (now - start)) <= SyncError
    BY <2>1, FairClock
  <2> QED
    BY <2>1, <2>2 DEF Single, Offset
<1>7. ASSUME NEW f \in air, Arrive(f), UNCHANGED sessionVars
      PROVE  Single(start)'
  <2> DEFINE e == [frame |-> f, stamp |-> Timer(f.to)]
             d == f.to
  <2>1. /\ air' = air \ {f} /\ queue' = [queue EXCEPT ![d] = Append(@, e)]
        /\ UNCHANGED <<title, up, boot, corr, synced, presses>>
    BY <1>7 DEF Arrive
  <2>2. /\ f \in Frame /\ d \in Device /\ queue \in [Device -> Seq(Entry)]
        /\ boot[d] \in Int /\ now \in Int
    BY <1>0, HorizonAssumption DEF TypeOK, Frame
  <2>3. e \in Entry /\ e.frame = f
    BY <2>2 DEF Entry, Timer
  <2> HIDE DEF e
  <2>4. f.type = "TIME" => f.origin = start /\ title[d] = "SLAVE"
    BY DEF Single
  <2> HIDE DEF d
  <2>5. \A r \in Device : \A n \in DOMAIN queue'[r] :
          \/ n \in DOMAIN queue[r] /\ queue'[r][n] = queue[r][n]
          \/ r = d /\ queue'[r][n] = e
    BY <2>1, <2>2, <2>3, AppendElements
  <2>6. \A r \in Device : \A n \in DOMAIN queue'[r] :
          queue'[r][n].frame.type = "TIME" =>
            queue'[r][n].frame.origin = start /\ title[r] = "SLAVE"
    BY <2>3, <2>4, <2>5 DEF Single
  <2> QED
    BY <2>1, <2>6 DEF Single, Offset
<1>8. ASSUME NEW f \in air, Lose(f), UNCHANGED sessionVars
      PROVE  Single(start)'
  BY <1>8, <1>a DEF Lose
<1>9. ASSUME NEW d \in Device, Fail(d)
      PROVE  Single(start)'
  <2>1. /\ up' = [up EXCEPT ![d] = FALSE] /\ boot' = [boot EXCEPT ![d] = now]
        /\ corr' = [corr EXCEPT ![d] = 0] /\ synced' = [synced EXCEPT ![d] = FALSE]
        /\ title' = [title EXCEPT ![d] = "SLAVE"]
        /\ queue' = [queue EXCEPT ![d] = <<>>] /\ UNCHANGED <<air, presses>>
    BY <1>9 DEF Fail, PowerLoss
  <2>2. /\ title' \in [Device -> {"MASTER", "SLAVE"}] /\ title'[d] = "SLAVE"
        /\ ~synced'[d] /\ queue'[d] = <<>>
        /\ \A r \in Device : r # d =>
             /\ title'[r] = title[r] /\ up'[r] = up[r] /\ boot'[r] = boot[r]
             /\ corr'[r] = corr[r] /\ synced'[r] = synced[r] /\ queue'[r] = queue[r]
    BY <1>0, <2>1 DEF TypeOK
  <2>3. \A f \in air : f.to \in Device
    BY <1>0 DEF TypeOK, Frame
  <2>4. /\ \A r, m \in Device : title'[r] = "MASTER" /\ title'[m] = "MASTER" => r = m
        /\ \A r \in Device : title'[r] = "MASTER" =>
             up'[r] /\ boot'[r] = start /\ corr'[r] = 0
    BY <2>2 DEF Single
  <2>5. \A f \in air' : f.type = "TIME" => f.origin = start /\ title'[f.to] = "SLAVE"
    BY <2>1, <2>2, <2>3 DEF Single
  <2>6. \A r \in Device : \A n \in DOMAIN queue'[r] :
          queue'[r][n].frame.type = "TIME" =>
            queue'[r][n].frame.origin = start /\ title'[r] = "SLAVE"
    BY <2>2 DEF Single
  <2>7. \A r \in Device : synced'[r] => Distance(Int32(Offset(r, start))') <= SyncError
    BY <2>2 DEF Single, Offset
  <2> QED
    BY <2>1, <2>4, <2>5, <2>6, <2>7 DEF Single
<1>10. ASSUME NEW d \in Device, Return(d)
       PROVE  Single(start)'
  <2>1. /\ ~up[d] /\ up' = [up EXCEPT ![d] = TRUE] /\ boot' = [boot EXCEPT ![d] = now]
        /\ UNCHANGED <<title, corr, synced, queue, air, presses>>
    BY <1>10 DEF Return, Boot
  <2>2. ~synced[d] /\ title[d] = "SLAVE"
    BY <1>0, <2>1 DEF Off
  <2>3. \A r \in Device : r # d => up'[r] = up[r] /\ boot'[r] = boot[r]
    BY <1>0, <2>1 DEF TypeOK
  <2>4. \A r \in Device : title'[r] = "MASTER" =>
          up'[r] /\ boot'[r] = start /\ corr'[r] = 0
    BY <2>1, <2>2, <2>3 DEF Single
  <2>5. \A r \in Device : synced'[r] => Distance(Int32(Offset(r, start))') <= SyncError
    BY <2>1, <2>2, <2>3 DEF Single, Offset
  <2> QED
    BY <2>1, <2>4, <2>5 DEF Single
<1>11. ASSUME Passing \/ UNCHANGED vars
       PROVE  Single(start)'
  BY <1>11, <1>a DEF Passing, Tick, vars
<1> QED
  BY <1>1, <1>2, <1>3, <1>4, <1>5, <1>6, <1>7, <1>8, <1>9, <1>10, <1>11
     DEF Next, Transmission

LEMMA OneIsSome ==
  ASSUME NEW s \in Seq(Int), Len(s) = 1
  PROVE  s # <<>>
<1>1. Len(<<>>) = 0 /\ 1 # 0
  OBVIOUS
<1> QED
  BY <1>1, Zenon

LEMMA ReignStep ==
  RadioInv /\ Reign /\ [Next]_vars => Reign'
<1> SUFFICES ASSUME RadioInv, Reign, [Next]_vars
             PROVE  Reign'
  OBVIOUS
<1>0. TypeOK /\ reigns \in Seq(Int)
  BY DEF RadioInv, TypeOK
<1>1. CASE reigns' = reigns /\ Len(reigns) = 1
  <2>1. reigns[1] \in Int
    BY <1>0, <1>1
  <2>2. Single(reigns[1])
    BY <1>1 DEF Reign
  <2>3. ASSUME NEW start \in Int, start = reigns[1]
        PROVE  Single(start)'
    BY <1>1, <2>2, <2>3, SingleStep
  <2>4. Single(reigns[1])'
    BY <1>1, <2>1, <2>3
  <2>5. reigns' # <<>>
    BY <1>0, <1>1, OneIsSome
  <2> QED
    BY <2>4, <2>5 DEF Reign
<1>2. CASE reigns' = reigns /\ reigns = <<>>
  <2>1. NoTime /\ \A d \in Device : ~Fair(d)
    BY <1>2 DEF Reign, NoTime, Fair
  <2>t. ASSUME NEW r \in Device, queue[r] # <<>>, Taken(r)
        PROVE  \A d \in Device : \A n \in DOMAIN queue'[d] :
                 \E m \in DOMAIN queue[d] : queue'[d][n] = queue[d][m]
    <3>1. queue[r] \in Seq(Entry) /\ queue \in [Device -> Seq(Entry)]
      BY <1>0 DEF TypeOK
    <3> QED
      BY <2>t, <3>1, TailElements DEF Taken
  <2> USE DEF sessionVars, clocksVars, clockVars, rttVars, radioVars
  <2>a. ASSUME UNCHANGED <<title, corr, synced, presses>>,
               \A f \in air' : f \in air \/ f.type # "TIME",
               \A d \in Device : \A n \in DOMAIN queue'[d] :
                 \E m \in DOMAIN queue[d] : queue'[d][n] = queue[d][m]
        PROVE  NoTime'
    BY <2>1, <2>a DEF NoTime
  <2>2. ASSUME NEW d \in Device, Elected(d) \/ Press(d)
        PROVE  FALSE
    <3>1. ~Press(d)
      BY <2>1 DEF Press
    <3>2. Elected(d) => reigns' = Append(reigns, boot[d]) /\ boot[d] \in Int
      BY <1>0 DEF Elected, TypeOK
    <3> QED
      BY <1>0, <1>2, <2>2, <3>1, <3>2
  <2>3. ASSUME NEW d \in Device, NEW r \in Device \ {d}, Calibrate(d, r) \/ Announce(d, r)
        PROVE  FALSE
    BY <2>1, <2>3 DEF Calibrate, Announce, NoTime
  <2>4. ASSUME NEW d \in Device, Follow(d)
        PROVE  FALSE
    <3>1. queue[d] \in Seq(Entry) /\ queue[d] # <<>> /\ Head(queue[d]).frame.type = "TIME"
      BY <1>0, <2>4 DEF TypeOK, Follow, TakeOverTime, Pending
    <3>2. 1 \in DOMAIN queue[d] /\ Head(queue[d]) = queue[d][1]
      BY <3>1, TailElements
    <3> QED
      BY <2>1, <3>1, <3>2 DEF NoTime
  <2>5. ASSUME NEW d \in Device, Measure(d)
        PROVE  NoTime'
    <3>1. queue[d] # <<>> /\ Taken(d) /\ UNCHANGED <<title, corr, synced, presses>>
      BY <2>5 DEF Measure, AnswerRtt, ReturnRtt, SaveRtt, Pending
    <3>2. \A f \in air' : f \in air \/ f.type # "TIME"
      BY <2>5 DEF Measure, AnswerRtt, ReturnRtt, SaveRtt, Made
    <3> QED
      BY <2>a, <2>t, <3>1, <3>2
  <2>6. ASSUME NEW f \in air, Arrive(f), UNCHANGED sessionVars
        PROVE  NoTime'
    <3> DEFINE e == [frame |-> f, stamp |-> Timer(f.to)]
               d == f.to
    <3>1. /\ air' = air \ {f} /\ queue' = [queue EXCEPT ![d] = Append(@, e)]
          /\ UNCHANGED <<title, corr, synced, presses>>
      BY <2>6 DEF Arrive
    <3>2. /\ f \in Frame /\ d \in Device /\ queue \in [Device -> Seq(Entry)]
          /\ boot[d] \in Int /\ now \in Int
      BY <1>0, HorizonAssumption DEF TypeOK, Frame
    <3>3. e \in Entry /\ e.frame = f
      BY <3>2 DEF Entry, Timer
    <3> HIDE DEF e, d
    <3>4. \A r \in Device : \A n \in DOMAIN queue'[r] :
            \/ n \in DOMAIN queue[r] /\ queue'[r][n] = queue[r][n]
            \/ r = d /\ queue'[r][n] = e
      BY <3>1, <3>2, <3>3, AppendElements
    <3> QED
      BY <2>1, <3>1, <3>3, <3>4 DEF NoTime
  <2>7. ASSUME NEW f \in air, Lose(f), UNCHANGED sessionVars
        PROVE  NoTime'
    BY <2>7, <2>a DEF Lose
  <2>8. ASSUME NEW d \in Device, Fail(d)
        PROVE  NoTime'
    <3>1. /\ corr' = [corr EXCEPT ![d] = 0] /\ synced' = [synced EXCEPT ![d] = FALSE]
          /\ title' = [title EXCEPT ![d] = "SLAVE"]
          /\ queue' = [queue EXCEPT ![d] = <<>>] /\ UNCHANGED <<air, presses>>
      BY <2>8 DEF Fail, PowerLoss
    <3>2. \A r \in Device : \A n \in DOMAIN queue'[r] : queue'[r][n].frame.type # "TIME"
      BY <1>0, <2>1, <3>1 DEF NoTime, TypeOK
    <3> QED
      BY <1>0, <2>1, <3>1, <3>2 DEF NoTime, TypeOK
  <2>9. ASSUME (\E d \in Device : Return(d)) \/ Passing \/ UNCHANGED vars
        PROVE  NoTime'
    BY <2>9, <2>a DEF Return, Boot, Passing, Tick, vars
  <2>10. NoTime'
    BY <2>2, <2>3, <2>4, <2>5, <2>6, <2>7, <2>8, <2>9 DEF Next, Transmission
  <2> QED
    BY <1>2, <2>10 DEF Reign
<1>3. CASE reigns' = reigns /\ reigns # <<>> /\ Len(reigns) # 1
  BY <1>3 DEF Reign
<1>4. ASSUME NEW d \in Device, Elected(d)
      PROVE  Reign'
  <2>1. /\ title' = [title EXCEPT ![d] = "MASTER"] /\ reigns' = Append(reigns, boot[d])
        /\ up[d] /\ UNCHANGED <<clocksVars, presses>>
    BY <1>4 DEF Elected
  <2>2. boot[d] \in Int /\ title \in [Device -> {"MASTER", "SLAVE"}]
    BY <1>0 DEF TypeOK
  <2>3. reigns' # <<>> /\ (Len(reigns') = 1 => reigns = <<>> /\ reigns'[1] = boot[d])
    BY <1>0, <2>1, <2>2
  <2>4. ASSUME reigns = <<>>, NEW start, start = boot[d]
        PROVE  Single(start)'
    <3>1. NoTime
      BY <2>4 DEF Reign
    <3> QED
      BY <2>1, <2>2, <2>4, <3>1
         DEF NoTime, Single, clocksVars, clockVars, radioVars
  <2>5. Len(reigns') = 1 => Single(reigns[1])'
    BY <2>3, <2>4
  <2> QED
    BY <2>3, <2>5 DEF Reign
<1>5. reigns' = reigns \/ \E d \in Device : Elected(d)
  BY DEF Next, Calibrate, Announce, Follow, Measure, Press, Transmission, Fail, Return,
         Passing, vars, sessionVars
<1> QED
  BY <1>1, <1>2, <1>3, <1>4, <1>5

LEMMA ReignAlways ==
  Spec => [](RadioInv /\ Reign)
<1>1. Init => RadioInv /\ Reign
  BY RadioInit, ReignInit
<1>2. RadioInv /\ Reign /\ [Next]_vars => RadioInv' /\ Reign'
  BY RadioStep, ReignStep
<1> QED
  BY <1>1, <1>2, PTL DEF Spec

\* is_time_synced means what 32 bits can say under the first leader: the clock is
\* within the limit and the error of the measurement, but for whole turns, for any
\* number of devices, of lost frames and of restarts.
THEOREM SyncedClocksWithinLimit == Spec => []SyncedToLimit
<1>1. Reign => SyncedToLimit
  BY DEF Reign, Single, SyncedToLimit
<1> QED
  BY <1>1, ReignAlways, PTL

\* Under the first leader a press that comes more than twice the error of a synced
\* clock after another one has the later timestamp, whoever has pressed.
THEOREM PressesInFairOrder == Spec => []FairOrder
<1>1. RadioInv /\ Reign => FairOrder
  <2> SUFFICES ASSUME RadioInv, Len(reigns) = 1, Single(reigns[1]),
                      NEW p \in presses, NEW d \in Device,
                      Fair(d), now > p.at + 2 * SyncError
               PROVE  p.timestamp < get_time(d)
    BY DEF Reign, FairOrder
  <2>0. reigns \in Seq(Int) /\ Len(reigns) = 1
    BY DEF RadioInv, TypeOK
  <2>1. reigns[1] \in Int
    BY <2>0, FirstElement
  <2>2. /\ get_time(d) \in Int /\ now \in Int
        /\ Distance(get_time(d) - (now - reigns[1])) <= SyncError
    BY <2>1, FairClock
  <2>3. /\ p.at \in Int /\ p.timestamp \in Int
        /\ Distance(p.timestamp - (p.at - reigns[1])) <= SyncError
    BY DEF Single
  <2>4. now - reigns[1] - SyncError <= get_time(d)
    BY <2>1, <2>2, LimitIsNatural DEF Distance
  <2>5. p.timestamp <= p.at - reigns[1] + SyncError
    BY <2>1, <2>3, LimitIsNatural DEF Distance
  <2> QED
    BY <2>1, <2>2, <2>3, <2>4, <2>5, LimitIsNatural
<1> QED
  BY <1>1, ReignAlways, PTL
=============================================================================
