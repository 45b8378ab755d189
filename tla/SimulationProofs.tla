--------------------------- MODULE SimulationProofs ---------------------------
(***************************************************************************)
(* Theorems about Simulation, for any number of nodes, every period and    *)
(* every drift.                                                            *)
(***************************************************************************)
EXTENDS Simulation, FiniteSetTheorems, TLAPS

\* The sizes the simulation runs with: latencies of about a thousand rounds, a
\* TIME after half a million, jumps of a clock after at least a thousand.
Sizes ==
  /\ NodesCount \in Nat \ {0} /\ BalancerSize \in Nat \ {0}
  /\ MinLatency \in Nat \ {0} /\ MaxLatency \in Nat /\ MinLatency <= MaxLatency
  /\ RttPeriod \in Nat \ {0} /\ TimePeriod \in Nat /\ 3 * MaxLatency < TimePeriod
  /\ DriftPeriod \in [Node -> Nat \ {0}]
  /\ DeviationMax \in Nat /\ StartTime \in Nat

-------------------------------------------------------------------------------
(* Numbers *)

\* What holds at zero and goes over from each number to the next one holds up to n.
LEMMA SetInduction ==
  ASSUME NEW n \in Nat, NEW S \in SUBSET (0 .. n), 0 \in S,
         \A x \in S : x < n => x + 1 \in S
  PROVE  S = 0 .. n
<1> SUFFICES ASSUME NEW w \in 0 .. n, w \notin S PROVE FALSE
  OBVIOUS
<1> DEFINE T == {x \in S : x < w}
           f == [x \in T |-> x + 1]
<1>0. T \subseteq 0 .. n /\ 0 \in T
  <2>1. w > 0
    OBVIOUS
  <2>2. \A x \in S : x \in 0 .. n
    OBVIOUS
  <2> QED
    BY <2>1, <2>2
<1>1. ASSUME NEW x \in T
      PROVE  x + 1 \in T \ {0}
  <2>1. x \in 0 .. n /\ x \in S /\ x < w
    OBVIOUS
  <2>2. x + 1 \in S
    BY <2>1
  <2>3. x + 1 < w
    BY <2>1, <2>2
  <2> QED
    BY <2>1, <2>2, <2>3
<1>2. IsFiniteSet(T)
  <2>1. IsFiniteSet(0 .. n)
    BY FS_Interval
  <2> QED
    BY <1>0, <2>1, FS_Subset
<1>3. /\ IsFiniteSet(T \ {0}) /\ Cardinality(T \ {0}) = Cardinality(T) - 1
      /\ Cardinality(T) \in Nat
  BY <1>0, <1>2, FS_RemoveElement, FS_CardinalityType
<1>4. f \in [T -> T \ {0}]
  BY <1>1
<1>5. \E x, y \in T : x # y /\ f[x] = f[y]
  <2>1. Cardinality(T \ {0}) < Cardinality(T)
    BY <1>3
  <2> HIDE DEF T, f
  <2> QED
    BY <1>2, <1>3, <1>4, <2>1, FS_PigeonHole
<1>6. PICK x \in T, y \in T : x # y /\ f[x] = f[y]
  BY <1>5
<1> QED
  BY <1>0, <1>6

LEMMA DivBounds ==
  ASSUME NEW a \in Int, NEW d \in Nat \ {0}
  PROVE  /\ a \div d \in Int
         /\ d * (a \div d) <= a /\ a < d * (a \div d) + d
OBVIOUS

LEMMA DivMonotone ==
  ASSUME NEW a \in Int, NEW b \in Int, NEW d \in Nat \ {0}, a <= b
  PROVE  a \div d <= b \div d
OBVIOUS

LEMMA DivMultiple ==
  ASSUME NEW a \in Int, NEW q \in Int, NEW d \in Nat \ {0}
  PROVE  (a + d * q) \div d = a \div d + q
OBVIOUS

LEMMA ModPeriod ==
  ASSUME NEW a \in Int, NEW d \in Nat \ {0}
  PROVE  (a + d) % d = a % d
<1>0. PICK one \in Int : one = 1
  OBVIOUS
<1>1. (a + d * one) \div d = a \div d + one
  BY DivMultiple
<1>2. a \div d \in Int
  BY DivBounds
<1>3. PICK q \in Int : q = a \div d
  BY <1>2
<1>4. (a + d) \div d = q + 1
  <2>1. a + d * one = a + d
    BY <1>0
  <2> QED
    BY <1>0, <1>1, <1>3, <2>1
<1>5. a % d = a - d * (a \div d)
  OBVIOUS
<1>6. (a + d) % d = (a + d) - d * ((a + d) \div d)
  <2>1. PICK b \in Int : b = a + d
    OBVIOUS
  <2>2. b % d = b - d * (b \div d)
    OBVIOUS
  <2> QED
    BY <2>1, <2>2
<1>7. d * (q + 1) = d * q + d
  OBVIOUS
<1>8. PICK p \in Int : p = d * q
  OBVIOUS
<1>9. a % d = a - p /\ (a + d) % d = (a + d) - (p + d)
  BY <1>3, <1>4, <1>5, <1>6, <1>7, <1>8
<1>10. a - p = (a + d) - (p + d)
  OBVIOUS
<1> QED
  BY <1>9, <1>10

\* The sums the mean of the ring is made from
LEMMA Sums ==
  ASSUME Sizes, NEW n, ring[n] \in [Slots -> Int]
  PROVE  \E rtt \in [0 .. BalancerSize -> Int] :
           /\ rtt[0] = 0
           /\ \A k \in Slots : rtt[k + 1] = rtt[k] + ring[n][k]
           /\ get_rtt_avg(n) = rtt[BalancerSize] \div BalancerSize
<1> DEFINE r == ring[n]
           B == BalancerSize
           Partial(f, k) ==
             /\ f \in [0 .. k -> Int]
             /\ \A i \in 0 .. k : f[i] = IF i = 0 THEN 0 ELSE f[i - 1] + r[i - 1]
           rtt == CHOOSE f : f = [i \in 0 .. B |-> IF i = 0 THEN 0 ELSE f[i - 1] + r[i - 1]]
<1>0. B \in Nat \ {0} /\ Slots = 0 .. B - 1 /\ r \in [0 .. B - 1 -> Int]
  BY DEF Sizes, Slots
<1>1. get_rtt_avg(n) = rtt[B] \div B
  BY DEF get_rtt_avg
<1> HIDE DEF r, B
<1>2. \E f : Partial(f, B)
  <2> DEFINE S == {k \in 0 .. B : \E f : Partial(f, k)}
  <2>1. 0 \in S
    <3> DEFINE z == [i \in 0 .. 0 |-> 0]
    <3>1. z \in [0 .. 0 -> Int] /\ \A i \in 0 .. 0 : i = 0 /\ z[i] = 0
      OBVIOUS
    <3> HIDE DEF z
    <3>2. Partial(z, 0)
      BY <3>1
    <3>3. 0 \in 0 .. B
      BY <1>0
    <3> QED
      BY <3>2, <3>3
  <2>2. ASSUME NEW k \in S, k < B
        PROVE  k + 1 \in S
    <3>1. PICK f : Partial(f, k)
      OBVIOUS
    <3> DEFINE g == [i \in 0 .. k + 1 |-> IF i = k + 1 THEN f[k] + r[k] ELSE f[i]]
    <3>2. k \in 0 .. B - 1 /\ k \in Nat
      BY <1>0, <2>2
    <3>3. g \in [0 .. k + 1 -> Int]
      BY <1>0, <3>1, <3>2
    <3>4. ASSUME NEW i \in 0 .. k + 1
          PROVE  g[i] = IF i = 0 THEN 0 ELSE g[i - 1] + r[i - 1]
      <4>1. CASE i = k + 1
        BY <3>2, <4>1
      <4>2. CASE i # k + 1
        <5>1. i \in 0 .. k /\ g[i] = f[i] /\ (i # 0 => g[i - 1] = f[i - 1])
          BY <3>2, <4>2
        <5> QED
          BY <3>1, <5>1
      <4> QED
        BY <4>1, <4>2
    <3> HIDE DEF g
    <3>5. Partial(g, k + 1)
      BY <3>3, <3>4
    <3>6. k + 1 \in 0 .. B
      BY <1>0, <3>2
    <3> HIDE DEF Partial
    <3> QED
      BY <3>5, <3>6
  <2> HIDE DEF S
  <2>3. S = 0 .. B
    <3>1. S \in SUBSET (0 .. B)
      BY DEF S
    <3> QED
      BY <1>0, <2>1, <2>2, <3>1, SetInduction
  <2>4. B \in S
    BY <1>0, <2>3
  <2> USE DEF S
  <2> HIDE DEF Partial
  <2> QED
    BY <2>4
<1>3. rtt = [i \in 0 .. B |-> IF i = 0 THEN 0 ELSE rtt[i - 1] + r[i - 1]]
  <2>1. PICK f : Partial(f, B)
    BY <1>2
  <2>2. f = [i \in 0 .. B |-> IF i = 0 THEN 0 ELSE f[i - 1] + r[i - 1]]
    BY <2>1
  <2> QED
    BY <2>2
<1> HIDE DEF rtt
<1>4. /\ rtt[0] = 0
      /\ \A k \in 0 .. B - 1 : rtt[k + 1] = rtt[k] + r[k]
  <2>1. 0 \in 0 .. B
    BY <1>0
  <2>2. ASSUME NEW k \in 0 .. B - 1
        PROVE  k + 1 \in 0 .. B /\ k + 1 # 0 /\ (k + 1) - 1 = k
    BY <1>0
  <2> QED
    BY <1>3, <2>1, <2>2
<1>5. rtt \in [0 .. B -> Int]
  <2> DEFINE S == {k \in 0 .. B : rtt[k] \in Int}
  <2>1. 0 \in S
    BY <1>0, <1>4
  <2>2. ASSUME NEW k \in S, k < B
        PROVE  k + 1 \in S
    <3>1. k \in 0 .. B - 1 /\ k + 1 \in 0 .. B /\ rtt[k] \in Int /\ r[k] \in Int
      BY <1>0, <2>2
    <3> QED
      BY <1>4, <3>1
  <2>3. S = 0 .. B
    <3> HIDE DEF S
    <3>1. S \in SUBSET (0 .. B)
      BY DEF S
    <3> QED
      BY <1>0, <2>1, <2>2, <3>1, SetInduction
  <2>4. \A k \in 0 .. B : rtt[k] \in Int
    BY <2>3
  <2>5. rtt = [k \in 0 .. B |-> rtt[k]]
    BY <1>3
  <2> QED
    BY <2>4, <2>5
<1> QED
  BY <1>0, <1>4, <1>1, <1>5 DEF r, B

LEMMA MeanType ==
  ASSUME Sizes, NEW n, ring[n] \in [Slots -> Int]
  PROVE  get_rtt_avg(n) \in Int
<1>1. PICK rtt \in [0 .. BalancerSize -> Int] :
        get_rtt_avg(n) = rtt[BalancerSize] \div BalancerSize
  BY Sums
<1>2. BalancerSize \in Nat \ {0} /\ rtt[BalancerSize] \in Int
  BY DEF Sizes
<1> QED
  BY <1>1, <1>2

\* The mean of the ring lies between any bounds of what it holds.
LEMMA MeanWithin ==
  ASSUME Sizes, NEW n, ring[n] \in [Slots -> Int], NEW lo \in Int, NEW hi \in Int,
         \A k \in Slots : lo <= ring[n][k] /\ ring[n][k] <= hi
  PROVE  get_rtt_avg(n) \in lo .. hi
<1> DEFINE r == ring[n]
           B == BalancerSize
<1>0. B \in Nat \ {0} /\ Slots = 0 .. B - 1 /\ r \in [0 .. B - 1 -> Int]
      /\ \A k \in 0 .. B - 1 : lo <= r[k] /\ r[k] <= hi
  BY DEF Sizes, Slots
<1>1. PICK rtt \in [0 .. B -> Int] :
        /\ rtt[0] = 0
        /\ \A k \in Slots : rtt[k + 1] = rtt[k] + r[k]
        /\ get_rtt_avg(n) = rtt[B] \div B
  BY Sums
<1> HIDE DEF r, B
<1>2. rtt[B] \in Int /\ B * lo <= rtt[B] /\ rtt[B] <= B * hi
  <2> DEFINE S == {k \in 0 .. B : rtt[k] \in Int /\ k * lo <= rtt[k] /\ rtt[k] <= k * hi}
  <2>1. 0 \in S
    BY <1>0, <1>1
  <2>2. ASSUME NEW k \in S, k < B
        PROVE  k + 1 \in S
    <3>1. k \in 0 .. B - 1 /\ k + 1 \in 0 .. B
      BY <1>0, <2>2
    <3>2. rtt[k + 1] = rtt[k] + r[k]
      BY <1>0, <1>1, <3>1
    <3>3. lo <= r[k] /\ r[k] <= hi /\ r[k] \in Int
      BY <1>0, <3>1
    <3>4. (k + 1) * lo = k * lo + lo /\ (k + 1) * hi = k * hi + hi
      BY <3>1
    <3> QED
      BY <3>1, <3>2, <3>3, <3>4
  <2>3. S = 0 .. B
    <3> HIDE DEF S
    <3>1. S \in SUBSET (0 .. B)
      BY DEF S
    <3> QED
      BY <1>0, <2>1, <2>2, <3>1, SetInduction
  <2>4. B \in 0 .. B
    BY <1>0
  <2> QED
    BY <2>3, <2>4
<1> DEFINE q == rtt[B] \div B
<1>3. q \in Int /\ B * q <= rtt[B] /\ rtt[B] < B * q + B
  BY <1>0, <1>2, DivBounds
<1> HIDE DEF q
<1>4. lo <= q
  <2> SUFFICES ASSUME q + 1 <= lo PROVE FALSE
    BY <1>3
  <2>1. B * (lo - q - 1) >= 0
    BY <1>0, <1>3
  <2>2. B * (lo - q - 1) = B * lo - B * q - B
    BY <1>0, <1>3
  <2>3. B * lo \in Int /\ B * q \in Int /\ rtt[B] \in Int /\ B \in Nat
    BY <1>0, <1>2, <1>3
  <2> DEFINE x == B * lo   y == B * q
  <2> HIDE DEF x, y
  <2>4. x - y - B >= 0 /\ x <= rtt[B] /\ rtt[B] < y + B /\ x \in Int /\ y \in Int
    BY <1>2, <1>3, <2>1, <2>2, <2>3 DEF x, y
  <2> QED
    BY <2>3, <2>4
<1>5. q <= hi
  <2> SUFFICES ASSUME hi + 1 <= q PROVE FALSE
    BY <1>3
  <2>1. B * (q - hi - 1) >= 0
    BY <1>0, <1>3
  <2>2. B * (q - hi - 1) = B * q - B * hi - B
    BY <1>0, <1>3
  <2>3. B * hi \in Int /\ B * q \in Int /\ rtt[B] \in Int /\ B \in Nat \ {0}
    BY <1>0, <1>2, <1>3
  <2> DEFINE x == B * hi   y == B * q
  <2> HIDE DEF x, y
  <2>4. y - x - B >= 0 /\ rtt[B] <= x /\ y <= rtt[B] /\ x \in Int /\ y \in Int
    BY <1>2, <1>3, <2>1, <2>2, <2>3 DEF x, y
  <2> QED
    BY <2>3, <2>4
<1> QED
  BY <1>1, <1>3, <1>4, <1>5 DEF q

-------------------------------------------------------------------------------
(* Lists *)

LEMMA AppendElements ==
  ASSUME NEW M, NEW list \in Seq(M), NEW m \in M
  PROVE  Append(list, m) \in Seq(M) /\ ToSet(Append(list, m)) = ToSet(list) \union {m}
<1>1. Append(list, m) \in Seq(M) /\ DOMAIN Append(list, m) = 1 .. Len(list) + 1
  OBVIOUS
<1>2. \A k \in 1 .. Len(list) : Append(list, m)[k] = list[k]
  OBVIOUS
<1>3. Append(list, m)[Len(list) + 1] = m
  OBVIOUS
<1>4. DOMAIN list = 1 .. Len(list) /\ Len(list) \in Nat
  OBVIOUS
<1> DEFINE new == Append(list, m)
<1> HIDE DEF new
<1>5. ASSUME NEW x \in ToSet(new)
      PROVE  x \in ToSet(list) \union {m}
  <2>1. PICK k \in 1 .. Len(list) + 1 : new[k] = x
    BY <1>1 DEF ToSet, new
  <2> QED
    BY <1>2, <1>3, <1>4, <2>1 DEF ToSet, new
<1>6. ASSUME NEW x \in ToSet(list)
      PROVE  x \in ToSet(new)
  <2>1. PICK k \in 1 .. Len(list) : list[k] = x
    BY <1>4 DEF ToSet
  <2> QED
    BY <1>1, <1>2, <1>4, <2>1 DEF ToSet, new
<1>7. m \in ToSet(new)
  BY <1>1, <1>3, <1>4 DEF ToSet, new
<1> QED
  BY <1>1, <1>5, <1>6, <1>7 DEF new

LEMMA HeadAndTail ==
  ASSUME NEW M, NEW list \in Seq(M), list # <<>>
  PROVE  /\ Head(list) \in M /\ Tail(list) \in Seq(M)
         /\ ToSet(list) = {Head(list)} \union ToSet(Tail(list))
<1>1. /\ Len(list) \in Nat \ {0} /\ DOMAIN list = 1 .. Len(list)
      /\ Head(list) = list[1] /\ list[1] \in M
      /\ Tail(list) \in Seq(M) /\ DOMAIN Tail(list) = 1 .. Len(list) - 1
  OBVIOUS
<1>2. \A k \in 1 .. Len(list) - 1 : Tail(list)[k] = list[k + 1]
  OBVIOUS
<1>3. \A k \in 2 .. Len(list) : k - 1 \in 1 .. Len(list) - 1 /\ Tail(list)[k - 1] = list[k]
  BY <1>1, <1>2
<1> DEFINE rest == Tail(list)   L == Len(list)
<1> HIDE DEF rest, L
<1>4. L \in Nat \ {0} /\ DOMAIN list = 1 .. L /\ DOMAIN rest = 1 .. L - 1
      /\ Head(list) = list[1]
      /\ (\A k \in 1 .. L - 1 : rest[k] = list[k + 1])
      /\ (\A k \in 2 .. L : k - 1 \in 1 .. L - 1 /\ rest[k - 1] = list[k])
  BY <1>1, <1>2, <1>3 DEF rest, L
<1>5. ASSUME NEW x \in ToSet(list)
      PROVE  x \in {Head(list)} \union ToSet(rest)
  <2>1. PICK k \in 1 .. L : list[k] = x
    BY <1>4 DEF ToSet
  <2>2. CASE k = 1
    BY <1>4, <2>1, <2>2
  <2>3. CASE k # 1
    <3>1. k \in 2 .. L
      BY <1>4, <2>3
    <3> QED
      BY <1>4, <2>1, <3>1 DEF ToSet
  <2> QED
    BY <2>2, <2>3
<1>6. ASSUME NEW x \in ToSet(rest)
      PROVE  x \in ToSet(list)
  <2>1. PICK k \in 1 .. L - 1 : rest[k] = x
    BY <1>4 DEF ToSet
  <2>2. k + 1 \in 1 .. L /\ list[k + 1] = x
    BY <1>4, <2>1
  <2> QED
    BY <1>4, <2>2 DEF ToSet
<1>7. Head(list) \in ToSet(list)
  BY <1>4 DEF ToSet
<1> QED
  BY <1>1, <1>5, <1>6, <1>7 DEF rest

LEMMA Inserted ==
  ASSUME NEW M, NEW s \in Seq(M), NEW e \in M, NEW k \in 1 .. Len(s) + 1
  PROVE  /\ InsertAt(s, k, e) \in Seq(M) /\ Len(InsertAt(s, k, e)) = Len(s) + 1
         /\ \A j \in 1 .. Len(s) + 1 :
              InsertAt(s, k, e)[j] = IF j < k THEN s[j] ELSE IF j = k THEN e ELSE s[j - 1]
<1> DEFINE front == SubSeq(s, 1, k - 1)
           back == SubSeq(s, k, Len(s))
<1>1. /\ front \in Seq(M) /\ Len(front) = k - 1
      /\ back \in Seq(M) /\ Len(back) = Len(s) - k + 1
 OBVIOUS
<1>2. \A j \in 1 .. k - 1 : front[j] = s[j]
  OBVIOUS
<1>3. \A j \in 1 .. Len(s) - k + 1 : back[j] = s[k + j - 1]
  OBVIOUS
<1> HIDE DEF front, back
<1> DEFINE more == front \o <<e>>
<1>4. /\ more \in Seq(M) /\ Len(more) = k
      /\ \A j \in 1 .. k - 1 : more[j] = s[j]
      /\ more[k] = e
  BY <1>1, <1>2
<1> HIDE DEF more
<1>5. /\ more \o back \in Seq(M) /\ Len(more \o back) = Len(s) + 1
  <2>1. Len(s) \in Nat /\ k \in Nat /\ Len(more) + Len(back) = Len(s) + 1
    BY <1>1, <1>4
  <2>2. more \o back \in Seq(M) /\ Len(more \o back) = Len(more) + Len(back)
    BY <1>1, <1>4
  <2> QED
    BY <2>1, <2>2
<1>6. \A j \in 1 .. k : (more \o back)[j] = more[j]
  BY <1>1, <1>4
<1>7. \A j \in k + 1 .. Len(s) + 1 : (more \o back)[j] = s[j - 1]
  <2> TAKE j \in k + 1 .. Len(s) + 1
  <2>1. j - k \in 1 .. Len(back) /\ k + (j - k) - 1 = j - 1
    BY <1>1
  <2>2. (more \o back)[j] = back[j - k]
    BY <1>1, <1>4, <2>1
  <2> QED
    BY <1>1, <1>3, <2>1, <2>2
<1>8. InsertAt(s, k, e) = more \o back
  BY DEF InsertAt, front, back, more
<1> QED
  BY <1>4, <1>5, <1>6, <1>7, <1>8

Msg ==
  {m \in [type : {"RTT_CAL", "RTT_VAL", "TIME"}, source : Node, target : Node,
          content : Int, latency : Int] :
     /\ m.source = 0 => m.target # 0
     /\ m.source # 0 => m.target = 0 /\ m.type = "RTT_CAL"}

Sorted(list) ==
  \A k, l \in DOMAIN list : k < l => list[k].latency <= list[l].latency

\* A message is put where it keeps the pipe sorted.
LEMMA PushedShape ==
  ASSUME NEW s \in Seq(Msg), NEW m \in Msg, Sorted(s)
  PROVE  /\ Pushed(s, m) \in Seq(Msg) /\ Sorted(Pushed(s, m))
         /\ ToSet(Pushed(s, m)) = ToSet(s) \union {m}
<1> DEFINE Behind(k) ==
             /\ k <= Len(s) => s[k].latency >= m.latency
             /\ \A l \in 2 .. k - 1 : s[l].latency < m.latency
           front == s = <<>> \/ Head(s).latency > m.latency
           at == IF front THEN 1 ELSE CHOOSE k \in 2 .. Len(s) + 1 : Behind(k)
<1>0. /\ Len(s) \in Nat /\ DOMAIN s = 1 .. Len(s) /\ m.latency \in Int
      /\ \A k \in 1 .. Len(s) : s[k] \in Msg /\ s[k].latency \in Int
      /\ s # <<>> => Len(s) > 0 /\ Head(s) = s[1]
  BY DEF Msg
<1>1. ASSUME ~front
      PROVE  \E k \in 2 .. Len(s) + 1 : Behind(k)
  <2> SUFFICES ASSUME \A k \in 2 .. Len(s) + 1 : ~Behind(k) PROVE FALSE
    OBVIOUS
  <2> DEFINE S == {j \in 0 .. Len(s) : \A l \in 2 .. j : s[l].latency < m.latency}
             L == Len(s)
  <2>0. L \in Nat \ {0}
    BY <1>0, <1>1
  <2>1. 0 \in S
    BY <1>0
  <2>2. ASSUME NEW j \in S, j < L
        PROVE  j + 1 \in S
    <3>0. j \in 0 .. L /\ j + 1 \in 0 .. L
      BY <2>0, <2>2
    <3>1. CASE j = 0
      BY <3>0, <3>1
    <3>2. CASE j # 0
      <4>1. j + 1 \in 2 .. L /\ j + 1 \in 2 .. L + 1 /\ ~Behind(j + 1)
        BY <2>0, <3>0, <3>2
      <4>2. \A l \in 2 .. j : s[l].latency < m.latency
        OBVIOUS
      <4>3. ~(s[j + 1].latency >= m.latency)
        BY <3>0, <4>1, <4>2
      <4>4. s[j + 1].latency < m.latency
        BY <1>0, <4>1, <4>3
      <4>5. \A l \in 2 .. j + 1 : l \in 2 .. j \/ l = j + 1
        BY <3>0
      <4> QED
        BY <3>0, <4>2, <4>4, <4>5
    <3> QED
      BY <3>1, <3>2
  <2>3. S = 0 .. L
    <3> HIDE DEF S, L
    <3>1. S \in SUBSET (0 .. L)
      BY DEF S, L
    <3> QED
      BY <2>0, <2>1, <2>2, <3>1, SetInduction
  <2>4. L \in S
    BY <2>0, <2>3
  <2>5. L + 1 \in 2 .. L + 1 /\ ~Behind(L + 1)
    BY <2>0
  <2> QED
    BY <2>0, <2>4, <2>5
<1>2. /\ at \in 1 .. Len(s) + 1
      /\ \A l \in 1 .. Len(s) : l < at => s[l].latency <= m.latency
      /\ \A l \in 1 .. Len(s) : l >= at => m.latency <= s[l].latency
  <2>1. CASE front
    <3>1. at = 1
      BY <2>1
    <3>2. ASSUME NEW l \in 1 .. Len(s) PROVE m.latency <= s[l].latency
      <4>1. 1 \in 1 .. Len(s) /\ s # <<>>
        BY <1>0
      <4>2. s[1].latency > m.latency
        BY <1>0, <2>1, <4>1
      <4>3. l = 1 \/ s[1].latency <= s[l].latency
        BY <1>0, <4>1 DEF Sorted
      <4> QED
        BY <1>0, <4>1, <4>2, <4>3
    <3> QED
      BY <1>0, <3>1, <3>2
  <2>2. CASE ~front
    <3>1. at \in 2 .. Len(s) + 1 /\ Behind(at)
      BY <1>1, <2>2
    <3> HIDE DEF at
    <3>2. ASSUME NEW l \in 1 .. Len(s), l < at PROVE s[l].latency <= m.latency
      <4>1. CASE l = 1
        BY <1>0, <2>2, <4>1
      <4>2. CASE l # 1
        <5>1. l \in 2 .. at - 1
          BY <1>0, <3>1, <3>2, <4>2
        <5> QED
          BY <1>0, <3>1, <5>1
      <4> QED
        BY <4>1, <4>2
    <3>3. ASSUME NEW l \in 1 .. Len(s), l >= at PROVE m.latency <= s[l].latency
      <4>1. at \in 1 .. Len(s) /\ s[at].latency >= m.latency
        BY <1>0, <3>1, <3>3
      <4>2. at = l \/ s[at].latency <= s[l].latency
        BY <1>0, <3>3, <4>1 DEF Sorted
      <4> QED
        BY <1>0, <4>1, <4>2
    <3> QED
      BY <1>0, <3>1, <3>2, <3>3
  <2> QED
    BY <2>1, <2>2
<1>3. Pushed(s, m) = InsertAt(s, at, m)
  BY DEF Pushed
<1> HIDE DEF at, front, Behind
<1> DEFINE t == Pushed(s, m)
           L == Len(s)
<1>4. /\ t \in Seq(Msg) /\ Len(t) = L + 1
      /\ \A j \in 1 .. L + 1 : t[j] = IF j < at THEN s[j] ELSE IF j = at THEN m ELSE s[j - 1]
  BY <1>2, <1>3, Inserted
<1> HIDE DEF t, L
<1>5. DOMAIN t = 1 .. L + 1 /\ L \in Nat /\ at \in 1 .. L + 1
  BY <1>0, <1>2, <1>4 DEF L
<1>6. ASSUME NEW l \in 1 .. L, l < at
       PROVE  s[l].latency <= m.latency
  BY <1>2, <1>6 DEF L
<1>7. Sorted(t)
  <2> SUFFICES ASSUME NEW j \in 1 .. L + 1, NEW k \in 1 .. L + 1, j < k
               PROVE  t[j].latency <= t[k].latency
    BY <1>5 DEF Sorted
  <2>0. \A i \in 1 .. L : \A l \in 1 .. L : i < l => s[i].latency <= s[l].latency
    BY <1>0 DEF Sorted, L
  <2>1. /\ t[j] = IF j < at THEN s[j] ELSE IF j = at THEN m ELSE s[j - 1]
        /\ t[k] = IF k < at THEN s[k] ELSE IF k = at THEN m ELSE s[k - 1]
    BY <1>4
  <2>2. CASE k < at
    BY <1>5, <2>0, <2>1, <2>2
  <2>3. CASE k = at
    <3>1. j \in 1 .. L /\ j < at
      BY <1>5, <2>3
    <3>2. t[j] = s[j] /\ t[k] = m
      BY <1>5, <2>1, <2>3, <3>1
    <3> QED
      BY <1>6, <3>1, <3>2
  <2>4. CASE k > at
    <3>1. k - 1 \in 1 .. L /\ k - 1 >= at /\ t[k] = s[k - 1]
      BY <1>5, <2>1, <2>4
    <3>2. m.latency <= s[k - 1].latency
      BY <1>2, <3>1 DEF L
    <3>3. CASE j = at
      BY <2>1, <3>1, <3>2, <3>3
    <3>4. CASE j < at
      <4>1. j \in 1 .. L /\ j < k - 1
        BY <1>5, <3>1, <3>4
      <4> QED
        BY <2>0, <2>1, <3>1, <3>4, <4>1
    <3>5. CASE j > at
      <4>1. j - 1 \in 1 .. L /\ j - 1 < k - 1 /\ t[j] = s[j - 1]
        BY <1>5, <2>1, <3>5
      <4> QED
        BY <2>0, <3>1, <4>1
    <3> QED
      BY <1>5, <3>3, <3>4, <3>5
  <2> QED
    BY <1>5, <2>2, <2>3, <2>4
<1>8. ASSUME NEW x \in ToSet(t)
      PROVE  x \in ToSet(s) \union {m}
  <2>1. PICK j \in 1 .. L + 1 : t[j] = x
    BY <1>5 DEF ToSet
  <2>2. CASE j < at
    <3>1. j \in 1 .. L /\ x = s[j]
      BY <1>4, <1>5, <2>1, <2>2
    <3> QED
      BY <1>0, <3>1 DEF ToSet, L
  <2>3. CASE j = at
    BY <1>4, <1>5, <2>1, <2>3
  <2>4. CASE j > at
    <3>1. j - 1 \in 1 .. L /\ x = s[j - 1]
      BY <1>4, <1>5, <2>1, <2>4
    <3> QED
      BY <1>0, <3>1 DEF ToSet, L
  <2> QED
    BY <1>5, <2>2, <2>3, <2>4
<1>9. ASSUME NEW x \in ToSet(s)
      PROVE  x \in ToSet(t)
  <2>1. PICK j \in 1 .. L : s[j] = x
    BY <1>0 DEF ToSet, L
  <2>2. CASE j < at
    <3>1. j \in 1 .. L + 1 /\ t[j] = x
      BY <1>4, <1>5, <2>1, <2>2
    <3> QED
      BY <1>5, <3>1 DEF ToSet
  <2>3. CASE j >= at
    <3>1. j + 1 \in 1 .. L + 1 /\ ~(j + 1 < at) /\ j + 1 # at /\ (j + 1) - 1 = j
      BY <1>5, <2>3
    <3>2. t[j + 1] = x
      BY <1>4, <2>1, <3>1
    <3> QED
      BY <1>5, <3>1, <3>2 DEF ToSet
  <2> QED
    BY <1>5, <2>2, <2>3
<1>10. m \in ToSet(t)
  <2>1. ~(at < at)
    BY <1>5
  <2>2. t[at] = m
    BY <1>4, <1>5, <2>1
  <2> QED
    BY <1>5, <2>2 DEF ToSet
<1> QED
  BY <1>4, <1>7, <1>8, <1>9, <1>10 DEF t

-------------------------------------------------------------------------------
(* Types *)

Loops == {"clock", "pipe", "machine", "rtt", "time"}

TypeOK ==
  /\ time \in Nat /\ phase \in Loops /\ turn \in Node
  /\ clock \in [Node -> Int]
  /\ pipe \in [Node -> Seq(Msg)]
  /\ queue \in [Node -> Seq(Msg)]
  /\ fresh \in [Node -> BOOLEAN]
  /\ ring \in [Node -> [Slots -> Int]]
  /\ rtt_index \in [Node -> Slots]
  /\ first \in [Node -> BOOLEAN]
  /\ deviation_avg \in [Node -> Int]

LEMMA FollowUps ==
  /\ FollowUp["clock"] = "pipe" /\ FollowUp["pipe"] = "machine"
  /\ FollowUp["machine"] = "rtt" /\ FollowUp["rtt"] = "time"
  /\ FollowUp["time"] = "clock"
<1> DEFINE Index(p) == CHOOSE k \in 1 .. 4 : Phases[k] = p
<1>1. \A k \in 1 .. 5 : Phases[k] \in ToSet(Phases)
  BY DEF Phases, ToSet
<1>2. /\ Phases[1] = "clock" /\ Phases[2] = "pipe" /\ Phases[3] = "machine"
      /\ Phases[4] = "rtt" /\ Phases[5] = "time"
  BY DEF Phases
<1>3. /\ "clock" \in ToSet(Phases) /\ "pipe" \in ToSet(Phases)
      /\ "machine" \in ToSet(Phases) /\ "rtt" \in ToSet(Phases)
      /\ "time" \in ToSet(Phases)
  BY <1>1, <1>2
<1>4. \A p \in ToSet(Phases) :
        FollowUp[p] = IF p = "time" THEN "clock" ELSE Phases[1 + Index(p)]
  BY DEF FollowUp
<1> HIDE DEF Index
<1>5. \A k \in 1 .. 4 : Index(Phases[k]) = k
  <2> TAKE k \in 1 .. 4
  <2>1. \A l \in 1 .. 4 : Phases[l] = Phases[k] => l = k
    BY <1>2
  <2>2. \E l \in 1 .. 4 : Phases[l] = Phases[k]
    OBVIOUS
  <2>3. Index(Phases[k]) \in 1 .. 4 /\ Phases[Index(Phases[k])] = Phases[k]
    BY <2>2 DEF Index
  <2> QED
    BY <2>1, <2>3
<1>6. /\ Index("clock") = 1 /\ Index("pipe") = 2 /\ Index("machine") = 3
      /\ Index("rtt") = 4
  BY <1>2, <1>5
<1> QED
  BY <1>2, <1>3, <1>4, <1>6

LEMMA NextNodes ==
  ASSUME Sizes, turn \in Node, NextNode
  PROVE  /\ turn' \in Node
         /\ \/ turn + 1 < NodesCount /\ turn' = turn + 1 /\ phase' = phase
            \/ turn + 1 = NodesCount /\ turn' = 0 /\ phase' = FollowUp[phase]
<1>1. NodesCount \in Nat \ {0} /\ turn \in 0 .. NodesCount - 1
  BY DEF Sizes, Node
<1>2. turn + 1 < NodesCount => (turn + 1) % NodesCount = turn + 1
  BY <1>1
<1>3. turn + 1 = NodesCount => (turn + 1) % NodesCount = 0
  BY <1>1
<1> QED
  BY <1>1, <1>2, <1>3 DEF NextNode, Node

LEMMA DriftPositive ==
  ASSUME Sizes, NEW n \in Node
  PROVE  DriftPeriod[n] \in Nat \ {0}
BY DEF Sizes

LEMMA ClampedWithin ==
  ASSUME Sizes, NEW x \in Int
  PROVE  Clamped(x) \in Int /\ Clamped(x) <= DeviationMax /\ -DeviationMax <= Clamped(x)
BY DEF Sizes, Clamped

LEMMA HalfType ==
  ASSUME NEW x \in Int
  PROVE  Half(x) \in Int
BY DEF Half

LEMMA DeviationType ==
  ASSUME Sizes, TypeOK, NEW n \in Node, NEW c \in Int
  PROVE  Deviation(n, c) \in Int
<1>1. get_rtt_avg(n) \in Int
  BY MeanType DEF TypeOK
<1>2. clock[n] \in Int /\ deviation_avg[n] \in Int
  BY DEF TypeOK
<1> QED
  BY <1>1, <1>2, HalfType DEF Deviation

LEMMA MessageType ==
  ASSUME Sizes, time \in Nat, NEW type \in {"RTT_CAL", "RTT_VAL", "TIME"},
         NEW s \in Node, NEW t \in Node, NEW c \in Int, NEW l \in Latency,
         s = 0 => t # 0, s # 0 => t = 0 /\ type = "RTT_CAL"
  PROVE  Message(type, s, t, c, l) \in Msg
<1>1. time + l \in Int
  BY DEF Sizes, Latency
<1> QED
  BY <1>1 DEF Message, Msg

LEMMA Element ==
  ASSUME NEW M, NEW list \in Seq(M), NEW m \in ToSet(list)
  PROVE  m \in M
BY DEF ToSet

\* The message that the status machine of a node, or the pipe of a node, is at.
LEMMA AtHead ==
  ASSUME NEW M, NEW lists \in [Node -> Seq(M)], NEW n \in Node, lists[n] # <<>>
  PROVE  /\ Head(lists[n]) \in M /\ Head(lists[n]) \in ToSet(lists[n])
         /\ Tail(lists[n]) \in Seq(M)
         /\ ToSet(lists[n]) = {Head(lists[n])} \union ToSet(Tail(lists[n]))
<1>1. lists[n] \in Seq(M)
  OBVIOUS
<1> QED
  BY <1>1, HeadAndTail

LEMMA TypeInit ==
  ASSUME Sizes, Init
  PROVE  TypeOK
<1>1. NodesCount \in Nat \ {0} /\ BalancerSize \in Nat \ {0}
      /\ StartTime \in Int
  BY DEF Sizes
<1>2. 0 \in Node /\ 0 \in Slots
  BY <1>1 DEF Node, Slots
<1>3. <<>> \in Seq(Msg)
  OBVIOUS
<1> QED
  BY <1>1, <1>2, <1>3 DEF Init, TypeOK, Loops

-------------------------------------------------------------------------------
(* Messages arrive on time *)

\* process_pipe has moved in this round what of n's pipe is due.
Passed(n) == phase \in {"machine", "rtt", "time"} \/ (phase = "pipe" /\ n < turn)

\* The status machine of n has emptied its queue, or nothing was put there yet.
Served(n) == phase \in {"clock", "rtt", "time"} \/ (phase = "machine" /\ n < turn)

InPipe(n) ==
  /\ Sorted(pipe[n])
  /\ \A m \in ToSet(pipe[n]) :
       m.source = n /\ m.latency >= time /\ (Passed(n) => m.latency > time)

InQueue(n) ==
  /\ \A m \in ToSet(queue[n]) : m.target = n /\ m.latency = time
  /\ Served(n) => queue[n] = <<>>

Placed == \A n \in Node : InPipe(n) /\ InQueue(n)

\* What the lists hold after m was put into the pipe of n, and after the status
\* machine has taken h from its queue.
PutIntoPipe(n, m) ==
  /\ pipe' \in [Node -> Seq(Msg)]
  /\ \A k \in Node : Sorted(pipe'[k])
  /\ ToSet(pipe'[n]) = ToSet(pipe[n]) \union {m}
  /\ \A k \in Node \ {n} : pipe'[k] = pipe[k]

TakenFromQueue(h) ==
  /\ phase = "machine" /\ UNCHANGED <<time, phase, turn>>
  /\ h \in Msg /\ h \in ToSet(queue[turn]) /\ h.target = turn /\ h.latency = time
  /\ queue' \in [Node -> Seq(Msg)]
  /\ ToSet(queue[turn]) = {h} \union ToSet(queue'[turn])
  /\ \A k \in Node \ {turn} : queue'[k] = queue[k]

LEMMA MsgFields ==
  ASSUME NEW m \in Msg
  PROVE  /\ m.type \in {"RTT_CAL", "RTT_VAL", "TIME"}
         /\ m.source \in Node /\ m.target \in Node
         /\ m.content \in Int /\ m.latency \in Int
         /\ m.source = 0 => m.target # 0
         /\ m.source # 0 => m.target = 0 /\ m.type = "RTT_CAL"
BY DEF Msg

LEMMA PutShape ==
  ASSUME TypeOK, Placed, NEW n \in Node, NEW m \in Msg,
         pipe' = [pipe EXCEPT ![n] = Pushed(@, m)]
  PROVE  PutIntoPipe(n, m)
<1>1. pipe \in [Node -> Seq(Msg)] /\ pipe[n] \in Seq(Msg)
  BY DEF TypeOK
<1>2. \A k \in Node : Sorted(pipe[k])
  BY DEF Placed, InPipe
<1>3. /\ Pushed(pipe[n], m) \in Seq(Msg) /\ Sorted(Pushed(pipe[n], m))
      /\ ToSet(Pushed(pipe[n], m)) = ToSet(pipe[n]) \union {m}
  BY <1>1, <1>2, PushedShape
<1>4. pipe'[n] = Pushed(pipe[n], m) /\ \A k \in Node \ {n} : pipe'[k] = pipe[k]
  BY <1>1
<1>5. pipe' \in [Node -> Seq(Msg)]
  BY <1>1, <1>3
<1> QED
  BY <1>2, <1>3, <1>4, <1>5 DEF PutIntoPipe

LEMMA TakenShape ==
  ASSUME TypeOK, Placed, NEW type, Popped(type)
  PROVE  /\ TakenFromQueue(Head(queue[turn]))
         /\ Head(queue[turn]).type = type
<1>1. /\ phase = "machine" /\ queue[turn] # <<>> /\ Head(queue[turn]).type = type
      /\ queue' = [queue EXCEPT ![turn] = Tail(@)]
      /\ UNCHANGED <<time, phase, turn>>
  BY DEF Popped
<1>2. queue \in [Node -> Seq(Msg)] /\ turn \in Node
  BY DEF TypeOK
<1>3. /\ Head(queue[turn]) \in Msg /\ Head(queue[turn]) \in ToSet(queue[turn])
      /\ Tail(queue[turn]) \in Seq(Msg)
      /\ ToSet(queue[turn]) = {Head(queue[turn])} \union ToSet(Tail(queue[turn]))
  BY <1>1, <1>2, AtHead
<1>4. queue' \in [Node -> Seq(Msg)]
  BY <1>1, <1>2, <1>3
<1>5. queue'[turn] = Tail(queue[turn]) /\ \A k \in Node \ {turn} : queue'[k] = queue[k]
  BY <1>1, <1>2
<1>6. Head(queue[turn]).target = turn /\ Head(queue[turn]).latency = time
  BY <1>2, <1>3 DEF Placed, InQueue
<1> QED
  BY <1>1, <1>3, <1>4, <1>5, <1>6 DEF TakenFromQueue

LEMMA SendShape ==
  ASSUME Sizes, TypeOK, Placed, NEW type \in {"RTT_CAL", "TIME"}, SendToSlave(type)
  PROVE  /\ turn # 0
         /\ \E m \in Msg : /\ PutIntoPipe(0, m)
                           /\ m.type = type /\ m.source = 0 /\ m.target = turn
                           /\ m.content = clock[0] /\ m.latency - time \in Latency
<1>1. PICK l \in Latency :
        pipe' = [pipe EXCEPT ![0] = Pushed(@, Message(type, 0, turn, clock[0], l))]
  BY DEF SendToSlave
<1>2. turn # 0 /\ turn \in Node /\ time \in Nat /\ 0 \in Node /\ clock[0] \in Int
  BY DEF SendToSlave, TypeOK, Node, Sizes
<1>3. PICK m \in Msg : m = Message(type, 0, turn, clock[0], l)
  BY <1>2, MessageType
<1>4. l \in Int
  BY DEF Latency, Sizes
<1>5. /\ m.type = type /\ m.source = 0 /\ m.target = turn /\ m.content = clock[0]
      /\ m.latency = time + l
  BY <1>3 DEF Message
<1>6. pipe' = [pipe EXCEPT ![0] = Pushed(@, m)]
  BY <1>1, <1>3
<1>7. PutIntoPipe(0, m)
  BY <1>2, <1>3, <1>6, PutShape
<1>8. m.latency - time \in Latency
  BY <1>2, <1>4, <1>5
<1>9. turn # 0
  BY <1>2
<1> QED
  BY <1>3, <1>5, <1>7, <1>8, <1>9

LEMMA AnswerShape ==
  ASSUME Sizes, TypeOK, Placed, AnswerRtt
  PROVE  LET h == Head(queue[turn]) IN
         /\ TakenFromQueue(h) /\ h.type = "RTT_CAL"
         /\ \E m \in Msg :
              /\ PutIntoPipe(turn, m)
              /\ m.source = turn /\ m.target = h.source /\ m.latency - time \in Latency
              /\ turn # 0 => m.type = "RTT_CAL" /\ m.content = h.content
              /\ turn = 0 => m.type = "RTT_VAL"
                             /\ m.content = (clock[0] - h.content) \div 2
<1> DEFINE h == Head(queue[turn])
           type == IF turn = 0 THEN "RTT_VAL" ELSE "RTT_CAL"
           content == IF turn = 0 THEN (clock[0] - h.content) \div 2 ELSE h.content
<1>1. TakenFromQueue(h) /\ h.type = "RTT_CAL"
  BY TakenShape DEF AnswerRtt
<1>2. /\ h \in Msg /\ h.source \in Node /\ h.content \in Int
      /\ turn = 0 => h.source # 0
      /\ turn # 0 => h.source = 0
  BY <1>1, MsgFields DEF TakenFromQueue
<1>3. Answer(type, content)
  BY DEF AnswerRtt
<1>4. PICK l \in Latency :
        pipe' = [pipe EXCEPT ![turn] = Pushed(@, Message(type, turn, h.source, content, l))]
  BY <1>3 DEF Answer
<1>5. turn \in Node /\ time \in Nat /\ (turn = 0 => clock[0] \in Int)
  BY DEF TypeOK
<1>6. content \in Int /\ type \in {"RTT_CAL", "RTT_VAL", "TIME"}
  BY <1>2, <1>5
<1>7. PICK m \in Msg : m = Message(type, turn, h.source, content, l)
  BY <1>2, <1>5, <1>6, MessageType
<1>8. l \in Int
  BY DEF Latency, Sizes
<1>9. /\ m.type = type /\ m.source = turn /\ m.target = h.source /\ m.content = content
      /\ m.latency = time + l
  BY <1>7 DEF Message
<1>10. pipe' = [pipe EXCEPT ![turn] = Pushed(@, m)]
  BY <1>4, <1>7
<1>11. PutIntoPipe(turn, m)
  <2>1. PICK n \in Node : n = turn
    BY <1>5
  <2>2. pipe' = [pipe EXCEPT ![n] = Pushed(@, m)]
    BY <1>10, <2>1
  <2>3. PutIntoPipe(n, m)
    BY <1>7, <2>2, PutShape
  <2> QED
    BY <2>1, <2>3 DEF PutIntoPipe
<1>12. m.latency - time \in Latency
  BY <1>5, <1>8, <1>9
<1>13. /\ turn # 0 => m.type = "RTT_CAL" /\ m.content = h.content
       /\ turn = 0 => m.type = "RTT_VAL" /\ m.content = (clock[0] - h.content) \div 2
  BY <1>9
<1> HIDE DEF h
<1> QED
  BY <1>1, <1>7, <1>9, <1>11, <1>12, <1>13 DEF h

LEMMA PlacedInit ==
  ASSUME Sizes, Init
  PROVE  Placed
<1>1. \A n \in Node : pipe[n] = <<>> /\ queue[n] = <<>>
  BY DEF Init
<1>2. ToSet(<<>>) = {} /\ Sorted(<<>>)
  BY DEF ToSet, Sorted
<1> QED
  BY <1>1, <1>2 DEF Placed, InPipe, InQueue

\* Where the loop over the nodes is after a step that ends the turn of a node
LEMMA NextTurn ==
  ASSUME Sizes, TypeOK, NextNode
  PROVE  /\ turn' \in Node /\ phase' \in Loops
         /\ \A n \in Node : IF phase' = phase THEN n < turn' <=> n < turn \/ n = turn
                            ELSE n < turn \/ n = turn
         /\ phase' # phase => /\ phase' = FollowUp[phase] /\ turn' = 0
                              /\ turn + 1 = NodesCount
         /\ phase' = phase => turn + 1 < NodesCount
<1>1. turn \in 0 .. NodesCount - 1 /\ NodesCount \in Nat \ {0} /\ phase \in Loops
  BY DEF TypeOK, Node, Sizes
<1>2. phase # FollowUp[phase] /\ FollowUp[phase] \in Loops
  BY <1>1, FollowUps DEF Loops
<1>3. /\ turn' \in Node
      /\ \/ turn + 1 < NodesCount /\ turn' = turn + 1 /\ phase' = phase
         \/ turn + 1 = NodesCount /\ turn' = 0 /\ phase' = FollowUp[phase]
  BY <1>1, NextNodes DEF Node
<1>4. \A n \in Node : n \in 0 .. NodesCount - 1
  BY DEF Node
<1> QED
  BY <1>1, <1>2, <1>3, <1>4

LEMMA PlacedAdvance ==
  ASSUME Sizes, TypeOK, Placed, Advance
  PROVE  TypeOK' /\ Placed'
<1>1. PICK drift \in {-1, 0, 1} : clock' = [clock EXCEPT ![turn] = @ + 1 + drift]
  BY DEF Advance
<1>2. /\ phase = "clock" /\ NextNode
      /\ UNCHANGED <<time, pipe, queue, fresh, ring, rtt_index, first, deviation_avg>>
  BY DEF Advance, slaveVars, rttVars
<1>3. clock' \in [Node -> Int]
  BY <1>1 DEF TypeOK
<1>4. turn' \in Node /\ phase' \in {"clock", "pipe"} /\ (phase' = "pipe" => turn' = 0)
  BY <1>2, NextTurn, FollowUps
<1>5. TypeOK'
  BY <1>2, <1>3, <1>4 DEF TypeOK, Loops
<1>6. ASSUME NEW n \in Node
      PROVE  InPipe(n)' /\ InQueue(n)'
  <2>1. ~Passed(n)' /\ Served(n)
    BY <1>2, <1>4 DEF Passed, Served, Node
  <2>2. InPipe(n) /\ InQueue(n)
    BY DEF Placed
  <2> QED
    BY <1>2, <2>1, <2>2 DEF InPipe, InQueue
<1> QED
  BY <1>5, <1>6 DEF Placed

LEMMA PlacedPop ==
  ASSUME Sizes, TypeOK, Placed, PopFromPipe
  PROVE  /\ TypeOK' /\ Placed'
         /\ LET h == Head(pipe[turn]) IN
            /\ h \in Msg /\ h.source = turn
            /\ ToSet(pipe[turn]) = {h} \union ToSet(pipe'[turn])
            /\ ToSet(queue'[h.target]) = ToSet(queue[h.target]) \union {h}
            /\ \A n \in Node : n # turn => pipe'[n] = pipe[n]
            /\ \A n \in Node : n # h.target => queue'[n] = queue[n]
<1> DEFINE h == Head(pipe[turn])
           t == h.target
<1>1. /\ phase = "pipe" /\ pipe[turn] # <<>> /\ h.latency <= time
      /\ pipe' = [pipe EXCEPT ![turn] = Tail(@)]
      /\ queue' = [queue EXCEPT ![t] = Append(@, h)]
      /\ UNCHANGED <<time, phase, turn, clock, fresh, ring, rtt_index, first, deviation_avg>>
  BY DEF PopFromPipe, Due, slaveVars, rttVars
<1>2. turn \in Node /\ pipe \in [Node -> Seq(Msg)] /\ queue \in [Node -> Seq(Msg)]
      /\ time \in Nat
  BY DEF TypeOK
<1>3. /\ h \in Msg /\ h \in ToSet(pipe[turn]) /\ Tail(pipe[turn]) \in Seq(Msg)
      /\ ToSet(pipe[turn]) = {h} \union ToSet(Tail(pipe[turn]))
  BY <1>1, <1>2, AtHead
<1>4. t \in Node /\ h.latency \in Int
  BY <1>3, MsgFields
<1>5. h.source = turn /\ h.latency = time
  BY <1>1, <1>2, <1>3, <1>4 DEF Placed, InPipe
<1>6. pipe' \in [Node -> Seq(Msg)] /\ pipe'[turn] = Tail(pipe[turn])
      /\ \A n \in Node : n # turn => pipe'[n] = pipe[n]
  BY <1>1, <1>2, <1>3
<1>7. /\ Append(queue[t], h) \in Seq(Msg)
      /\ ToSet(Append(queue[t], h)) = ToSet(queue[t]) \union {h}
  BY <1>2, <1>3, <1>4, AppendElements
<1> HIDE DEF t
<1>8. queue' \in [Node -> Seq(Msg)] /\ queue'[t] = Append(queue[t], h)
      /\ \A n \in Node : n # t => queue'[n] = queue[n]
  BY <1>1, <1>2, <1>4, <1>7
<1>9. TypeOK'
  BY <1>1, <1>6, <1>8 DEF TypeOK
<1>10. Sorted(Tail(pipe[turn]))
  <2>1. Sorted(pipe[turn]) /\ pipe[turn] \in Seq(Msg)
    BY <1>2 DEF Placed, InPipe
  <2> DEFINE p == pipe[turn]
  <2>2. p \in Seq(Msg) /\ p # <<>> /\ Sorted(p)
    BY <1>1, <2>1
  <2> HIDE DEF p
  <2>3. /\ DOMAIN p = 1 .. Len(p) /\ DOMAIN Tail(p) = 1 .. Len(p) - 1 /\ Len(p) \in Nat \ {0}
        /\ \A k \in 1 .. Len(p) - 1 : Tail(p)[k] = p[k + 1]
    BY <2>2
  <2>4. Sorted(Tail(p))
    <3> SUFFICES ASSUME NEW k \in 1 .. Len(p) - 1, NEW l \in 1 .. Len(p) - 1, k < l
                 PROVE  Tail(p)[k].latency <= Tail(p)[l].latency
      BY <2>3 DEF Sorted
    <3>1. k + 1 \in 1 .. Len(p) /\ l + 1 \in 1 .. Len(p) /\ k + 1 < l + 1
      BY <2>3
    <3> QED
      BY <2>2, <2>3, <3>1 DEF Sorted
  <2> QED
    BY <2>4 DEF p
<1>11. ASSUME NEW n \in Node
       PROVE  InPipe(n)'
  <2>1. InPipe(n)
    BY DEF Placed
  <2>2. CASE n = turn
    BY <1>1, <1>3, <1>6, <1>10, <2>1, <2>2 DEF InPipe, Passed
  <2>3. CASE n # turn
    BY <1>1, <1>6, <2>1, <2>3 DEF InPipe, Passed
  <2> QED
    BY <2>2, <2>3
<1>12. ASSUME NEW n \in Node
       PROVE  InQueue(n)'
  <2>1. InQueue(n) /\ ~Served(n)'
    BY <1>1 DEF Placed, Served
  <2>2. CASE n = t
    BY <1>1, <1>5, <1>7, <1>8, <2>1, <2>2 DEF InQueue, t
  <2>3. CASE n # t
    BY <1>1, <1>8, <2>1, <2>3 DEF InQueue
  <2> QED
    BY <2>2, <2>3
<1>13. Placed'
  BY <1>11, <1>12 DEF Placed
<1> QED
  BY <1>3, <1>5, <1>6, <1>7, <1>8, <1>9, <1>13 DEF t

LEMMA PlacedEndPipe ==
  ASSUME Sizes, TypeOK, Placed, EndPipe
  PROVE  TypeOK' /\ Placed'
<1>1. /\ phase = "pipe" /\ ~Due /\ NextNode
      /\ UNCHANGED <<time, clock, pipe, queue, fresh, ring, rtt_index, first, deviation_avg>>
  BY DEF EndPipe, slaveVars, rttVars
<1>2. turn' \in Node /\ phase' \in {"pipe", "machine"} /\ (phase' = "machine" => turn' = 0)
  BY <1>1, NextTurn, FollowUps
<1>3. TypeOK'
  BY <1>1, <1>2 DEF TypeOK, Loops
<1>4. \A m \in ToSet(pipe[turn]) : m.latency > time
  <2> DEFINE p == pipe[turn]
  <2>1. p \in Seq(Msg) /\ Sorted(p) /\ time \in Nat /\ (p # <<>> => ~(Head(p).latency <= time))
    BY <1>1 DEF TypeOK, Placed, InPipe, Due
  <2> HIDE DEF p
  <2>2. SUFFICES ASSUME NEW m \in ToSet(p) PROVE m.latency > time
    BY DEF p
  <2>3. PICK k \in 1 .. Len(p) : m = p[k]
    BY <2>1 DEF ToSet
  <2>4. /\ Len(p) \in Nat /\ Head(p) = p[1] /\ p # <<>> /\ 1 \in 1 .. Len(p)
        /\ DOMAIN p = 1 .. Len(p) /\ p[1] \in Msg /\ p[k] \in Msg
    BY <2>1, <2>3
  <2>5. p[1].latency \in Int /\ p[k].latency \in Int
    BY <2>4, MsgFields
  <2>6. k = 1 \/ p[1].latency <= p[k].latency
    BY <2>1, <2>4 DEF Sorted
  <2> QED
    BY <2>1, <2>3, <2>4, <2>5, <2>6
<1>5. ASSUME NEW n \in Node
      PROVE  InPipe(n)' /\ InQueue(n)'
  <2>1. Passed(n)' => Passed(n) \/ n = turn
    BY <1>1, <1>2, NextTurn DEF Passed
  <2>2. InPipe(n) /\ InQueue(n) /\ ~Served(n)'
    BY <1>2 DEF Placed, Served, Node
  <2>3. InPipe(n)'
    BY <1>1, <1>4, <2>1, <2>2 DEF InPipe
  <2> QED
    BY <1>1, <2>2, <2>3 DEF InQueue
<1> QED
  BY <1>3, <1>5 DEF Placed

LEMMA PlacedEndMachine ==
  ASSUME Sizes, TypeOK, Placed, EndMachine
  PROVE  TypeOK' /\ Placed'
<1>1. /\ phase = "machine" /\ queue[turn] = <<>> /\ NextNode
      /\ UNCHANGED <<time, clock, pipe, queue, fresh, ring, rtt_index, first, deviation_avg>>
  BY DEF EndMachine, slaveVars, rttVars
<1>2. turn' \in Node /\ phase' \in {"machine", "rtt"} /\ (phase' = "rtt" => turn' = 0)
  BY <1>1, NextTurn, FollowUps
<1>3. TypeOK'
  BY <1>1, <1>2 DEF TypeOK, Loops
<1>4. ASSUME NEW n \in Node
      PROVE  InPipe(n)' /\ InQueue(n)'
  <2>1. Served(n)' => Served(n) \/ n = turn
    BY <1>1, <1>2, NextTurn DEF Served
  <2>2. InPipe(n) /\ InQueue(n) /\ Passed(n)
    BY <1>1 DEF Placed, Passed
  <2> QED
    BY <1>1, <2>1, <2>2 DEF InPipe, InQueue
<1> QED
  BY <1>3, <1>4 DEF Placed

\* A queue stays on time when a message is taken from it.
LEMMA QueuesTaken ==
  ASSUME Sizes, TypeOK, Placed, NEW h, TakenFromQueue(h)
  PROVE  \A n \in Node : InQueue(n)'
<1> SUFFICES ASSUME NEW n \in Node PROVE InQueue(n)'
  OBVIOUS
<1>1. InQueue(n) /\ turn \in Node /\ turn' = turn /\ time' = time /\ phase' = phase
      /\ phase = "machine"
  BY DEF Placed, TypeOK, TakenFromQueue
<1>2. CASE n = turn
  <2>1. \A m \in ToSet(queue'[n]) : m \in ToSet(queue[n])
    BY <1>2 DEF TakenFromQueue
  <2>2. ~(n < turn) /\ turn \in Int
    BY <1>1, <1>2 DEF Node
  <2> QED
    BY <1>1, <2>1, <2>2 DEF InQueue, Served
<1>3. CASE n # turn
  <2>1. queue'[n] = queue[n]
    BY <1>3 DEF TakenFromQueue
  <2> QED
    BY <1>1, <2>1 DEF InQueue, Served
<1> QED
  BY <1>2, <1>3

\* When process_pipe has moved what is due, what is in the pipes leaves them in a
\* later round, and a message put there does so, too.
LEMMA LaterRounds ==
  ASSUME Sizes, TypeOK, Placed, phase \in {"machine", "rtt", "time"}, NEW n \in Node,
         \/ UNCHANGED pipe
         \/ \E m \in Msg, k \in Node :
              PutIntoPipe(k, m) /\ m.source = k /\ m.latency - time \in Latency
  PROVE  /\ Sorted(pipe'[n])
         /\ \A m \in ToSet(pipe'[n]) : m \in Msg /\ m.source = n /\ m.latency > time
<1>1. Sorted(pipe[n]) /\ \A m \in ToSet(pipe[n]) : m \in Msg /\ m.source = n /\ m.latency > time
  <2>1. pipe[n] \in Seq(Msg)
    BY DEF TypeOK
  <2> QED
    BY <2>1, Element DEF Placed, InPipe, Passed
<1>2. CASE UNCHANGED pipe
  BY <1>1, <1>2
<1>3. CASE ~ UNCHANGED pipe
  <2>1. PICK m \in Msg, k \in Node :
          PutIntoPipe(k, m) /\ m.source = k /\ m.latency - time \in Latency
    BY <1>3
  <2>2. m.latency > time
    <3>1. m.latency \in Int /\ time \in Int
      BY MsgFields DEF TypeOK
    <3> DEFINE l == m.latency
    <3>2. l - time >= 1 /\ l \in Int
      BY <2>1, <3>1 DEF Latency, Sizes
    <3> HIDE DEF l
    <3>3. l > time
      BY <3>1, <3>2
    <3> QED
      BY <3>3 DEF l
  <2>3. Sorted(pipe'[n])
    BY <2>1 DEF PutIntoPipe
  <2>4. CASE n = k
    BY <1>1, <2>1, <2>2, <2>3, <2>4 DEF PutIntoPipe
  <2>5. CASE n # k
    <3>1. pipe'[n] = pipe[n]
      BY <2>1, <2>5 DEF PutIntoPipe
    <3> QED
      BY <1>1, <3>1
  <2> QED
    BY <2>4, <2>5
<1> QED
  BY <1>2, <1>3

LEMMA PlacedAnswer ==
  ASSUME Sizes, TypeOK, Placed, AnswerRtt
  PROVE  TypeOK' /\ Placed'
<1>1. PICK h \in Msg, m \in Msg :
        /\ TakenFromQueue(h) /\ PutIntoPipe(turn, m)
        /\ m.source = turn /\ m.latency - time \in Latency
  BY AnswerShape DEF TakenFromQueue
<1>2. /\ phase = "machine" /\ turn \in Node
      /\ UNCHANGED <<time, phase, turn, clock, fresh, ring, rtt_index, first, deviation_avg>>
  BY <1>1 DEF TakenFromQueue, AnswerRtt, slaveVars, rttVars, TypeOK
<1>3. pipe' \in [Node -> Seq(Msg)] /\ queue' \in [Node -> Seq(Msg)]
  BY <1>1 DEF TakenFromQueue, PutIntoPipe
<1>4. TypeOK'
  BY <1>2, <1>3 DEF TypeOK
<1>5. ASSUME NEW n \in Node
      PROVE  InPipe(n)'
  <2>1. /\ Sorted(pipe'[n])
        /\ \A x \in ToSet(pipe'[n]) : x \in Msg /\ x.source = n /\ x.latency > time
    BY <1>1, <1>2, LaterRounds
  <2>2. time' \in Int /\ \A x \in Msg : x.latency \in Int
    BY <1>4, MsgFields DEF TypeOK
  <2>3. \A x \in ToSet(pipe'[n]) : x.source = n /\ x.latency > time' /\ x.latency >= time'
    BY <1>2, <2>1, <2>2
  <2> QED
    BY <2>1, <2>3 DEF InPipe
<1>6. \A n \in Node : InQueue(n)'
  BY <1>1, QueuesTaken
<1> QED
  BY <1>4, <1>5, <1>6 DEF Placed

LEMMA PlacedSave ==
  ASSUME Sizes, TypeOK, Placed, SaveRtt
  PROVE  TypeOK' /\ Placed'
<1> DEFINE h == Head(queue[turn])
<1>1. TakenFromQueue(h)
  BY TakenShape DEF SaveRtt
<1>2. /\ phase = "machine" /\ turn \in Node
      /\ UNCHANGED <<time, phase, turn, clock, pipe, first, deviation_avg>>
  BY <1>1 DEF TakenFromQueue, SaveRtt, TypeOK
<1>3. queue' \in [Node -> Seq(Msg)] /\ h.content \in Int
  BY <1>1, MsgFields DEF TakenFromQueue
<1>4. fresh' \in [Node -> BOOLEAN]
  BY <1>2 DEF SaveRtt, TypeOK
<1>5. ring' \in [Node -> [Slots -> Int]] /\ rtt_index' \in [Node -> Slots]
  <2> DEFINE c == h.content
  <2>0. c \in Int /\ ring \in [Node -> [Slots -> Int]] /\ rtt_index \in [Node -> Slots]
    BY <1>3 DEF TypeOK
  <2>1. CASE fresh[turn]
    <3>1. ring' = [ring EXCEPT ![turn] = [k \in Slots |-> c]] /\ rtt_index' = rtt_index
      BY <2>1 DEF SaveRtt
    <3> HIDE DEF c
    <3> QED
      BY <1>2, <2>0, <3>1
  <2>2. CASE ~fresh[turn]
    <3>1. /\ ring' = [ring EXCEPT ![turn][rtt_index[turn]] = c]
          /\ rtt_index' = [rtt_index EXCEPT ![turn] = (@ + 1) % BalancerSize]
      BY <2>2 DEF SaveRtt
    <3>2. \A i \in Int : (i + 1) % BalancerSize \in Slots
      BY DEF Sizes, Slots
    <3>3. rtt_index[turn] \in Slots /\ rtt_index[turn] \in Int
      BY <1>2, <2>0 DEF Slots
    <3> HIDE DEF c
    <3> QED
      BY <1>2, <2>0, <3>1, <3>2, <3>3
  <2> QED
    BY <2>1, <2>2
<1>6. TypeOK'
  BY <1>2, <1>3, <1>4, <1>5 DEF TypeOK
<1>7. \A n \in Node : InQueue(n)'
  BY <1>1, QueuesTaken
<1>8. \A n \in Node : InPipe(n)'
  BY <1>2 DEF Placed, InPipe, Passed
<1> QED
  BY <1>6, <1>7, <1>8 DEF Placed

LEMMA PlacedTakeOver ==
  ASSUME Sizes, TypeOK, Placed, TakeOverTime
  PROVE  TypeOK' /\ Placed'
<1> DEFINE h == Head(queue[turn])
           d == Deviation(turn, h.content)
           time1 == h.content + get_rtt_avg(turn) + Clamped(d)
<1>1. TakenFromQueue(h)
  BY TakenShape DEF TakeOverTime
<1>2. /\ phase = "machine" /\ turn \in Node
      /\ UNCHANGED <<time, phase, turn, pipe, fresh, ring, rtt_index>>
  BY <1>1 DEF TakenFromQueue, TakeOverTime, TypeOK, rttVars
<1>3. queue' \in [Node -> Seq(Msg)] /\ h.content \in Int
  BY <1>1, MsgFields DEF TakenFromQueue
<1>4. d \in Int /\ time1 \in Int
  <2>1. get_rtt_avg(turn) \in Int
    BY <1>2, MeanType DEF TypeOK
  <2>2. d \in Int
    BY <1>2, <1>3, DeviationType
  <2> QED
    BY <1>3, <2>1, <2>2, ClampedWithin
<1>5. /\ deviation_avg' = [deviation_avg EXCEPT ![turn] = d]
      /\ first' = [first EXCEPT ![turn] = FALSE]
      /\ clock' = [clock EXCEPT ![turn] = time1]
  BY DEF TakeOverTime
<1> HIDE DEF d, time1
<1>6. TypeOK'
  BY <1>2, <1>3, <1>4, <1>5 DEF TypeOK
<1>7. \A n \in Node : InQueue(n)'
  BY <1>1, QueuesTaken
<1>8. \A n \in Node : InPipe(n)'
  BY <1>2 DEF Placed, InPipe, Passed
<1> QED
  BY <1>6, <1>7, <1>8 DEF Placed

LEMMA PlacedStart ==
  ASSUME Sizes, TypeOK, Placed, StartRtt \/ StartTimeSync
  PROVE  TypeOK' /\ Placed'
<1>1. /\ phase \in {"rtt", "time"} /\ NextNode
      /\ UNCHANGED <<clock, queue, fresh, ring, rtt_index, first, deviation_avg>>
      /\ UNCHANGED pipe \/ SendToSlave("RTT_CAL") \/ SendToSlave("TIME")
      /\ time' = time \/ (phase = "time" /\ turn + 1 = NodesCount /\ time' = time + 1)
  BY DEF StartRtt, StartTimeSync, slaveVars, rttVars
<1>2. /\ turn' \in Node
      /\ phase' = phase \/ (phase = "rtt" /\ phase' = "time") \/ (phase = "time" /\ phase' = "clock")
      /\ time' = time + 1 => phase' = "clock"
  <2>1. turn \in Int /\ NodesCount \in Int /\ time \in Int
    BY DEF TypeOK, Node, Sizes
  <2>2. /\ turn' \in Node
        /\ phase' # phase => phase' = FollowUp[phase]
        /\ phase' = phase => turn + 1 < NodesCount
    BY <1>1, NextTurn
  <2> QED
    BY <1>1, <2>1, <2>2, FollowUps
<1>3. /\ pipe' \in [Node -> Seq(Msg)]
      /\ \/ UNCHANGED pipe
         \/ \E m \in Msg, k \in Node :
              PutIntoPipe(k, m) /\ m.source = k /\ m.latency - time \in Latency
  <2>1. CASE UNCHANGED pipe
    BY <2>1 DEF TypeOK
  <2>2. CASE SendToSlave("RTT_CAL") \/ SendToSlave("TIME")
    <3>1. \E m \in Msg : PutIntoPipe(0, m) /\ m.source = 0 /\ m.latency - time \in Latency
      BY <2>2, SendShape
    <3>2. 0 \in Node
      BY DEF Sizes, Node
    <3> QED
      BY <3>1, <3>2 DEF PutIntoPipe
  <2> QED
    BY <1>1, <2>1, <2>2
<1>4. time' \in Nat /\ time \in Nat
  BY <1>1 DEF TypeOK
<1>5. TypeOK'
  BY <1>1, <1>2, <1>3, <1>4 DEF TypeOK, Loops
<1>6. ASSUME NEW n \in Node
      PROVE  InPipe(n)'
  <2>1. /\ Sorted(pipe'[n])
        /\ \A x \in ToSet(pipe'[n]) : x \in Msg /\ x.source = n /\ x.latency > time
    BY <1>1, <1>3, LaterRounds
  <2>2. \A x \in Msg : x.latency \in Int
    BY MsgFields
  <2>3. \A x \in ToSet(pipe'[n]) : x.source = n /\ x.latency >= time'
    BY <1>1, <1>4, <2>1, <2>2
  <2>4. Passed(n)' => time' = time
    BY <1>1, <1>2, <1>4 DEF Passed
  <2> QED
    BY <2>1, <2>3, <2>4 DEF InPipe
<1>7. ASSUME NEW n \in Node
      PROVE  InQueue(n)'
  <2>1. queue'[n] = <<>>
    BY <1>1 DEF Placed, InQueue, Served
  <2>2. ToSet(<<>>) = {}
    BY DEF ToSet
  <2> QED
    BY <2>1, <2>2 DEF InQueue
<1> QED
  BY <1>5, <1>6, <1>7 DEF Placed

LEMMA PlacedStep ==
  ASSUME Sizes, TypeOK, Placed, [Next]_vars
  PROVE  TypeOK' /\ Placed'
<1>1. CASE UNCHANGED vars
  BY <1>1 DEF vars, slaveVars, rttVars, TypeOK, Placed, InPipe, InQueue, Passed, Served
<1>2. CASE Machine
  BY <1>2, PlacedEndMachine, PlacedAnswer, PlacedSave, PlacedTakeOver DEF Machine
<1> QED
  BY <1>1, <1>2, PlacedAdvance, PlacedPop, PlacedEndPipe, PlacedStart DEF Next

\* Theorem. When the status machine runs, the pipes hold exactly the messages whose
\* latency is not over and the queues exactly those whose latency is (push_to_pipe,
\* pop_from_pipe_to_queue, process_pipe of the simulation).
THEOREM MessagesOnTime == ASSUME Sizes PROVE Spec => []OnTime
<1>1. Init => TypeOK /\ Placed
  BY TypeInit, PlacedInit
<1>2. (TypeOK /\ Placed) /\ [Next]_vars => (TypeOK /\ Placed)'
  BY PlacedStep
<1>3. TypeOK /\ Placed => OnTime
  <2> SUFFICES ASSUME TypeOK, Placed, phase = "machine", NEW n \in Node
               PROVE  /\ \A k \in DOMAIN pipe[n] : pipe[n][k].latency > time
                      /\ \A k \in DOMAIN queue[n] : queue[n][k].latency = time
    BY DEF OnTime
  <2>1. /\ \A k \in DOMAIN pipe[n] : pipe[n][k] \in ToSet(pipe[n])
        /\ \A k \in DOMAIN queue[n] : queue[n][k] \in ToSet(queue[n])
    BY DEF ToSet
  <2> QED
    BY <2>1 DEF Placed, InPipe, InQueue, Passed
<1> QED
  BY <1>1, <1>2, <1>3, PTL DEF Spec

-------------------------------------------------------------------------------
(* Clocks and rounds *)

\* The last round in which the clock of n has run
Round(n) == IF phase = "clock" /\ turn <= n THEN time - 1 ELSE time

Offset(n) == clock[n] - Round(n)

\* How often the clock of n may jump after round s and until round t
Jumps(n, s, t) == (t \div DriftPeriod[n]) - (s \div DriftPeriod[n])

Near(a, b, d) == a - b <= d /\ b - a <= d

LEMMA NearSum ==
  ASSUME NEW a \in Int, NEW b \in Int, NEW c \in Int, NEW d \in Int, NEW e \in Int,
         Near(a, b, d), Near(b, c, e)
  PROVE  Near(a, c, d + e)
BY DEF Near

LEMMA JumpsType ==
  ASSUME Sizes, NEW n \in Node, NEW s \in Int, NEW t \in Int
  PROVE  Jumps(n, s, t) \in Int
BY DriftPositive, DivBounds DEF Jumps

LEMMA JumpsSum ==
  ASSUME Sizes, NEW n \in Node, NEW s \in Int, NEW t \in Int, NEW u \in Int
  PROVE  Jumps(n, s, t) + Jumps(n, t, u) = Jumps(n, s, u)
<1> DEFINE D == DriftPeriod[n]
<1>1. s \div D \in Int /\ t \div D \in Int /\ u \div D \in Int
  BY DriftPositive, DivBounds
<1> DEFINE x == s \div D   y == t \div D   z == u \div D
<1> HIDE DEF x, y, z
<1>2. (y - x) + (z - y) = z - x
  BY <1>1 DEF x, y, z
<1> QED
  BY <1>2 DEF x, y, z, Jumps

LEMMA JumpsGrow ==
  ASSUME Sizes, NEW n \in Node, NEW s \in Int, NEW t \in Int, s <= t
  PROVE  0 <= Jumps(n, s, t)
<1> DEFINE D == DriftPeriod[n]
<1>1. s \div D \in Int /\ t \div D \in Int /\ s \div D <= t \div D
  BY DriftPositive, DivBounds, DivMonotone
<1> DEFINE x == s \div D   y == t \div D
<1> HIDE DEF x, y
<1>2. 0 <= y - x
  BY <1>1 DEF x, y
<1> QED
  BY <1>2 DEF x, y, Jumps

\* In d rounds a clock jumps at most once more than the whole periods in them.
LEMMA JumpsBound ==
  ASSUME Sizes, NEW n \in Node, NEW s \in Int, NEW t \in Int, NEW d \in Int, t - s <= d
  PROVE  Jumps(n, s, t) <= d \div DriftPeriod[n] + 1
<1>0. PICK D \in Nat \ {0} : D = DriftPeriod[n]
  BY DriftPositive
<1>1. /\ s \div D \in Int /\ t \div D \in Int /\ d \div D \in Int
      /\ s < D * (s \div D) + D /\ D * (t \div D) <= t /\ d < D * (d \div D) + D
  BY DivBounds
<1>2. PICK x \in Int, y \in Int, z \in Int : x = s \div D /\ y = t \div D /\ z = d \div D
  BY <1>1
<1>3. s < D * x + D /\ D * y <= t /\ d < D * z + D
  BY <1>1, <1>2
<1>4. y - x <= z + 1
  <2> SUFFICES ASSUME y - x - z - 2 >= 0 PROVE FALSE
    OBVIOUS
  <2>1. D * (y - x - z - 2) >= 0
    OBVIOUS
  <2>2. D * (y - x - z - 2) = D * y - D * x - D * z - D - D
    OBVIOUS
  <2> DEFINE p == D * x   q == D * y   r == D * z
  <2>3. p \in Int /\ q \in Int /\ r \in Int
    OBVIOUS
  <2>4. q - p - r - D - D >= 0 /\ s < p + D /\ q <= t /\ d < r + D
    BY <1>3, <2>1, <2>2
  <2> HIDE DEF p, q, r
  <2> QED
    BY <2>3, <2>4
<1> QED
  BY <1>0, <1>2, <1>4 DEF Jumps

LEMMA JumpsHit ==
  ASSUME Sizes, NEW n \in Node, NEW t \in Int, t % DriftPeriod[n] = 0
  PROVE  1 <= Jumps(n, t - 1, t)
<1>0. PICK D \in Nat \ {0} : D = DriftPeriod[n]
  BY DriftPositive
<1>1. /\ (t - 1) \div D \in Int /\ D * ((t - 1) \div D) <= t - 1
      /\ t \div D \in Int /\ t = D * (t \div D)
  <2>1. t % D = 0
    BY <1>0
  <2>2. t = D * (t \div D) + (t % D)
    OBVIOUS
  <2> QED
    BY <2>1, <2>2, DivBounds
<1>2. PICK x \in Int, y \in Int : x = (t - 1) \div D /\ y = t \div D
  BY <1>1
<1>3. D * x <= t - 1 /\ t = D * y
  BY <1>1, <1>2
<1>4. 1 <= y - x
  <2> SUFFICES ASSUME x - y >= 0 PROVE FALSE
    OBVIOUS
  <2>1. D * (x - y) >= 0
    OBVIOUS
  <2>2. D * (x - y) = D * x - D * y
    OBVIOUS
  <2>3. PICK p \in Int, q \in Int : p = D * x /\ q = D * y
    OBVIOUS
  <2> QED
    BY <1>3, <2>1, <2>2, <2>3
<1> QED
  BY <1>0, <1>2, <1>4 DEF Jumps

LEMMA OffsetType ==
  ASSUME TypeOK, NEW n \in Node
  PROVE  Round(n) \in Int /\ Offset(n) \in Int
BY DEF TypeOK, Round, Offset

\* A loop over the nodes other than the first leaves the rounds of the clocks.
LEMMA RoundsKept ==
  ASSUME Sizes, TypeOK, Placed, [Next]_vars, phase # "clock" \/ UNCHANGED vars,
         NEW n \in Node
  PROVE  Round(n)' = Round(n)
<1>0. time \in Nat /\ turn \in 0 .. NodesCount - 1 /\ NodesCount \in Nat /\ n \in 0 .. NodesCount - 1
  BY DEF TypeOK, Node, Sizes
<1>1. CASE UNCHANGED vars
  BY <1>1 DEF vars, Round
<1>2. CASE PopFromPipe \/ AnswerRtt \/ SaveRtt \/ TakeOverTime
  BY <1>2 DEF PopFromPipe, AnswerRtt, SaveRtt, TakeOverTime, Popped, Round
<1>3. CASE EndPipe \/ EndMachine \/ StartRtt
  <2>1. phase \in {"pipe", "machine", "rtt"} /\ NextNode /\ time' = time
    BY <1>3 DEF EndPipe, EndMachine, StartRtt
  <2>2. phase # "clock" /\ phase' # "clock"
    BY <2>1, NextTurn, FollowUps
  <2> QED
    BY <2>1, <2>2 DEF Round
<1>4. CASE StartTimeSync
  <2>1. /\ phase = "time" /\ NextNode
        /\ time' = IF turn + 1 = NodesCount THEN time + 1 ELSE time
    BY <1>4 DEF StartTimeSync
  <2>2. \/ phase' = "time" /\ turn + 1 < NodesCount
        \/ phase' = "clock" /\ turn' = 0 /\ turn + 1 = NodesCount
    BY <2>1, NextTurn, FollowUps
  <2>3. CASE phase' = "time" /\ turn + 1 < NodesCount
    BY <1>0, <2>1, <2>3 DEF Round
  <2>4. CASE phase' = "clock" /\ turn' = 0 /\ turn + 1 = NodesCount
    BY <1>0, <2>1, <2>4 DEF Round
  <2> QED
    BY <2>2, <2>3, <2>4
<1>5. ~ Advance \/ UNCHANGED vars
  BY DEF Advance
<1> QED
  BY <1>1, <1>2, <1>3, <1>4, <1>5 DEF Next, Machine

\* A clock drifts from its round by a jump of one at most, and only when it may jump.
LEMMA Drifted ==
  ASSUME Sizes, TypeOK, Placed, [Next]_vars, NEW n \in Node,
         TakeOverTime => n # turn
  PROVE  Near(Offset(n)', Offset(n), Jumps(n, Round(n), Round(n)'))
<1>0. /\ time \in Nat /\ turn \in 0 .. NodesCount - 1 /\ NodesCount \in Nat
      /\ n \in 0 .. NodesCount - 1 /\ clock \in [Node -> Int] /\ turn \in Node
  BY DEF TypeOK, Node, Sizes
<1>1. CASE Advance
  <2>1. /\ phase = "clock" /\ NextNode /\ time' = time
        /\ \E drift \in IF time % DriftPeriod[turn] = 0 THEN {-1, 1} ELSE {0} :
             clock' = [clock EXCEPT ![turn] = @ + 1 + drift]
    BY <1>1 DEF Advance
  <2>2. IF n = turn \/ n < turn THEN Round(n)' = time ELSE Round(n)' = time - 1
    <3>1. turn' \in 0 .. NodesCount - 1
      BY <2>1, NextTurn DEF Node
    <3>2. \/ turn' = turn + 1 /\ phase' = "clock"
          \/ turn + 1 = NodesCount /\ phase' = "pipe"
      BY <1>0, <2>1, NextNodes, FollowUps
    <3> QED
      BY <1>0, <2>1, <3>1, <3>2 DEF Round
  <2>3. CASE n # turn
    <3>1. clock'[n] = clock[n] /\ Round(n)' = Round(n) /\ Round(n) \in Int
      BY <1>0, <2>1, <2>2, <2>3 DEF Round
    <3>2. Offset(n)' = Offset(n) /\ Offset(n) \in Int
      BY <1>0, <3>1 DEF Offset
    <3>3. 0 <= Jumps(n, Round(n), Round(n)') /\ Jumps(n, Round(n), Round(n)') \in Int
      BY <3>1, JumpsGrow, JumpsType
    <3> QED
      BY <3>2, <3>3 DEF Near
  <2>4. CASE n = turn
    <3>1. Round(n) = time - 1 /\ Round(n)' = time
      BY <1>0, <2>1, <2>2, <2>4 DEF Round
    <3>2. PICK drift \in {-1, 0, 1} : /\ clock'[n] = clock[n] + 1 + drift
                                      /\ time % DriftPeriod[n] # 0 => drift = 0
      BY <1>0, <2>1, <2>4
    <3>3. Offset(n)' = Offset(n) + drift /\ Offset(n) \in Int
      BY <1>0, <3>1, <3>2 DEF Offset
    <3>0. time - 1 \in Int /\ time \in Int /\ time - 1 <= time
      BY <1>0
    <3>4. PICK j \in Int : j = Jumps(n, time - 1, time)
      BY <3>0, JumpsType
    <3>5. 0 <= j /\ (drift # 0 => 1 <= j)
      BY <3>0, <3>2, <3>4, JumpsGrow, JumpsHit
    <3>6. Near(Offset(n)', Offset(n), j)
      BY <3>2, <3>3, <3>5 DEF Near
    <3> QED
      BY <3>1, <3>4, <3>6
  <2> QED
    BY <2>3, <2>4
<1>2. CASE ~ Advance
  <2>1. phase # "clock" \/ UNCHANGED vars
    BY <1>2 DEF Next, Machine, PopFromPipe, EndPipe, EndMachine, AnswerRtt, SaveRtt,
                TakeOverTime, Popped, StartRtt, StartTimeSync
  <2>2. Round(n)' = Round(n) /\ Round(n) \in Int
    BY <2>1, RoundsKept, OffsetType
  <2>3. clock'[n] = clock[n]
    <3>1. CASE TakeOverTime
      BY <1>0, <3>1 DEF TakeOverTime
    <3>2. CASE ~ TakeOverTime
      BY <1>2, <3>2 DEF Next, Machine, PopFromPipe, EndPipe, EndMachine, AnswerRtt,
                        SaveRtt, StartRtt, StartTimeSync, vars
    <3> QED
      BY <3>1, <3>2
  <2>4. Offset(n)' = Offset(n) /\ Offset(n) \in Int
    BY <1>0, <2>2, <2>3 DEF Offset
  <2>5. 0 <= Jumps(n, Round(n), Round(n)') /\ Jumps(n, Round(n), Round(n)') \in Int
    BY <2>2, JumpsGrow, JumpsType
  <2> QED
    BY <2>4, <2>5 DEF Near
<1> QED
  BY <1>1, <1>2

-------------------------------------------------------------------------------
(* What is under way *)

Underway == UNION {ToSet(pipe[n]) \union ToSet(queue[n]) : n \in Node}

\* What is under way is due in this round or later.
LEMMA UnderwayLate ==
  ASSUME TypeOK, Placed, NEW m \in Underway
  PROVE  m \in Msg /\ m.latency \in Int /\ m.latency >= time
<1>1. PICK n \in Node : m \in ToSet(pipe[n]) \/ m \in ToSet(queue[n])
  BY DEF Underway
<1>2. pipe[n] \in Seq(Msg) /\ queue[n] \in Seq(Msg) /\ time \in Int
  BY DEF TypeOK
<1>3. m \in Msg
  BY <1>1, <1>2, Element
<1>4. m.latency >= time
  BY <1>1, <1>2 DEF Placed, InPipe, InQueue
<1> QED
  BY <1>3, <1>4, MsgFields

LEMMA UnderwaySent ==
  ASSUME NEW k \in Node, NEW m, PutIntoPipe(k, m), UNCHANGED queue
  PROVE  Underway' = Underway \union {m}
BY DEF Underway, PutIntoPipe

LEMMA UnderwayTaken ==
  ASSUME TypeOK, NEW h, TakenFromQueue(h), UNCHANGED pipe
  PROVE  Underway' \subseteq Underway /\ Underway \subseteq Underway' \union {h}
<1>1. PICK t \in Node : t = turn
  BY DEF TypeOK
<1>2. /\ ToSet(queue[t]) = {h} \union ToSet(queue'[t])
      /\ \A k \in Node : k # t => queue'[k] = queue[k]
  BY <1>1 DEF TakenFromQueue
<1>3. ASSUME NEW x \in Underway'
      PROVE  x \in Underway
  <2>1. PICK n \in Node : x \in ToSet(pipe[n]) \/ x \in ToSet(queue'[n])
    BY DEF Underway
  <2> QED
    BY <1>2, <2>1 DEF Underway
<1>4. ASSUME NEW x \in Underway
      PROVE  x \in Underway' \union {h}
  <2>1. PICK n \in Node : x \in ToSet(pipe[n]) \/ x \in ToSet(queue[n])
    BY DEF Underway
  <2> QED
    BY <1>2, <2>1 DEF Underway
<1> QED
  BY <1>3, <1>4

LEMMA UnderwayAnswered ==
  ASSUME TypeOK, NEW h, TakenFromQueue(h), NEW k \in Node, NEW m, PutIntoPipe(k, m)
  PROVE  Underway' \subseteq Underway \union {m} /\ Underway \union {m} \subseteq Underway' \union {h}
<1>1. PICK t \in Node : t = turn
  BY DEF TypeOK
<1>2. /\ ToSet(queue[t]) = {h} \union ToSet(queue'[t])
      /\ \A i \in Node : i # t => queue'[i] = queue[i]
      /\ ToSet(pipe'[k]) = ToSet(pipe[k]) \union {m}
      /\ \A i \in Node : i # k => pipe'[i] = pipe[i]
  BY <1>1 DEF TakenFromQueue, PutIntoPipe
<1>3. ASSUME NEW x \in Underway'
      PROVE  x \in Underway \union {m}
  <2>1. PICK n \in Node : x \in ToSet(pipe'[n]) \/ x \in ToSet(queue'[n])
    BY DEF Underway
  <2> QED
    BY <1>2, <2>1 DEF Underway
<1>4. ASSUME NEW x \in Underway
      PROVE  x \in Underway' \union {h}
  <2>1. PICK n \in Node : x \in ToSet(pipe[n]) \/ x \in ToSet(queue[n])
    BY DEF Underway
  <2> QED
    BY <1>2, <2>1 DEF Underway
<1>5. m \in Underway'
  BY <1>2 DEF Underway
<1> QED
  BY <1>3, <1>4, <1>5

LEMMA UnderwayPopped ==
  ASSUME Sizes, TypeOK, Placed, PopFromPipe
  PROVE  Underway' = Underway
<1> DEFINE h == Head(pipe[turn])
<1>1. /\ h \in Msg /\ turn \in Node /\ h.target \in Node
      /\ ToSet(pipe[turn]) = {h} \union ToSet(pipe'[turn])
      /\ ToSet(queue'[h.target]) = ToSet(queue[h.target]) \union {h}
      /\ \A n \in Node : n # turn => pipe'[n] = pipe[n]
      /\ \A n \in Node : n # h.target => queue'[n] = queue[n]
  BY PlacedPop, MsgFields DEF TypeOK
<1> HIDE DEF h
<1>2. PICK t \in Node : t = h.target
  BY <1>1
<1>3. ASSUME NEW x \in Underway
      PROVE  x \in Underway'
  <2>1. PICK n \in Node : x \in ToSet(pipe[n]) \/ x \in ToSet(queue[n])
    BY DEF Underway
  <2>2. x \in ToSet(queue[n]) => x \in ToSet(queue'[n])
    BY <1>1, <1>2
  <2>3. x \in ToSet(pipe[n]) => x \in ToSet(pipe'[n]) \/ x \in ToSet(queue'[t])
    BY <1>1, <1>2
  <2> QED
    BY <1>2, <2>1, <2>2, <2>3 DEF Underway
<1>4. ASSUME NEW x \in Underway'
      PROVE  x \in Underway
  <2>1. PICK n \in Node : x \in ToSet(pipe'[n]) \/ x \in ToSet(queue'[n])
    BY DEF Underway
  <2>2. x \in ToSet(pipe'[n]) => x \in ToSet(pipe[n])
    BY <1>1
  <2>3. x \in ToSet(queue'[n]) => x \in ToSet(queue[n]) \/ x \in ToSet(pipe[turn])
    BY <1>1, <1>2
  <2> QED
    BY <1>1, <2>1, <2>2, <2>3 DEF Underway
<1> QED
  BY <1>3, <1>4

\* The steps that neither send nor answer nor evaluate a message
Quiet ==
  \/ Advance \/ PopFromPipe \/ EndPipe \/ EndMachine \/ UNCHANGED vars
  \/ StartRtt /\ UNCHANGED pipe /\ (time % RttPeriod # 0 \/ turn = 0)
  \/ StartTimeSync /\ UNCHANGED pipe /\ (time % TimePeriod # TimePeriod - 1 \/ turn = 0)

LEMMA UnderwayQuiet ==
  ASSUME Sizes, TypeOK, Placed, Quiet
  PROVE  Underway' = Underway /\ UNCHANGED <<fresh, ring, rtt_index, first, deviation_avg>>
<1>1. UNCHANGED <<fresh, ring, rtt_index, first, deviation_avg>>
  BY DEF Quiet, Advance, PopFromPipe, EndPipe, EndMachine, StartRtt, StartTimeSync,
         vars, slaveVars, rttVars
<1>2. CASE PopFromPipe
  BY <1>1, <1>2, UnderwayPopped
<1>3. CASE ~ PopFromPipe
  <2>1. UNCHANGED <<pipe, queue>>
    BY <1>3 DEF Quiet, Advance, EndPipe, EndMachine, StartRtt, StartTimeSync, vars
  <2> QED
    BY <1>1, <2>1 DEF Underway
<1> QED
  BY <1>2, <1>3

SendRtt == StartRtt /\ SendToSlave("RTT_CAL")
SendTime == StartTimeSync /\ SendToSlave("TIME") /\ time % TimePeriod = TimePeriod - 1

LEMMA StepCases ==
  ASSUME [Next]_vars
  PROVE  Quiet \/ AnswerRtt \/ SaveRtt \/ TakeOverTime \/ SendRtt \/ SendTime
<1>1. CASE StartRtt
  BY <1>1 DEF StartRtt, Quiet, SendRtt
<1>2. CASE StartTimeSync
  BY <1>2 DEF StartTimeSync, Quiet, SendTime
<1> QED
  BY <1>1, <1>2 DEF Next, Machine, Quiet

-------------------------------------------------------------------------------
(* What the messages measure *)

Measured == MinLatency - Mismeasured .. MaxLatency + Mismeasured

\* m stands for the master's clock of round s.
SentAt(m, s) ==
  /\ Near(Offset(0), m.content - s, Jumps(0, s, Round(0)))
  /\ m.type = "TIME" => s % TimePeriod = TimePeriod - 1
  /\ m.source = 0 => m.latency - s \in Latency
  /\ m.source # 0 => m.latency - s \in 2 * MinLatency .. 2 * MaxLatency

Content(m) ==
  IF m.type = "RTT_VAL" THEN m.content \in Measured
  ELSE \E s \in 0 .. time : SentAt(m, s)

Contents == \A m \in Underway : Content(m)

LEMMA TimeGrows ==
  ASSUME Sizes, TypeOK, [Next]_vars
  PROVE  time' \in {time, time + 1} /\ time \in Nat /\ \A s \in 0 .. time : s \in 0 .. time'
<1>1. time' \in {time, time + 1}
  BY DEF Next, Machine, Advance, PopFromPipe, EndPipe, EndMachine, AnswerRtt, SaveRtt,
         TakeOverTime, Popped, StartRtt, StartTimeSync, vars
<1> QED
  BY <1>1 DEF TypeOK

LEMMA MasterNode ==
  ASSUME Sizes
  PROVE  0 \in Node
BY DEF Sizes, Node

LEMMA ContentLater ==
  ASSUME Sizes, TypeOK, TypeOK', Placed, [Next]_vars, NEW m \in Msg, Content(m)
  PROVE  Content(m)'
<1>1. CASE m.type = "RTT_VAL"
  BY <1>1 DEF Content
<1>2. CASE m.type # "RTT_VAL"
  <2>1. PICK s \in 0 .. time : SentAt(m, s)
    BY <1>2 DEF Content
  <2>2. s \in 0 .. time' /\ s \in Int
    BY TimeGrows
  <2>3. Near(Offset(0)', Offset(0), Jumps(0, Round(0), Round(0)'))
    BY MasterNode, Drifted DEF TakeOverTime
  <2>4. /\ Round(0) \in Int /\ Offset(0) \in Int /\ Round(0)' \in Int /\ Offset(0)' \in Int
        /\ m.content - s \in Int
    <3>1. Round(0) \in Int /\ Offset(0) \in Int
      BY MasterNode, OffsetType
    <3>2. time' \in Int /\ clock'[0] \in Int
      BY MasterNode DEF TypeOK
    <3>3. Round(0)' \in Int
      BY <3>2 DEF Round
    <3>4. Offset(0)' \in Int
      BY <3>2, <3>3 DEF Offset
    <3>5. m.content - s \in Int
      BY <2>2, MsgFields
    <3> QED
      BY <3>1, <3>3, <3>4, <3>5
  <2>5. PICK i \in Int, j \in Int, k \in Int :
          /\ i = Jumps(0, s, Round(0)) /\ j = Jumps(0, Round(0), Round(0)')
          /\ k = Jumps(0, s, Round(0)') /\ i + j = k
    BY <2>2, <2>4, MasterNode, JumpsType, JumpsSum
  <2>6. Near(Offset(0)', m.content - s, j + i)
    BY <2>1, <2>3, <2>4, <2>5, NearSum DEF SentAt
  <2>7. j + i = k
    BY <2>5
  <2>8. SentAt(m, s)'
    BY <2>1, <2>5, <2>6, <2>7 DEF SentAt
  <2> QED
    BY <1>2, <2>2, <2>8 DEF Content
<1> QED
  BY <1>1, <1>2

\* What the master sends in a round stands for its clock of that round.
LEMMA ContentSent ==
  ASSUME Sizes, TypeOK, TypeOK', Placed, [Next]_vars, phase \in {"rtt", "time"},
         clock' = clock, NEW m \in Msg, m.content = clock[0], m.source = 0,
         m.latency - time \in Latency,
         m.type = "TIME" => time % TimePeriod = TimePeriod - 1, m.type # "RTT_VAL"
  PROVE  Content(m)'
<1>1. PICK s \in Int : s = time /\ s \in 0 .. time'
  BY TimeGrows
<1>2. Round(0)' = Round(0) /\ Round(0) = time
  BY MasterNode, RoundsKept DEF Round
<1>3. Offset(0)' = m.content - s /\ m.content - s \in Int
  BY <1>1, <1>2, MsgFields DEF Offset
<1>4. 0 <= Jumps(0, s, Round(0)') /\ Jumps(0, s, Round(0)') \in Int
  BY <1>1, <1>2, MasterNode, JumpsGrow, JumpsType
<1>5. Near(Offset(0)', m.content - s, Jumps(0, s, Round(0)'))
  BY <1>3, <1>4 DEF Near
<1>6. SentAt(m, s)'
  BY <1>1, <1>5 DEF SentAt
<1> QED
  BY <1>1, <1>6 DEF Content

LEMMA MismeasuredBound ==
  ASSUME Sizes
  PROVE  Mismeasured \in Nat /\ (2 * MaxLatency) \div DriftPeriod[0] + 1 <= 2 * Mismeasured
<1>1. PICK D \in Nat \ {0} : D = DriftPeriod[0]
  BY MasterNode, DriftPositive
<1>2. MaxLatency \in Nat /\ (2 * MaxLatency) \div D \in Int /\ 0 <= (2 * MaxLatency) \div D
  <2>1. 2 * MaxLatency \in Nat
    BY DEF Sizes
  <2>2. (2 * MaxLatency) \div D \in Int /\ 0 \div D <= (2 * MaxLatency) \div D
    BY <2>1, DivBounds, DivMonotone
  <2>3. 0 \div D = 0
    OBVIOUS
  <2> QED
    BY <2>1, <2>2, <2>3 DEF Sizes
<1>3. PICK x \in Nat : x = (2 * MaxLatency) \div D
  BY <1>2
<1>4. (x + 2) \div 2 \in Nat /\ x + 1 <= 2 * ((x + 2) \div 2)
  OBVIOUS
<1> QED
  BY <1>1, <1>3, <1>4 DEF Mismeasured

\* Half of the round trip that the master measures
LEMMA ContentMeasured ==
  ASSUME Sizes, TypeOK, Placed, phase = "machine", NEW h \in Msg, h.latency = time,
         h.source # 0, h.type = "RTT_CAL", Content(h)
  PROVE  (clock[0] - h.content) \div 2 \in Measured
<1>1. PICK s \in 0 .. time : SentAt(h, s)
  BY DEF Content
<1>2. Round(0) = time /\ Offset(0) = clock[0] - time
  BY DEF Round, Offset
<1>3. /\ time \in Int /\ s \in Int /\ clock[0] \in Int /\ h.content \in Int
      /\ MinLatency \in Int /\ MaxLatency \in Int
  BY MasterNode, MsgFields DEF TypeOK, Sizes
<1>4. time - s \in 2 * MinLatency .. 2 * MaxLatency
  BY <1>1 DEF SentAt
<1>5. PICK j \in Int : j = Jumps(0, s, time)
  BY <1>3, MasterNode, JumpsType
<1>6. j <= 2 * Mismeasured /\ Mismeasured \in Nat
  <2>1. 2 * MaxLatency \in Int /\ time - s <= 2 * MaxLatency
    BY <1>3, <1>4
  <2>2. j <= (2 * MaxLatency) \div DriftPeriod[0] + 1
    BY <1>3, <1>5, <2>1, MasterNode, JumpsBound
  <2>3. PICK x \in Int : x = (2 * MaxLatency) \div DriftPeriod[0]
    BY <2>1, MasterNode, DriftPositive, DivBounds
  <2>4. j <= x + 1 /\ x + 1 <= 2 * Mismeasured /\ Mismeasured \in Nat
    BY <2>2, <2>3, MismeasuredBound
  <2> QED
    BY <2>4
<1>7. Near(clock[0] - time, h.content - s, j)
  BY <1>1, <1>2, <1>5 DEF SentAt
<1>8. PICK e \in Nat, d \in Int : e = Mismeasured /\ d = clock[0] - h.content
  BY <1>3, <1>6
<1>9. 2 * MinLatency - 2 * e <= d /\ d <= 2 * MaxLatency + 2 * e
  BY <1>3, <1>4, <1>6, <1>7, <1>8 DEF Near
<1>10. d \div 2 \in MinLatency - e .. MaxLatency + e
  BY <1>3, <1>9
<1> QED
  BY <1>8, <1>10 DEF Measured

LEMMA ContentsStep ==
  ASSUME Sizes, TypeOK, TypeOK', Placed, Contents, [Next]_vars
  PROVE  Contents'
<1> SUFFICES ASSUME NEW m \in Underway' PROVE Content(m)'
  BY DEF Contents
<1>1. m \in Underway => Content(m)'
  BY UnderwayLate, ContentLater DEF Contents
<1>2. CASE Quiet
  BY <1>1, <1>2, UnderwayQuiet
<1>3. CASE AnswerRtt
  <2>1. PICK h \in Msg, a \in Msg :
          /\ TakenFromQueue(h) /\ h.type = "RTT_CAL" /\ PutIntoPipe(turn, a)
          /\ a.source = turn /\ a.latency - time \in Latency
          /\ turn # 0 => a.type = "RTT_CAL" /\ a.content = h.content
          /\ turn = 0 => a.type = "RTT_VAL" /\ a.content = (clock[0] - h.content) \div 2
    BY <1>3, AnswerShape DEF TakenFromQueue
  <2>2. turn \in Node
    BY DEF TypeOK
  <2>3. m \in Underway \/ m = a
    BY <2>1, <2>2, UnderwayAnswered
  <2>4. h \in Underway
    <3>1. PICK n \in Node : n = turn
      BY <2>2
    <3>2. h \in ToSet(queue[n])
      BY <2>1, <3>1 DEF TakenFromQueue
    <3> QED
      BY <3>2 DEF Underway
  <2>5. Content(h) /\ phase = "machine" /\ h.latency = time /\ h.target = turn
    BY <2>1, <2>4 DEF Contents, TakenFromQueue
  <2>6. CASE m = a /\ turn = 0
    <3>1. h.source # 0
      BY <2>5, <2>6, MsgFields
    <3> QED
      BY <2>1, <2>5, <2>6, <3>1, ContentMeasured DEF Content
  <2>7. CASE m = a /\ turn # 0
    <3>1. h.source = 0
      BY <2>5, <2>7, MsgFields
    <3>2. PICK s \in 0 .. time : SentAt(h, s)
      BY <2>1, <2>5 DEF Content
    <3>3. /\ s \in Int /\ time \in Int /\ a.latency \in Int
          /\ MinLatency \in Int /\ MaxLatency \in Int
      BY MsgFields DEF TypeOK, Sizes
    <3>4. time - s \in Latency
      BY <2>5, <3>1, <3>2 DEF SentAt
    <3>5. a.latency - s \in 2 * MinLatency .. 2 * MaxLatency
      <4> DEFINE l == a.latency
      <4>1. l - time \in MinLatency .. MaxLatency /\ time - s \in MinLatency .. MaxLatency /\ l \in Int
        BY <2>1, <3>3, <3>4 DEF Latency
      <4> HIDE DEF l
      <4>2. l - s \in 2 * MinLatency .. 2 * MaxLatency
        BY <3>3, <4>1
      <4> QED
        BY <4>2 DEF l
    <3>6. SentAt(a, s)
      BY <2>1, <2>7, <3>2, <3>5 DEF SentAt
    <3>7. Content(a)
      BY <2>1, <2>7, <3>6 DEF Content
    <3> QED
      BY <2>7, <3>7, ContentLater
  <2> QED
    BY <1>1, <2>3, <2>6, <2>7
<1>4. CASE SaveRtt \/ TakeOverTime
  <2>1. PICK h : TakenFromQueue(h) /\ UNCHANGED pipe
    BY <1>4, TakenShape DEF SaveRtt, TakeOverTime
  <2> QED
    BY <1>1, <2>1, UnderwayTaken
<1>5. CASE SendRtt \/ SendTime
  <2>1. PICK type \in {"RTT_CAL", "TIME"} :
          /\ SendToSlave(type) /\ UNCHANGED <<clock, queue>> /\ phase \in {"rtt", "time"}
          /\ type = "TIME" => time % TimePeriod = TimePeriod - 1
    BY <1>5 DEF SendRtt, SendTime, StartRtt, StartTimeSync
  <2>2. PICK a \in Msg : /\ PutIntoPipe(0, a)
                         /\ a.type = type /\ a.source = 0 /\ a.target = turn
                         /\ a.content = clock[0] /\ a.latency - time \in Latency
    BY <2>1, SendShape
  <2>3. m \in Underway \/ m = a
    BY <2>1, <2>2, MasterNode, UnderwaySent
  <2>4. Content(a)'
    BY <2>1, <2>2, ContentSent
  <2> QED
    BY <1>1, <2>3, <2>4
<1> QED
  BY <1>2, <1>3, <1>4, <1>5, StepCases

-------------------------------------------------------------------------------
(* What the slaves have measured *)

Rings == \A n \in Slave : ~fresh[n] => \A k \in Slots : ring[n][k] \in Measured

\* m is part of the first measurement for n.
FirstFor(n, m) ==
  \/ m.type = "RTT_CAL" /\ m.target = n /\ m.latency <= MaxLatency
  \/ m.type = "RTT_CAL" /\ m.source = n /\ m.latency <= 2 * MaxLatency
  \/ m.type = "RTT_VAL" /\ m.target = n /\ m.latency <= 3 * MaxLatency

\* The master has yet to start it, in the first round.
Unasked(n) ==
  time = 0 /\ (phase \in {"clock", "pipe", "machine"} \/ (phase = "rtt" /\ turn <= n))

FirstRtt == \A n \in Slave : fresh[n] => Unasked(n) \/ \E m \in Underway : FirstFor(n, m)

LEMMA RingsStep ==
  ASSUME Sizes, TypeOK, Placed, Contents, Rings, [Next]_vars
  PROVE  Rings'
<1> SUFFICES ASSUME NEW n \in Slave, ~fresh'[n], NEW k \in Slots
             PROVE  ring'[n][k] \in Measured
  BY DEF Rings, Slave, Node, Slots, Measured, Mismeasured
<1>0. n \in Node /\ fresh \in [Node -> BOOLEAN] /\ ring \in [Node -> [Slots -> Int]]
  BY DEF Slave, TypeOK
<1>1. CASE fresh'[n] = fresh[n] /\ ring'[n] = ring[n]
  BY <1>1 DEF Rings
<1>2. CASE ~(fresh'[n] = fresh[n] /\ ring'[n] = ring[n])
  <2>1. SaveRtt
    <3>1. CASE Quiet
      BY <1>2, <3>1, UnderwayQuiet
    <3>2. CASE AnswerRtt \/ TakeOverTime \/ SendRtt \/ SendTime
      BY <1>2, <3>2 DEF AnswerRtt, TakeOverTime, SendRtt, SendTime, StartRtt, StartTimeSync,
                        slaveVars, rttVars
    <3> QED
      BY <3>1, <3>2, StepCases
  <2> DEFINE h == Head(queue[turn])
             c == h.content
  <2>2. TakenFromQueue(h) /\ h.type = "RTT_VAL"
    BY <2>1, TakenShape DEF SaveRtt
  <2>3. n = turn
    BY <1>0, <1>2, <2>1 DEF SaveRtt
  <2>4. c \in Measured
    <3>1. h \in ToSet(queue[n])
      BY <2>2, <2>3 DEF TakenFromQueue
    <3>2. h \in Underway
      BY <1>0, <3>1 DEF Underway
    <3> QED
      BY <2>2, <3>2 DEF Contents, Content
  <2>5. \/ fresh[n] /\ ring' = [ring EXCEPT ![n] = [i \in Slots |-> c]]
        \/ ~fresh[n] /\ ring' = [ring EXCEPT ![n][rtt_index[n]] = c]
    BY <2>1, <2>3 DEF SaveRtt
  <2> HIDE DEF c
  <2>6. CASE fresh[n] /\ ring' = [ring EXCEPT ![n] = [i \in Slots |-> c]]
    BY <1>0, <2>4, <2>6
  <2>7. CASE ~fresh[n] /\ ring' = [ring EXCEPT ![n][rtt_index[n]] = c]
    <3>1. ring'[n][k] = c \/ ring'[n][k] = ring[n][k]
      BY <1>0, <2>7
    <3> QED
      BY <2>4, <2>7, <3>1 DEF Rings
  <2> QED
    BY <2>5, <2>6, <2>7
<1> QED
  BY <1>1, <1>2

\* The first measurement is over before the first TIME of the master arrives.
LEMMA FirstRttStep ==
  ASSUME Sizes, TypeOK, TypeOK', Placed, Contents, FirstRtt, [Next]_vars
  PROVE  FirstRtt'
<1> SUFFICES ASSUME NEW n \in Slave, fresh'[n]
             PROVE  Unasked(n)' \/ \E m \in Underway' : FirstFor(n, m)
  BY DEF FirstRtt, FirstFor, Slave, Node
<1>0. /\ n \in Node /\ n # 0 /\ n \in 0 .. NodesCount - 1 /\ NodesCount \in Nat
      /\ time \in Nat /\ turn \in 0 .. NodesCount - 1 /\ MaxLatency \in Nat
  BY DEF Slave, Node, TypeOK, Sizes
<1>1. fresh[n]
  <2>1. CASE SaveRtt
    BY <1>0, <2>1 DEF SaveRtt, TypeOK
  <2>2. CASE Quiet
    BY <2>2, UnderwayQuiet
  <2>3. CASE AnswerRtt \/ TakeOverTime \/ SendRtt \/ SendTime
    BY <2>3 DEF AnswerRtt, TakeOverTime, SendRtt, SendTime, StartRtt, StartTimeSync,
                slaveVars, rttVars
  <2> QED
    BY <2>1, <2>2, <2>3, StepCases
<1>2. Unasked(n) \/ \E m \in Underway : FirstFor(n, m)
  BY <1>1 DEF FirstRtt
<1>3. CASE Unasked(n)
  <2>1. CASE Advance \/ PopFromPipe \/ EndPipe \/ EndMachine \/ UNCHANGED vars
    <3>1. CASE UNCHANGED vars \/ PopFromPipe
      BY <1>3, <3>1 DEF Unasked, PopFromPipe, vars
    <3>2. CASE Advance \/ EndPipe \/ EndMachine
      <4>1. time' = time /\ NextNode /\ phase \in {"clock", "pipe", "machine"}
        BY <3>2 DEF Advance, EndPipe, EndMachine
      <4>2. /\ phase' = phase \/ (phase' = FollowUp[phase] /\ turn' = 0)
        BY <4>1, NextTurn
      <4> QED
        BY <1>0, <1>3, <4>1, <4>2, FollowUps DEF Unasked
    <3> QED
      BY <2>1, <3>1, <3>2
  <2>2. CASE AnswerRtt \/ SaveRtt \/ TakeOverTime
    BY <1>3, <2>2 DEF Unasked, AnswerRtt, SaveRtt, TakeOverTime, Popped
  <2>3. CASE StartRtt /\ turn = n
    <3>1. time = 0 /\ 0 % RttPeriod = 0
      BY <1>3 DEF Unasked, Sizes
    <3>2. SendToSlave("RTT_CAL") /\ UNCHANGED queue
      BY <1>0, <2>3, <3>1 DEF StartRtt
    <3>3. PICK m \in Msg : /\ PutIntoPipe(0, m) /\ m.type = "RTT_CAL" /\ m.target = n
                           /\ m.latency - time \in Latency
      BY <2>3, <3>2, SendShape
    <3>4. m \in Underway'
      BY <3>2, <3>3, MasterNode, UnderwaySent
    <3>5. m.latency <= MaxLatency
      <4> DEFINE l == m.latency
      <4>1. l \in Int /\ l - time <= MaxLatency
        BY <3>3, MsgFields DEF Latency
      <4> HIDE DEF l
      <4>2. l <= MaxLatency
        BY <1>0, <3>1, <4>1
      <4> QED
        BY <4>2 DEF l
    <3> QED
      BY <3>3, <3>4, <3>5 DEF FirstFor
  <2>4. CASE StartRtt /\ turn # n
    <3>1. phase = "rtt" /\ NextNode /\ time' = time
      BY <2>4 DEF StartRtt
    <3>2. turn < n
      BY <1>0, <1>3, <2>4, <3>1 DEF Unasked
    <3>3. phase' = phase /\ turn' = turn + 1
      BY <1>0, <3>1, <3>2, NextNodes DEF TypeOK
    <3> QED
      BY <1>0, <1>3, <3>1, <3>2, <3>3 DEF Unasked
  <2>5. ~ StartTimeSync
    BY <1>3 DEF StartTimeSync, Unasked
  <2> QED
    BY <2>1, <2>2, <2>3, <2>4, <2>5 DEF Next, Machine
<1>4. CASE \E m \in Underway : FirstFor(n, m)
  <2>0. PICK m \in Underway : FirstFor(n, m) /\ m \in Msg
    BY <1>4, UnderwayLate
  <2>1. CASE Quiet
    BY <2>0, <2>1, UnderwayQuiet
  <2>2. CASE SendRtt \/ SendTime
    <3>1. PICK type \in {"RTT_CAL", "TIME"} : SendToSlave(type) /\ UNCHANGED queue
      BY <2>2 DEF SendRtt, SendTime, StartRtt, StartTimeSync
    <3>2. PICK a \in Msg : PutIntoPipe(0, a)
      BY <3>1, SendShape
    <3>3. m \in Underway'
      BY <3>1, <3>2, MasterNode, UnderwaySent
    <3> QED
      BY <2>0, <3>3
  <2>3. CASE SaveRtt \/ TakeOverTime
    <3>1. PICK h : /\ TakenFromQueue(h) /\ UNCHANGED pipe
                   /\ h.type = "TIME" \/ (SaveRtt /\ h.type = "RTT_VAL")
      BY <2>3, TakenShape DEF SaveRtt, TakeOverTime
    <3>2. h # m
      <4>1. CASE h.type = "TIME"
        BY <2>0, <4>1 DEF FirstFor
      <4>2. CASE SaveRtt /\ h.type = "RTT_VAL"
        <5>1. ~fresh'[turn] /\ h.target = turn
          BY <3>1, <4>2 DEF SaveRtt, TakenFromQueue, TypeOK
        <5> QED
          BY <2>0, <4>2, <5>1 DEF FirstFor
      <4> QED
        BY <3>1, <4>1, <4>2
    <3>3. m \in Underway'
      BY <3>1, <3>2, UnderwayTaken
    <3> QED
      BY <2>0, <3>3
  <2>4. CASE AnswerRtt
    <3>1. PICK h \in Msg, a \in Msg :
            /\ TakenFromQueue(h) /\ h.type = "RTT_CAL" /\ PutIntoPipe(turn, a)
            /\ a.source = turn /\ a.target = h.source /\ a.latency - time \in Latency
            /\ turn # 0 => a.type = "RTT_CAL"
            /\ turn = 0 => a.type = "RTT_VAL"
      BY <2>4, AnswerShape DEF TakenFromQueue
    <3>2. turn \in Node /\ h.target = turn /\ h.latency = time
      BY <3>1 DEF TypeOK, TakenFromQueue
    <3>3. Underway \union {a} \subseteq Underway' \union {h}
      BY <3>1, <3>2, UnderwayAnswered
    <3>4. a \in Underway'
      <4>1. PICK k \in Node : k = turn
        BY <3>2
      <4>2. a \in ToSet(pipe'[k])
        BY <3>1, <4>1 DEF PutIntoPipe
      <4> QED
        BY <4>2 DEF Underway
    <3>5. CASE m # h
      BY <2>0, <3>3, <3>5
    <3>6. CASE m = h
      <4>1. PICK l \in Int : l = a.latency /\ l <= time + MaxLatency
        <5> DEFINE l == a.latency
        <5>1. l \in Int /\ l - time <= MaxLatency
          BY <3>1, MsgFields DEF Latency
        <5> HIDE DEF l
        <5>2. l <= time + MaxLatency
          BY <1>0, <5>1
        <5> QED
          BY <5>1, <5>2 DEF l
      <4>2. CASE m.target = n /\ m.latency <= MaxLatency
        <5>1. turn = n /\ time <= MaxLatency
          BY <3>2, <3>6, <4>2
        <5>2. a.source = n /\ a.type = "RTT_CAL" /\ a.latency <= 2 * MaxLatency
          BY <1>0, <3>1, <4>1, <5>1
        <5> QED
          BY <3>4, <5>2 DEF FirstFor
      <4>3. CASE m.source = n /\ m.latency <= 2 * MaxLatency
        <5>1. turn = 0 /\ h.source = n /\ time <= 2 * MaxLatency
          BY <1>0, <3>2, <3>6, <4>3, MsgFields
        <5>2. a.target = n /\ a.type = "RTT_VAL" /\ a.latency <= 3 * MaxLatency
          BY <1>0, <3>1, <4>1, <5>1
        <5> QED
          BY <3>4, <5>2 DEF FirstFor
      <4> QED
        BY <2>0, <3>1, <3>6, <4>2, <4>3 DEF FirstFor
    <3> QED
      BY <3>5, <3>6
  <2> QED
    BY <2>1, <2>2, <2>3, <2>4, StepCases
<1> QED
  BY <1>2, <1>3, <1>4

-------------------------------------------------------------------------------
(* How near the slaves stay *)

\* The TIME after that of round s is not due, about to be sent or under way.
Followed(n, s) ==
  \/ time < s + TimePeriod
  \/ time = s + TimePeriod /\ (phase # "time" \/ turn <= n)
  \/ \E m \in Underway : /\ m.type = "TIME" /\ m.target = n
                         /\ m.latency <= s + TimePeriod + MaxLatency

\* How far apart a TIME may leave the clocks
Spread == DeviationMax + MaxLatency - MinLatency + Mismeasured

\* n has taken the master's clock of round s over, and drifted since.
TookOver(n, s) ==
  /\ s % TimePeriod = TimePeriod - 1
  /\ Near(Offset(n), Offset(0), Spread + Jumps(0, s, Round(0)) + Jumps(n, s, Round(n)))
  /\ Followed(n, s)

TakenOver == \A n \in Slave : ~first[n] => \E s \in 0 .. time : TookOver(n, s)

LEMMA SpreadType ==
  ASSUME Sizes
  PROVE  Spread \in Int /\ MinLatency \in Int /\ MaxLatency \in Nat
         /\ Mismeasured \in Nat /\ TimePeriod \in Nat /\ DeviationMax \in Nat
         /\ 3 * MaxLatency < TimePeriod
BY MismeasuredBound DEF Sizes, Spread

LEMMA FollowedStep ==
  ASSUME Sizes, TypeOK, Placed, [Next]_vars, NEW n \in Slave, NEW s \in 0 .. time,
         s % TimePeriod = TimePeriod - 1, Followed(n, s), TakeOverTime => n # turn
  PROVE  Followed(n, s)'
<1>0. /\ n \in Node /\ n # 0 /\ n \in 0 .. NodesCount - 1 /\ NodesCount \in Nat
      /\ time \in Nat /\ turn \in 0 .. NodesCount - 1 /\ s \in Int
      /\ MaxLatency \in Int /\ TimePeriod \in Int
  BY DEF Slave, Node, TypeOK, Sizes
<1>1. CASE time < s + TimePeriod
  <2>1. CASE time' = time
    BY <1>1, <2>1 DEF Followed
  <2>2. CASE time' # time
    <3>1. StartTimeSync /\ phase = "time" /\ NextNode /\ turn + 1 = NodesCount /\ time' = time + 1
      BY <2>2 DEF Next, Machine, Advance, PopFromPipe, EndPipe, EndMachine, AnswerRtt, SaveRtt,
                  TakeOverTime, Popped, StartRtt, StartTimeSync, vars
    <3>2. phase' = "clock"
      BY <1>0, <3>1, NextTurn, FollowUps
    <3> QED
      BY <1>0, <1>1, <3>1, <3>2 DEF Followed
  <2> QED
    BY <2>1, <2>2
<1>2. CASE time = s + TimePeriod /\ (phase # "time" \/ turn <= n)
  <2>1. CASE StartTimeSync
    <3>1. /\ phase = "time" /\ NextNode /\ turn <= n
          /\ time' = IF turn + 1 = NodesCount THEN time + 1 ELSE time
      BY <1>2, <2>1 DEF StartTimeSync
    <3>2. CASE turn = n
      <4>1. time % TimePeriod = TimePeriod - 1
        <5>1. TimePeriod \in Nat \ {0}
          BY DEF Sizes
        <5>2. (s + TimePeriod) % TimePeriod = s % TimePeriod
          BY <1>0, <5>1, ModPeriod
        <5> QED
          BY <1>2, <5>2
      <4>2. SendToSlave("TIME") /\ UNCHANGED queue
        BY <1>0, <2>1, <3>2, <4>1 DEF StartTimeSync
      <4>3. PICK m \in Msg : /\ PutIntoPipe(0, m) /\ m.type = "TIME" /\ m.target = n
                             /\ m.latency - time \in Latency
        BY <3>2, <4>2, SendShape
      <4>4. m \in Underway'
        BY <4>2, <4>3, MasterNode, UnderwaySent
      <4>5. m.latency <= s + TimePeriod + MaxLatency
        <5> DEFINE l == m.latency
        <5>1. l \in Int /\ l - time <= MaxLatency
          BY <4>3, MsgFields DEF Latency
        <5> HIDE DEF l
        <5>2. l <= s + TimePeriod + MaxLatency
          BY <1>0, <1>2, <5>1
        <5> QED
          BY <5>2 DEF l
      <4> QED
        BY <4>3, <4>4, <4>5 DEF Followed
    <3>3. CASE turn # n
      <4>1. turn + 1 < NodesCount /\ turn + 1 <= n
        BY <1>0, <3>1, <3>3
      <4>2. turn' = turn + 1 /\ time' = time
        BY <1>0, <3>1, <4>1, NextNodes DEF TypeOK
      <4> QED
        BY <1>2, <4>1, <4>2 DEF Followed
    <3> QED
      BY <3>2, <3>3
  <2>2. CASE ~ StartTimeSync
    <3>1. time' = time
      BY <2>2 DEF Next, Machine, Advance, PopFromPipe, EndPipe, EndMachine, AnswerRtt, SaveRtt,
                  TakeOverTime, Popped, StartRtt, vars
    <3>2. CASE UNCHANGED vars
      BY <1>2, <3>1, <3>2 DEF Followed, vars
    <3>3. CASE ~ UNCHANGED vars
      <4>1. phase # "time"
        BY <2>2, <3>3 DEF Next, Machine, Advance, PopFromPipe, EndPipe, EndMachine, AnswerRtt,
                          SaveRtt, TakeOverTime, Popped, StartRtt
      <4>2. phase' = phase \/ (phase' = FollowUp[phase] /\ turn' = 0)
        <5>1. CASE NextNode
          BY <5>1, NextTurn
        <5>2. CASE ~ NextNode
          BY <2>2, <3>3, <5>2 DEF Next, Machine, Advance, PopFromPipe, EndPipe, EndMachine,
                                  AnswerRtt, SaveRtt, TakeOverTime, Popped, StartRtt
        <5> QED
          BY <5>1, <5>2
      <4>3. phase' # "time" \/ turn' <= n
        BY <1>0, <4>1, <4>2
      <4> QED
        BY <1>2, <3>1, <4>3 DEF Followed
    <3> QED
      BY <3>2, <3>3
  <2> QED
    BY <2>1, <2>2
<1>3. CASE \E m \in Underway : /\ m.type = "TIME" /\ m.target = n
                               /\ m.latency <= s + TimePeriod + MaxLatency
  <2>1. PICK m \in Underway : /\ m.type = "TIME" /\ m.target = n
                              /\ m.latency <= s + TimePeriod + MaxLatency
    BY <1>3
  <2>2. m \in Underway'
    <3>1. CASE Quiet
      BY <3>1, UnderwayQuiet
    <3>2. CASE SendRtt \/ SendTime
      <4>1. PICK type \in {"RTT_CAL", "TIME"} : SendToSlave(type) /\ UNCHANGED queue
        BY <3>2 DEF SendRtt, SendTime, StartRtt, StartTimeSync
      <4>2. PICK a \in Msg : PutIntoPipe(0, a)
        BY <4>1, SendShape
      <4> QED
        BY <4>1, <4>2, MasterNode, UnderwaySent
    <3>3. CASE SaveRtt \/ TakeOverTime
      <4>1. PICK h : TakenFromQueue(h) /\ UNCHANGED pipe /\ (TakeOverTime \/ h.type = "RTT_VAL")
        BY <3>3, TakenShape DEF SaveRtt, TakeOverTime
      <4>2. h # m
        BY <2>1, <4>1 DEF TakenFromQueue
      <4> QED
        BY <4>1, <4>2, UnderwayTaken
    <3>4. CASE AnswerRtt
      <4>1. PICK h \in Msg, a \in Msg :
              TakenFromQueue(h) /\ h.type = "RTT_CAL" /\ PutIntoPipe(turn, a)
        BY <3>4, AnswerShape DEF TakenFromQueue
      <4>2. turn \in Node /\ h # m
        BY <2>1, <4>1 DEF TypeOK
      <4> QED
        BY <4>1, <4>2, UnderwayAnswered
    <3> QED
      BY <3>1, <3>2, <3>3, <3>4, StepCases
  <2> QED
    BY <2>1, <2>2 DEF Followed
<1> QED
  BY <1>1, <1>2, <1>3 DEF Followed

\* A slave that takes no time over drifts no faster than its clock and the master's.
LEMMA TookOverLater ==
  ASSUME Sizes, TypeOK, TypeOK', Placed, [Next]_vars, NEW n \in Slave, NEW s \in 0 .. time,
         TookOver(n, s), TakeOverTime => n # turn
  PROVE  TookOver(n, s)'
<1>0. n \in Node /\ s \in Int /\ 0 \in Node
  BY MasterNode DEF Slave
<1>1. Followed(n, s)'
  BY FollowedStep DEF TookOver
<1>2. ASSUME NEW k \in {0, n}
      PROVE  /\ Near(Offset(k)', Offset(k), Jumps(k, Round(k), Round(k)'))
             /\ Round(k) \in Int /\ Offset(k) \in Int /\ Round(k)' \in Int /\ Offset(k)' \in Int
  <2>1. k \in Node /\ (TakeOverTime => k # turn)
    BY <1>0 DEF TakeOverTime
  <2>2. time' \in Int /\ clock'[k] \in Int
    BY <2>1 DEF TypeOK
  <2>3. Round(k)' \in Int
    BY <2>2 DEF Round
  <2>4. Offset(k)' \in Int
    BY <2>2, <2>3 DEF Offset
  <2> QED
    BY <2>1, <2>3, <2>4, Drifted, OffsetType
<1>3. PICK i \in Int, j \in Int, k \in Int :
        /\ i = Jumps(0, s, Round(0)) /\ j = Jumps(0, Round(0), Round(0)')
        /\ k = Jumps(0, s, Round(0)') /\ i + j = k
  BY <1>0, <1>2, JumpsType, JumpsSum
<1>4. PICK x \in Int, y \in Int, z \in Int :
        /\ x = Jumps(n, s, Round(n)) /\ y = Jumps(n, Round(n), Round(n)')
        /\ z = Jumps(n, s, Round(n)') /\ x + y = z
  BY <1>0, <1>2, JumpsType, JumpsSum
<1>5. Near(Offset(n)', Offset(0)', Spread + k + z)
  <2>1. PICK a \in Int, b \in Int, c \in Int, d \in Int :
          a = Offset(n)' /\ b = Offset(n) /\ c = Offset(0) /\ d = Offset(0)'
    BY <1>2
  <2>2. Near(a, b, y) /\ Near(b, c, Spread + i + x) /\ Near(d, c, j)
    BY <1>2, <1>3, <1>4, <2>1 DEF TookOver
  <2>3. Near(a, d, Spread + k + z)
    BY <1>3, <1>4, <2>2, SpreadType DEF Near
  <2> QED
    BY <2>1, <2>3
<1> QED
  BY <1>1, <1>3, <1>4, <1>5 DEF TookOver, Spread, Mismeasured

\* A slave that takes a time over has its first measurement.
LEMMA MeasuredBefore ==
  ASSUME Sizes, TypeOK, Placed, FirstRtt, NEW n \in Slave, phase = "machine",
         time >= TimePeriod
  PROVE  ~fresh[n]
<1> SUFFICES ASSUME fresh[n] PROVE FALSE
  OBVIOUS
<1>1. time \in Int /\ MaxLatency \in Nat /\ TimePeriod \in Nat /\ 3 * MaxLatency < TimePeriod
  BY DEF TypeOK, Sizes
<1>2. time # 0
  BY <1>1
<1>3. PICK m \in Underway : FirstFor(n, m)
  BY <1>2 DEF FirstRtt, Unasked
<1>4. m.latency \in Int /\ m.latency >= time
  BY UnderwayLate
<1>5. m.latency <= 3 * MaxLatency
  BY <1>1, <1>3, <1>4 DEF FirstFor
<1> QED
  BY <1>1, <1>4, <1>5

\* A slave that takes a time over is near the master: half a round trip that it
\* measured stands for the latency of the message that it takes the time from.
LEMMA TakeOver ==
  ASSUME Sizes, TypeOK, TypeOK', Placed, Contents, Rings, FirstRtt, TakeOverTime
  PROVE  turn \in Slave /\ \E s \in 0 .. time' : TookOver(turn, s)'
<1> DEFINE h == Head(queue[turn])
<1>1. TakenFromQueue(h) /\ h.type = "TIME" /\ turn # 0
  BY TakenShape DEF TakeOverTime
<1>2. PICK n \in Slave : n = turn /\ n \in Node /\ n # 0
  BY <1>1 DEF TypeOK, Slave
<1>3. /\ h \in Msg /\ h \in Underway /\ h.target = n /\ h.latency = time /\ phase = "machine"
      /\ UNCHANGED <<time, phase, turn>>
  <2>1. h \in ToSet(queue[n])
    BY <1>1, <1>2 DEF TakenFromQueue
  <2> QED
    BY <1>1, <1>2, <2>1 DEF TakenFromQueue, Underway
<1>4. h.source = 0 /\ h.content \in Int
  BY <1>2, <1>3, MsgFields
<1>5. PICK s \in 0 .. time : SentAt(h, s)
  BY <1>1, <1>3 DEF Contents, Content
<1>6. /\ s % TimePeriod = TimePeriod - 1 /\ time - s \in Latency
      /\ Near(Offset(0), h.content - s, Jumps(0, s, Round(0)))
  BY <1>1, <1>3, <1>4, <1>5 DEF SentAt
<1>7. /\ time \in Nat /\ s \in Nat /\ clock[0] \in Int
      /\ 0 \in Node /\ clock \in [Node -> Int]
      /\ time - s \in MinLatency .. MaxLatency
  BY <1>6, MasterNode DEF TypeOK, Latency
<1>8. time >= TimePeriod /\ time < s + TimePeriod /\ s <= time
  <2>1. /\ TimePeriod \in Nat \ {0} /\ MinLatency \in Nat \ {0} /\ MaxLatency \in Nat
        /\ 3 * MaxLatency < TimePeriod
    BY DEF Sizes
  <2>2. s >= TimePeriod - 1
    <3> SUFFICES ASSUME s < TimePeriod - 1 PROVE FALSE
      BY <1>7, <2>1
    <3>1. s % TimePeriod = s
      BY <1>7, <2>1
    <3> QED
      BY <1>6, <2>1, <3>1
  <2> QED
    BY <1>7, <2>1, <2>2
<1>9. ~fresh[n]
  BY <1>3, <1>8, MeasuredBefore
<1>10. PICK avg \in Int : avg = get_rtt_avg(n) /\ avg \in Measured
  <2>1. ring[n] \in [Slots -> Int] /\ \A k \in Slots : ring[n][k] \in Measured
    BY <1>2, <1>9 DEF TypeOK, Rings
  <2>2. PICK lo \in Int, hi \in Int :
          lo = MinLatency - Mismeasured /\ hi = MaxLatency + Mismeasured
    BY SpreadType
  <2>3. \A k \in Slots : lo <= ring[n][k] /\ ring[n][k] <= hi
    BY <2>1, <2>2 DEF Measured
  <2>4. get_rtt_avg(n) \in lo .. hi
    BY <2>1, <2>3, MeanWithin
  <2> QED
    BY <2>2, <2>4 DEF Measured
<1>11. PICK d \in Int :
         /\ clock'[n] = h.content + avg + d
         /\ -DeviationMax <= d /\ d <= DeviationMax
  <2>1. Deviation(n, h.content) \in Int
    BY <1>2, <1>4, DeviationType
  <2>2. PICK x \in Int : x = Deviation(n, h.content)
    BY <2>1
  <2>3. clock'[n] = h.content + avg + Clamped(x)
    BY <1>2, <1>7, <1>10, <2>2 DEF TakeOverTime
  <2> QED
    BY <2>2, <2>3, ClampedWithin
<1>12. clock'[0] = clock[0]
  BY <1>2, <1>7 DEF TakeOverTime
<1>13. /\ Round(0) = time /\ Round(0)' = time /\ Round(n)' = time
       /\ Offset(0) = clock[0] - time /\ Offset(0)' = clock[0] - time
       /\ Offset(n)' = h.content + avg + d - time
  <2>1. phase' # "clock" /\ phase # "clock" /\ time' = time
    BY <1>3
  <2>2. Round(0) = time /\ Round(0)' = time /\ Round(n)' = time
    BY <2>1 DEF Round
  <2> HIDE DEF h
  <2>3. Offset(0) = clock[0] - time
    BY <2>2 DEF Offset
  <2>4. Offset(0)' = clock'[0] - time
    BY <2>2 DEF Offset
  <2>5. Offset(n)' = clock'[n] - time
    BY <2>2 DEF Offset
  <2> QED
    BY <1>4, <1>7, <1>11, <1>12, <2>2, <2>3, <2>4, <2>5
<1>14. PICK i \in Int, j \in Int : i = Jumps(0, s, time) /\ j = Jumps(n, s, time) /\ 0 <= j
  <2>1. s \in Int /\ time \in Int
    BY <1>7
  <2> QED
    BY <1>2, <1>7, <1>8, <2>1, JumpsType, JumpsGrow
<1>15. Near(Offset(n)', Offset(0)', Spread + i + j)
  <2>1. PICK c \in Int, m \in Int : c = h.content /\ m = clock[0]
    BY <1>4, <1>7
  <2>2. Near(m - time, c - s, i)
    BY <1>6, <1>13, <1>14, <2>1
  <2>3. /\ MinLatency - Mismeasured <= avg /\ avg <= MaxLatency + Mismeasured
        /\ MinLatency <= time - s /\ time - s <= MaxLatency
    BY <1>7, <1>10, SpreadType DEF Measured
  <2>4. Near(c + avg + d - time, m - time, Spread + i + j)
    BY <1>7, <1>11, <1>14, <2>2, <2>3, SpreadType DEF Near, Spread
  <2> QED
    BY <1>13, <2>1, <2>4
<1>16. Followed(n, s)'
  BY <1>3, <1>8 DEF Followed
<1>17. TookOver(n, s)'
  BY <1>6, <1>13, <1>14, <1>15, <1>16 DEF TookOver, Spread, Mismeasured
<1>18. TookOver(turn, s)'
  BY <1>2, <1>3, <1>17 DEF TookOver, Followed, Offset, Round, Jumps
<1> QED
  BY <1>2, <1>3, <1>5, <1>18

LEMMA TakenOverStep ==
  ASSUME Sizes, TypeOK, TypeOK', Placed, Contents, Rings, FirstRtt, TakenOver, [Next]_vars
  PROVE  TakenOver'
<1> SUFFICES ASSUME NEW n \in Slave, ~first'[n]
             PROVE  \E s \in 0 .. time' : TookOver(n, s)'
  BY DEF TakenOver, Slave, Node
<1>1. CASE TakeOverTime /\ n = turn
  <2>1. PICK s \in 0 .. time' : TookOver(turn, s)'
    BY <1>1, TakeOver
  <2>2. turn' = turn
    BY <1>1 DEF TakeOverTime, Popped
  <2>3. TookOver(n, s)'
    BY <1>1, <2>1, <2>2 DEF TookOver, Followed, Offset, Round, Jumps
  <2> QED
    BY <2>3
<1>2. CASE ~(TakeOverTime /\ n = turn)
  <2>1. first'[n] = first[n]
    <3>1. CASE Quiet
      BY <3>1, UnderwayQuiet
    <3>2. CASE TakeOverTime
      BY <1>2, <3>2 DEF TakeOverTime, TypeOK, Slave
    <3>3. CASE AnswerRtt \/ SaveRtt \/ SendRtt \/ SendTime
      BY <3>3 DEF AnswerRtt, SaveRtt, SendRtt, SendTime, StartRtt, StartTimeSync,
                  slaveVars, rttVars
    <3> QED
      BY <3>1, <3>2, <3>3, StepCases
  <2>2. PICK s \in 0 .. time : TookOver(n, s)
    BY <2>1 DEF TakenOver
  <2>3. TookOver(n, s)'
    BY <1>2, <2>2, TookOverLater
  <2>4. s \in 0 .. time'
    BY TimeGrows
  <2> QED
    BY <2>3, <2>4
<1> QED
  BY <1>1, <1>2

-------------------------------------------------------------------------------
\* The inductive invariant of the simulation
Simulated == TypeOK /\ Placed /\ Contents /\ Rings /\ FirstRtt /\ TakenOver

LEMMA SimulatedInit ==
  ASSUME Sizes, Init
  PROVE  Simulated
<1>1. TypeOK /\ Placed
  BY TypeInit, PlacedInit
<1>2. Underway = {}
  <2>1. \A n \in Node : pipe[n] = <<>> /\ queue[n] = <<>>
    BY DEF Init
  <2>2. ToSet(<<>>) = {}
    BY DEF ToSet
  <2> QED
    BY <2>1, <2>2 DEF Underway
<1>3. \A n \in Slave : fresh[n] /\ first[n] /\ Unasked(n)
  BY DEF Init, Slave, Unasked
<1> QED
  BY <1>1, <1>2, <1>3 DEF Simulated, Contents, Rings, FirstRtt, TakenOver

LEMMA SimulatedStep ==
  ASSUME Sizes, Simulated, [Next]_vars
  PROVE  Simulated'
<1>1. TypeOK' /\ Placed'
  BY PlacedStep DEF Simulated
<1> QED
  BY <1>1, ContentsStep, RingsStep, FirstRttStep, TakenOverStep DEF Simulated

LEMMA SimulatedNear ==
  ASSUME Sizes, Simulated
  PROVE  StaysNear
<1> DEFINE Bound(n) == DeviationMax + MaxLatency - MinLatency + Mismeasured
                         + DriftApart(0) + DriftApart(n)
<1> SUFFICES ASSUME NEW n \in Slave, ~first[n], phase # "clock"
             PROVE  Near(clock[n], clock[0], Bound(n))
  <2> HIDE DEF Bound
  <2>1. \A n \in Slave : clock[n] \in Int /\ clock[0] \in Int
    BY MasterNode DEF Simulated, TypeOK, Slave
  <2>2. \A x, y \in Int : -(x - y) = y - x
    OBVIOUS
  <2>3. StaysNear <=> \A n \in Slave : ~first[n] /\ phase # "clock" =>
                        clock[n] - clock[0] <= Bound(n) /\ -(clock[n] - clock[0]) <= Bound(n)
    BY DEF StaysNear, Bound
  <2> QED
    BY <2>1, <2>2, <2>3 DEF Near
<1>0. /\ TypeOK /\ Placed /\ 0 \in Node /\ n \in Node /\ clock[0] \in Int /\ clock[n] \in Int
      /\ time \in Int
  BY MasterNode DEF Simulated, TypeOK, Slave
<1>1. PICK s \in 0 .. time : TookOver(n, s)
  BY DEF Simulated, TakenOver
<1>2. time - s <= TimePeriod + MaxLatency /\ s \in Int /\ TimePeriod + MaxLatency \in Int
  <2>1. /\ time \in Int /\ s \in Int /\ TimePeriod \in Nat /\ MaxLatency \in Nat
    BY <1>0, SpreadType
  <2>2. time <= s + TimePeriod + MaxLatency
    <3>1. CASE \E m \in Underway : m.latency <= s + TimePeriod + MaxLatency
      <4>1. PICK m \in Underway : m.latency <= s + TimePeriod + MaxLatency
        BY <3>1
      <4>2. PICK l \in Int : l = m.latency /\ l >= time
        BY <1>0, UnderwayLate
      <4> QED
        BY <2>1, <4>1, <4>2
    <3>2. CASE time <= s + TimePeriod
      BY <2>1, <3>2
    <3> QED
      BY <1>1, <2>1, <3>1, <3>2 DEF TookOver, Followed
  <2> QED
    BY <2>1, <2>2
<1>3. ASSUME NEW k \in {0, n}
      PROVE  Jumps(k, s, time) <= DriftApart(k) /\ Jumps(k, s, time) \in Int /\ DriftApart(k) \in Int
  <2>1. k \in Node
    BY <1>0
  <2>2. (TimePeriod + MaxLatency) \div DriftPeriod[k] \in Int
    BY <1>2, <2>1, DriftPositive, DivBounds
  <2> QED
    BY <1>0, <1>2, <2>1, <2>2, JumpsBound, JumpsType DEF DriftApart
<1>4. PICK a \in Int, b \in Int, i \in Int, j \in Int :
        /\ a = DriftApart(0) /\ b = DriftApart(n) /\ i = Jumps(0, s, time) /\ j = Jumps(n, s, time)
        /\ i <= a /\ j <= b
  BY <1>3
<1>5. Round(0) = time /\ Round(n) = time /\ Offset(0) = clock[0] - time /\ Offset(n) = clock[n] - time
  BY DEF Round, Offset
<1>6. Near(clock[n] - time, clock[0] - time, Spread + i + j)
  BY <1>1, <1>4, <1>5 DEF TookOver
<1>7. PICK c \in Int, m \in Int : c = clock[n] /\ m = clock[0]
  BY <1>0
<1>8. Near(c, m, Spread + a + b)
  BY <1>0, <1>4, <1>6, <1>7, SpreadType DEF Near
<1> QED
  BY <1>4, <1>7, <1>8 DEF Spread

\* Theorem. Once a slave has taken a time over it stays near the master, however
\* long the simulation runs: the averaged deviation that is added back to its clock
\* every time does not carry it away (TIME and RTT_VAL of the status machine).
THEOREM SlavesStayNear == ASSUME Sizes PROVE Spec => []StaysNear
<1>1. Init => Simulated
  BY SimulatedInit
<1>2. Simulated /\ [Next]_vars => Simulated'
  BY SimulatedStep
<1>3. Simulated => StaysNear
  BY SimulatedNear
<1> QED
  BY <1>1, <1>2, <1>3, PTL DEF Spec
===============================================================================
