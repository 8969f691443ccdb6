-------------------------- MODULE SuperQueueProofs --------------------------
(***************************************************************************)
(* What SuperQueue promises, proved for every ring length, resolution and  *)
(* clock.                                                                  *)
(*                                                                         *)
(* The inductive invariant says where an event of slot i of the ring will  *)
(* be sent: at the only second of the round SendTime .. SendTime+QueueLen-1 *)
(* that is i modulo the length of the ring.  It is the second chosen for   *)
(* the event, or, if SendTime jumped ahead since, some rounds later.       *)
(***************************************************************************)
EXTENDS SuperQueue, TLAPS

\* Event e of slot i is sent in this round, k rounds of the ring later than chosen.
SentAfter(e, k) ==
    /\ SendTime <= e.slot + k * QueueLen
    /\ e.slot + k * QueueLen < SendTime + QueueLen
    /\ e.jumps = jumps => k = 0

RingInv ==
    \A i \in 0 .. QueueLen - 1 : \A e \in SuperQueue[i] :
        /\ e.slot % QueueLen = i
        /\ e.ts <= e.slot
        /\ e.jumps <= jumps
        /\ \E k \in Nat : SentAfter(e, k)
        /\ jumps = 0 => e.slot <= CurrentTime + MaxFutureSecondsOnDisk

LastInv ==
    /\ lastBucket.time < SendTime
    /\ NoEventAfterBucket
    /\ SentInChosenSecond
    /\ jumps = 0 => lastBucket.time <= CurrentTime + MaxFutureSecondsOnDisk

PhaseInv ==
    /\ phase = "run" => stepsLeft = QueueLen
    /\ phase = "run" /\ jumps = 0 => SendTime <= CurrentTime
    /\ phase # "run" => sendUpTo = NoFlush /\ stopReceivingIncomingData
    /\ phase # "run" => \A j \in stepsLeft .. QueueLen - 1 : SuperQueue[(SendTime + j) % QueueLen] = {}
    /\ phase = "closed" => stepsLeft = 0

IInv == TypeOK /\ RingInv /\ LastInv /\ PhaseInv

-----------------------------------------------------------------------------
\* Division with a remainder.
LEMMA DivMod ==
    ASSUME NEW a \in Nat, NEW q \in Nat, q > 0
    PROVE  /\ a = (a \div q) * q + (a % q)
           /\ a \div q \in Int
           /\ a % q \in 0 .. q - 1
BY Z3

\* A multiple of q between 0 and q-1 is zero.
LEMMA SmallMultiple ==
    ASSUME NEW u \in Int, NEW q \in Nat, q > 0, 0 <= u * q, u * q < q
    PROVE  u * q = 0
<1>1. CASE u <= -1
  BY <1>1, Z3
<1>2. CASE u >= 1
  BY <1>2, Z3
<1>3. CASE u = 0
  BY <1>3, Z3
<1> QED
  BY <1>1, <1>2, <1>3

\* A product of a natural and a positive number.
LEMMA Product ==
    ASSUME NEW k \in Nat, NEW q \in Nat
    PROVE  k * q \in Nat
BY Z3

\* The quotient, rounded down.
LEMMA Quotient ==
    ASSUME NEW a \in Nat, NEW q \in Nat, q > 0
    PROVE  /\ a \div q \in Nat
           /\ (a \div q) * q \in Nat
           /\ (a \div q) * q <= a
           /\ a < (a \div q) * q + q
<1> DEFINE x == a \div q
           r == a % q
<1>1. a = x * q + r /\ x \in Int /\ r \in 0 .. q - 1
  BY DivMod, Zenon
<1> HIDE DEF x, r
<1>2. x * q \in Int
  BY <1>1, Z3
<1>3. x >= 0
  <2>1. ASSUME x <= -1  PROVE x * q <= -q
    BY <1>1, <2>1, Z3
  <2> QED
    BY <1>1, <1>2, <2>1
<1>4. x \in Nat
  BY <1>1, <1>3
<1>5. x * q \in Nat /\ x * q <= a /\ a < x * q + q
  BY <1>1, <1>2, <1>4, Product
<1> QED
  BY <1>4, <1>5, Zenon DEF x

\* Within one round of the ring a slot stands for one second only.
LEMMA SameSecond ==
    ASSUME NEW q \in Nat, q > 0, NEW a \in Nat, NEW b \in Nat,
           a % q = b % q, a <= b, b < a + q
    PROVE  a = b
<1> DEFINE x == a \div q
           y == b \div q
<1>1. /\ a = x * q + (a % q) /\ b = y * q + (b % q)
      /\ x \in Int /\ y \in Int /\ a % q \in Int /\ b % q \in Int
  BY DivMod
<1> HIDE DEF x, y
<1>2. b - a = (y - x) * q
  <2>1. ASSUME NEW r \in Int, a = x * q + r, b = y * q + r
        PROVE  b - a = (y - x) * q
    BY <2>1, <1>1, Z3
  <2> QED
    BY <1>1, <2>1, Zenon
<1>3. y - x \in Int
  BY <1>1
<1>4. b - a = 0
  BY <1>2, <1>3, SmallMultiple
<1> QED
  BY <1>4

\* Whole rounds do not change the slot.
LEMMA SameSlot ==
    ASSUME NEW a \in Nat, NEW q \in Nat, q > 0, NEW k \in Nat
    PROVE  (a + k * q) % q = a % q
<1> DEFINE b == a + k * q
           x == a \div q
           y == b \div q
           r == a % q
           s == b % q
<1>1. b \in Nat
  BY Product
<1>2. a = x * q + r /\ x \in Int /\ r \in 0 .. q - 1
  BY DivMod, Zenon
<1>3. b = y * q + s /\ y \in Int /\ s \in 0 .. q - 1
  BY <1>1, DivMod, Zenon
<1>4. ASSUME NEW X \in Int, NEW Y \in Int, NEW R \in 0 .. q - 1, NEW S \in 0 .. q - 1,
             X * q + R + k * q = Y * q + S
      PROVE  R = S
  <2>1. R - S = (Y - X - k) * q
    BY <1>4, Z3
  <2>2. CASE Y - X - k >= 1
    BY <2>1, <2>2, Z3
  <2>3. CASE Y - X - k <= -1
    BY <2>1, <2>3, Z3
  <2>4. CASE Y - X - k = 0
    BY <2>1, <2>4, Z3
  <2> QED
    BY <2>2, <2>3, <2>4
<1>5. b = a + k * q
  BY Zenon
<1> HIDE DEF b, x, y, r, s
<1>6. x * q + r + k * q = y * q + s
  BY <1>2, <1>3, <1>5, Zenon
<1>7. r = s
  BY <1>2, <1>3, <1>4, <1>6, Zenon
<1> QED
  BY <1>7, Zenon DEF b, r, s

-----------------------------------------------------------------------------
\* The initial state satisfies the invariant.
LEMMA InitIInv == Init => IInv
<1> SUFFICES ASSUME Init PROVE IInv
  BY Zenon
<1> USE ConstantsAssumption DEF Init
<1>1. CurrentTime \in Nat /\ CurrentTime > QueueLen /\ SendTime \in Nat /\ SendTime > 0
  OBVIOUS
<1>2. TypeOK
  <2>1. /\ DOMAIN SuperQueue = 0 .. QueueLen - 1
        /\ \A i \in 0 .. QueueLen - 1 : SuperQueue[i] = {}
    BY Zenon
  <2>2. lastBucket.time = 0 /\ lastBucket.events = {}
    BY Zenon
  <2>3. stepsLeft \in 0 .. QueueLen /\ accepted \in 0 .. MaxEvents /\ jumps \in Nat /\ sendUpTo \in Nat
    BY DEF NoFlush
  <2>4. stopReceivingIncomingData \in BOOLEAN
    BY Zenon
  <2> HIDE ConstantsAssumption DEF Init
  <2> QED
    BY <1>1, <2>1, <2>2, <2>3, <2>4, Init, Zenon DEF TypeOK, Init
<1>3. RingInv
  BY Zenon DEF RingInv
<1>4. LastInv
  BY <1>1 DEF LastInv, NoEventAfterBucket, SentInChosenSecond, MaxFutureSecondsOnDisk
<1>5. PhaseInv
  BY <1>1 DEF PhaseInv
<1> QED
  BY <1>2, <1>3, <1>4, <1>5, Zenon DEF IInv

-----------------------------------------------------------------------------
\* What resolutionShardFromHashLocked chooses: a second not before the one the event is from,
\* within the current round of the ring and within the future limit.
Chosen(s, k) ==
    /\ s \in Nat /\ k \in Nat
    /\ k <= s
    /\ SendTime <= s /\ s < SendTime + QueueLen
    /\ jumps = 0 => s <= CurrentTime + MaxFutureSecondsOnDisk

\* A late event is moved to one of the next r seconds.
LEMMA LateSlot ==
    ASSUME NEW s \in Nat, NEW r \in Nat, r > 0, SendTime \in Nat
    PROVE  /\ lateSlot(s, r) \in Nat /\ s <= lateSlot(s, r) /\ SendTime <= lateSlot(s, r)
           /\ lateSlot(s, r) = s \/ lateSlot(s, r) <= SendTime + r - 1
<1>1. CASE s < SendTime
  <2> DEFINE a == SendTime - s + r - 1
             m == (a \div r) * r
  <2>1. a \in Nat /\ a = SendTime - s + r - 1
    BY <1>1
  <2>2. m \in Nat /\ m <= a /\ a < m + r
    BY <2>1, Quotient, Zenon
  <2>3. lateSlot(s, r) = s + m
    BY <1>1, Zenon DEF lateSlot
  <2> HIDE DEF a, m
  <2> QED
    BY <2>1, <2>2, <2>3
<1>2. CASE ~(s < SendTime)
  BY <1>2 DEF lateSlot
<1> QED
  BY <1>1, <1>2, Zenon

\* The slot of an accepted event.
LEMMA ChosenSlot ==
    ASSUME IInv, ~shouldDiscardIncomingData,
           NEW ts \in Times \cup {0}, NEW r \in Resolutions, NEW n \in 0 .. r - 1
    PROVE  Chosen(slotOf(ts, r, n), keyTimestamp(ts, r))
<1> USE ConstantsAssumption
<1>1. CurrentTime \in Nat /\ SendTime \in Nat /\ jumps \in Nat
  BY Zenon DEF IInv, TypeOK
<1>2. CurrentTime + FutureSlots + Spread <= SendTime + QueueLen
  BY <1>1 DEF shouldDiscardIncomingData, gapInReceivingQueue
<1>3. jumps = 0 => SendTime <= CurrentTime
  BY Zenon DEF IInv, PhaseInv, TypeOK, shouldDiscardIncomingData
<1>4. clamp(ts) \in Nat /\ clamp(ts) <= CurrentTime + FutureSlots
  BY <1>1 DEF clamp
<1>5. r \in Nat /\ r > 0 /\ 2 * r <= Spread /\ n \in Nat /\ n <= r - 1
  OBVIOUS
<1> DEFINE k == keyTimestamp(ts, r)
           s == IF r = 1 THEN clamp(ts) ELSE k + r + n
<1>6. k \in Nat /\ k <= clamp(ts)
  BY <1>4, <1>5, Quotient, Zenon DEF keyTimestamp
<1>7. slotOf(ts, r, n) = lateSlot(s, r)
  BY Zenon DEF slotOf
<1> HIDE DEF k
<1>8. s \in Nat /\ k <= s /\ s <= CurrentTime + FutureSlots + 2 * r - 1
  BY <1>1, <1>4, <1>5, <1>6
<1> HIDE DEF s
<1>9. /\ lateSlot(s, r) \in Nat /\ s <= lateSlot(s, r) /\ SendTime <= lateSlot(s, r)
      /\ lateSlot(s, r) = s \/ lateSlot(s, r) <= SendTime + r - 1
  BY <1>1, <1>5, <1>8, LateSlot, Zenon
<1>10. lateSlot(s, r) < SendTime + QueueLen
  BY <1>1, <1>2, <1>5, <1>8, <1>9
<1>11. jumps = 0 => lateSlot(s, r) <= CurrentTime + FutureSlots + Spread - 1
  BY <1>1, <1>3, <1>5, <1>8, <1>9
<1> QED
  BY <1>1, <1>6, <1>7, <1>8, <1>9, <1>10, <1>11 DEF Chosen, k, MaxFutureSecondsOnDisk

\* Accepting an event.
LEMMA ApplyIInv ==
    ASSUME IInv, NEW ts \in Times \cup {0}, NEW r \in Resolutions, NEW n \in 0 .. r - 1,
           Apply(ts, r, n)
    PROVE  IInv'
<1> DEFINE s == slotOf(ts, r, n)
           e == [ts |-> keyTimestamp(ts, r), slot |-> s, jumps |-> jumps]
           c == s % QueueLen
<1>1. Chosen(s, keyTimestamp(ts, r))
  BY ChosenSlot, Zenon DEF Apply
<1>2. /\ SuperQueue' = [SuperQueue EXCEPT ![c] = @ \cup {e}]
      /\ accepted < MaxEvents /\ accepted' = accepted + 1
      /\ ~stopReceivingIncomingData
      /\ UNCHANGED <<CurrentTime, SendTime, BucketsToPreprocess, sendUpTo,
                     stopReceivingIncomingData, stepsLeft, phase, jumps, lastBucket>>
  BY Zenon DEF Apply, shouldDiscardIncomingData
<1>3. /\ e.ts = keyTimestamp(ts, r) /\ e.slot = s /\ e.jumps = jumps
      /\ e = [ts |-> keyTimestamp(ts, r), slot |-> s, jumps |-> jumps]
  BY Zenon
<1>4. c \in 0 .. QueueLen - 1 /\ c = s % QueueLen
  BY <1>1, ConstantsAssumption, DivMod DEF Chosen
<1> HIDE DEF s, e, c
<1>5. CurrentTime \in Nat /\ SendTime \in Nat /\ jumps \in Nat /\ QueueLen \in Nat
  BY ConstantsAssumption, Zenon DEF IInv, TypeOK
<1>6. e \in Event
  BY <1>1, <1>3, <1>5, Zenon DEF Event, Chosen
<1>7. DOMAIN SuperQueue = 0 .. QueueLen - 1
  BY Zenon DEF IInv, TypeOK
<1>8. \A i \in 0 .. QueueLen - 1 : \A x \in SuperQueue'[i] : x \in SuperQueue[i] \/ (i = c /\ x = e)
  BY <1>2, <1>4, <1>7, Zenon
<1>9. TypeOK'
  <2>1. DOMAIN SuperQueue' = 0 .. QueueLen - 1
    BY <1>2, <1>7, Zenon
  <2>2. \A i \in 0 .. QueueLen - 1 : \A x \in SuperQueue'[i] : x \in Event
    BY <1>6, <1>8, Zenon DEF IInv, TypeOK
  <2>3. accepted' \in 0 .. MaxEvents
    BY <1>2, ConstantsAssumption DEF IInv, TypeOK
  <2> QED
    BY <1>2, <2>1, <2>2, <2>3, Zenon DEF IInv, TypeOK
<1>10. RingInv'
  <2> SUFFICES ASSUME NEW i \in 0 .. QueueLen - 1, NEW x \in SuperQueue'[i]
               PROVE  RingInv!(i)!(x)'
    BY Zenon DEF RingInv
  <2>1. CASE x \in SuperQueue[i]
    BY <2>1, <1>2, Zenon DEF IInv, RingInv, SentAfter, MaxFutureSecondsOnDisk
  <2>2. CASE i = c /\ x = e
    <3>1. SentAfter(x, 0)
      BY <2>2, <1>1, <1>3, <1>5 DEF SentAfter, Chosen
    <3>2. \E k \in Nat : SentAfter(x, k)'
      BY <1>2, <3>1, Zenon DEF SentAfter
    <3> QED
      BY <2>2, <1>1, <1>2, <1>3, <1>4, <1>5, <3>2 DEF Chosen, MaxFutureSecondsOnDisk
  <2> QED
    BY <1>8, <2>1, <2>2, Zenon
<1>11. LastInv'
  BY <1>2, Zenon DEF IInv, LastInv, NoEventAfterBucket, SentInChosenSecond, MaxFutureSecondsOnDisk
<1>12. PhaseInv'
  BY <1>2, Zenon DEF IInv, PhaseInv
<1> QED
  BY <1>9, <1>10, <1>11, <1>12, Zenon DEF IInv

-----------------------------------------------------------------------------
\* A jump ahead moves SendTime by m whole rounds.
LEMMA JumpRounds ==
    ASSUME SendTime \in Nat, NEW now \in Nat, SendTime < now - (QueueLen - FutureSlots)
    PROVE  \E m \in Nat : jumpAhead(now) = SendTime + m * QueueLen
<1> DEFINE a == now - (QueueLen - FutureSlots) - SendTime + QueueLen - 1
           m == a \div QueueLen
<1>1. a \in Nat
  BY ConstantsAssumption
<1>2. m \in Nat
  BY <1>1, ConstantsAssumption, Quotient
<1>3. jumpAhead(now) = SendTime + m * QueueLen
  BY Zenon DEF jumpAhead
<1> QED
  BY <1>2, <1>3, Zenon

\* The clock part of flushBuckets.
LEMMA FlushBucketsIInv ==
    ASSUME IInv, NEW now \in Times, NEW w \in Windows, flushBuckets(now, w)
    PROVE  IInv'
<1>1. /\ phase = "run"
      /\ sendUpTo' = now - w
      /\ UNCHANGED <<SuperQueue, BucketsToPreprocess, stopReceivingIncomingData, stepsLeft, phase,
                     accepted, lastBucket>>
  BY Zenon DEF flushBuckets
<1>2. now \in Nat /\ now > QueueLen /\ w \in Nat /\ w < QueueLen /\ QueueLen \in Nat /\ FutureSlots \in Nat
  BY ConstantsAssumption, Zenon
<1>3. CurrentTime \in Nat /\ SendTime \in Nat /\ jumps \in Nat
  BY Zenon DEF IInv, TypeOK
<1>4. CurrentTime' \in Nat /\ CurrentTime <= CurrentTime'
  BY <1>2, <1>3 DEF flushBuckets
<1>5. sendUpTo' \in Nat
  BY <1>1, <1>2
<1>6. CASE SendTime' = SendTime /\ jumps' = jumps
  <2>1. TypeOK'
    BY <1>1, <1>3, <1>4, <1>5, <1>6, Zenon DEF IInv, TypeOK
  <2>2. RingInv'
    <3> SUFFICES ASSUME NEW i \in 0 .. QueueLen - 1, NEW x \in SuperQueue'[i]
                 PROVE  RingInv!(i)!(x)'
      BY Zenon DEF RingInv
    <3>1. x \in SuperQueue[i] /\ x \in Event
      BY <1>1, Zenon DEF IInv, TypeOK
    <3>2. RingInv!(i)!(x)
      BY <3>1, Zenon DEF IInv, RingInv
    <3>3. \E k \in Nat : SentAfter(x, k)'
      BY <3>2, <1>6, Zenon DEF SentAfter
    <3>4. jumps' = 0 => x.slot <= CurrentTime' + MaxFutureSecondsOnDisk
      BY <3>1, <3>2, <1>3, <1>4, <1>6, ConstantsAssumption DEF MaxFutureSecondsOnDisk, Event
    <3> QED
      BY <3>2, <3>3, <3>4, <1>6, Zenon DEF MaxFutureSecondsOnDisk
  <2>3. LastInv'
    <3>1. jumps' = 0 => lastBucket'.time <= CurrentTime' + MaxFutureSecondsOnDisk
      BY <1>1, <1>3, <1>4, <1>6, ConstantsAssumption DEF IInv, LastInv, TypeOK, MaxFutureSecondsOnDisk
    <3> QED
      BY <3>1, <1>1, <1>6, Zenon DEF IInv, LastInv, NoEventAfterBucket, SentInChosenSecond, MaxFutureSecondsOnDisk
  <2>4. PhaseInv'
    BY <1>1, <1>3, <1>4, <1>6 DEF IInv, PhaseInv
  <2> QED
    BY <2>1, <2>2, <2>3, <2>4, Zenon DEF IInv
<1>7. CASE /\ SendTime < CurrentTime' - (QueueLen - FutureSlots)
           /\ SendTime' = jumpAhead(CurrentTime')
           /\ jumps' = jumps + 1
  <2>1. PICK m \in Nat : jumpAhead(CurrentTime') = SendTime + m * QueueLen
    BY <1>3, <1>4, <1>7, JumpRounds, Zenon
  <2>2. m * QueueLen \in Nat
    BY <1>2, Product, Zenon
  <2>3. SendTime' = SendTime + m * QueueLen /\ SendTime' \in Nat
    BY <1>3, <1>7, <2>1, <2>2
  <2>4. jumps' \in Nat /\ jumps' # 0 /\ jumps' = jumps + 1
    BY <1>3, <1>7
  <2>5. TypeOK'
    BY <1>1, <1>4, <1>5, <2>3, <2>4, Zenon DEF IInv, TypeOK
  <2>6. RingInv'
    <3> SUFFICES ASSUME NEW i \in 0 .. QueueLen - 1, NEW x \in SuperQueue'[i]
                 PROVE  RingInv!(i)!(x)'
      BY Zenon DEF RingInv
    <3>1. x \in SuperQueue[i] /\ x \in Event
      BY <1>1, Zenon DEF IInv, TypeOK
    <3>2. RingInv!(i)!(x)
      BY <3>1, Zenon DEF IInv, RingInv
    <3>3. PICK k \in Nat : SentAfter(x, k)
      BY <3>2, Zenon
    <3>4. x.slot \in Nat /\ x.jumps \in Nat
      BY <3>1, Zenon DEF Event
    <3>5. k * QueueLen \in Nat /\ (k + m) * QueueLen = k * QueueLen + m * QueueLen /\ k + m \in Nat
      <4>1. k * QueueLen \in Nat /\ k + m \in Nat
        BY <1>2, Product
      <4>2. (k + m) * QueueLen = k * QueueLen + m * QueueLen
        BY <1>2, Z3
      <4> QED
        BY <4>1, <4>2, Zenon
    <3>6. x.jumps # jumps'
      BY <3>2, <3>4, <1>3, <2>4
    <3>7. /\ SendTime' <= x.slot + (k + m) * QueueLen
          /\ x.slot + (k + m) * QueueLen < SendTime' + QueueLen
      BY <3>3, <3>4, <3>5, <1>2, <1>3, <2>2, <2>3 DEF SentAfter
    <3>8. SentAfter(x, k + m)'
      BY <3>6, <3>7, Zenon DEF SentAfter
    <3>9. \E j \in Nat : SentAfter(x, j)'
      BY <3>5, <3>8, Zenon
    <3>10. x.jumps <= jumps'
      BY <3>2, <3>4, <1>3, <2>4
    <3> QED
      BY <3>2, <3>9, <3>10, <2>4, Zenon
  <2>7. LastInv'
    <3>1. lastBucket'.time < SendTime'
      BY <1>1, <1>3, <2>2, <2>3 DEF IInv, LastInv, TypeOK
    <3> QED
      BY <3>1, <1>1, <2>4, Zenon DEF IInv, LastInv, NoEventAfterBucket, SentInChosenSecond
  <2>8. PhaseInv'
    BY <1>1, <2>4, Zenon DEF IInv, PhaseInv
  <2> QED
    BY <2>5, <2>6, <2>7, <2>8, Zenon DEF IInv
<1> QED
  BY <1>6, <1>7, Zenon DEF flushBuckets

-----------------------------------------------------------------------------
\* The events in slot SendTime are due now.
LEMMA DueNow ==
    ASSUME IInv, NEW e \in SuperQueue[SendTime % QueueLen]
    PROVE  /\ SendTime % QueueLen \in 0 .. QueueLen - 1
           /\ e \in Event
           /\ e.ts <= SendTime /\ e.slot <= SendTime
           /\ e.jumps = jumps => e.slot = SendTime
           /\ jumps = 0 => SendTime <= CurrentTime + MaxFutureSecondsOnDisk
<1> DEFINE i == SendTime % QueueLen
<1>1. SendTime \in Nat /\ QueueLen \in Nat /\ QueueLen > 0 /\ jumps \in Nat
  BY ConstantsAssumption DEF IInv, TypeOK
<1>2. i \in 0 .. QueueLen - 1
  BY <1>1, DivMod, Zenon
<1>3. e \in Event
  BY <1>2, Zenon DEF IInv, TypeOK
<1>4. RingInv!(i)!(e)
  BY <1>2, Zenon DEF IInv, RingInv
<1>5. PICK k \in Nat : SentAfter(e, k)
  BY <1>4, Zenon
<1> DEFINE t == e.slot + k * QueueLen
<1>6. e.slot \in Nat /\ e.ts \in Nat /\ e.jumps \in Nat /\ k * QueueLen \in Nat /\ t \in Nat
  BY <1>1, <1>3, Product DEF Event
<1>7. t % QueueLen = SendTime % QueueLen
  <2>1. t % QueueLen = e.slot % QueueLen
    BY <1>1, <1>6, SameSlot, Zenon
  <2>2. e.slot % QueueLen = SendTime % QueueLen
    BY <1>4, Zenon
  <2> QED BY <2>1, <2>2, Zenon
<1>8. SendTime <= t /\ t < SendTime + QueueLen
  BY <1>5, Zenon DEF SentAfter
<1>9. SendTime = t
  <2> HIDE DEF t
  <2> QED
    BY <1>1, <1>6, <1>7, <1>8, SameSecond, Zenon
<1>10. e.jumps = jumps => e.slot = SendTime
  BY <1>1, <1>5, <1>6, <1>9 DEF SentAfter
<1>11. jumps = 0 => e.jumps = jumps
  BY <1>4, <1>6, <1>1
<1> QED
  BY <1>1, <1>2, <1>3, <1>4, <1>6, <1>9, <1>10, <1>11

\* What a step of the flusher leaves: the slot of SendTime is empty, and the bucket handed
\* over, if any, is the one of SendTime.
Stepped ==
    /\ SendTime' = SendTime + 1
    /\ DOMAIN SuperQueue' = 0 .. QueueLen - 1
    /\ \A i \in 0 .. QueueLen - 1 : SuperQueue'[i] \subseteq SuperQueue[i]
    /\ SuperQueue'[SendTime % QueueLen] = {}
    /\ BucketsToPreprocess' \in {<<>>, <<lastBucket'>>}
    /\ \/ lastBucket' = lastBucket
       \/ /\ lastBucket'.time = SendTime
          /\ lastBucket'.events = SuperQueue[SendTime % QueueLen]
          /\ lastBucket'.jumps = jumps

\* FlushAllDataSingleStep does so.
LEMMA StepDone ==
    ASSUME IInv, NEW sendEmpty, FlushAllDataSingleStep(sendEmpty)
    PROVE  Stepped
<1> DEFINE c == SendTime % QueueLen
           b == [time |-> SendTime, events |-> SuperQueue[c], jumps |-> jumps]
<1>1. c \in 0 .. QueueLen - 1
  BY DivMod, ConstantsAssumption DEF IInv, TypeOK
<1>2. SendTime' = SendTime + 1 /\ DOMAIN SuperQueue = 0 .. QueueLen - 1
  BY Zenon DEF FlushAllDataSingleStep, nextSendTime, IInv, TypeOK
<1>3. CASE SuperQueue[c] = {} /\ UNCHANGED <<SuperQueue, BucketsToPreprocess, lastBucket>>
  BY <1>1, <1>2, <1>3, Zenon DEF IInv, TypeOK, Stepped
<1>4. CASE SuperQueue' = emptySlot /\ BucketsToPreprocess' = <<b>> /\ lastBucket' = b
  <2>1. lastBucket'.time = SendTime /\ lastBucket'.events = SuperQueue[c] /\ lastBucket'.jumps = jumps
    BY <1>4, Zenon
  <2> HIDE DEF b
  <2>2. SuperQueue' = [SuperQueue EXCEPT ![c] = {}]
    BY <1>4, Zenon DEF emptySlot
  <2> QED
    BY <1>1, <1>2, <1>4, <2>1, <2>2, Zenon DEF Stepped
<1> QED
  BY <1>3, <1>4, Zenon DEF FlushAllDataSingleStep

\* A step of the flusher preserves the invariants on the ring and on the last bucket.
LEMMA StepIInv ==
    ASSUME IInv, Stepped, UNCHANGED <<CurrentTime, jumps>>,
           SuperQueue[SendTime % QueueLen] # {} \/ SendTime < CurrentTime \/ lastBucket' = lastBucket
    PROVE  /\ RingInv' /\ LastInv'
           /\ \A i \in 0 .. QueueLen - 1 : \A e \in SuperQueue'[i] : e \in Event
           /\ lastBucket'.time \in Nat
           /\ \A e \in lastBucket'.events : e \in Event
<1>1. SendTime \in Nat /\ CurrentTime \in Nat /\ QueueLen \in Nat /\ jumps \in Nat
  BY ConstantsAssumption, Zenon DEF IInv, TypeOK
<1>2. SendTime' = SendTime + 1 /\ SendTime' \in Nat
  BY <1>1 DEF Stepped
<1>3. RingInv'
  <2> SUFFICES ASSUME NEW i \in 0 .. QueueLen - 1, NEW x \in SuperQueue'[i]
               PROVE  RingInv!(i)!(x)'
    BY Zenon DEF RingInv
  <2>1. x \in SuperQueue[i] /\ i # SendTime % QueueLen
    BY Zenon DEF Stepped
  <2>2. RingInv!(i)!(x) /\ x \in Event
    BY <2>1, Zenon DEF IInv, RingInv, TypeOK
  <2>3. PICK k \in Nat : SentAfter(x, k)
    BY <2>2, Zenon
  <2>4. x.slot \in Nat /\ k * QueueLen \in Nat
    BY <1>1, <2>2, Product, Zenon DEF Event
  <2>5. (x.slot + k * QueueLen) % QueueLen = i
    <3>1. QueueLen > 0
      BY ConstantsAssumption
    <3> QED
      BY <1>1, <2>2, <2>4, <3>1, SameSlot, Zenon
  <2>6. x.slot + k * QueueLen # SendTime
    BY <2>1, <2>5, Zenon
  <2>7. SentAfter(x, k)'
    BY <2>3, <2>4, <2>6, <1>1, <1>2 DEF SentAfter
  <2> QED
    BY <2>2, <2>7, Zenon DEF MaxFutureSecondsOnDisk
<1>4. CASE lastBucket' = lastBucket
  <2>1. lastBucket.time \in Nat /\ lastBucket.time < SendTime
    BY Zenon DEF IInv, LastInv, TypeOK
  <2>2. lastBucket'.time < SendTime'
    BY <1>1, <1>2, <1>4, <2>1
  <2>3. LastInv'
    BY <1>4, <2>2, Zenon DEF IInv, LastInv, NoEventAfterBucket, SentInChosenSecond, MaxFutureSecondsOnDisk
  <2> QED
    BY <1>3, <1>4, <2>3, Zenon DEF IInv, TypeOK, Stepped
<1>5. CASE /\ lastBucket'.time = SendTime
           /\ lastBucket'.events = SuperQueue[SendTime % QueueLen]
           /\ lastBucket'.jumps = jumps
           /\ lastBucket' # lastBucket
  <2>1. NoEventAfterBucket' /\ SentInChosenSecond' /\ \A e \in lastBucket'.events : e \in Event
    BY <1>5, DueNow, Zenon DEF NoEventAfterBucket, SentInChosenSecond
  <2>2. jumps = 0 => SendTime <= CurrentTime + MaxFutureSecondsOnDisk
    <3>1. CASE SuperQueue[SendTime % QueueLen] # {}
      BY <3>1, DueNow, Zenon
    <3>2. CASE SendTime < CurrentTime
      BY <3>2, <1>1, ConstantsAssumption DEF IInv, LastInv, TypeOK, MaxFutureSecondsOnDisk
    <3> QED
      BY <3>1, <3>2, <1>5, Zenon
  <2>3. lastBucket'.time < SendTime'
    BY <1>1, <1>2, <1>5
  <2>4. LastInv'
    BY <1>5, <2>1, <2>2, <2>3, Zenon DEF LastInv, MaxFutureSecondsOnDisk
  <2> QED
    BY <1>1, <1>3, <1>5, <2>1, <2>4, Zenon DEF IInv, TypeOK, Stepped
<1> QED
  BY <1>4, <1>5, Zenon DEF Stepped

\* An iteration of the loop of flushBuckets.
LEMMA FlushStepIInv == ASSUME IInv, flushStep PROVE IInv'
<1>1. /\ SendTime < CurrentTime /\ sendUpTo # NoFlush
      /\ FlushAllDataSingleStep(gapInReceivingQueue <= 0)
      /\ UNCHANGED <<CurrentTime, sendUpTo, stopReceivingIncomingData, stepsLeft, phase, accepted, jumps>>
  BY Zenon DEF flushStep, MayFlush
<1>2. Stepped
  BY <1>1, StepDone, Zenon
<1>3. /\ RingInv' /\ LastInv'
      /\ \A i \in 0 .. QueueLen - 1 : \A e \in SuperQueue'[i] : e \in Event
      /\ lastBucket'.time \in Nat
      /\ \A e \in lastBucket'.events : e \in Event
  BY <1>1, <1>2, StepIInv, Zenon
<1>4. SendTime \in Nat /\ CurrentTime \in Nat /\ phase \in {"run", "flush", "closed"}
  BY Zenon DEF IInv, TypeOK
<1>5. SendTime' \in Nat /\ SendTime' <= CurrentTime
  BY <1>1, <1>2, <1>4 DEF Stepped
<1>6. TypeOK'
  BY <1>1, <1>2, <1>3, <1>5, Zenon DEF IInv, TypeOK, Stepped
<1>7. phase = "run"
  BY <1>1, <1>4, Zenon DEF IInv, PhaseInv
<1>8. PhaseInv'
  BY <1>1, <1>5, <1>7, Zenon DEF IInv, PhaseInv
<1> QED
  BY <1>3, <1>6, <1>8, Zenon DEF IInv

\* A step of FlushAllData: after QueueLen of them each slot has had its turn.
LEMMA FlushAllDataIInv == ASSUME IInv, FlushAllData PROVE IInv'
<1>1. /\ phase = "flush"
      /\ UNCHANGED <<CurrentTime, sendUpTo, stopReceivingIncomingData, accepted, jumps>>
  BY Zenon DEF FlushAllData
<1>2. /\ SendTime \in Nat /\ CurrentTime \in Nat /\ stepsLeft \in 0 .. QueueLen
      /\ QueueLen \in Nat /\ QueueLen > 0
  BY ConstantsAssumption DEF IInv, TypeOK
<1>3. CASE /\ stepsLeft # 0
           /\ FlushAllDataSingleStep(FALSE)
           /\ stepsLeft' = stepsLeft - 1
           /\ UNCHANGED phase
  <2>1. Stepped
    BY <1>3, StepDone, Zenon
  <2>2. SuperQueue[SendTime % QueueLen] # {} \/ lastBucket' = lastBucket
    BY <1>3, Zenon DEF FlushAllDataSingleStep
  <2>3. /\ RingInv' /\ LastInv'
        /\ \A i \in 0 .. QueueLen - 1 : \A e \in SuperQueue'[i] : e \in Event
        /\ lastBucket'.time \in Nat
        /\ \A e \in lastBucket'.events : e \in Event
    BY <1>1, <2>1, <2>2, StepIInv, Zenon
  <2>4. stepsLeft' \in 0 .. QueueLen /\ SendTime' \in Nat /\ SendTime' = SendTime + 1
    BY <1>2, <1>3, <2>1 DEF Stepped
  <2>5. TypeOK'
    BY <1>1, <1>3, <2>1, <2>3, <2>4, Zenon DEF IInv, TypeOK, Stepped
  <2>6. ASSUME NEW j \in stepsLeft' .. QueueLen - 1
        PROVE  SuperQueue'[(SendTime' + j) % QueueLen] = {}
    <3>1. CASE j = QueueLen - 1
      <4>1. SendTime' + j = SendTime + 1 * QueueLen
        BY <1>2, <2>4, <3>1
      <4>2. (SendTime + 1 * QueueLen) % QueueLen = SendTime % QueueLen
        BY <1>2, SameSlot, Zenon
      <4> QED
        BY <4>1, <4>2, <2>1, Zenon DEF Stepped
    <3>2. CASE j # QueueLen - 1
      <4>1. j + 1 \in stepsLeft .. QueueLen - 1 /\ SendTime' + j = SendTime + (j + 1) /\ SendTime + (j + 1) \in Nat
        BY <1>2, <1>3, <2>4, <3>2
      <4>2. SuperQueue[(SendTime + (j + 1)) % QueueLen] = {}
        BY <1>1, <4>1, Zenon DEF IInv, PhaseInv
      <4>3. (SendTime + (j + 1)) % QueueLen \in 0 .. QueueLen - 1
        BY <1>2, <4>1, DivMod, Zenon
      <4> QED
        BY <4>1, <4>2, <4>3, <2>1, Zenon DEF Stepped
    <3> QED
      BY <3>1, <3>2, Zenon
  <2>7. PhaseInv'
    BY <1>1, <1>3, <2>6, Zenon DEF IInv, PhaseInv
  <2> QED
    BY <2>3, <2>5, <2>7, Zenon DEF IInv
<1>4. CASE /\ stepsLeft = 0
           /\ phase' = "closed"
           /\ UNCHANGED <<SendTime, SuperQueue, BucketsToPreprocess, stepsLeft, lastBucket>>
  <2>1. TypeOK'
    BY <1>1, <1>4, Zenon DEF IInv, TypeOK
  <2>2. RingInv' /\ LastInv'
    BY <1>1, <1>4, Zenon DEF IInv, RingInv, LastInv, SentAfter, NoEventAfterBucket, SentInChosenSecond,
                      MaxFutureSecondsOnDisk
  <2>3. PhaseInv'
    BY <1>1, <1>4, Zenon DEF IInv, PhaseInv
  <2> QED
    BY <2>1, <2>2, <2>3, Zenon DEF IInv
<1> QED
  BY <1>3, <1>4, Zenon DEF FlushAllData, lastStep

\* The actions that touch neither the ring nor the times.
LEMMA OthersIInv ==
    ASSUME IInv, flushReturn \/ goPreProcess \/ StopReceivingIncomingData \/ WaitFlusher
    PROVE  IInv'
<1>1. UNCHANGED <<CurrentTime, SendTime, SuperQueue, stepsLeft, accepted, jumps, lastBucket>>
  BY Zenon DEF flushReturn, goPreProcess, StopReceivingIncomingData, WaitFlusher
<1>2. RingInv' /\ LastInv'
  BY <1>1, Zenon DEF IInv, RingInv, LastInv, SentAfter, NoEventAfterBucket, SentInChosenSecond,
              MaxFutureSecondsOnDisk
<1>3. /\ BucketsToPreprocess' \in {<<>>, <<lastBucket'>>}
      /\ sendUpTo' \in Nat /\ phase' \in {"run", "flush", "closed"}
  BY <1>1 DEF IInv, TypeOK, flushReturn, goPreProcess, StopReceivingIncomingData, WaitFlusher, NoFlush
<1>4. stopReceivingIncomingData' \in BOOLEAN
  BY Zenon DEF IInv, TypeOK, flushReturn, goPreProcess, StopReceivingIncomingData, WaitFlusher
<1>5. TypeOK'
  BY <1>1, <1>3, <1>4, Zenon DEF IInv, TypeOK
<1>6. PhaseInv'
  <2>1. CASE flushReturn \/ goPreProcess \/ StopReceivingIncomingData
    BY <1>1, <2>1, Zenon DEF IInv, PhaseInv, flushReturn, goPreProcess, StopReceivingIncomingData
  <2>2. CASE WaitFlusher
    <3>1. stepsLeft = QueueLen /\ QueueLen \in Nat
      BY <2>2, ConstantsAssumption, Zenon DEF IInv, PhaseInv, WaitFlusher
    <3>2. \A j \in stepsLeft .. QueueLen - 1 : FALSE
      BY <3>1
    <3> QED
      BY <1>1, <2>2, <3>2, Zenon DEF PhaseInv, WaitFlusher
  <2> QED
    BY <2>1, <2>2, Zenon
<1> QED
  BY <1>2, <1>5, <1>6, Zenon DEF IInv

\* Every step preserves the invariant.
LEMMA NextIInv == IInv /\ [Next]_vars => IInv'
<1> SUFFICES ASSUME IInv, [Next]_vars PROVE IInv'
  BY Zenon
<1>1. CASE \E ts \in Times \cup {0}, r \in Resolutions : \E n \in 0 .. r - 1 : Apply(ts, r, n)
  BY <1>1, ApplyIInv, Zenon
<1>2. CASE \E now \in Times, w \in Windows : flushBuckets(now, w)
  BY <1>2, FlushBucketsIInv, Zenon
<1>3. CASE flushStep
  BY <1>3, FlushStepIInv, Zenon
<1>4. CASE flushReturn \/ goPreProcess \/ StopReceivingIncomingData \/ WaitFlusher
  BY <1>4, OthersIInv, Zenon
<1>5. CASE FlushAllData
  BY <1>5, FlushAllDataIInv, Zenon
<1>6. CASE UNCHANGED vars
  BY <1>6, Zenon DEF vars, IInv, TypeOK, RingInv, LastInv, PhaseInv, SentAfter, NoEventAfterBucket,
              SentInChosenSecond, MaxFutureSecondsOnDisk
<1> QED
  BY <1>1, <1>2, <1>3, <1>4, <1>5, <1>6, Zenon DEF Next

\* The invariant holds in every reachable state.
THEOREM Invariance == Spec => []IInv
BY InitIInv, NextIInv, PTL DEF Spec

-----------------------------------------------------------------------------
\* The state is well typed.
THEOREM TypeCorrect == Spec => []TypeOK
<1>1. IInv => TypeOK
  BY Zenon DEF IInv
<1> QED
  BY <1>1, Invariance, PTL

\* No bucket carries an event from a second after its own (agent_shard.go:137).
THEOREM NotAhead == Spec => []NoEventAfterBucket
<1>1. IInv => NoEventAfterBucket
  BY Zenon DEF IInv, LastInv
<1> QED
  BY <1>1, Invariance, PTL

\* An event is sent in the second chosen for it, or later if the machine slept.
THEOREM InChosenSecond == Spec => []SentInChosenSecond
<1>1. IInv => SentInChosenSecond
  BY Zenon DEF IInv, LastInv
<1> QED
  BY <1>1, Invariance, PTL

\* What is saved at shutdown is within the future limit, if the agent never slept.
THEOREM WithinFutureLimit == Spec => []FutureLimitWithoutSleep
<1>1. IInv => FutureLimitWithoutSleep
  BY Zenon DEF IInv, LastInv, FutureLimitWithoutSleep
<1> QED
  BY <1>1, Invariance, PTL

\* Every slot is one of the QueueLen next seconds.
LEMMA EverySlotHasATurn ==
    ASSUME NEW q \in Nat, q > 0, NEW t \in Nat, NEW i \in 0 .. q - 1
    PROVE  \E j \in 0 .. q - 1 : (t + j) % q = i
<1> DEFINE x == t \div q
           r == t % q
<1>1. x \in Nat /\ x * q \in Nat
  BY Quotient, Zenon
<1>2. t = x * q + r /\ r \in 0 .. q - 1
  BY DivMod, Zenon
<1>3. (x + 1) * q = x * q + q /\ x + 1 \in Nat
  <2> HIDE DEF x
  <2> QED
    BY <1>1, Z3
<1> HIDE DEF x, r
<1>4. i % q = i
  BY Z3
<1>5. CASE i >= r
  <2>1. i - r \in 0 .. q - 1 /\ t + (i - r) = i + x * q
    BY <1>1, <1>2, <1>5
  <2>2. (i + x * q) % q = i
    BY <1>1, <1>4, SameSlot
  <2> QED
    BY <2>1, <2>2, Zenon
<1>6. CASE i < r
  <2>1. i - r + q \in 0 .. q - 1 /\ t + (i - r + q) = i + (x + 1) * q
    BY <1>1, <1>2, <1>3, <1>6
  <2>2. (i + (x + 1) * q) % q = i
    BY <1>3, <1>4, SameSlot
  <2> QED
    BY <2>1, <2>2, Zenon
<1> QED
  BY <1>2, <1>5, <1>6

\* Shutdown loses nothing: FlushAllData leaves the ring empty.
THEOREM NothingLeftBehind == Spec => []AllFlushedWhenClosed
<1>1. IInv => AllFlushedWhenClosed
  <2> SUFFICES ASSUME IInv, phase = "closed", NEW i \in 0 .. QueueLen - 1
               PROVE  SuperQueue[i] = {}
    BY Zenon DEF AllFlushedWhenClosed
  <2>1. SendTime \in Nat /\ QueueLen \in Nat /\ QueueLen > 0 /\ stepsLeft = 0
    BY ConstantsAssumption DEF IInv, TypeOK, PhaseInv
  <2>2. PICK j \in 0 .. QueueLen - 1 : (SendTime + j) % QueueLen = i
    BY <2>1, EverySlotHasATurn, Zenon
  <2> QED
    BY <2>1, <2>2, Zenon DEF IInv, PhaseInv
<1> QED
  BY <1>1, Invariance, PTL

\* Bucket times strictly increase (agent_shard_send.go:44).
THEOREM TimesIncrease == Spec => BucketTimesIncrease
<1>1. ASSUME IInv, IInv', [Next]_vars
      PROVE  lastBucket' # lastBucket => lastBucket'.time > lastBucket.time
  <2> SUFFICES ASSUME lastBucket' # lastBucket PROVE lastBucket'.time > lastBucket.time
    BY Zenon
  <2>1. flushStep \/ FlushAllData
    BY <1>1, Zenon DEF Next, vars, Apply, flushBuckets, flushReturn, goPreProcess,
                StopReceivingIncomingData, WaitFlusher
  <2>2. lastBucket'.time = SendTime
    <3>1. CASE flushStep
      BY <1>1, <3>1, StepDone, Zenon DEF Stepped, flushStep
    <3>2. CASE FlushAllData
      BY <1>1, <3>2, StepDone, Zenon DEF Stepped, FlushAllData
    <3> QED
      BY <2>1, <3>1, <3>2, Zenon
  <2>3. lastBucket.time < SendTime /\ lastBucket.time \in Nat /\ SendTime \in Nat
    BY <1>1, Zenon DEF IInv, LastInv, TypeOK
  <2> QED
    BY <2>2, <2>3, Zenon
<1>2. IInv /\ IInv' /\ [Next]_vars => [lastBucket' # lastBucket => lastBucket'.time > lastBucket.time]_vars
  BY <1>1, Zenon
<1> QED
  BY <1>2, Invariance, PTL DEF Spec, BucketTimesIncrease
=============================================================================
