------------------------ MODULE AgentConveyorInvariant ------------------------
(***************************************************************************)
(* An inductive invariant of AgentConveyor, for any number of senders and  *)
(* buckets and every value of the windows and limits, and what follows     *)
(* from it: no bucket is forgotten, no wake-up of the condition variable   *)
(* is lost, and a graceful shutdown keeps every bucket.                    *)
(*                                                                         *)
(* The core of IInv says where a bucket can be (Own), that a bucket is     *)
(* called saved, or is without its data, only while it is on disk          *)
(* (Stored), and which goroutine can be where with a bucket in its hands   *)
(* (Roles).  Safe carries the graceful shutdown; Ahead and EraserWakes     *)
(* make NoLostWakeup inductive.                                            *)
(***************************************************************************)
EXTENDS AgentConveyor, TLAPS

Labels == {"idle", "offer", "got", "put", "append", "send", "erase", "pop", "wait", "check", "sleep"}

Handle == [b : 0 .. MaxBuckets, saved : BOOLEAN, data : BOOLEAN]

TypeOK ==
    /\ now \in Nat /\ CurrentTime \in Nat /\ CurrentTime <= now
    /\ produced \in 0 .. MaxBuckets
    /\ timeOf \in [Buckets -> Nat]
    /\ pc \in [Workers -> Labels]
    /\ cbd \in [Workers -> Handle]
    /\ historicBucketsToSend \subseteq Handle
    /\ historicBucketsDataSize \in Int /\ historicBucketsDataSize <= MemoryLimit
    /\ phase \in {"run", "stopping", "flush", "down"}
    /\ unsafeStop \in BOOLEAN

\* Which goroutine can be where, and where it has a bucket in its hands.
Roles ==
    /\ \A w \in Workers : cbd[w].b = 0 <=> pc[w] \in {"idle", "pop", "wait", "sleep"}
    /\ \A w \in Workers : cbd[w].b = 0 => cbd[w] = None
    /\ \A r \in RecentSenders : pc[r] \in {"idle", "got", "send", "put", "append", "erase"}
    /\ \A h \in HistoricSenders : pc[h] \in {"pop", "wait", "check", "send", "erase"}
    /\ pc[Eraser] \in {"pop", "wait", "check", "append", "sleep"}
    /\ pc[Preprocessor] \in {"idle", "offer", "put", "append"}

\* OneOwner, place by place; and every bucket was produced.
Own ==
    /\ \A v, w \in Workers : cbd[v].b = cbd[w].b /\ cbd[v].b # 0 => v = w
    /\ \A c, d \in historicBucketsToSend : c.b = d.b => c = d
    /\ \A w \in Workers, c \in historicBucketsToSend : cbd[w].b # c.b
    /\ \A w \in Workers : cbd[w].b \notin tail
    /\ \A c \in historicBucketsToSend : c.b \notin tail
    /\ \A w \in Workers : cbd[w].b \in 0 .. produced
    /\ \A c \in historicBucketsToSend : c.b \in 1 .. produced

\* A bucket called saved is on disk, and one without its data is saved.
Stored ==
    /\ \A w \in Workers : cbd[w].saved => cbd[w].b \in disk
    /\ \A w \in Workers : cbd[w].b # 0 /\ ~cbd[w].data => cbd[w].saved
    /\ \A c \in historicBucketsToSend : c.saved => c.b \in disk
    /\ \A c \in historicBucketsToSend : ~c.data => c.saved
    /\ tail \subseteq disk
    /\ disk \subseteq 1 .. produced

\* A bucket being erased is with an aggregator.
Erasing == \A w \in Workers : pc[w] = "erase" => cbd[w].b \in taken

\* A stopped process has nothing in memory.
Down ==
    phase = "down" =>
        /\ pc = startPc /\ cbd = [w \in Workers |-> None]
        /\ historicBucketsToSend = {} /\ tail = {}

InHands(b) == \E w \in Workers : cbd[w].b = b
InQueue(b) == \E c \in historicBucketsToSend : c.b = b

Settled(b) == b \in taken \/ b \in lost \/ b \in dropped

\* NothingForgotten, without the set of buckets in memory.
Accounted ==
    \A b \in 1 .. produced :
        \/ Settled(b)
        \/ phase # "down" /\ (InHands(b) \/ InQueue(b) \/ b \in tail)
        \/ phase = "down" /\ b \in disk

\* As long as every disk write succeeded and senders were waited for, what reached the historic
\* conveyor is saved, and the recent senders have nothing during the final flush.
Safe ==
    ~unsafeStop =>
        /\ dropped = {}
        /\ \A c \in historicBucketsToSend : c.saved
        /\ \A w \in Waiters : cbd[w].b # 0 => cbd[w].saved
        /\ \A w \in Workers : pc[w] = "append" => cbd[w].saved
        /\ phase = "flush" => \A r \in RecentSenders : pc[r] = "idle"

FlusherRuns == phase \in {"run", "stopping"}

\* A bucket ahead of the clock is one of the previous run, so it is not far ahead of the flusher.
Ahead ==
    /\ \A b \in 1 .. produced : timeOf[b] <= now + FutureSeconds
    /\ FlusherRuns =>
        \A b \in 1 .. produced : timeOf[b] >= now => timeOf[b] <= CurrentTime + FutureSeconds

Sendable(c) == Oldest(c) /\ ~inFuture(c, now) /\ ~inFuture(c, CurrentTime)

NoneSendable == \A c \in historicBucketsToSend : ~Sendable(c)

\* While all senders wait and the eraser has a bucket in its hands, either there is nothing to
\* send or the eraser will put the bucket back, and with that wake up a sender.
EraserWakes ==
    /\ FlusherRuns
    /\ \A h \in HistoricSenders : pc[h] = "wait"
    /\ pc[Eraser] \in {"check", "append"}
    => NoneSendable \/ ~lostInMemory(cbd[Eraser])

IInv ==
    /\ TypeOK /\ Roles /\ Own /\ Stored /\ Erasing /\ Down
    /\ Accounted /\ Safe /\ Ahead /\ NoLostWakeup /\ EraserWakes

-----------------------------------------------------------------------------
\* The operators and the workers.

\* Goroutines of different kinds are different, and there is a historic sender.
LEMMA Kinds ==
    /\ Eraser \in Waiters /\ Eraser \in Workers
    /\ Preprocessor \in Workers /\ Preprocessor \notin Waiters
    /\ \A r \in RecentSenders : r \in Workers /\ r \notin Waiters /\ r # Preprocessor
    /\ \A h \in HistoricSenders : h \in Workers /\ h \in Waiters /\ h # Preprocessor /\ h # Eraser
    /\ \A w \in Waiters : w \in Workers /\ (w = Eraser \/ w \in HistoricSenders)
    /\ \E h \in HistoricSenders : TRUE
  BY ConveyorAssumption, Zenon DEF Workers, Waiters

\* Only a bucket in nobody's hands is without its fields.
LEMMA Handles ==
    /\ None \in Handle /\ None.b = 0 /\ ~None.saved /\ ~None.data
    /\ \A c \in Handle : c.b \in 0 .. MaxBuckets /\ c.saved \in BOOLEAN /\ c.data \in BOOLEAN
  <1>1. 0 \in 0 .. MaxBuckets
    BY ConveyorAssumption
  <1> QED
    BY <1>1, Zenon DEF None, Handle

\* A signal moves at most one goroutine, from wait to pop.
LEMMA SignalledPc ==
    ASSUME NEW q \in [Workers -> Labels], NEW p \in Signalled(q)
    PROVE  /\ p \in [Workers -> Labels]
           /\ \A w \in Workers : p[w] = q[w] \/ (w \in Waiters /\ q[w] = "wait" /\ p[w] = "pop")
  <1> DEFINE waiting == {w \in Waiters : q[w] = "wait"}
  <1>1. CASE waiting = {}
    BY <1>1, Zenon DEF Signalled
  <1>2. CASE waiting # {}
    <2>1. PICK v \in waiting : p = [q EXCEPT ![v] = "pop"]
      BY <1>2, Zenon DEF Signalled
    <2>2. v \in Workers /\ v \in Waiters /\ q[v] = "wait" /\ "pop" \in Labels
      BY Kinds, Zenon DEF Labels
    <2> HIDE DEF waiting
    <2> QED
      BY <2>1, <2>2, Zenon
  <1> QED
    BY <1>1, <1>2, Zenon

\* After a signal a sender is awake, or the eraser is about to look at the queue.
LEMMA SignalledWakes ==
    ASSUME NEW q \in [Workers -> Labels], NEW p \in Signalled(q),
           \A h \in HistoricSenders : q[h] # "sleep"
    PROVE  (\E h \in HistoricSenders : p[h] \notin {"wait", "sleep"}) \/ p[Eraser] = "pop"
  <1> DEFINE waiting == {w \in Waiters : q[w] = "wait"}
  <1>1. CASE waiting = {}
    <2>1. p = q
      BY <1>1, Zenon DEF Signalled
    <2>2. PICK h \in HistoricSenders : TRUE
      BY Kinds, Zenon
    <2>3. q[h] # "wait"
      BY <1>1, Kinds, Zenon
    <2> QED
      BY <2>1, <2>2, <2>3, Zenon
  <1>2. CASE waiting # {}
    <2>1. PICK v \in waiting : p = [q EXCEPT ![v] = "pop"]
      BY <1>2, Zenon DEF Signalled
    <2>2. v \in Workers /\ (v = Eraser \/ v \in HistoricSenders)
      BY Kinds, Zenon
    <2> HIDE DEF waiting
    <2>3. p[v] = "pop"
      BY <2>1, <2>2, Zenon
    <2> QED
      BY <2>2, <2>3, Zenon
  <1> QED
    BY <1>1, <1>2, Zenon

-----------------------------------------------------------------------------
\* What a step that leaves a part of the state alone preserves.

\* Own and Stored only depend on where the buckets are.
LEMMA Still ==
    ASSUME IInv, UNCHANGED <<cbd, queue, disk, tail, produced>>
    PROVE  Own' /\ Stored'
  <1>1. Own'
    BY Zenon DEF IInv, Own, queue
  <1>2. Stored'
    BY Zenon DEF IInv, Stored, queue
  <1> QED
    BY <1>1, <1>2, Zenon

\* A running agent forgets nothing when every bucket in memory or in the tail stays or is settled.
LEMMA Moving ==
    ASSUME IInv, Running, Running', produced' = produced,
           taken \subseteq taken', lost \subseteq lost', dropped \subseteq dropped',
           \A b \in 1 .. produced : InHands(b) \/ InQueue(b) \/ b \in tail =>
                Settled(b)' \/ InHands(b)' \/ InQueue(b)' \/ b \in tail'
    PROVE  Accounted'
  BY Zenon DEF IInv, Accounted, Settled, Running

\* The same when nothing moves.
LEMMA StillAccounted ==
    ASSUME IInv, Running, Running', UNCHANGED <<cbd, queue, tail, produced, lost, dropped>>,
           taken \subseteq taken'
    PROVE  Accounted'
  <1>1. /\ \A b : InHands(b)' <=> InHands(b)
        /\ \A b : InQueue(b)' <=> InQueue(b)
    BY Zenon DEF InHands, InQueue, queue
  <1> QED
    BY <1>1, Moving, Zenon

\* The clocks and the seconds of the buckets stay.
LEMMA StillAhead ==
    ASSUME IInv, UNCHANGED <<clock, produced, timeOf>>, FlusherRuns' => FlusherRuns
    PROVE  Ahead'
  BY Zenon DEF IInv, Ahead, clock

\* A bucket stays sendable or not while clocks, seconds and the queue stay.
LEMMA StillSendable ==
    ASSUME UNCHANGED <<clock, timeOf, queue>>
    PROVE  \A c : Sendable(c)' <=> Sendable(c)
  BY Zenon DEF Sendable, Oldest, inFuture, clock, queue

\* The waiting goroutines and the queue stay.
LEMMA StillAsleep ==
    ASSUME IInv, UNCHANGED <<clock, timeOf, queue>>, FlusherRuns' => FlusherRuns,
           \A w \in Waiters : pc'[w] = pc[w], cbd'[Eraser] = cbd[Eraser]
    PROVE  NoLostWakeup' /\ EraserWakes'
  <1>1. NoLostWakeup'
    BY Zenon DEF IInv, NoLostWakeup, FlusherRuns, Oldest, inFuture, clock, queue
  <1>2. NoneSendable => NoneSendable'
    BY StillSendable, Zenon DEF NoneSendable, queue
  <1>3. lostInMemory(cbd[Eraser])' => lostInMemory(cbd[Eraser])
    BY Zenon DEF lostInMemory, fits, queue
  <1>4. EraserWakes'
    BY <1>2, <1>3, Kinds, Zenon DEF IInv, EraserWakes
  <1> QED
    BY <1>1, <1>4, Zenon

\* A historic sender is awake.
LEMMA SenderAwake ==
    ASSUME \E h \in HistoricSenders : pc'[h] \notin {"wait", "sleep"}
    PROVE  NoLostWakeup' /\ EraserWakes'
  <1>1. NoLostWakeup'
    BY Kinds, Zenon DEF NoLostWakeup
  <1>2. EraserWakes'
    BY Zenon DEF EraserWakes
  <1> QED
    BY <1>1, <1>2, Zenon

\* The condition variable was signalled.
LEMMA SignalAwake ==
    ASSUME NEW q \in [Workers -> Labels], pc' \in Signalled(q),
           \A h \in HistoricSenders : q[h] # "sleep"
    PROVE  NoLostWakeup' /\ EraserWakes'
  <1>1. CASE \E h \in HistoricSenders : pc'[h] \notin {"wait", "sleep"}
    BY <1>1, SenderAwake, Zenon
  <1>2. CASE pc'[Eraser] = "pop"
    <2>1. NoLostWakeup'
      BY <1>2, Kinds, Zenon DEF NoLostWakeup
    <2>2. EraserWakes'
      BY <1>2, Zenon DEF EraserWakes
    <2> QED
      BY <2>1, <2>2, Zenon
  <1> QED
    BY <1>1, <1>2, SignalledWakes, Zenon

-----------------------------------------------------------------------------
\* The initial state.

Free == {"idle", "pop", "wait", "sleep"}

\* Goroutines start where they have nothing in their hands.
LEMMA StartPc ==
    /\ startPc \in [Workers -> Labels]
    /\ \A w \in Workers : startPc[w] \in Free /\ startPc[w] \notin {"erase", "append"}
    /\ \A r \in RecentSenders :
        startPc[r] = "idle" /\ startPc[r] \in {"idle", "got", "send", "put", "append", "erase"}
    /\ \A h \in HistoricSenders :
        startPc[h] = "pop" /\ startPc[h] \in {"pop", "wait", "check", "send", "erase"}
    /\ startPc[Eraser] = "pop" /\ startPc[Eraser] \in {"pop", "wait", "check", "append", "sleep"}
    /\ startPc[Preprocessor] \in {"idle", "offer", "put", "append"}
  <1>1. \A w \in Workers : startPc[w] = IF w \in Waiters THEN "pop" ELSE "idle"
    BY Zenon DEF startPc
  <1>2. startPc \in [Workers -> Labels]
    BY Zenon DEF startPc, Labels
  <1> QED
    BY <1>1, <1>2, Kinds, Zenon DEF Free

LEMMA InitIInv == Init => IInv
  <1> SUFFICES ASSUME Init PROVE IInv
    BY Zenon
  <1>1. TypeOK
    <2>1. /\ now \in Nat /\ CurrentTime \in Nat /\ CurrentTime <= now
          /\ produced \in 0 .. MaxBuckets
          /\ historicBucketsDataSize \in Int /\ historicBucketsDataSize <= MemoryLimit
      BY ConveyorAssumption DEF Init
    <2>2. timeOf \in [Buckets -> Nat]
      BY Zenon DEF Init
    <2>3. pc \in [Workers -> Labels]
      BY StartPc, Zenon DEF Init
    <2>4. cbd \in [Workers -> Handle]
      BY Handles, Zenon DEF Init
    <2>5. historicBucketsToSend \subseteq Handle /\ unsafeStop \in BOOLEAN
      BY Zenon DEF Init
    <2> QED
      BY <2>1, <2>2, <2>3, <2>4, <2>5, Zenon DEF Init, TypeOK
  <1>3. \A w \in Workers : cbd[w] = None
    BY Zenon DEF Init
  <1>16. pc = startPc
    BY Zenon DEF Init
  <1>2. Roles
    BY <1>3, <1>16, StartPc, Handles, Zenon DEF Roles, Free
  <1>4. historicBucketsToSend = {} /\ tail = {} /\ produced = 0 /\ disk = {}
    BY Zenon DEF Init
  <1>5. Own
    BY <1>3, <1>4, Handles DEF Own
  <1>6. Stored
    BY <1>3, <1>4, Handles, Zenon DEF Stored
  <1>7. Erasing
    BY <1>16, StartPc, Zenon DEF Erasing
  <1>8. Down
    BY Zenon DEF Down, Init
  <1>11. Accounted
    BY <1>4 DEF Accounted
  <1>12. Safe
    BY <1>3, <1>4, <1>16, Handles, StartPc, Kinds, Zenon DEF Safe, Init
  <1>13. Ahead
    BY <1>4 DEF Ahead
  <1>14. NoLostWakeup
    BY <1>4, Zenon DEF NoLostWakeup
  <1>15. EraserWakes
    BY <1>4, Zenon DEF EraserWakes, NoneSendable
  <1> QED
    BY <1>1, <1>2, <1>5, <1>6, <1>7, <1>8, <1>11, <1>12, <1>13, <1>14, <1>15, Zenon
       DEF IInv

-----------------------------------------------------------------------------
\* The clock and the flusher.

\* Time passes: a bucket whose second is over was not far ahead of the flusher.
LEMMA TickIInv == ASSUME IInv, Tick PROVE IInv'
  <1> USE DEF Tick
  <1>1. now \in Nat /\ CurrentTime \in Nat /\ CurrentTime <= now /\ now' = now + 1
    BY Zenon DEF IInv, TypeOK
  <1>2. UNCHANGED <<CurrentTime, produced, timeOf, pc, cbd, historicBucketsToSend,
                    historicBucketsDataSize, disk, tail, phase, stops, dropped, taken, lost, unsafeStop>>
    BY Zenon DEF source, queue, life
  <1> HIDE DEF Tick
  <1>3. now' \in Nat /\ CurrentTime <= now'
    BY <1>1
  <1>4. TypeOK'
    BY <1>2, <1>3, Zenon DEF IInv, TypeOK
  <1>5. Roles'
    BY <1>2, Zenon DEF IInv, Roles
  <1>6. Own' /\ Stored'
    BY <1>2, Still, Zenon DEF queue
  <1>7. Erasing'
    BY <1>2, Zenon DEF IInv, Erasing
  <1>8. Down'
    BY <1>2, Zenon DEF IInv, Down
  <1>9. Accounted'
    BY <1>2, Zenon DEF IInv, Accounted, Settled, InHands, InQueue
  <1>10. Safe'
    BY <1>2, Zenon DEF IInv, Safe
  <1>11. \A b \in 1 .. produced : timeOf[b] \in Nat
    BY ConveyorAssumption DEF IInv, TypeOK, Buckets
  <1>12. FutureSeconds \in Nat
    BY ConveyorAssumption, Zenon
  <1>13. Ahead'
    <2>1. \A b \in 1 .. produced : timeOf[b] <= now + FutureSeconds
      BY Zenon DEF IInv, Ahead
    <2>2. \A b \in 1 .. produced : timeOf[b] <= now' + FutureSeconds
      BY <1>1, <1>11, <1>12, <2>1
    <2>3. \A b \in 1 .. produced : timeOf[b] >= now' => timeOf[b] >= now
      BY <1>1, <1>11
    <2> QED
      BY <1>2, <2>2, <2>3, Zenon DEF IInv, Ahead, FlusherRuns
  <1>14. ASSUME FlusherRuns, NEW c \in historicBucketsToSend, Sendable(c)'
         PROVE  Sendable(c)
    <2>1. c.b \in 1 .. produced
      BY <1>14, Zenon DEF IInv, Own
    <2>2. timeOf[c.b] >= now => timeOf[c.b] <= CurrentTime + FutureSeconds
      BY <1>14, <2>1, Zenon DEF IInv, Ahead
    <2>3. Oldest(c) /\ ~inFuture(c, CurrentTime)
      BY <1>14, <1>2, Zenon DEF Sendable, Oldest, inFuture
    <2>4. ~inFuture(c, now)
      BY <1>1, <1>11, <1>12, <2>1, <2>2, <2>3 DEF inFuture
    <2> QED
      BY <2>3, <2>4, Zenon DEF Sendable
  <1>15. NoLostWakeup'
    BY <1>14, <1>2, Zenon DEF IInv, NoLostWakeup, Sendable, FlusherRuns
  <1>16. EraserWakes'
    BY <1>14, <1>2, Zenon DEF IInv, EraserWakes, NoneSendable, FlusherRuns, lostInMemory, fits
  <1> QED
    BY <1>4, <1>5, <1>6, <1>7, <1>8, <1>9, <1>10, <1>13, <1>15, <1>16, Zenon DEF IInv

-----------------------------------------------------------------------------
\* Steps of one goroutine.

\* Goroutine w goes to l, the bucket in its hands may change and nobody else moves.
Goes(w, l) ==
    /\ w \in Workers /\ l \in Labels
    /\ pc' = [pc EXCEPT ![w] = l]
    /\ cbd' \in [Workers -> Handle]
    /\ \A v \in Workers : v # w => cbd'[v] = cbd[v]
    /\ cbd'[w].b = 0 <=> l \in Free
    /\ cbd'[w].b = 0 => cbd'[w] = None

\* Place l is one for the kind of goroutine w.
May(w, l) ==
    /\ w \in RecentSenders => l \in {"idle", "got", "send", "put", "append", "erase"}
    /\ w \in HistoricSenders => l \in {"pop", "wait", "check", "send", "erase"}
    /\ w = Eraser => l \in {"pop", "wait", "check", "append", "sleep"}
    /\ w = Preprocessor => l \in {"idle", "offer", "put", "append"}

\* Only w has moved.
LEMMA GoesPc ==
    ASSUME IInv, NEW w, NEW l, Goes(w, l)
    PROVE  /\ pc' \in [Workers -> Labels] /\ pc'[w] = l
           /\ \A v \in Workers : v # w => pc'[v] = pc[v]
  BY Zenon DEF IInv, TypeOK, Goes

\* The place must be one for its kind.
LEMMA GoesRoles ==
    ASSUME IInv, NEW w, NEW l, Goes(w, l), May(w, l)
    PROVE  Roles'
  <1>1. w \in Workers /\ pc'[w] = l /\ \A v \in Workers : v # w => pc'[v] = pc[v]
    BY GoesPc, Zenon DEF Goes
  <1>2. \A v \in Workers : cbd'[v].b = 0 <=> pc'[v] \in Free
    <2>1. \A v \in Workers : cbd[v].b = 0 <=> pc[v] \in Free
      BY Zenon DEF IInv, Roles, Free
    <2>2. cbd'[w].b = 0 <=> l \in Free
      BY Zenon DEF Goes
    <2>3. \A v \in Workers : v # w => cbd'[v] = cbd[v]
      BY Zenon DEF Goes
    <2> QED
      BY <1>1, <2>1, <2>2, <2>3, Zenon
  <1>3. \A v \in Workers : cbd'[v].b = 0 => cbd'[v] = None
    BY Zenon DEF IInv, Roles, Goes
  <1>4. \A r \in RecentSenders : pc'[r] \in {"idle", "got", "send", "put", "append", "erase"}
    BY <1>1, Kinds, Zenon DEF IInv, Roles, May
  <1>5. \A h \in HistoricSenders : pc'[h] \in {"pop", "wait", "check", "send", "erase"}
    BY <1>1, Kinds, Zenon DEF IInv, Roles, May
  <1>6. pc'[Eraser] \in {"pop", "wait", "check", "append", "sleep"}
    BY <1>1, Kinds, Zenon DEF IInv, Roles, May
  <1>7. pc'[Preprocessor] \in {"idle", "offer", "put", "append"}
    BY <1>1, Kinds, Zenon DEF IInv, Roles, May
  <1> QED
    BY <1>2, <1>3, <1>4, <1>5, <1>6, <1>7, Zenon DEF Roles, Free

\* Where it goes to erase, an aggregator has the bucket.
LEMMA GoesErasing ==
    ASSUME IInv, NEW w, NEW l, Goes(w, l), taken \subseteq taken',
           l = "erase" => cbd'[w].b \in taken'
    PROVE  Erasing'
  BY GoesPc, Zenon DEF IInv, Erasing, Goes

\* Unless a write failed, it has a saved bucket where the historic conveyor begins.
LEMMA GoesSafe ==
    ASSUME IInv, NEW w, NEW l, Goes(w, l),
           UNCHANGED <<dropped, phase, historicBucketsToSend>>,
           unsafeStop => unsafeStop',
           ~unsafeStop' /\ w \in Waiters /\ cbd'[w].b # 0 => cbd'[w].saved,
           ~unsafeStop' /\ l = "append" => cbd'[w].saved,
           ~unsafeStop' /\ phase = "flush" /\ w \in RecentSenders => l = "idle"
    PROVE  Safe'
  <1> SUFFICES ASSUME ~unsafeStop' PROVE Safe'
    BY Zenon DEF Safe
  <1>1. w \in Workers /\ pc'[w] = l /\ \A v \in Workers : v # w => pc'[v] = pc[v]
    BY GoesPc, Zenon DEF Goes
  <1>2. ~unsafeStop
    BY Zenon
  <1>3. \A v \in Workers : pc'[v] = "append" => cbd'[v].saved
    BY <1>1, <1>2, Zenon DEF IInv, Safe, Goes
  <1>4. \A v \in Waiters : cbd'[v].b # 0 => cbd'[v].saved
    BY <1>1, <1>2, Kinds, Zenon DEF IInv, Safe, Goes
  <1>5. phase' = "flush" => \A r \in RecentSenders : pc'[r] = "idle"
    BY <1>1, <1>2, Kinds, Zenon DEF IInv, Safe
  <1> QED
    BY <1>2, <1>3, <1>4, <1>5, Zenon DEF IInv, Safe

\* The goroutine is no waiting one: those see no difference.
LEMMA GoesAsleep ==
    ASSUME IInv, NEW w, NEW l, Goes(w, l), w \notin Waiters,
           UNCHANGED <<clock, timeOf, queue, phase>>
    PROVE  NoLostWakeup' /\ EraserWakes'
  <1>1. \A v \in Waiters : pc'[v] = pc[v]
    <2>1. \A v \in Workers : v # w => pc'[v] = pc[v]
      BY GoesPc, Zenon
    <2> QED
      BY <2>1, Kinds, Zenon
  <1>2. cbd'[Eraser] = cbd[Eraser]
    BY Kinds, Zenon DEF Goes
  <1>3. FlusherRuns' => FlusherRuns
    BY Zenon DEF FlusherRuns
  <1> QED
    BY <1>1, <1>2, <1>3, StillAsleep, Zenon

\* The goroutine is a historic sender that goes on.
LEMMA GoesAwake ==
    ASSUME IInv, NEW w \in HistoricSenders, NEW l, Goes(w, l), l \notin {"wait", "sleep"}
    PROVE  NoLostWakeup' /\ EraserWakes'
  BY GoesPc, SenderAwake, Zenon

\* All of IInv but what the waiting goroutines depend on.
Core == TypeOK /\ Roles /\ Own /\ Stored /\ Erasing /\ Down /\ Accounted /\ Safe /\ Ahead

\* A recent sender that has work means that the final flush has not begun, or not safely.
LEMMA BusyRecent ==
    ASSUME IInv, NEW w \in RecentSenders, pc[w] # "idle", ~unsafeStop
    PROVE  phase # "flush"
  BY Zenon DEF IInv, Safe

\* A goroutine goes on with what it has in its hands.
LEMMA Steps ==
    ASSUME IInv, Running, NEW w \in Workers, NEW l \in Labels, May(w, l),
           pc' = [pc EXCEPT ![w] = l],
           UNCHANGED <<cbd, clock, produced, timeOf, queue, disk, tail, life, lost, unsafeStop>>,
           taken \subseteq taken',
           pc[w] \in Free <=> l \in Free,
           l = "erase" => cbd[w].b \in taken',
           l = "append" /\ ~unsafeStop => cbd[w].saved,
           w \in RecentSenders => pc[w] # "idle"
    PROVE  Goes(w, l) /\ Core'
  <1>1. cbd \in [Workers -> Handle] /\ (cbd[w].b = 0 <=> pc[w] \in Free)
    BY Zenon DEF IInv, TypeOK, Roles, Free
  <1>2. Goes(w, l)
    BY <1>1, Zenon DEF Goes, IInv, Roles, TypeOK, Free
  <1>3. /\ UNCHANGED <<historicBucketsToSend, historicBucketsDataSize, phase, dropped>>
        /\ UNCHANGED <<now, CurrentTime>>
    BY Zenon DEF queue, life, clock
  <1>4. TypeOK'
    BY <1>2, <1>3, GoesPc, Zenon DEF IInv, TypeOK
  <1>5. Roles'
    BY <1>2, GoesRoles, Zenon
  <1>6. Own' /\ Stored'
    BY Still, Zenon
  <1>7. Erasing'
    BY <1>2, GoesErasing, Zenon
  <1>8. Down'
    BY <1>3, Zenon DEF Down, Running
  <1>9. Accounted'
    BY <1>3, StillAccounted, Zenon DEF Running
  <1>10. Safe'
    <2>1. ~unsafeStop' /\ w \in Waiters /\ cbd'[w].b # 0 => cbd'[w].saved
      BY Zenon DEF IInv, Safe
    <2>2. ~unsafeStop' /\ phase = "flush" /\ w \in RecentSenders => l = "idle"
      BY BusyRecent, Zenon
    <2> QED
      BY <1>2, <1>3, <2>1, <2>2, GoesSafe, Zenon
  <1>11. Ahead'
    BY <1>3, StillAhead, Zenon DEF FlusherRuns
  <1> QED
    BY <1>2, <1>4, <1>5, <1>6, <1>7, <1>8, <1>9, <1>10, <1>11, Zenon DEF Core

\* The two halves make the invariant.
LEMMA Whole == Core' /\ NoLostWakeup' /\ EraserWakes' => IInv'
  BY Zenon DEF Core, IInv

\* sendRecent, whatever comes of it, leaves the bucket with its sender.
LEMMA SendRecentIInv == ASSUME IInv, NEW w \in RecentSenders, sendRecent(w) PROVE IInv'
  <1>1. Running /\ pc[w] = "send" /\ w \in Workers /\ w \notin Waiters /\ w # Preprocessor
    BY Kinds, Zenon DEF sendRecent
  <1>2. UNCHANGED <<cbd, clock, produced, timeOf, queue, disk, tail, life, lost, unsafeStop>>
    BY Zenon DEF sendRecent, source
  <1>3. PICK l \in {"put", "erase"} :
            /\ pc' = [pc EXCEPT ![w] = l]
            /\ taken \subseteq taken'
            /\ l = "erase" => cbd[w].b \in taken'
    BY Zenon DEF sendRecent, Goto
  <1>4. l \in Labels /\ May(w, l) /\ l # "append" /\ (pc[w] \in Free <=> l \in Free)
    BY <1>1, <1>3, Kinds, Zenon DEF Labels, May, Free
  <1>5. Goes(w, l) /\ Core'
    BY <1>1, <1>2, <1>3, <1>4, Steps, Zenon
  <1>6. NoLostWakeup' /\ EraserWakes'
    BY <1>1, <1>2, <1>5, GoesAsleep, Zenon DEF life
  <1> QED
    BY <1>5, <1>6, Whole, Zenon

\* An error or keep: the historic sender tries again; discard: it erases the bucket.
LEMMA HistoricAnswerIInv ==
    ASSUME IInv, NEW w \in HistoricSenders, historicRetry(w) \/ historicDiscard(w)
    PROVE  IInv'
  <1>1. Running /\ pc[w] = "send" /\ w \in Workers
    BY Kinds, Zenon DEF historicRetry, historicDiscard
  <1>2. UNCHANGED <<cbd, clock, produced, timeOf, queue, disk, tail, life, lost, unsafeStop>>
    BY Zenon DEF historicRetry, historicDiscard, source
  <1>3. PICK l \in {"check", "erase"} :
            /\ pc' = [pc EXCEPT ![w] = l]
            /\ taken \subseteq taken'
            /\ l = "erase" => cbd[w].b \in taken'
    BY Zenon DEF historicRetry, historicDiscard, Goto
  <1>4. /\ l \in Labels /\ May(w, l) /\ l \notin {"append", "wait", "sleep"}
        /\ pc[w] \in Free <=> l \in Free
        /\ w \notin RecentSenders
    BY <1>1, <1>3, Kinds, Zenon DEF Labels, May, Free
  <1>5. Goes(w, l) /\ Core'
    BY <1>1, <1>2, <1>3, <1>4, Steps, Zenon
  <1>6. NoLostWakeup' /\ EraserWakes'
    BY <1>4, <1>5, GoesAwake, Zenon
  <1> QED
    BY <1>5, <1>6, Whole, Zenon

\* The eraser wakes up.
LEMMA EraserWakeIInv == ASSUME IInv, eraserWake PROVE IInv'
  <1>1. Running /\ pc[Eraser] = "sleep" /\ pc' = [pc EXCEPT ![Eraser] = "pop"] /\ taken' = taken
    BY Zenon DEF eraserWake, Goto
  <1>2. UNCHANGED <<cbd, clock, produced, timeOf, queue, disk, tail, life, lost, unsafeStop>>
    BY Zenon DEF eraserWake, source
  <1>3. /\ "pop" \in Labels /\ May(Eraser, "pop") /\ (pc[Eraser] \in Free <=> "pop" \in Free)
        /\ Eraser \in Workers /\ Eraser \notin RecentSenders
    BY <1>1, Kinds, Zenon DEF Labels, May, Free
  <1>4. Goes(Eraser, "pop") /\ Core'
    BY <1>1, <1>2, <1>3, Steps, Zenon
  <1>5. pc'[Eraser] = "pop"
    BY <1>4, GoesPc, Zenon
  <1>6. NoLostWakeup'
    BY <1>5, Kinds, Zenon DEF NoLostWakeup
  <1>7. EraserWakes'
    BY <1>5, Zenon DEF EraserWakes
  <1> QED
    BY <1>4, <1>6, <1>7, Whole, Zenon

-----------------------------------------------------------------------------
\* The steps in which goroutines only wake up.

\* Waiting goroutines may go on to pop, and nothing else happens to the buckets.
LEMMA Wakes ==
    ASSUME IInv, Running, Running', pc' \in [Workers -> Labels],
           \A w \in Workers : pc'[w] = pc[w] \/ (w \in Waiters /\ pc[w] = "wait" /\ pc'[w] = "pop"),
           UNCHANGED <<cbd, produced, timeOf, queue, disk, tail, dropped, taken, lost>>,
           now' = now, CurrentTime' \in Nat, CurrentTime' <= now,
           phase' \in {"run", "stopping", "flush", "down"},
           unsafeStop' \in BOOLEAN,
           unsafeStop => unsafeStop',
           phase' = "flush" /\ ~unsafeStop' => \A r \in RecentSenders : pc'[r] = "idle",
           Ahead'
    PROVE  Core'
  <1>1. UNCHANGED <<historicBucketsToSend, historicBucketsDataSize>>
    BY Zenon DEF queue
  <1>2. TypeOK'
    BY <1>1, Zenon DEF IInv, TypeOK
  <1>3. Roles'
    <2>1. \A w \in Workers : pc'[w] \in Free <=> pc[w] \in Free
      BY Zenon DEF Free
    <2>2. \A w \in Workers : cbd'[w].b = 0 <=> pc'[w] \in Free
      BY <2>1, Zenon DEF IInv, Roles, Free
    <2>3. \A w \in Workers : cbd'[w].b = 0 => cbd'[w] = None
      BY Zenon DEF IInv, Roles
    <2>4. \A r \in RecentSenders : pc'[r] \in {"idle", "got", "send", "put", "append", "erase"}
      BY Kinds, Zenon DEF IInv, Roles
    <2>5. \A h \in HistoricSenders : pc'[h] \in {"pop", "wait", "check", "send", "erase"}
      BY Kinds, Zenon DEF IInv, Roles
    <2>6. /\ pc'[Eraser] \in {"pop", "wait", "check", "append", "sleep"}
          /\ pc'[Preprocessor] \in {"idle", "offer", "put", "append"}
      BY Kinds, Zenon DEF IInv, Roles
    <2> QED
      BY <2>2, <2>3, <2>4, <2>5, <2>6, Zenon DEF Roles, Free
  <1>4. Own' /\ Stored'
    BY Still, Zenon
  <1>5. Erasing'
    BY Zenon DEF IInv, Erasing
  <1>6. Down'
    BY Zenon DEF Down, Running
  <1>7. Accounted'
    BY StillAccounted, Zenon
  <1>8. Safe'
    <2> SUFFICES ASSUME ~unsafeStop' PROVE Safe'
      BY Zenon DEF Safe
    <2>1. \A w \in Workers : pc'[w] = "append" => pc[w] = "append"
      BY Zenon
    <2> QED
      BY <1>1, <2>1, Zenon DEF IInv, Safe
  <1> QED
    BY <1>2, <1>3, <1>4, <1>5, <1>6, <1>7, <1>8, Zenon DEF Core

\* The flusher sees the new time and signals.
LEMMA FlushTickIInv == ASSUME IInv, flushTick PROVE IInv'
  <1>1. pc \in [Workers -> Labels] /\ pc' \in Signalled(pc)
    BY Zenon DEF flushTick, clockSignal, IInv, TypeOK
  <1>2. UNCHANGED <<now, cbd, produced, timeOf, queue, disk, tail, dropped, taken, lost, phase, unsafeStop>>
    BY Zenon DEF flushTick, source, life
  <1>3. now \in Nat /\ CurrentTime' = now /\ FlusherRuns /\ Running
    BY Zenon DEF flushTick, IInv, TypeOK, FlusherRuns, Running
  <1>4. Ahead'
    BY <1>2, <1>3, Zenon DEF Ahead, IInv
  <1>5. Core'
    <2>1. pc' \in [Workers -> Labels]
      BY <1>1, SignalledPc, Zenon
    <2>2. \A w \in Workers : pc'[w] = pc[w] \/ (w \in Waiters /\ pc[w] = "wait" /\ pc'[w] = "pop")
      BY <1>1, SignalledPc, Zenon
    <2>3. now \in Nat /\ now <= now
      BY <1>3
    <2>4. phase' \in {"run", "stopping", "flush", "down"} /\ phase' # "flush" /\ Running'
      BY <1>2, <1>3, Zenon DEF FlusherRuns, Running
    <2>5. unsafeStop' \in BOOLEAN
      BY <1>2, Zenon DEF IInv, TypeOK
    <2> QED
      BY <1>2, <1>3, <1>4, <2>1, <2>2, <2>3, <2>4, <2>5, Wakes, Zenon
  <1>6. \A h \in HistoricSenders : pc[h] # "sleep"
    BY Zenon DEF IInv, Roles
  <1>7. NoLostWakeup' /\ EraserWakes'
    BY <1>1, <1>6, SignalAwake, Zenon
  <1> QED
    BY <1>5, <1>7, Whole, Zenon

-----------------------------------------------------------------------------
\* Shutdown.

\* cond.Broadcast: every waiting goroutine goes on.
LEMMA DisableNewSendsIInv == ASSUME IInv, DisableNewSends PROVE IInv'
  <1>1. pc' = [w \in Workers |-> IF pc[w] = "wait" THEN "pop" ELSE pc[w]]
    BY Zenon DEF DisableNewSends
  <1>2. UNCHANGED <<clock, cbd, produced, timeOf, queue, disk, tail, dropped, taken, lost, unsafeStop>>
    BY Zenon DEF DisableNewSends, source
  <1>3. phase = "run" /\ phase' = "stopping" /\ Running
    BY Zenon DEF DisableNewSends, Running
  <1>4. pc' \in [Workers -> Labels]
    BY <1>1, Zenon DEF IInv, TypeOK, Labels
  <1>5. \A w \in Workers : pc'[w] = pc[w] \/ (w \in Waiters /\ pc[w] = "wait" /\ pc'[w] = "pop")
    <2>1. \A w \in Workers : pc[w] = "wait" => w \in Waiters
      BY Zenon DEF IInv, Roles, Workers, Waiters
    <2> QED
      BY <1>1, <2>1, Zenon
  <1>6. Ahead'
    BY <1>2, <1>3, StillAhead, Zenon DEF FlusherRuns
  <1>7. Core'
    <2>1. /\ phase' \in {"run", "stopping", "flush", "down"} /\ phase' # "flush" /\ Running'
          /\ unsafeStop' \in BOOLEAN /\ (unsafeStop => unsafeStop')
      BY <1>2, <1>3, Zenon DEF IInv, TypeOK, Running
    <2>2. now' = now /\ CurrentTime' \in Nat /\ CurrentTime' <= now
      BY <1>2, Zenon DEF clock, IInv, TypeOK
    <2> QED
      BY <1>2, <1>3, <1>4, <1>5, <1>6, <2>1, <2>2, Wakes, Zenon
  <1>8. \E h \in HistoricSenders : pc'[h] \notin {"wait", "sleep"}
    <2>1. PICK h \in HistoricSenders : TRUE
      BY Kinds, Zenon
    <2>2. pc[h] # "sleep" /\ h \in Workers
      BY Kinds, Zenon DEF IInv, Roles
    <2> QED
      BY <1>1, <2>2, Zenon
  <1> QED
    BY <1>7, <1>8, SenderAwake, Whole, Zenon

\* The wait for the recent senders ends.
LEMMA WaitRecentSendersIInv == ASSUME IInv, WaitRecentSenders PROVE IInv'
  <1>1. UNCHANGED <<clock, pc, cbd, produced, timeOf, queue, disk, tail, dropped, taken, lost>>
    BY Zenon DEF WaitRecentSenders, source
  <1>2. /\ phase = "stopping" /\ phase' = "flush" /\ Running
        /\ unsafeStop' = (unsafeStop \/ \E r \in RecentSenders : pc[r] # "idle")
    BY Zenon DEF WaitRecentSenders, Running
  <1>3. ~FlusherRuns'
    BY <1>2, Zenon DEF FlusherRuns
  <1>4. Ahead'
    BY <1>1, <1>3, StillAhead, Zenon
  <1>5. Core'
    <2>1. pc' \in [Workers -> Labels] /\ \A w \in Workers : pc'[w] = pc[w]
      BY <1>1, Zenon DEF IInv, TypeOK
    <2>2. phase' \in {"run", "stopping", "flush", "down"} /\ Running'
      BY <1>2, Zenon DEF Running
    <2>3. /\ unsafeStop' \in BOOLEAN /\ (unsafeStop => unsafeStop')
          /\ ~unsafeStop' => \A r \in RecentSenders : pc'[r] = "idle"
      BY <1>1, <1>2, Zenon
    <2>4. now' = now /\ CurrentTime' \in Nat /\ CurrentTime' <= now
      BY <1>1, Zenon DEF clock, IInv, TypeOK
    <2> QED
      BY <1>1, <1>2, <1>4, <2>1, <2>2, <2>3, <2>4, Wakes, Zenon
  <1>6. NoLostWakeup' /\ EraserWakes'
    BY <1>3, Zenon DEF NoLostWakeup, EraserWakes, FlusherRuns
  <1> QED
    BY <1>5, <1>6, Whole, Zenon

\* The process ends: what is left of a bucket is on disk, or it counts as dropped.
LEMMA StopIInv ==
    ASSUME IInv, Running, stop, unsafeStop' \in BOOLEAN, ~unsafeStop' => dropped' = {}
    PROVE  IInv'
  <1>1. /\ pc' = startPc /\ cbd' = [w \in Workers |-> None] /\ phase' = "down"
        /\ historicBucketsToSend' = {} /\ historicBucketsDataSize' = 0 /\ tail' = {}
        /\ UNCHANGED <<now, CurrentTime, produced, timeOf, disk, taken, lost>>
        /\ dropped' = dropped \cup ((InMemory \ {0}) \ (disk \cup taken))
    BY Zenon DEF stop, clock, source
  <1>2. \A w \in Workers : cbd'[w] = None
    BY <1>1, Zenon
  <1>3. TypeOK'
    <2>1. cbd' \in [Workers -> Handle]
      BY <1>1, Handles, Zenon
    <2>2. pc' \in [Workers -> Labels]
      BY <1>1, StartPc, Zenon
    <2>3. historicBucketsDataSize' \in Int /\ historicBucketsDataSize' <= MemoryLimit
      BY <1>1, ConveyorAssumption
    <2> QED
      BY <1>1, <2>1, <2>2, <2>3, Zenon DEF IInv, TypeOK
  <1>4. Roles'
    BY <1>1, <1>2, StartPc, Handles, Zenon DEF Roles, Free
  <1>5. Own'
    <2>1. produced \in Nat
      BY DEF IInv, TypeOK
    <2> QED
      BY <1>1, <1>2, <2>1, Handles DEF Own
  <1>6. Stored'
    BY <1>1, <1>2, Handles, Zenon DEF IInv, Stored
  <1>7. Erasing' /\ Down'
    BY <1>1, StartPc, Zenon DEF Erasing, Down
  <1>9. Accounted'
    <2> SUFFICES ASSUME NEW b \in 1 .. produced, ~Settled(b)'
                 PROVE  b \in disk
      BY <1>1, Zenon DEF Accounted
    <2>1. ~Settled(b) /\ b \notin taken
      BY <1>1, Zenon DEF Settled
    <2>2. b # 0
      OBVIOUS
    <2>3. CASE InHands(b) \/ InQueue(b)
      <3>1. b \in InMemory
        BY <2>3, Zenon DEF InHands, InQueue, InMemory
      <3> QED
        BY <1>1, <2>1, <2>2, <3>1, Zenon DEF Settled
    <2>4. CASE b \in tail
      BY <2>4, Zenon DEF IInv, Stored
    <2> QED
      BY <2>1, <2>3, <2>4, Zenon DEF IInv, Accounted, Running
  <1>10. Safe'
    BY <1>1, <1>2, Handles, StartPc, Kinds, Zenon DEF Safe
  <1>11. ~FlusherRuns'
    BY <1>1, Zenon DEF FlusherRuns
  <1>12. Ahead'
    BY <1>1, <1>11, Zenon DEF IInv, Ahead
  <1>13. NoLostWakeup' /\ EraserWakes'
    BY <1>11, Zenon DEF NoLostWakeup, EraserWakes, FlusherRuns
  <1> QED
    BY <1>3, <1>4, <1>5, <1>6, <1>7, <1>9, <1>10, <1>12, <1>13, Zenon DEF IInv

\* After a graceful shutdown everything in memory is saved.
LEMMA WaitPreprocessorIInv == ASSUME IInv, WaitPreprocessor PROVE IInv'
  <1>1. phase = "flush" /\ pc[Preprocessor] = "idle" /\ stop /\ unsafeStop' = unsafeStop
    BY Zenon DEF WaitPreprocessor
  <1>2. ASSUME ~unsafeStop PROVE dropped' = {}
    <2>1. dropped = {}
      BY <1>2, Zenon DEF IInv, Safe
    <2>2. ASSUME NEW b \in InMemory, b # 0 PROVE b \in disk
      <3>1. CASE \E c \in historicBucketsToSend : b = c.b
        BY <1>2, <3>1, Zenon DEF IInv, Safe, Stored
      <3>2. ASSUME NEW w \in Workers, b = cbd[w].b PROVE b \in disk
        <4>1. CASE w \in Waiters
          BY <1>2, <2>2, <3>2, <4>1, Zenon DEF IInv, Safe, Stored
        <4>2. CASE w \in RecentSenders \/ w = Preprocessor
          <5>1. pc[w] = "idle"
            BY <1>1, <1>2, <4>2, Zenon DEF IInv, Safe
          <5>2. cbd[w].b = 0
            BY <5>1, Zenon DEF IInv, Roles
          <5> QED
            BY <2>2, <3>2, <5>2, Zenon
        <4> QED
          BY <4>1, <4>2, Zenon DEF Workers
      <3> QED
        BY <3>1, <3>2, Zenon DEF InMemory
    <2> QED
      BY <1>1, <2>1, <2>2, Zenon DEF stop
  <1>3. Running /\ unsafeStop' \in BOOLEAN
    BY <1>1, Zenon DEF Running, IInv, TypeOK
  <1> QED
    BY <1>1, <1>2, <1>3, StopIInv, Zenon

\* After a crash what is in memory only is gone.
LEMMA CrashIInv == ASSUME IInv, Crash PROVE IInv'
  BY StopIInv, Zenon DEF Crash

\* A start reads the first buckets of the disk cache into the queue and leaves the rest in the
\* tail; there is a tail only if something was read.
LEMMA StartIInv == ASSUME IInv, Start PROVE IInv'
  <1>1. /\ phase = "down" /\ phase' = "run" /\ CurrentTime' = now
        /\ UNCHANGED <<now, produced, timeOf, pc, cbd, historicBucketsDataSize, disk, dropped,
                       taken, lost, unsafeStop>>
    BY Zenon DEF Start
  <1>2. PICK read \in SUBSET disk :
            /\ Cardinality(read) = IF Cardinality(disk) < TailAtStart THEN Cardinality(disk) ELSE TailAtStart
            /\ historicBucketsToSend' = {FromDisk(b) : b \in read}
            /\ tail' = disk \ read
    BY Zenon DEF Start
  <1>3. pc = startPc /\ historicBucketsToSend = {} /\ \A w \in Workers : cbd[w] = None
    BY <1>1, Zenon DEF IInv, Down
  <1>4. \A b : FromDisk(b).b = b /\ FromDisk(b).saved /\ ~FromDisk(b).data
    BY Zenon DEF FromDisk
  <1>5. disk \subseteq 1 .. produced /\ produced \in 0 .. MaxBuckets
    BY Zenon DEF IInv, Stored, TypeOK
  <1>6. \A c \in historicBucketsToSend' : c.b \in read /\ c = FromDisk(c.b) /\ c.saved /\ ~c.data
    BY <1>2, <1>4, Zenon
  <1>7. \A b \in read : FromDisk(b) \in historicBucketsToSend'
    BY <1>2, Zenon
  <1>9. TypeOK'
    <2>1. historicBucketsToSend' \subseteq Handle
      <3>1. \A b \in read : b \in 0 .. MaxBuckets
        BY <1>5, ConveyorAssumption
      <3>2. \A b \in 0 .. MaxBuckets : FromDisk(b) \in Handle
        BY Zenon DEF FromDisk, Handle
      <3> QED
        BY <1>6, <3>1, <3>2, Zenon
    <2>2. now \in Nat /\ now <= now
      BY DEF IInv, TypeOK
    <2> QED
      BY <1>1, <2>1, <2>2, Zenon DEF IInv, TypeOK
  <1>10. Roles'
    BY <1>1, Zenon DEF IInv, Roles
  <1>11. Own'
    <2>1. \A w \in Workers : cbd'[w].b = 0
      BY <1>1, <1>3, Handles, Zenon
    <2>2. 0 \notin disk /\ 0 \in 0 .. produced
      BY <1>5, ConveyorAssumption
    <2>3. \A c \in historicBucketsToSend' : c.b \in disk /\ c.b \notin tail'
      BY <1>2, <1>6, Zenon
    <2>4. \A c, d \in historicBucketsToSend' : c.b = d.b => c = d
      BY <1>6, Zenon
    <2> QED
      BY <1>1, <1>2, <1>5, <2>1, <2>2, <2>3, <2>4, Zenon DEF Own
  <1>12. Stored'
    BY <1>1, <1>2, <1>6, Zenon DEF IInv, Stored
  <1>13. Erasing'
    BY <1>1, <1>3, StartPc, Zenon DEF Erasing
  <1>14. Down'
    BY <1>1, Zenon DEF Down
  <1>17. Accounted'
    <2>1. \A b \in disk : InQueue(b)' \/ b \in tail'
      BY <1>2, <1>4, <1>7, Zenon DEF InQueue
    <2>2. \A b \in 1 .. produced : Settled(b) \/ b \in disk
      BY <1>1, Zenon DEF IInv, Accounted
    <2>3. \A b : Settled(b)' <=> Settled(b)
      BY <1>1, Zenon DEF Settled
    <2>4. phase' # "down"
      BY <1>1, Zenon
    <2> QED
      BY <1>1, <2>1, <2>2, <2>3, <2>4, Zenon DEF Accounted
  <1>18. Safe'
    <2>1. phase' # "flush"
      BY <1>1, Zenon
    <2> QED
      BY <1>1, <1>6, <2>1, Zenon DEF IInv, Safe
  <1>19. Ahead'
    BY <1>1, Zenon DEF IInv, Ahead
  <1>20. NoLostWakeup' /\ EraserWakes'
    <2>1. \E h \in HistoricSenders : pc'[h] = "pop"
      BY <1>1, <1>3, StartPc, Kinds, Zenon
    <2> QED
      BY <2>1, SenderAwake, Zenon
  <1> QED
    BY <1>9, <1>10, <1>11, <1>12, <1>13, <1>14, <1>17, <1>18, <1>19, <1>20, Zenon DEF IInv

-----------------------------------------------------------------------------
\* The preprocessor.

\* A new bucket is in nobody else's hands, and is behind the clock while the flusher runs.
LEMMA PreProcessIInv == ASSUME IInv, NEW t \in 0 .. MaxTime - 1, preProcess(t) PROVE IInv'
  <1> DEFINE n == produced + 1
  <1>1. /\ pc[Preprocessor] = "idle" /\ produced < MaxBuckets
        /\ produced' = n /\ timeOf' = [timeOf EXCEPT ![n] = t]
        /\ cbd' = [cbd EXCEPT ![Preprocessor] = Fresh(n)]
        /\ pc' = [pc EXCEPT ![Preprocessor] = "offer"]
    BY Zenon DEF preProcess, Goto
  <1>2. UNCHANGED <<now, CurrentTime, historicBucketsToSend, historicBucketsDataSize, disk, tail,
                    phase, dropped, taken, lost, unsafeStop>>
    BY Zenon DEF preProcess, clock, queue, life
  <1>3. \/ phase \in {"run", "stopping"} /\ t < now
        \/ phase = "flush" /\ t <= now + FutureSeconds
    BY Zenon DEF preProcess
  <1>4. produced \in Nat /\ n \in Buckets /\ n \in 0 .. MaxBuckets /\ n # 0 /\ MaxBuckets \in Nat
        /\ t \in Nat /\ FutureSeconds \in Nat /\ now \in Nat /\ CurrentTime \in Nat
    BY <1>1, ConveyorAssumption DEF IInv, TypeOK, Buckets
  <1>5. Fresh(n) \in Handle /\ Fresh(n).b = n /\ ~Fresh(n).saved /\ Fresh(n).data
    BY <1>4, Zenon DEF Fresh, Handle
  <1>6. 1 .. n = (1 .. produced) \cup {n} /\ 0 .. n = (0 .. produced) \cup {n}
        /\ n \notin 0 .. produced /\ n \notin 1 .. produced
    BY <1>4
  <1> HIDE DEF n
  <1>7. Preprocessor \in Workers /\ Preprocessor \notin Waiters
    BY Kinds, Zenon
  <1>8. cbd \in [Workers -> Handle] /\ cbd[Preprocessor].b = 0
    BY <1>1, <1>7, Zenon DEF IInv, TypeOK, Roles
  <1>9. /\ cbd'[Preprocessor] = Fresh(n)
        /\ \A v \in Workers : v # Preprocessor => cbd'[v] = cbd[v]
    BY <1>1, <1>7, <1>8, Zenon
  <1>10. Goes(Preprocessor, "offer")
    <2>1. "offer" \in Labels /\ "offer" \notin Free
      BY Zenon DEF Labels, Free
    <2>2. cbd' \in [Workers -> Handle]
      BY <1>1, <1>5, <1>8, Zenon
    <2> QED
      BY <1>1, <1>4, <1>5, <1>7, <1>9, <2>1, <2>2, Zenon DEF Goes
  <1>11. TypeOK'
    <2>1. timeOf' \in [Buckets -> Nat]
      BY <1>1, <1>4, Zenon DEF IInv, TypeOK
    <2>2. pc' \in [Workers -> Labels] /\ cbd' \in [Workers -> Handle]
      BY <1>10, GoesPc, Zenon DEF Goes
    <2> QED
      BY <1>1, <1>2, <1>4, <2>1, <2>2, Zenon DEF IInv, TypeOK
  <1>12. Roles'
    <2>1. May(Preprocessor, "offer")
      BY Kinds, Zenon DEF May
    <2> QED
      BY <1>10, <2>1, GoesRoles, Zenon
  <1>13. /\ \A w \in Workers : cbd[w].b \in 0 .. produced
         /\ \A c \in historicBucketsToSend : c.b \in 1 .. produced
         /\ tail \subseteq 1 .. produced /\ disk \subseteq 1 .. produced
    BY Zenon DEF IInv, Own, Stored
  <1>14. Own'
    <2>6. /\ cbd'[Preprocessor].b = n
          /\ \A v \in Workers : v # Preprocessor => cbd'[v].b = cbd[v].b /\ cbd'[v].b # n
      BY <1>5, <1>6, <1>9, <1>13, Zenon
    <2>7. \A v, w \in Workers : cbd[v].b = cbd[w].b /\ cbd[v].b # 0 => v = w
      BY Zenon DEF IInv, Own
    <2>1. \A v, w \in Workers : cbd'[v].b = cbd'[w].b /\ cbd'[v].b # 0 => v = w
      BY <2>6, <2>7, Zenon
    <2>8. \A c \in historicBucketsToSend : c.b # n
      BY <1>6, <1>13, Zenon
    <2>2. \A w \in Workers, c \in historicBucketsToSend : cbd'[w].b # c.b
      BY <2>6, <2>8, Zenon DEF IInv, Own
    <2>9. n \notin tail /\ \A w \in Workers : cbd[w].b \notin tail
      BY <1>6, <1>13, Zenon DEF IInv, Own
    <2>3. \A w \in Workers : cbd'[w].b \notin tail
      BY <2>6, <2>9, Zenon
    <2>4. \A w \in Workers : cbd'[w].b \in 0 .. n
      BY <1>5, <1>6, <1>9, <1>13, Zenon
    <2>5. \A c \in historicBucketsToSend : c.b \in 1 .. n
      BY <1>6, <1>13, Zenon
    <2> QED
      BY <1>1, <1>2, <2>1, <2>2, <2>3, <2>4, <2>5, Zenon DEF IInv, Own
  <1>15. Stored'
    <2>1. \A w \in Workers : cbd'[w].saved => cbd'[w].b \in disk
      BY <1>5, <1>9, Zenon DEF IInv, Stored
    <2>2. \A w \in Workers : cbd'[w].b # 0 /\ ~cbd'[w].data => cbd'[w].saved
      BY <1>5, <1>9, Zenon DEF IInv, Stored
    <2>3. disk \subseteq 1 .. n
      BY <1>6, <1>13, Zenon
    <2> QED
      BY <1>1, <1>2, <2>1, <2>2, <2>3, Zenon DEF IInv, Stored
  <1>16. Erasing'
    BY <1>2, <1>10, GoesErasing, Zenon
  <1>17. Down'
    BY <1>2, <1>3, Zenon DEF Down
  <1>19. Accounted'
    <2>1. phase # "down" /\ phase' # "down"
      BY <1>2, <1>3, Zenon
    <2>2. \E w \in Workers : cbd'[w].b = n
      BY <1>5, <1>7, <1>9, Zenon
    <2>3. ASSUME NEW b \in 1 .. produced
          PROVE  Settled(b)' \/ InHands(b)' \/ InQueue(b)' \/ b \in tail'
      <3>1. InHands(b) => InHands(b)'
        <4>1. b # 0
          OBVIOUS
        <4> QED
          BY <1>8, <1>9, <4>1, Zenon DEF InHands
      <3>2. InQueue(b) => InQueue(b)'
        BY <1>2, Zenon DEF InQueue
      <3> QED
        BY <1>2, <2>1, <3>1, <3>2, Zenon DEF IInv, Accounted, Settled
    <2> QED
      BY <1>1, <1>6, <2>1, <2>2, <2>3, Zenon DEF Accounted, InHands
  <1>20. Safe'
    <2>1. Preprocessor \notin RecentSenders
      BY Kinds, Zenon
    <2> QED
      BY <1>2, <1>7, <1>10, <2>1, GoesSafe, Zenon
  <1>21. \A b \in 1 .. produced : timeOf'[b] = timeOf[b]
    <2>1. \A b \in 1 .. produced : b \in Buckets /\ b # n
      BY <1>1, <1>4, <1>6 DEF Buckets
    <2> QED
      BY <1>1, <2>1, Zenon DEF IInv, TypeOK
  <1>22. timeOf'[n] = t
    BY <1>1, <1>4, Zenon DEF IInv, TypeOK
  <1>23. Ahead'
    <2>1. t <= now + FutureSeconds
      BY <1>3, <1>4
    <2>2. FlusherRuns => ~(t >= now)
      BY <1>3, <1>4 DEF FlusherRuns
    <2> QED
      BY <1>1, <1>2, <1>6, <1>21, <1>22, <2>1, <2>2, Zenon DEF IInv, Ahead, FlusherRuns
  <1>24. NoLostWakeup' /\ EraserWakes'
    <2>1. \A c \in historicBucketsToSend : timeOf'[c.b] = timeOf[c.b]
      BY <1>13, <1>21, Zenon
    <2>2. \A w \in Waiters : pc'[w] = pc[w]
      <3>1. \A v \in Workers : v # Preprocessor => pc'[v] = pc[v]
        BY <1>10, GoesPc, Zenon
      <3> QED
        BY <3>1, Kinds, Zenon
    <2>3. cbd'[Eraser] = cbd[Eraser] /\ (lostInMemory(cbd[Eraser])' => lostInMemory(cbd[Eraser]))
      BY <1>2, <1>9, Kinds, Zenon DEF lostInMemory, fits
    <2>4. \A c \in historicBucketsToSend : Sendable(c)' <=> Sendable(c)
      BY <1>2, <2>1, Zenon DEF Sendable, Oldest, inFuture
    <2>5. NoLostWakeup'
      BY <1>2, <2>2, <2>4, Zenon DEF IInv, NoLostWakeup, Sendable
    <2>6. EraserWakes'
      BY <1>2, <2>2, <2>3, <2>4, Kinds, Zenon DEF IInv, EraserWakes, NoneSendable, FlusherRuns
    <2> QED
      BY <2>5, <2>6, Zenon
  <1> QED
    BY <1>11, <1>12, <1>14, <1>15, <1>16, <1>17, <1>19, <1>20, <1>23, <1>24, Zenon DEF IInv

\* sendToSenders: the bucket goes to a recent sender, or stays for the historic conveyor.
LEMMA SendToSendersIInv == ASSUME IInv, sendToSenders PROVE IInv'
  <1> DEFINE P == Preprocessor
  <1>1. Running /\ pc[P] = "offer" /\ P \in Workers /\ P \notin Waiters
    BY Kinds, Zenon DEF sendToSenders
  <1>2. UNCHANGED <<clock, produced, timeOf, queue, disk, tail, life, taken, lost, unsafeStop>>
    BY Zenon DEF sendToSenders, source
  <1>3. CASE pc' = [pc EXCEPT ![P] = "put"] /\ cbd' = cbd
    <2>1. /\ "put" \in Labels /\ May(P, "put") /\ (pc[P] \in Free <=> "put" \in Free)
          /\ P \notin RecentSenders
      BY <1>1, Kinds, Zenon DEF Labels, May, Free
    <2>2. Goes(P, "put") /\ Core'
      BY <1>1, <1>2, <1>3, <2>1, Steps, Zenon
    <2>3. NoLostWakeup' /\ EraserWakes'
      BY <1>1, <1>2, <2>2, GoesAsleep, Zenon DEF life
    <2> QED
      BY <2>2, <2>3, Whole, Zenon
  <1>4. ASSUME NEW r \in RecentSenders, phase = "run", pc[r] = "idle",
               pc' = [pc EXCEPT ![P] = "idle", ![r] = "got"],
               cbd' = [cbd EXCEPT ![P] = None, ![r] = cbd[P]]
        PROVE  IInv'
    <2>1. r \in Workers /\ r # P /\ r \notin Waiters
      BY Kinds, Zenon
    <2>2. pc \in [Workers -> Labels] /\ cbd \in [Workers -> Handle]
      BY Zenon DEF IInv, TypeOK
    <2>3. /\ cbd'[P] = None /\ cbd'[r] = cbd[P]
          /\ \A v \in Workers : v # P /\ v # r => cbd'[v] = cbd[v]
      BY <1>1, <1>4, <2>1, <2>2, Zenon
    <2>4. /\ pc'[P] = "idle" /\ pc'[r] = "got"
          /\ \A v \in Workers : v # P /\ v # r => pc'[v] = pc[v]
      BY <1>1, <1>4, <2>1, <2>2, Zenon
    <2>5. cbd' \in [Workers -> Handle] /\ pc' \in [Workers -> Labels]
      BY <1>1, <1>4, <2>1, <2>2, Handles, Zenon DEF Labels
    <2>6. cbd[P].b # 0 /\ cbd[r].b = 0
      BY <1>1, <1>4, <2>1, Zenon DEF IInv, Roles
    <2>7. UNCHANGED <<now, CurrentTime, historicBucketsToSend, historicBucketsDataSize, phase, dropped>>
      BY <1>2, Zenon DEF clock, queue, life
    <2> HIDE DEF P
    <2>8. TypeOK'
      BY <1>2, <2>5, <2>7, Zenon DEF IInv, TypeOK
    <2>9. Roles'
      <3>1. \A v \in Workers : cbd'[v].b = 0 <=> pc'[v] \in Free
        <4>1. "idle" \in Free /\ "got" \notin Free
          BY Zenon DEF Free
        <4>2. \A v \in Workers : cbd[v].b = 0 <=> pc[v] \in Free
          BY Zenon DEF IInv, Roles, Free
        <4> QED
          BY <2>3, <2>4, <2>6, <4>1, <4>2, Handles, Zenon
      <3>2. \A v \in Workers : cbd'[v].b = 0 => cbd'[v] = None
        <4>1. \A v \in Workers : cbd[v].b = 0 => cbd[v] = None
          BY Zenon DEF IInv, Roles
        <4> QED
          BY <2>3, <2>6, <4>1, Zenon
      <3>3. \A q \in RecentSenders : pc'[q] \in {"idle", "got", "send", "put", "append", "erase"}
        BY <2>4, Kinds, Zenon DEF IInv, Roles, P
      <3>4. \A h \in HistoricSenders : pc'[h] \in {"pop", "wait", "check", "send", "erase"}
        BY <2>1, <2>4, Kinds, Zenon DEF IInv, Roles, P
      <3>5. pc'[Eraser] \in {"pop", "wait", "check", "append", "sleep"}
        BY <2>1, <2>4, Kinds, Zenon DEF IInv, Roles, P
      <3>6. pc'[Preprocessor] \in {"idle", "offer", "put", "append"}
        BY <2>4, Zenon DEF P
      <3> QED
        BY <3>1, <3>2, <3>3, <3>4, <3>5, <3>6, Zenon DEF Roles, Free
    <2>10. Own'
      <3>1. \A v \in Workers : \/ cbd'[v].b = 0
                               \/ v # r /\ v # P /\ cbd'[v].b = cbd[v].b
                               \/ v = r /\ cbd'[v].b = cbd[P].b
        BY <2>3, Handles, Zenon
      <3>2. \A v, w \in Workers : cbd[v].b = cbd[w].b /\ cbd[v].b # 0 => v = w
        BY Zenon DEF IInv, Own
      <3>3. \A v, w \in Workers : cbd'[v].b = cbd'[w].b /\ cbd'[v].b # 0 => v = w
        BY <1>1, <3>1, <3>2, Zenon
      <3>4. \A v \in Workers : \E w \in Workers : cbd'[v].b = cbd[w].b
        BY <1>1, <2>1, <2>6, <3>1, Zenon
      <3> QED
        BY <1>2, <2>7, <3>3, <3>4, Zenon DEF IInv, Own
    <2>11. Stored'
      <3>1. \A v \in Workers : cbd'[v] = None \/ \E w \in Workers : cbd'[v] = cbd[w]
        BY <1>1, <2>1, <2>3, Zenon
      <3>4. \A w \in Workers : /\ cbd[w].saved => cbd[w].b \in disk
                               /\ cbd[w].b # 0 /\ ~cbd[w].data => cbd[w].saved
        BY Zenon DEF IInv, Stored
      <3>5. ASSUME NEW v \in Workers
            PROVE  /\ cbd'[v].saved => cbd'[v].b \in disk
                   /\ cbd'[v].b # 0 /\ ~cbd'[v].data => cbd'[v].saved
        <4>1. CASE cbd'[v] = None
          BY <4>1, Handles, Zenon
        <4>2. ASSUME NEW w \in Workers, cbd'[v] = cbd[w]
              PROVE  /\ cbd'[v].saved => cbd'[v].b \in disk
                     /\ cbd'[v].b # 0 /\ ~cbd'[v].data => cbd'[v].saved
          <5>1. /\ cbd[w].saved => cbd[w].b \in disk
                /\ cbd[w].b # 0 /\ ~cbd[w].data => cbd[w].saved
            BY <3>4, Zenon
          <5> QED
            BY <4>2, <5>1
        <4> QED
          BY <3>1, <4>1, <4>2, Zenon
      <3>2. \A v \in Workers : cbd'[v].saved => cbd'[v].b \in disk
        BY <3>5, Zenon
      <3>3. \A v \in Workers : cbd'[v].b # 0 /\ ~cbd'[v].data => cbd'[v].saved
        BY <3>5, Zenon
      <3> QED
        BY <1>2, <2>7, <3>2, <3>3, Zenon DEF IInv, Stored
    <2>12. Erasing'
      BY <1>2, <2>3, <2>4, Zenon DEF IInv, Erasing
    <2>13. Down'
      BY <2>7, <1>4, Zenon DEF Down
    <2>15. Accounted'
      <3>1. \A b \in 1 .. produced : b # 0
        OBVIOUS
      <3>2. \A b \in 1 .. produced : InHands(b) => InHands(b)'
        BY <1>1, <2>1, <2>3, <2>6, <3>1, Zenon DEF InHands
      <3>3. \A b : InQueue(b) => InQueue(b)'
        BY <2>7, Zenon DEF InQueue
      <3> QED
        BY <1>1, <1>2, <2>7, <3>2, <3>3, Moving, Zenon DEF Running
    <2>16. Safe'
      <3> SUFFICES ASSUME ~unsafeStop' PROVE Safe'
        BY Zenon DEF Safe
      <3>1. ~unsafeStop /\ phase' # "flush"
        BY <1>2, <1>4, <2>7, Zenon
      <3>2. \A v \in Workers : pc'[v] = "append" => cbd'[v] = cbd[v] /\ pc[v] = "append"
        BY <2>3, <2>4, Zenon
      <3>3. \A v \in Waiters : cbd'[v] = cbd[v]
        BY <1>1, <2>1, <2>3, Kinds, Zenon
      <3> QED
        BY <1>2, <2>7, <3>1, <3>2, <3>3, Zenon DEF IInv, Safe
    <2>17. Ahead'
      BY <1>2, <2>7, StillAhead, Zenon DEF FlusherRuns
    <2>18. NoLostWakeup' /\ EraserWakes'
      <3>1. \A v \in Waiters : pc'[v] = pc[v]
        BY <1>1, <2>1, <2>4, Kinds, Zenon
      <3>2. cbd'[Eraser] = cbd[Eraser]
        BY <1>1, <2>1, <2>3, Kinds, Zenon
      <3> QED
        BY <1>2, <2>7, <3>1, <3>2, StillAsleep, Zenon DEF FlusherRuns
    <2> QED
      BY <2>8, <2>9, <2>10, <2>11, <2>12, <2>13, <2>15, <2>16, <2>17, <2>18, Zenon DEF IInv
  <1> QED
    BY <1>3, <1>4, Zenon DEF sendToSenders, Goto

-----------------------------------------------------------------------------
\* The disk cache.

\* The bucket in hand is written, or its write fails and is noted.
LEMMA PutIInv ==
    ASSUME IInv, Running, NEW w \in Workers, w \notin Waiters, pc[w] \in {"put", "got"},
           NEW l \in {"append", "send"}, May(w, l), diskCachePut(w, l),
           UNCHANGED <<clock, source, queue, tail, life, taken, lost>>
    PROVE  IInv'
  <1>1. pc' = [pc EXCEPT ![w] = l] /\ UNCHANGED <<produced, timeOf>>
    BY Zenon DEF diskCachePut, Goto, source
  <1>2. l \in Labels /\ l \notin Free /\ pc[w] \notin Free /\ pc[w] # "idle" /\ l # "erase"
    BY Zenon DEF Labels, Free
  <1>3. cbd \in [Workers -> Handle] /\ cbd[w].b # 0 /\ cbd[w].b \in 0 .. produced /\ cbd[w] \in Handle
    BY <1>2, Zenon DEF IInv, TypeOK, Roles, Own, Free
  <1>4. CASE cbd[w].saved /\ UNCHANGED <<disk, cbd, unsafeStop>>
    <2>1. Goes(w, l) /\ Core'
      BY <1>1, <1>2, <1>4, Steps, Zenon
    <2>2. NoLostWakeup' /\ EraserWakes'
      BY <2>1, GoesAsleep, <1>1, Zenon DEF life
    <2> QED
      BY <2>1, <2>2, Whole, Zenon
  <1>5. ASSUME cbd' \in [Workers -> Handle], \A v \in Workers : v # w => cbd'[v] = cbd[v],
               cbd'[w].b = cbd[w].b, cbd'[w].data = cbd[w].data,
               unsafeStop' \in BOOLEAN, unsafeStop => unsafeStop', disk \subseteq disk',
               disk' \subseteq disk \cup {cbd[w].b},
               cbd'[w].saved => cbd[w].b \in disk', cbd[w].saved => cbd'[w].saved,
               unsafeStop' \/ cbd'[w].saved
        PROVE  IInv'
    <2>1. Goes(w, l)
      BY <1>1, <1>2, <1>3, <1>5, Zenon DEF Goes
    <2>2. UNCHANGED <<now, CurrentTime, historicBucketsToSend, historicBucketsDataSize, phase, dropped>>
      BY Zenon DEF clock, queue, life
    <2>3. TypeOK'
      BY <1>1, <1>5, <2>1, <2>2, GoesPc, Zenon DEF IInv, TypeOK
    <2>4. Roles'
      BY <2>1, GoesRoles, Zenon
    <2>5. \A v \in Workers : cbd'[v].b = cbd[v].b
      BY <1>5, Zenon
    <2>6. Own'
      BY <1>1, <2>2, <2>5, Zenon DEF IInv, Own
    <2>7. Stored'
      <3>1. \A v \in Workers : cbd'[v].saved => cbd'[v].b \in disk'
        BY <1>5, Zenon DEF IInv, Stored
      <3>2. \A v \in Workers : cbd'[v].b # 0 /\ ~cbd'[v].data => cbd'[v].saved
        BY <1>5, Zenon DEF IInv, Stored
      <3>3. cbd[w].b \in 1 .. produced
        BY <1>3, ConveyorAssumption DEF IInv, TypeOK
      <3>4. disk' \subseteq 1 .. produced
        BY <1>5, <3>3, Zenon DEF IInv, Stored
      <3> QED
        BY <1>1, <1>5, <2>2, <3>1, <3>2, <3>4, Zenon DEF IInv, Stored
    <2>8. Erasing'
      BY <1>2, <2>1, GoesErasing, Zenon
    <2>9. Down'
      BY <2>2, Zenon DEF Down, Running
    <2>11. Accounted'
      <3>1. \A b : InHands(b) => InHands(b)'
        BY <2>5, Zenon DEF InHands
      <3>2. \A b : InQueue(b) => InQueue(b)'
        BY <2>2, Zenon DEF InQueue
      <3> QED
        BY <1>1, <2>2, <3>1, <3>2, Moving, Zenon DEF Running
    <2>12. Safe'
      <3>1. ~unsafeStop' /\ phase = "flush" /\ w \in RecentSenders => l = "idle"
        BY <1>2, <1>5, BusyRecent, Zenon
      <3> QED
        BY <1>5, <2>1, <2>2, <3>1, GoesSafe, Zenon
    <2>13. Ahead'
      BY <1>1, <2>2, StillAhead, Zenon DEF FlusherRuns
    <2>14. NoLostWakeup' /\ EraserWakes'
      BY <1>1, <2>1, <2>2, GoesAsleep, Zenon
    <2> QED
      BY <2>3, <2>4, <2>6, <2>7, <2>8, <2>9, <2>11, <2>12, <2>13, <2>14, Zenon DEF IInv
  <1>6. CASE /\ disk' = disk \cup {cbd[w].b} /\ cbd' = [cbd EXCEPT ![w].saved = TRUE]
             /\ UNCHANGED unsafeStop
    <2>1. /\ cbd' \in [Workers -> Handle] /\ \A v \in Workers : v # w => cbd'[v] = cbd[v]
          /\ cbd'[w].b = cbd[w].b /\ cbd'[w].data = cbd[w].data /\ cbd'[w].saved
      BY <1>3, <1>6, Zenon DEF Handle
    <2>2. unsafeStop' \in BOOLEAN
      BY <1>6, Zenon DEF IInv, TypeOK
    <2> QED
      BY <1>5, <1>6, <2>1, <2>2, Zenon
  <1>7. CASE unsafeStop' = TRUE /\ ~cbd[w].saved /\ UNCHANGED <<disk, cbd>>
    BY <1>3, <1>5, <1>7, Zenon
  <1> QED
    BY <1>4, <1>6, <1>7, Zenon DEF diskCachePut, needsPut

\* put, of the preprocessor or of a recent sender.
LEMMA PutStepIInv ==
    ASSUME IInv, NEW w \in RecentSenders \cup {Preprocessor}, put(w)
    PROVE  IInv'
  <1>1. w \in Workers /\ w \notin Waiters
    BY Kinds, Zenon
  <1>2. May(w, "append")
    BY Kinds, Zenon DEF May
  <1>3. pc[w] \in {"put", "got"} /\ "append" \in {"append", "send"}
    BY Zenon DEF put
  <1> QED
    BY <1>1, <1>2, <1>3, PutIInv, Zenon DEF put

\* goSendRecent begins, with or without SaveSecondsImmediately.
LEMMA RecentStartIInv == ASSUME IInv, NEW w \in RecentSenders, recentStart(w) PROVE IInv'
  <1>1. w \in Workers /\ w \notin Waiters /\ w # Preprocessor
    BY Kinds, Zenon
  <1>2. May(w, "send") /\ "send" \in Labels /\ "send" \notin Free /\ "got" \notin Free
    BY Kinds, Zenon DEF May, Labels, Free
  <1>3. pc[w] \in {"put", "got"} /\ pc[w] = "got" /\ "send" \in {"append", "send"} /\ Running
    BY Zenon DEF recentStart
  <1>4. CASE diskCachePut(w, "send")
    BY <1>1, <1>2, <1>3, <1>4, PutIInv, Zenon DEF recentStart
  <1>5. CASE pc' = [pc EXCEPT ![w] = "send"] /\ UNCHANGED <<disk, cbd, unsafeStop>>
    <2>1. UNCHANGED <<clock, produced, timeOf, queue, tail, life, taken, lost>>
      BY Zenon DEF recentStart, source
    <2>2. Goes(w, "send") /\ Core'
      BY <1>1, <1>2, <1>3, <1>5, <2>1, Steps, Zenon
    <2>3. NoLostWakeup' /\ EraserWakes'
      BY <1>1, <2>1, <2>2, GoesAsleep, Zenon DEF life
    <2> QED
      BY <2>2, <2>3, Whole, Zenon
  <1> QED
    BY <1>4, <1>5, Zenon DEF recentStart, Goto

\* A settled bucket is dropped and maybe erased from disk: nobody else has it.
LEMMA DropIInv ==
    ASSUME IInv, Running, NEW w \in Workers, NEW l \in {"idle", "pop", "sleep"}, May(w, l),
           pc[w] \notin Free,
           diskCacheErase(cbd[w].b), Drop(w), Goto(w, l),
           UNCHANGED <<clock, source, queue, tail, life, taken, unsafeStop>>,
           lost \subseteq lost', cbd[w].b \in taken \/ cbd[w].b \in lost'
    PROVE  Goes(w, l) /\ Core'
  <1>1. pc' = [pc EXCEPT ![w] = l] /\ UNCHANGED <<produced, timeOf>>
    BY Zenon DEF Goto, source
  <1>2. l \in Labels /\ l \in Free /\ l # "erase" /\ l # "append"
    BY Zenon DEF Labels, Free
  <1>3. cbd \in [Workers -> Handle] /\ cbd[w].b # 0
    BY Zenon DEF IInv, TypeOK, Roles, Free
  <1>4. /\ cbd' \in [Workers -> Handle] /\ cbd'[w] = None
        /\ \A v \in Workers : v # w => cbd'[v] = cbd[v]
    BY <1>3, Handles, Zenon DEF Drop
  <1>5. Goes(w, l)
    BY <1>1, <1>2, <1>4, Handles, Zenon DEF Goes
  <1>6. UNCHANGED <<now, CurrentTime, historicBucketsToSend, historicBucketsDataSize, phase, dropped>>
    BY Zenon DEF clock, queue, life
  <1>7. TypeOK'
    BY <1>1, <1>5, <1>6, <1>4, GoesPc, Zenon DEF IInv, TypeOK
  <1>8. Roles'
    BY <1>5, GoesRoles, Zenon
  <1>9. disk' \subseteq disk /\ \A b \in disk : b # cbd[w].b => b \in disk'
    BY Zenon DEF diskCacheErase
  <1>10. Own'
    <2>1. \A v \in Workers : cbd'[v].b = 0 \/ (v # w /\ cbd'[v].b = cbd[v].b)
      BY <1>4, Handles, Zenon
    <2>2. /\ \A c \in historicBucketsToSend : c.b # 0
          /\ 0 \notin tail /\ 0 \in 0 .. produced
      BY ConveyorAssumption DEF IInv, Own, Stored, TypeOK
    <2>3. \A v, u \in Workers : cbd'[v].b = cbd'[u].b /\ cbd'[v].b # 0 => v = u
      BY <2>1, Zenon DEF IInv, Own
    <2>4. \A v \in Workers : cbd'[v].b \in 0 .. produced /\ cbd'[v].b \notin tail
      BY <2>1, <2>2, Zenon DEF IInv, Own
    <2>5. \A v \in Workers, c \in historicBucketsToSend : cbd'[v].b # c.b
      BY <2>1, <2>2, Zenon DEF IInv, Own
    <2> QED
      BY <1>1, <1>6, <2>3, <2>4, <2>5, Zenon DEF IInv, Own
  <1>11. Stored'
    <2>1. \A v \in Workers : v # w => cbd[v].b # cbd[w].b
      BY <1>3, Zenon DEF IInv, Own
    <2>7. \A v \in Workers : cbd[v].saved => cbd[v].b \in disk
      BY Zenon DEF IInv, Stored
    <2>2. \A v \in Workers : cbd'[v].saved => cbd'[v].b \in disk'
      BY <1>4, <1>9, <2>1, <2>7, Handles, Zenon
    <2>3. \A v \in Workers : cbd'[v].b # 0 /\ ~cbd'[v].data => cbd'[v].saved
      BY <1>4, Handles, Zenon DEF IInv, Stored
    <2>4. \A c \in historicBucketsToSend : c.saved => c.b \in disk'
      BY <1>9, Zenon DEF IInv, Stored, Own
    <2>8. tail \subseteq disk /\ cbd[w].b \notin tail
      BY Zenon DEF IInv, Stored, Own
    <2>5. tail \subseteq disk'
      BY <1>9, <2>8, Zenon
    <2>6. disk' \subseteq 1 .. produced
      BY <1>9, Zenon DEF IInv, Stored
    <2> QED
      BY <1>1, <1>6, <2>2, <2>3, <2>4, <2>5, <2>6, Zenon DEF IInv, Stored
  <1>12. Erasing'
    BY <1>2, <1>5, GoesErasing, Zenon
  <1>13. Down'
    BY <1>6, Zenon DEF Down, Running
  <1>15. Accounted'
    <2>1. \A b : InHands(b) => InHands(b)' \/ b = cbd[w].b
      BY <1>4, Zenon DEF InHands
    <2>2. \A b : InQueue(b) => InQueue(b)'
      BY <1>6, Zenon DEF InQueue
    <2>3. \A b : b = cbd[w].b => Settled(b)'
      BY Zenon DEF Settled
    <2> QED
      BY <1>1, <1>6, <2>1, <2>2, <2>3, Moving, Zenon DEF Running
  <1>16. Safe'
    <2>1. w \in RecentSenders => l = "idle"
      BY Zenon DEF May
    <2> QED
      BY <1>2, <1>4, <1>5, <1>6, <2>1, Handles, GoesSafe, Zenon
  <1>17. Ahead'
    BY <1>1, <1>6, StillAhead, Zenon DEF FlusherRuns
  <1> QED
    BY <1>5, <1>7, <1>8, <1>10, <1>11, <1>12, <1>13, <1>15, <1>16, <1>17, Zenon DEF Core

\* A recent sender erases a bucket an aggregator has.
LEMMA RecentEraseIInv == ASSUME IInv, NEW w \in RecentSenders, recentErase(w) PROVE IInv'
  <1>1. w \in Workers /\ w \notin Waiters /\ pc[w] = "erase" /\ Running
    BY Kinds, Zenon DEF recentErase
  <1>2. May(w, "idle") /\ pc[w] \notin Free /\ "idle" \in {"idle", "pop", "sleep"}
    BY <1>1, Kinds, Zenon DEF May, Free
  <1>3. cbd[w].b \in taken
    BY <1>1, Zenon DEF IInv, Erasing
  <1>4. Goes(w, "idle") /\ Core'
    BY <1>1, <1>2, <1>3, DropIInv, Zenon DEF recentErase
  <1>5. NoLostWakeup' /\ EraserWakes'
    BY <1>1, <1>4, GoesAsleep, Zenon DEF recentErase, life, source
  <1> QED
    BY <1>4, <1>5, Whole, Zenon

\* A historic sender does.
LEMMA HistoricEraseIInv == ASSUME IInv, NEW w \in HistoricSenders, historicErase(w) PROVE IInv'
  <1>1. w \in Workers /\ pc[w] = "erase" /\ Running
    BY Kinds, Zenon DEF historicErase
  <1>2. /\ May(w, "pop") /\ pc[w] \notin Free
        /\ "pop" \in {"idle", "pop", "sleep"} /\ "pop" \notin {"wait", "sleep"}
    BY <1>1, Kinds, Zenon DEF May, Free
  <1>3. cbd[w].b \in taken
    BY <1>1, Zenon DEF IInv, Erasing
  <1>4. Goes(w, "pop") /\ Core'
    BY <1>1, <1>2, <1>3, DropIInv, Zenon DEF historicErase
  <1> QED
    BY <1>2, <1>4, GoesAwake, Whole, Zenon

\* A historic sender or the eraser gives a bucket up and goes on.
LEMMA GiveUpIInv ==
    ASSUME IInv, Running, NEW w \in Waiters, pc[w] = "check", giveUp(w),
           UNCHANGED <<clock, source, queue, tail, life, taken, unsafeStop>>
    PROVE  IInv'
  <1>1. w \in Workers /\ May(w, "pop") /\ pc[w] \notin Free /\ "pop" \in {"idle", "pop", "sleep"}
    BY Kinds, Zenon DEF May, Free
  <1>2. Goes(w, "pop") /\ Core'
    BY <1>1, DropIInv, Zenon DEF giveUp
  <1>3. pc'[w] = "pop"
    BY <1>2, GoesPc, Zenon
  <1>4. NoLostWakeup'
    BY <1>3, Zenon DEF NoLostWakeup
  <1>5. CASE w \in HistoricSenders
    BY <1>2, <1>5, GoesAwake, Whole, Zenon
  <1>6. CASE w = Eraser
    <2>1. EraserWakes'
      BY <1>3, <1>6, Zenon DEF EraserWakes
    <2> QED
      BY <1>2, <1>4, <2>1, Whole, Zenon
  <1> QED
    BY <1>5, <1>6, Kinds, Zenon

-----------------------------------------------------------------------------
\* The historic conveyor.

\* sendHistoric up to the remote call.
LEMMA HistoricCheckIInv == ASSUME IInv, NEW w \in HistoricSenders, historicCheck(w) PROVE IInv'
  <1>1. Running /\ pc[w] = "check" /\ w \in Waiters /\ w \in Workers /\ w \notin RecentSenders
    BY Kinds, Zenon DEF historicCheck
  <1>2. UNCHANGED <<clock, source, queue, tail, life, taken, unsafeStop>>
    BY Zenon DEF historicCheck
  <1>3. CASE giveUp(w)
    BY <1>1, <1>2, <1>3, GiveUpIInv, Zenon
  <1>4. CASE cbd' = [cbd EXCEPT ![w].data = TRUE] /\ Goto(w, "send") /\ UNCHANGED <<disk, lost>>
    <2>1. cbd \in [Workers -> Handle] /\ cbd[w] \in Handle /\ cbd[w].b # 0
      BY <1>1, Zenon DEF IInv, TypeOK, Roles
    <2>2. /\ cbd' \in [Workers -> Handle] /\ \A v \in Workers : v # w => cbd'[v] = cbd[v]
          /\ cbd'[w].b = cbd[w].b /\ cbd'[w].saved = cbd[w].saved /\ cbd'[w].data
      BY <1>1, <1>4, <2>1, Zenon DEF Handle
    <2>3. "send" \in Labels /\ "send" \notin Free /\ May(w, "send") /\ "send" \notin {"wait", "sleep"}
      BY Kinds, Zenon DEF Labels, Free, May
    <2>4. Goes(w, "send")
      BY <1>1, <1>4, <2>1, <2>2, <2>3, Zenon DEF Goes, Goto
    <2>5. UNCHANGED <<now, CurrentTime, historicBucketsToSend, historicBucketsDataSize, phase,
                      dropped, produced, timeOf>>
      BY <1>2, Zenon DEF clock, queue, life, source
    <2>6. TypeOK'
      BY <1>2, <2>2, <2>4, <2>5, GoesPc, Zenon DEF IInv, TypeOK
    <2>7. Roles'
      BY <2>3, <2>4, GoesRoles, Zenon
    <2>8. \A v \in Workers : cbd'[v].b = cbd[v].b
      BY <2>2, Zenon
    <2>9. Own'
      BY <1>2, <2>5, <2>8, Zenon DEF IInv, Own
    <2>10. Stored'
      <3>1. \A v \in Workers : cbd'[v].saved => cbd'[v].b \in disk
        BY <2>2, Zenon DEF IInv, Stored
      <3>2. \A v \in Workers : cbd'[v].b # 0 /\ ~cbd'[v].data => cbd'[v].saved
        BY <2>2, Zenon DEF IInv, Stored
      <3> QED
        BY <1>2, <1>4, <2>5, <3>1, <3>2, Zenon DEF IInv, Stored
    <2>11. Erasing'
      BY <1>2, <2>4, GoesErasing, Zenon
    <2>12. Down'
      BY <1>1, <2>5, Zenon DEF Down, Running
    <2>14. Accounted'
      <3>1. \A b : InHands(b) => InHands(b)'
        BY <2>8, Zenon DEF InHands
      <3>2. \A b : InQueue(b) => InQueue(b)'
        BY <2>5, Zenon DEF InQueue
      <3> QED
        BY <1>1, <1>2, <1>4, <2>5, <3>1, <3>2, Moving, Zenon DEF Running
    <2>15. Safe'
      <3>1. ~unsafeStop => cbd'[w].saved
        BY <1>1, <2>1, <2>2, Zenon DEF IInv, Safe
      <3> QED
        BY <1>1, <1>2, <2>4, <2>5, <3>1, GoesSafe, Zenon
    <2>16. Ahead'
      BY <1>2, <2>5, StillAhead, Zenon DEF FlusherRuns
    <2>17. NoLostWakeup' /\ EraserWakes'
      BY <2>3, <2>4, GoesAwake, Zenon
    <2> QED
      BY <2>6, <2>7, <2>9, <2>10, <2>11, <2>12, <2>14, <2>15, <2>16, <2>17, Zenon DEF IInv
  <1> QED
    BY <1>3, <1>4, Zenon DEF historicCheck

\* goEraseHistoric with a bucket in its hands.
LEMMA EraserCheckIInv == ASSUME IInv, eraserCheck PROVE IInv'
  <1>1. Running /\ pc[Eraser] = "check" /\ Eraser \in Waiters /\ Eraser \in Workers
        /\ Eraser \notin RecentSenders
    BY Kinds, Zenon DEF eraserCheck
  <1>2. UNCHANGED <<clock, source, queue, tail, life, taken, unsafeStop>>
    BY Zenon DEF eraserCheck
  <1>3. CASE giveUp(Eraser)
    BY <1>1, <1>2, <1>3, GiveUpIInv, Zenon
  <1>4. CASE Goto(Eraser, "append") /\ UNCHANGED <<disk, cbd, lost>>
    <2>1. "append" \in Labels /\ "append" \notin Free /\ "check" \notin Free /\ May(Eraser, "append")
      BY Kinds, Zenon DEF Labels, Free, May
    <2>2. cbd[Eraser].b # 0
      BY <1>1, Zenon DEF IInv, Roles
    <2>3. ~unsafeStop => cbd[Eraser].saved
      BY <1>1, <2>2, Zenon DEF IInv, Safe
    <2>4. pc' = [pc EXCEPT ![Eraser] = "append"] /\ UNCHANGED <<produced, timeOf, phase>>
      BY <1>2, <1>4, Zenon DEF Goto, source, life
    <2>5. Goes(Eraser, "append") /\ Core'
      BY <1>1, <1>2, <1>4, <2>1, <2>3, <2>4, Steps, Zenon
    <2>6. pc'[Eraser] = "append" /\ \A v \in Workers : v # Eraser => pc'[v] = pc[v]
      BY <2>5, GoesPc, Zenon
    <2>7. NoLostWakeup'
      BY <2>6, <1>1, Zenon DEF NoLostWakeup
    <2>8. EraserWakes'
      <3> SUFFICES ASSUME FlusherRuns', \A h \in HistoricSenders : pc'[h] = "wait"
                   PROVE  NoneSendable' \/ ~lostInMemory(cbd[Eraser])'
        BY Zenon DEF EraserWakes
      <3>1. FlusherRuns /\ \A h \in HistoricSenders : pc[h] = "wait"
        BY <2>4, <2>6, Kinds, Zenon DEF FlusherRuns
      <3>2. NoneSendable \/ ~lostInMemory(cbd[Eraser])
        BY <1>1, <3>1, Zenon DEF IInv, EraserWakes
      <3>3. NoneSendable => NoneSendable'
        BY <1>2, <2>4, StillSendable, Zenon DEF NoneSendable, queue
      <3>4. lostInMemory(cbd[Eraser])' => lostInMemory(cbd[Eraser])
        BY <1>2, <1>4, Zenon DEF lostInMemory, fits, queue
      <3> QED
        BY <3>2, <3>3, <3>4, Zenon
    <2> QED
      BY <2>5, <2>7, <2>8, Whole, Zenon
  <1> QED
    BY <1>3, <1>4, Zenon DEF eraserCheck

\* There is nothing to send: the goroutine waits.
LEMMA WaitIInv ==
    ASSUME IInv, Running, NEW w \in Waiters, pc[w] = "pop",
           \/ historicBucketsToSend = {}
           \/ \E c \in historicBucketsToSend : Oldest(c) /\ inFuture(c, now),
           Goto(w, "wait"),
           UNCHANGED <<clock, source, cbd, queue, disk, tail, life, taken, lost, unsafeStop>>
    PROVE  IInv'
  <1>1. w \in Workers /\ w \notin RecentSenders /\ w # Preprocessor
    BY Kinds, Zenon
  <1>2. "wait" \in Labels /\ "wait" \in Free /\ "pop" \in Free /\ May(w, "wait")
    BY <1>1, Kinds, Zenon DEF Labels, Free, May
  <1>3. pc' = [pc EXCEPT ![w] = "wait"] /\ UNCHANGED <<produced, timeOf, historicBucketsToSend, phase>>
    BY Zenon DEF Goto, source, queue, life
  <1>4. Goes(w, "wait") /\ Core'
    BY <1>1, <1>2, <1>3, Steps, Zenon
  <1>5. NoneSendable
    <2> SUFFICES ASSUME NEW c \in historicBucketsToSend, Oldest(c), ~inFuture(c, now)
                 PROVE  FALSE
      BY Zenon DEF NoneSendable, Sendable
    <2>1. PICK d \in historicBucketsToSend : Oldest(d) /\ inFuture(d, now)
      BY Zenon
    <2>2. timeOf[c.b] <= timeOf[d.b] /\ timeOf[d.b] <= timeOf[c.b]
      BY <2>1, Zenon DEF Oldest
    <2>3. \A b \in 1 .. produced : timeOf[b] \in Nat
      BY ConveyorAssumption DEF IInv, TypeOK, Buckets
    <2>4. timeOf[c.b] \in Nat /\ timeOf[d.b] \in Nat
      BY <2>3, Zenon DEF IInv, Own
    <2>5. timeOf[c.b] = timeOf[d.b]
      BY <2>2, <2>4
    <2> QED
      BY <2>1, <2>5, Zenon DEF inFuture
  <1>6. NoneSendable'
    BY <1>3, <1>5, StillSendable, Zenon DEF NoneSendable
  <1>7. NoLostWakeup'
    BY <1>6, Zenon DEF NoLostWakeup, NoneSendable, Sendable
  <1>8. EraserWakes'
    BY <1>6, Zenon DEF EraserWakes
  <1> QED
    BY <1>4, <1>7, <1>8, Whole, Zenon

\* The oldest bucket goes from the queue to the goroutine and the next one from the tail to the
\* queue, in the memory that the first one leaves.
LEMMA TakeIInv ==
    ASSUME IInv, Running, NEW w \in Waiters, pc[w] = "pop",
           NEW c \in historicBucketsToSend, NEW read \in nextTail,
           historicBucketsToSend' = (historicBucketsToSend \ {c}) \cup {FromDisk(b) : b \in read},
           historicBucketsDataSize' = historicBucketsDataSize - dataSize(c),
           tail' = tailAfter(read),
           cbd' = [cbd EXCEPT ![w] = c],
           Goto(w, "check"),
           UNCHANGED <<clock, source, disk, life, taken, lost, unsafeStop>>
    PROVE  IInv'
  <1>1. w \in Workers /\ w \notin RecentSenders /\ w # Preprocessor
    BY Kinds, Zenon
  <1>2. /\ UNCHANGED <<now, CurrentTime, produced, timeOf, phase, dropped>>
        /\ pc' = [pc EXCEPT ![w] = "check"]
    BY Zenon DEF Goto, source, clock, life
  <1>3. cbd \in [Workers -> Handle] /\ cbd[w].b = 0 /\ c \in Handle /\ c.b \in 1 .. produced /\ c.b # 0
    BY <1>1, Zenon DEF IInv, TypeOK, Roles, Own
  <1>4. /\ cbd' \in [Workers -> Handle] /\ cbd'[w] = c
        /\ \A v \in Workers : v # w => cbd'[v] = cbd[v]
    BY <1>1, <1>3, Zenon
  <1>5. "check" \in Labels /\ "check" \notin Free /\ May(w, "check") /\ "check" \notin {"wait", "sleep"}
    BY <1>1, Kinds, Zenon DEF Labels, Free, May
  <1>6. Goes(w, "check")
    BY <1>1, <1>2, <1>3, <1>4, <1>5, Zenon DEF Goes
  <1>30. pc'[w] = "check" /\ \A v \in Workers : v # w => pc'[v] = pc[v]
    BY <1>1, <1>2, Zenon DEF IInv, TypeOK
  <1>7. \A b : FromDisk(b).b = b /\ FromDisk(b).saved /\ ~FromDisk(b).data
    BY Zenon DEF FromDisk
  <1>8. /\ \A d \in historicBucketsToSend' :
            \/ d \in historicBucketsToSend /\ d # c
            \/ d.b \in read /\ d = FromDisk(d.b) /\ d.saved /\ ~d.data
        /\ \A d \in historicBucketsToSend : d # c => d \in historicBucketsToSend'
        /\ \A b \in read : FromDisk(b) \in historicBucketsToSend'
    BY <1>7, Zenon
  <1>9. read \subseteq tail /\ tail' = tail \ read /\ (tail # {} => read # {})
    BY Zenon DEF nextTail, tailAfter
  <1>10. tail \subseteq disk /\ tail \subseteq 1 .. produced
    BY Zenon DEF IInv, Stored
  <1>12. /\ historicBucketsDataSize <= MemoryLimit
         /\ historicBucketsDataSize \in Int /\ MemoryLimit \in Nat
    BY ConveyorAssumption, Zenon DEF IInv, TypeOK
  <1>16. historicBucketsDataSize' \in Int
    BY <1>12 DEF dataSize
  <1>17. /\ historicBucketsDataSize' <= MemoryLimit
         /\ c.data => historicBucketsDataSize' < MemoryLimit
    BY <1>12 DEF dataSize
  <1>18. TypeOK'
    <2>1. historicBucketsToSend' \subseteq Handle
      <3>1. \A b \in read : b \in 0 .. MaxBuckets
        <4>1. produced \in 0 .. MaxBuckets
          BY Zenon DEF IInv, TypeOK
        <4>2. \A b \in 1 .. produced : b \in 0 .. MaxBuckets
          BY <4>1, ConveyorAssumption
        <4> QED
          BY <1>9, <1>10, <4>2, Zenon
      <3>2. \A b \in 0 .. MaxBuckets : FromDisk(b) \in Handle
        BY Zenon DEF FromDisk, Handle
      <3>3. historicBucketsToSend \subseteq Handle
        BY Zenon DEF IInv, TypeOK
      <3> QED
        BY <1>8, <3>1, <3>2, <3>3, Zenon
    <2> QED
      BY <1>2, <1>4, <1>6, <1>16, <1>17, <2>1, GoesPc, Zenon DEF IInv, TypeOK
  <1>19. Roles'
    BY <1>5, <1>6, GoesRoles, Zenon
  <1>20. Own'
    <2>1. \A v \in Workers : (v = w /\ cbd'[v].b = c.b) \/ (v # w /\ cbd'[v].b = cbd[v].b)
      BY <1>4, Zenon
    <2>2. \A d \in historicBucketsToSend' :
            \/ d \in historicBucketsToSend /\ d.b # c.b
            \/ d.b \in tail /\ d.b \in read /\ d = FromDisk(d.b)
      BY <1>8, <1>9, Zenon DEF IInv, Own
    <2>11. /\ \A v, u \in Workers : cbd[v].b = cbd[u].b /\ cbd[v].b # 0 => v = u
           /\ \A v \in Workers, d \in historicBucketsToSend : cbd[v].b # d.b
           /\ \A v \in Workers : cbd[v].b \notin tail
           /\ c.b \notin tail
      BY Zenon DEF IInv, Own
    <2>12. \A v \in Workers : cbd[v].b # c.b
      BY <2>11, Zenon
    <2>3. ASSUME NEW v \in Workers, NEW u \in Workers, cbd'[v].b = cbd'[u].b, cbd'[v].b # 0
          PROVE  v = u
      <3>1. CASE v = w
        BY <2>1, <2>3, <2>12, <3>1, Zenon
      <3>2. CASE v # w /\ cbd'[v].b = cbd[v].b
        BY <2>1, <2>3, <2>11, <2>12, <3>2, Zenon
      <3> QED
        BY <2>1, <3>1, <3>2, Zenon
    <2>13. /\ \A d, e \in historicBucketsToSend : d.b = e.b => d = e
           /\ \A d \in historicBucketsToSend : d.b \notin tail
      BY Zenon DEF IInv, Own
    <2>4. ASSUME NEW d \in historicBucketsToSend', NEW e \in historicBucketsToSend', d.b = e.b
          PROVE  d = e
      <3>1. CASE d \in historicBucketsToSend
        BY <2>2, <2>4, <2>13, <3>1, Zenon
      <3>2. CASE d.b \in tail /\ d = FromDisk(d.b)
        BY <2>2, <2>4, <2>13, <3>2, Zenon
      <3> QED
        BY <2>2, <3>1, <3>2, Zenon
    <2>5. ASSUME NEW v \in Workers, NEW d \in historicBucketsToSend' PROVE cbd'[v].b # d.b
      <3>1. CASE v = w /\ cbd'[v].b = c.b
        BY <2>2, <2>11, <3>1, Zenon
      <3>2. CASE v # w /\ cbd'[v].b = cbd[v].b
        BY <2>2, <2>11, <3>2, Zenon
      <3> QED
        BY <2>1, <3>1, <3>2, Zenon
    <2>6. \A v \in Workers : cbd'[v].b \notin tail'
      BY <1>9, <2>1, Zenon DEF IInv, Own
    <2>7. \A d \in historicBucketsToSend' : d.b \notin tail'
      BY <1>9, <2>2, Zenon DEF IInv, Own
    <2>8. c.b \in 0 .. produced
      BY <1>3
    <2>9. \A v \in Workers : cbd'[v].b \in 0 .. produced
      BY <2>1, <2>8, Zenon DEF IInv, Own
    <2>10. \A d \in historicBucketsToSend' : d.b \in 1 .. produced
      BY <1>10, <2>2, Zenon DEF IInv, Own
    <2> QED
      BY <1>2, <2>3, <2>4, <2>5, <2>6, <2>7, <2>9, <2>10, Zenon DEF Own
  <1>21. Stored'
    <2>1. \A v \in Workers : cbd'[v].saved => cbd'[v].b \in disk
      BY <1>4, Zenon DEF IInv, Stored
    <2>2. \A v \in Workers : cbd'[v].b # 0 /\ ~cbd'[v].data => cbd'[v].saved
      BY <1>4, Zenon DEF IInv, Stored
    <2>3. \A d \in historicBucketsToSend' : d.saved => d.b \in disk
      BY <1>8, <1>9, <1>10, Zenon DEF IInv, Stored
    <2>4. \A d \in historicBucketsToSend' : ~d.data => d.saved
      BY <1>8, Zenon DEF IInv, Stored
    <2> QED
      BY <1>2, <1>9, <2>1, <2>2, <2>3, <2>4, Zenon DEF IInv, Stored
  <1>22. Erasing'
    BY <1>6, GoesErasing, Zenon
  <1>23. Down'
    BY <1>2, Zenon DEF Down, Running
  <1>26. Accounted'
    <2>1. \A b \in 1 .. produced : InHands(b) => InHands(b)'
      <3>1. \A b \in 1 .. produced : b # 0
        OBVIOUS
      <3> QED
        BY <1>3, <1>4, <3>1, Zenon DEF InHands
    <2>2. \A b : InQueue(b) => InQueue(b)' \/ InHands(b)'
      BY <1>1, <1>4, <1>8, Zenon DEF InQueue, InHands
    <2>3. \A b \in tail : b \in tail' \/ InQueue(b)'
      BY <1>7, <1>8, <1>9, Zenon DEF InQueue
    <2> QED
      BY <1>2, <2>1, <2>2, <2>3, Moving, Zenon DEF Running
  <1>27. Safe'
    <2> SUFFICES ASSUME ~unsafeStop' PROVE Safe'
      BY Zenon DEF Safe
    <2>1. ~unsafeStop
      BY Zenon
    <2>2. c.saved /\ \A d \in historicBucketsToSend' : d.saved
      BY <1>8, <2>1, Zenon DEF IInv, Safe
    <2>4. \A v \in Workers : pc'[v] = "append" => cbd'[v].saved
      BY <1>4, <2>1, <2>2, <1>30, Zenon DEF IInv, Safe
    <2>5. \A v \in Waiters : cbd'[v].b # 0 => cbd'[v].saved
      BY <1>4, <2>1, <2>2, Kinds, Zenon DEF IInv, Safe
    <2>6. phase' = "flush" => \A r \in RecentSenders : pc'[r] = "idle"
      BY <1>1, <1>2, <1>30, <2>1, Kinds, Zenon DEF IInv, Safe
    <2> QED
      BY <1>2, <2>1, <2>2, <2>4, <2>5, <2>6, Zenon DEF IInv, Safe
  <1>28. Ahead'
    BY <1>2, StillAhead, Zenon DEF FlusherRuns
  <1>29. NoLostWakeup' /\ EraserWakes'
    <2>1. CASE w \in HistoricSenders
      BY <1>5, <1>6, <2>1, GoesAwake, Zenon
    <2>2. CASE w = Eraser
      <3>1. NoLostWakeup'
        BY <1>5, <1>6, GoesPc, Zenon DEF NoLostWakeup
      <3>2. ~lostInMemory(cbd[Eraser])'
        BY <1>4, <1>17, <2>2, Zenon DEF lostInMemory, fits
      <3> QED
        BY <3>1, <3>2, Zenon DEF EraserWakes
    <2> QED
      BY <2>1, <2>2, Kinds, Zenon
  <1> QED
    BY <1>18, <1>19, <1>20, <1>21, <1>22, <1>23, <1>26, <1>27, <1>28, <1>29, Zenon
       DEF IInv

\* popOldestHistoricSecondLocked, one way or the other.
LEMMA PopOldestIInv == ASSUME IInv, NEW w \in Waiters, popOldest(w) PROVE IInv'
  <1>1. CASE /\ \/ historicBucketsToSend = {}
                \/ \E c \in historicBucketsToSend : Oldest(c) /\ inFuture(c, now)
             /\ Goto(w, "wait")
             /\ UNCHANGED <<cbd, queue, tail>>
    BY <1>1, WaitIInv, Zenon DEF popOldest
  <1>2. ASSUME NEW c \in historicBucketsToSend, NEW read \in nextTail,
               historicBucketsToSend' = (historicBucketsToSend \ {c}) \cup {FromDisk(b) : b \in read},
               historicBucketsDataSize' = historicBucketsDataSize - dataSize(c),
               tail' = tailAfter(read),
               cbd' = [cbd EXCEPT ![w] = c],
               Goto(w, "check")
        PROVE  IInv'
    BY <1>2, TakeIInv, Zenon DEF popOldest
  <1> QED
    BY <1>1, <1>2, Zenon DEF popOldest

\* A bucket that is neither saved nor fits in memory is lost; the eraser can be the last one
\* awake when that happens, but then there is nothing to send.
LEMMA AppendLostIInv ==
    ASSUME IInv, Running, NEW w \in Workers, NEW l \in {"idle", "sleep"}, pc[w] = "append",
           w \notin Waiters \/ w = Eraser, May(w, l),
           lostInMemory(cbd[w]), lost' = lost \cup {cbd[w].b}, Goto(w, l), Drop(w),
           UNCHANGED <<clock, source, queue, disk, tail, life, taken, unsafeStop>>
    PROVE  IInv'
  <1>1. l \in {"idle", "pop", "sleep"} /\ "append" \notin Free
    BY Zenon DEF Free
  <1>2. Goes(w, l) /\ Core'
    BY <1>1, DropIInv, Zenon DEF diskCacheErase
  <1>3. UNCHANGED <<timeOf, phase, historicBucketsToSend>>
    BY Zenon DEF source, life, queue
  <1>4. CASE w \notin Waiters
    BY <1>2, <1>3, <1>4, GoesAsleep, Whole, Zenon
  <1>5. CASE w = Eraser
    <2>1. l = "sleep"
      BY <1>5, Zenon DEF May
    <2>2. pc'[Eraser] = "sleep" /\ \A v \in Workers : v # Eraser => pc'[v] = pc[v]
      BY <1>2, <1>5, <2>1, GoesPc, Zenon
    <2>3. EraserWakes'
      BY <2>2, Zenon DEF EraserWakes
    <2>4. CASE \E h \in HistoricSenders : pc[h] # "wait"
      <3>1. \E h \in HistoricSenders : pc'[h] \notin {"wait", "sleep"}
        BY <2>2, <2>4, Kinds, Zenon DEF IInv, Roles
      <3> QED
        BY <1>2, <3>1, SenderAwake, Whole, Zenon
    <2>5. CASE \A h \in HistoricSenders : pc[h] = "wait"
      <3>1. FlusherRuns => NoneSendable
        BY <1>5, <2>5, Zenon DEF IInv, EraserWakes
      <3>2. NoneSendable => NoneSendable'
        BY <1>3, StillSendable, Zenon DEF NoneSendable
      <3>3. NoLostWakeup'
        BY <1>3, <3>1, <3>2, Zenon DEF NoLostWakeup, FlusherRuns, NoneSendable, Sendable
      <3> QED
        BY <1>2, <2>3, <3>3, Whole, Zenon
    <2> QED
      BY <2>4, <2>5, Zenon
  <1> QED
    BY <1>4, <1>5, Zenon

\* The bucket in hand goes to the queue, without its data if that does not fit in memory.
LEMMA AppendKeptIInv ==
    ASSUME IInv, Running, NEW w \in Workers, NEW l \in {"idle", "sleep"}, pc[w] = "append",
           w \notin Waiters \/ w = Eraser, May(w, l),
           ~lostInMemory(cbd[w]), NEW kept, kept = [cbd[w] EXCEPT !.data = cbd[w].data /\ fits],
           historicBucketsToSend' = enqueue(kept),
           historicBucketsDataSize' = historicBucketsDataSize + (IF kept.data THEN 1 ELSE 0),
           pc' \in appendSignal([pc EXCEPT ![w] = l]), Drop(w),
           UNCHANGED <<clock, source, disk, tail, life, taken, lost, unsafeStop>>
    PROVE  IInv'
  <1> DEFINE q == [pc EXCEPT ![w] = l]
  <1>1. l \in Labels /\ l \in Free /\ l # "erase" /\ l # "append" /\ pc[w] \notin Free
    BY Zenon DEF Labels, Free
  <1>2. pc \in [Workers -> Labels] /\ cbd \in [Workers -> Handle] /\ cbd[w] \in Handle
    BY Zenon DEF IInv, TypeOK
  <1>3. q \in [Workers -> Labels] /\ q[w] = l /\ \A v \in Workers : v # w => q[v] = pc[v]
    BY <1>1, <1>2, Zenon
  <1>4. pc' \in Signalled(q)
    BY Zenon DEF appendSignal
  <1> HIDE DEF q
  <1>5. /\ pc' \in [Workers -> Labels]
        /\ \A v \in Workers : pc'[v] = q[v] \/ (v \in Waiters /\ q[v] = "wait" /\ pc'[v] = "pop")
    BY <1>3, <1>4, SignalledPc, Zenon
  <1>6. /\ pc'[w] = l
        /\ \A v \in Workers : v # w =>
            pc'[v] = pc[v] \/ (v \in Waiters /\ pc[v] = "wait" /\ pc'[v] = "pop")
    BY <1>3, <1>5, Zenon
  <1>7. cbd[w].b # 0 /\ cbd[w].b \in 1 .. produced /\ (~cbd[w].data => cbd[w].saved)
    <2>1. cbd[w].b # 0
      BY <1>1, Zenon DEF IInv, Roles, Free
    <2>2. cbd[w].b \in 0 .. produced /\ (~cbd[w].data => cbd[w].saved)
      BY <2>1, Zenon DEF IInv, Own, Stored
    <2> QED
      BY <2>1, <2>2 DEF IInv, TypeOK
  <1>8. fits \in BOOLEAN
    BY DEF fits
  <1>9. kept \in Handle /\ kept.b = cbd[w].b /\ kept.saved = cbd[w].saved
    BY <1>2, <1>8, Zenon DEF Handle
  <1>10. kept.data <=> cbd[w].data /\ fits
    BY <1>2, <1>8, Zenon DEF Handle
  <1>11. ~kept.data => kept.saved
    BY <1>7, <1>9, <1>10, Zenon DEF lostInMemory
  <1>12. /\ cbd' \in [Workers -> Handle] /\ cbd'[w] = None
         /\ \A v \in Workers : v # w => cbd'[v] = cbd[v]
    BY <1>2, Handles, Zenon DEF Drop
  <1>13. /\ UNCHANGED <<now, CurrentTime, produced, timeOf, phase, dropped>>
         /\ historicBucketsToSend' = historicBucketsToSend \cup {kept}
    BY Zenon DEF clock, source, life, enqueue
  <1>16. historicBucketsDataSize' \in Int /\ historicBucketsDataSize' <= MemoryLimit
    <2>1. historicBucketsDataSize <= MemoryLimit /\ historicBucketsDataSize \in Int /\ MemoryLimit \in Nat
      BY ConveyorAssumption, Zenon DEF IInv, TypeOK
    <2>2. kept.data => historicBucketsDataSize < MemoryLimit
      BY <1>10, Zenon DEF fits
    <2> QED
      BY <2>1, <2>2
  <1>17. TypeOK'
    BY <1>5, <1>9, <1>12, <1>13, <1>16, Zenon DEF IInv, TypeOK
  <1>18. Roles'
    <2>1. \A v \in Workers : v # w => (pc'[v] \in Free <=> pc[v] \in Free)
      BY <1>6, Zenon DEF Free
    <2>2. \A v \in Workers : cbd[v].b = 0 <=> pc[v] \in Free
      BY Zenon DEF IInv, Roles, Free
    <2>3. \A v \in Workers : cbd'[v].b = 0 <=> pc'[v] \in Free
      BY <1>1, <1>6, <1>12, <2>1, <2>2, Handles, Zenon
    <2>4. \A v \in Workers : cbd'[v].b = 0 => cbd'[v] = None
      BY <1>12, Zenon DEF IInv, Roles
    <2>5. \A r \in RecentSenders : pc'[r] \in {"idle", "got", "send", "put", "append", "erase"}
      BY <1>6, Kinds, Zenon DEF IInv, Roles, May
    <2>6. \A h \in HistoricSenders : pc'[h] \in {"pop", "wait", "check", "send", "erase"}
      BY <1>6, Kinds, Zenon DEF IInv, Roles, May
    <2>7. pc'[Eraser] \in {"pop", "wait", "check", "append", "sleep"}
      BY <1>6, Kinds, Zenon DEF IInv, Roles, May
    <2>8. pc'[Preprocessor] \in {"idle", "offer", "put", "append"}
      BY <1>6, Kinds, Zenon DEF IInv, Roles, May
    <2> QED
      BY <2>3, <2>4, <2>5, <2>6, <2>7, <2>8, Zenon DEF Roles, Free
  <1>19. Own'
    <2>1. \A v \in Workers : cbd'[v].b = 0 \/ (v # w /\ cbd'[v].b = cbd[v].b)
      BY <1>12, Handles, Zenon
    <2>2. \A d \in historicBucketsToSend' :
            (d = kept /\ d.b = cbd[w].b) \/ d \in historicBucketsToSend
      BY <1>9, <1>13, Zenon
    <2>3. /\ \A v, u \in Workers : cbd[v].b = cbd[u].b /\ cbd[v].b # 0 => v = u
          /\ \A v \in Workers, d \in historicBucketsToSend : cbd[v].b # d.b
          /\ \A v \in Workers : cbd[v].b \notin tail
          /\ \A d, e \in historicBucketsToSend : d.b = e.b => d = e
          /\ \A d \in historicBucketsToSend : d.b \notin tail
          /\ \A v \in Workers : cbd[v].b \in 0 .. produced
          /\ \A d \in historicBucketsToSend : d.b \in 1 .. produced
      BY Zenon DEF IInv, Own
    <2>4. /\ \A d \in historicBucketsToSend' : d.b # 0
          /\ 0 \notin tail /\ 0 \in 0 .. produced
      BY <1>7, <2>2, <2>3 DEF IInv, Stored, TypeOK
    <2>5. \A v, u \in Workers : cbd'[v].b = cbd'[u].b /\ cbd'[v].b # 0 => v = u
      BY <2>1, <2>3, Zenon
    <2>9. /\ \A d \in historicBucketsToSend : d.b # cbd[w].b
          /\ \A v \in Workers : v # w => cbd[v].b # cbd[w].b
      BY <1>7, <2>3, Zenon
    <2>6. ASSUME NEW d \in historicBucketsToSend', NEW e \in historicBucketsToSend', d.b = e.b
          PROVE  d = e
      BY <2>2, <2>3, <2>6, <2>9, Zenon
    <2>7. ASSUME NEW v \in Workers, NEW d \in historicBucketsToSend' PROVE cbd'[v].b # d.b
      <3>1. CASE cbd'[v].b = 0
        BY <2>4, <3>1, Zenon
      <3>2. CASE v # w /\ cbd'[v].b = cbd[v].b
        BY <2>2, <2>3, <2>9, <3>2, Zenon
      <3> QED
        BY <2>1, <3>1, <3>2, Zenon
    <2>8. /\ \A v \in Workers : cbd'[v].b \notin tail /\ cbd'[v].b \in 0 .. produced
          /\ \A d \in historicBucketsToSend' : d.b \notin tail /\ d.b \in 1 .. produced
      BY <1>7, <2>1, <2>2, <2>3, <2>4, Zenon
    <2> QED
      BY <1>13, <2>5, <2>6, <2>7, <2>8, Zenon DEF Own
  <1>20. Stored'
    <2>1. \A v \in Workers : cbd'[v].saved => cbd'[v].b \in disk
      BY <1>12, Handles, Zenon DEF IInv, Stored
    <2>2. \A v \in Workers : cbd'[v].b # 0 /\ ~cbd'[v].data => cbd'[v].saved
      BY <1>12, Handles, Zenon DEF IInv, Stored
    <2>3. \A d \in historicBucketsToSend' : (d.saved => d.b \in disk) /\ (~d.data => d.saved)
      BY <1>9, <1>11, <1>13, Zenon DEF IInv, Stored
    <2> QED
      BY <1>13, <2>1, <2>2, <2>3, Zenon DEF IInv, Stored
  <1>21. Erasing'
    <2>1. \A v \in Workers : pc'[v] = "erase" => pc[v] = "erase" /\ cbd'[v] = cbd[v]
      BY <1>1, <1>6, <1>12, Zenon
    <2> QED
      BY <2>1, Zenon DEF IInv, Erasing
  <1>22. Down'
    BY <1>13, Zenon DEF Down, Running
  <1>24. Accounted'
    <2>1. \A b : InHands(b) => InHands(b)' \/ InQueue(b)'
      BY <1>9, <1>12, <1>13, Zenon DEF InHands, InQueue
    <2>2. \A b : InQueue(b) => InQueue(b)'
      BY <1>13, Zenon DEF InQueue
    <2> QED
      BY <1>13, <2>1, <2>2, Moving, Zenon DEF Running
  <1>25. Safe'
    <2> SUFFICES ASSUME ~unsafeStop' PROVE Safe'
      BY Zenon DEF Safe
    <2>1. ~unsafeStop
      BY Zenon
    <2>2. kept.saved
      BY <1>9, <2>1, Zenon DEF IInv, Safe
    <2>3. \A v \in Workers : pc'[v] = "append" => pc[v] = "append" /\ cbd'[v] = cbd[v]
      BY <1>1, <1>6, <1>12, Zenon
    <2>4. \A v \in Waiters : cbd'[v].b # 0 => cbd'[v] = cbd[v]
      BY <1>12, Handles, Kinds, Zenon
    <2>5. ASSUME NEW r \in RecentSenders, phase' = "flush" PROVE pc'[r] = "idle"
      <3>1. r \in Workers /\ r \notin Waiters
        BY Kinds, Zenon
      <3>2. pc[r] = "idle"
        BY <1>13, <2>1, <2>5, Zenon DEF IInv, Safe
      <3>3. r # w
        BY <3>2, Zenon
      <3> QED
        BY <1>6, <3>1, <3>2, <3>3, Zenon
    <2> QED
      BY <1>13, <2>1, <2>2, <2>3, <2>4, <2>5, Zenon DEF IInv, Safe
  <1>26. Ahead'
    BY <1>13, StillAhead, Zenon DEF FlusherRuns
  <1>27. NoLostWakeup' /\ EraserWakes'
    <2>1. \A h \in HistoricSenders : q[h] # "sleep"
      <3>1. \A h \in HistoricSenders : h \in Workers /\ h # w
        BY Kinds, Zenon
      <3> QED
        BY <1>3, <3>1, Zenon DEF IInv, Roles
    <2> QED
      BY <1>3, <1>4, <2>1, SignalAwake, Zenon
  <1> QED
    BY <1>17, <1>18, <1>19, <1>20, <1>21, <1>22, <1>24, <1>25, <1>26, <1>27, Zenon
       DEF IInv

\* append, of the eraser or of the goroutines before the queue.
LEMMA AppendIInv ==
    ASSUME IInv, NEW w \in Workers, NEW l \in {"idle", "sleep"}, May(w, l),
           w \notin Waiters \/ w = Eraser, append(w, l)
    PROVE  IInv'
  <1>1. /\ Running /\ pc[w] = "append" /\ Drop(w)
        /\ UNCHANGED <<clock, source, disk, tail, life, taken, unsafeStop>>
    BY Zenon DEF append, appendHistoric
  <1>2. CASE lostInMemory(cbd[w]) /\ lost' = lost \cup {cbd[w].b} /\ Goto(w, l) /\ UNCHANGED queue
    BY <1>1, <1>2, AppendLostIInv, Zenon
  <1>3. ASSUME ~lostInMemory(cbd[w]), NEW kept, kept = [cbd[w] EXCEPT !.data = cbd[w].data /\ fits],
               historicBucketsToSend' = enqueue(kept),
               historicBucketsDataSize' = historicBucketsDataSize + (IF kept.data THEN 1 ELSE 0),
               pc' \in appendSignal([pc EXCEPT ![w] = l]), UNCHANGED lost
        PROVE  IInv'
    BY <1>1, <1>3, AppendKeptIInv, Zenon
  <1> QED
    BY <1>2, <1>3, Zenon DEF append, appendHistoric

-----------------------------------------------------------------------------
\* The invariant and the properties.

\* A step of a goroutine.
LEMMA WorkerStepIInv ==
    ASSUME IInv,
           \/ preprocessorStep
           \/ \E w \in RecentSenders : recentStep(w)
           \/ \E w \in HistoricSenders : historicStep(w)
           \/ eraserStep
    PROVE  IInv'
  <1>1. /\ "idle" \in {"idle", "sleep"} /\ "sleep" \in {"idle", "sleep"}
        /\ May(Preprocessor, "idle") /\ May(Eraser, "sleep") /\ \A r \in RecentSenders : May(r, "idle")
    BY Kinds, Zenon DEF May
  <1>2. CASE preprocessorStep
    <2>1. Preprocessor \in RecentSenders \cup {Preprocessor}
      BY Zenon
    <2>2. CASE append(Preprocessor, "idle")
      BY <1>1, <2>2, AppendIInv, Kinds, Zenon
    <2> QED
      BY <1>2, <2>1, <2>2, SendToSendersIInv, PutStepIInv, Zenon DEF preprocessorStep
  <1>3. ASSUME NEW w \in RecentSenders, recentStep(w) PROVE IInv'
    <2>1. w \in RecentSenders \cup {Preprocessor}
      BY Zenon
    <2>2. CASE append(w, "idle")
      BY <1>1, <2>2, AppendIInv, Kinds, Zenon
    <2> QED
      BY <1>3, <2>1, <2>2, RecentStartIInv, SendRecentIInv, PutStepIInv, RecentEraseIInv, Zenon
         DEF recentStep
  <1>4. ASSUME NEW w \in HistoricSenders, historicStep(w) PROVE IInv'
    <2>1. w \in Waiters
      BY Kinds, Zenon
    <2> QED
      BY <1>4, <2>1, PopOldestIInv, HistoricCheckIInv, HistoricAnswerIInv, HistoricEraseIInv, Zenon
         DEF historicStep
  <1>5. CASE eraserStep
    <2>1. CASE append(Eraser, "sleep")
      BY <1>1, <2>1, AppendIInv, Kinds, Zenon
    <2> QED
      BY <1>5, <2>1, PopOldestIInv, EraserCheckIInv, EraserWakeIInv, Kinds, Zenon DEF eraserStep
  <1> QED
    BY <1>2, <1>3, <1>4, <1>5, Zenon

\* Nothing happens.
LEMMA StutterIInv == ASSUME IInv, UNCHANGED vars PROVE IInv'
  <1>1. UNCHANGED <<now, CurrentTime, produced, timeOf, pc, cbd, historicBucketsToSend,
                    historicBucketsDataSize, disk, tail, phase, dropped, taken, lost, unsafeStop>>
    BY Zenon DEF vars
  <1>2. TypeOK' /\ Roles' /\ Erasing' /\ Down' /\ Safe' /\ Ahead'
    BY <1>1, Zenon DEF IInv, TypeOK, Roles, Erasing, Down, Safe, Ahead, FlusherRuns
  <1>3. Own' /\ Stored'
    BY <1>1, Still, Zenon DEF queue
  <1>4. Accounted'
    BY <1>1, Zenon DEF IInv, Accounted, Settled, InHands, InQueue
  <1>5. NoLostWakeup' /\ EraserWakes'
    BY <1>1, StillAsleep, Zenon DEF clock, queue, FlusherRuns
  <1> QED
    BY <1>2, <1>3, <1>4, <1>5, Zenon DEF IInv

\* IInv is inductive.
LEMMA NextIInv == IInv /\ [Next]_vars => IInv'
  <1> SUFFICES ASSUME IInv, [Next]_vars PROVE IInv'
    BY Zenon
  <1>1. CASE \/ Tick \/ flushTick \/ DisableNewSends \/ WaitRecentSenders
             \/ WaitPreprocessor \/ Crash \/ Start
    BY <1>1, TickIInv, FlushTickIInv, DisableNewSendsIInv, WaitRecentSendersIInv,
       WaitPreprocessorIInv, CrashIInv, StartIInv, Zenon
  <1>2. CASE \E t \in 0 .. MaxTime - 1 : preProcess(t)
    BY <1>2, PreProcessIInv, Zenon
  <1> QED
    BY <1>1, <1>2, WorkerStepIInv, StutterIInv, Zenon DEF Next

\* The invariant accounts for every bucket.
LEMMA AccountedNothingForgotten == IInv => NothingForgotten
  <1> SUFFICES ASSUME IInv, NEW b \in 1 .. produced
               PROVE  \/ b \in taken \cup lost \cup dropped
                      \/ IF Running THEN b \in InMemory \cup tail ELSE b \in disk
    BY Zenon DEF NothingForgotten
  <1>1. InHands(b) \/ InQueue(b) => b \in InMemory
    BY Zenon DEF InHands, InQueue, InMemory
  <1> QED
    BY <1>1, Zenon DEF IInv, Accounted, Settled, Running

\* The invariant of the whole conveyor.
LEMMA SpecIInv == Spec => []IInv
  BY InitIInv, NextIInv, PTL DEF Spec

\* Every bucket produced is on its way, with an aggregator, given up with a log line, or was in
\* memory only when the agent stopped; through crashes and restarts.
THEOREM ConveyorNothingForgotten == Spec => []NothingForgotten
  BY SpecIInv, AccountedNothingForgotten, PTL

\* No signal of the condition variable is lost: while the flusher runs, a bucket that can be sent
\* never lies in the queue with every sender waiting and the eraser waiting or asleep.
THEOREM ConveyorNoLostWakeup == Spec => []NoLostWakeup
  <1>1. IInv => NoLostWakeup
    BY Zenon DEF IInv
  <1> QED
    BY <1>1, SpecIInv, PTL

\* A graceful shutdown in which every write succeeds and recent senders finish in time drops
\* nothing.
THEOREM ConveyorShutdownKeepsBuckets == Spec => []ShutdownKeepsBuckets
  <1>1. IInv => ShutdownKeepsBuckets
    BY Zenon DEF IInv, Safe, ShutdownKeepsBuckets
  <1> QED
    BY <1>1, SpecIInv, PTL

\* A bucket leaves the disk cache only from the hands of a goroutine, when an aggregator has it
\* or it was given up with a log line; never while it is queued or still in the unread tail.
ErasedByOwner ==
    [][\A b \in disk \ disk' :
          /\ b \in taken' \cup lost'
          /\ b \notin tail /\ \A c \in historicBucketsToSend : c.b # b]_vars

\* What an erase does.
Erased(w) ==
    /\ disk' = disk \ {cbd[w].b}
    /\ (pc[w] = "erase" /\ taken' = taken) \/ lost' = lost \cup {cbd[w].b}

\* Nothing else takes a bucket off the disk.
LEMMA NextErased ==
    ASSUME Next
    PROVE  disk \subseteq disk' \/ \E w \in Workers : Erased(w)
  <1>1. RecentSenders \subseteq Workers /\ HistoricSenders \subseteq Workers /\ Eraser \in Workers
    BY Zenon DEF Workers, Waiters
  <1>2. ASSUME NEW w, put(w) \/ append(w, "idle") \/ append(w, "sleep") \/ popOldest(w)
        PROVE  disk \subseteq disk'
    BY <1>2, Zenon DEF put, diskCachePut, append, popOldest
  <1>3. CASE Tick \/ flushTick \/ \E t \in 0 .. MaxTime - 1 : preProcess(t)
    BY <1>3, Zenon DEF Tick, flushTick, preProcess
  <1>4. CASE preprocessorStep
    BY <1>2, <1>4, Zenon DEF preprocessorStep, sendToSenders
  <1>5. ASSUME NEW w \in RecentSenders, recentStep(w)
        PROVE  disk \subseteq disk' \/ Erased(w)
    <2>1. CASE recentStart(w) \/ sendRecent(w)
      BY <2>1, Zenon DEF recentStart, sendRecent, diskCachePut
    <2>2. CASE recentErase(w)
      BY <2>2, Zenon DEF recentErase, diskCacheErase, Erased
    <2> QED
      BY <1>2, <1>5, <2>1, <2>2, Zenon DEF recentStep
  <1>6. ASSUME NEW w \in HistoricSenders, historicStep(w)
        PROVE  disk \subseteq disk' \/ Erased(w)
    <2>1. CASE historicRetry(w) \/ historicDiscard(w)
      BY <2>1, Zenon DEF historicRetry, historicDiscard
    <2>2. CASE historicCheck(w)
      BY <2>2, Zenon DEF historicCheck, giveUp, diskCacheErase, Erased
    <2>3. CASE historicErase(w)
      BY <2>3, Zenon DEF historicErase, diskCacheErase, Erased
    <2> QED
      BY <1>2, <1>6, <2>1, <2>2, <2>3, Zenon DEF historicStep
  <1>7. ASSUME eraserStep
        PROVE  disk \subseteq disk' \/ Erased(Eraser)
    <2>1. CASE eraserCheck
      BY <2>1, Zenon DEF eraserCheck, giveUp, diskCacheErase, Erased
    <2>2. CASE eraserWake
      BY <2>2, Zenon DEF eraserWake
    <2> QED
      BY <1>2, <1>7, <2>1, <2>2, Zenon DEF eraserStep
  <1>8. CASE DisableNewSends \/ WaitRecentSenders \/ WaitPreprocessor \/ Crash \/ Start
    BY <1>8, Zenon DEF DisableNewSends, WaitRecentSenders, WaitPreprocessor, Crash, Start, stop
  <1> QED
    BY <1>1, <1>3, <1>4, <1>5, <1>6, <1>7, <1>8, Zenon DEF Next

\* Erasing a bucket takes no copy away that somebody else may still send.
THEOREM ConveyorErasedByOwner == Spec => ErasedByOwner
  <1> DEFINE Step == \A b \in disk \ disk' :
                        /\ b \in taken' \cup lost'
                        /\ b \notin tail /\ \A c \in historicBucketsToSend : c.b # b
  <1>1. IInv /\ [Next]_vars => [Step]_vars
    <2> SUFFICES ASSUME IInv, Next, NEW b \in disk, b \notin disk'
                 PROVE  /\ b \in taken' \cup lost'
                        /\ b \notin tail /\ \A c \in historicBucketsToSend : c.b # b
      BY Zenon
    <2>1. PICK w \in Workers : Erased(w)
      BY NextErased, Zenon
    <2>2. b = cbd[w].b
      BY <2>1, Zenon DEF Erased
    <2>3. /\ cbd[w].b \notin tail /\ \A c \in historicBucketsToSend : cbd[w].b # c.b
      BY Zenon DEF IInv, Own
    <2>4. pc[w] = "erase" => cbd[w].b \in taken
      BY Zenon DEF IInv, Erasing
    <2> QED
      BY <2>1, <2>2, <2>3, <2>4, Zenon DEF Erased
  <1> QED
    BY <1>1, SpecIInv, PTL DEF Spec, ErasedByOwner

================================================================================
