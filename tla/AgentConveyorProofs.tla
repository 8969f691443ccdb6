-------------------------- MODULE AgentConveyorProofs --------------------------
(***************************************************************************)
(* The properties of AgentConveyor that count: one owner per bucket, the   *)
(* memory of the historic queue, and the queue that is refilled from disk. *)
(*                                                                         *)
(* On top of IInv, Filled is inductive: historicBucketsDataSize is the     *)
(* number of queued buckets with data, and a tail is left on disk only     *)
(* behind a queue that is not empty.                                       *)
(***************************************************************************)
EXTENDS AgentConveyorInvariant, FiniteSetTheorems

WithData == {c \in historicBucketsToSend : c.data}

DataCounted == IsFiniteSet(WithData) /\ historicBucketsDataSize = Cardinality(WithData)

Filled == DataCounted /\ TailBehindQueue

\* The initial queue is empty.
LEMMA InitFilled == Init => Filled
  <1> SUFFICES ASSUME Init PROVE Filled
    BY Zenon
  <1>1. historicBucketsToSend = {} /\ historicBucketsDataSize = 0 /\ tail = {}
    BY Zenon DEF Init
  <1>2. WithData = {}
    BY <1>1, Zenon DEF WithData
  <1> QED
    BY <1>1, <1>2, FS_EmptySet, Zenon DEF Filled, DataCounted, TailBehindQueue

\* Most steps leave the queue and the tail alone.
LEMMA StillFilled == ASSUME Filled, UNCHANGED <<queue, tail>> PROVE Filled'
  BY Zenon DEF Filled, DataCounted, WithData, TailBehindQueue, queue

\* A bucket appended is not yet in the queue, so its data is counted once.
LEMMA AppendFilled == ASSUME IInv, Filled, NEW w \in Workers, NEW l, append(w, l) PROVE Filled'
  <1>1. pc[w] = "append" /\ tail' = tail
    BY Zenon DEF append
  <1>2. CASE UNCHANGED queue
    BY <1>1, <1>2, StillFilled, Zenon
  <1>3. ASSUME NEW kept, kept = [cbd[w] EXCEPT !.data = cbd[w].data /\ fits],
               historicBucketsToSend' = enqueue(kept),
               historicBucketsDataSize' = historicBucketsDataSize + (IF kept.data THEN 1 ELSE 0)
        PROVE  Filled'
    <2>1. kept.b = cbd[w].b
      BY <1>3 DEF IInv, TypeOK, Handle
    <2>2. kept \notin historicBucketsToSend
      BY <2>1, Zenon DEF IInv, Own
    <2>3. historicBucketsToSend' = historicBucketsToSend \cup {kept}
      BY <1>3, Zenon DEF enqueue
    <2>4. /\ IsFiniteSet(WithData) /\ historicBucketsDataSize = Cardinality(WithData)
          /\ historicBucketsDataSize \in Int
      BY Zenon DEF Filled, DataCounted, IInv, TypeOK
    <2>5. CASE kept.data
      <3>1. WithData' = WithData \cup {kept} /\ kept \notin WithData
        BY <2>2, <2>3, <2>5, Zenon DEF WithData
      <3>2. historicBucketsDataSize' = historicBucketsDataSize + 1
        BY <1>3, <2>5, Zenon
      <3> QED
        BY <2>3, <2>4, <3>1, <3>2, FS_AddElement, Zenon DEF Filled, DataCounted, TailBehindQueue
    <2>6. CASE ~kept.data
      <3>1. WithData' = WithData
        BY <2>3, <2>6, Zenon DEF WithData
      <3>2. historicBucketsDataSize' = historicBucketsDataSize
        BY <1>3, <2>4, <2>6
      <3> QED
        BY <2>3, <2>4, <3>1, <3>2, Zenon DEF Filled, DataCounted, TailBehindQueue
    <2> QED
      BY <2>5, <2>6, Zenon
  <1> QED
    BY <1>2, <1>3, Zenon DEF append, appendHistoric

\* The bucket taken out of the queue takes its data with it, and the next one of the tail takes
\* its place.
LEMMA PopFilled == ASSUME IInv, Filled, NEW w, popOldest(w) PROVE Filled'
  <1>1. CASE UNCHANGED <<queue, tail>>
    BY <1>1, StillFilled, Zenon
  <1>2. ASSUME NEW c \in historicBucketsToSend, NEW read \in nextTail,
               historicBucketsToSend' = (historicBucketsToSend \ {c}) \cup {FromDisk(b) : b \in read},
               historicBucketsDataSize' = historicBucketsDataSize - dataSize(c),
               tail' = tailAfter(read)
        PROVE  Filled'
    <2>1. \A b : ~FromDisk(b).data
      BY DEF FromDisk
    <2>2. WithData' = WithData \ {c}
      BY <1>2, <2>1, Zenon DEF WithData
    <2>3. /\ IsFiniteSet(WithData) /\ historicBucketsDataSize = Cardinality(WithData)
          /\ historicBucketsDataSize \in Int
      BY Zenon DEF Filled, DataCounted, IInv, TypeOK
    <2>4. /\ IsFiniteSet(WithData')
          /\ Cardinality(WithData') = IF c \in WithData THEN Cardinality(WithData) - 1
                                      ELSE Cardinality(WithData)
      BY <2>2, <2>3, FS_RemoveElement, Zenon
    <2>5. c \in WithData <=> c.data
      BY Zenon DEF WithData
    <2>6. historicBucketsDataSize - 0 = historicBucketsDataSize
      BY <2>3
    <2>7. historicBucketsDataSize' = Cardinality(WithData')
      BY <1>2, <2>3, <2>4, <2>5, <2>6, Zenon DEF dataSize
    <2>8. TailBehindQueue'
      <3>1. tail # {} => \E b : b \in read
        BY Zenon DEF nextTail
      <3>2. tail' # {} => tail # {}
        BY <1>2, Zenon DEF tailAfter
      <3>3. \A b \in read : FromDisk(b) \in historicBucketsToSend'
        BY <1>2, Zenon
      <3> QED
        BY <3>1, <3>2, <3>3, Zenon DEF TailBehindQueue
    <2> QED
      BY <2>4, <2>7, <2>8, Zenon DEF Filled, DataCounted
  <1> QED
    BY <1>1, <1>2, Zenon DEF popOldest

\* A stopped process has no queue.
LEMMA StopFilled == ASSUME stop PROVE Filled'
  <1>1. historicBucketsToSend' = {} /\ historicBucketsDataSize' = 0 /\ tail' = {}
    BY Zenon DEF stop
  <1>2. WithData' = {}
    BY <1>1, Zenon DEF WithData
  <1> QED
    BY <1>1, <1>2, FS_EmptySet, Zenon DEF Filled, DataCounted, TailBehindQueue

\* A start leaves a tail on disk only when it has read TailAtStart buckets, which is not zero.
LEMMA StartFilled == ASSUME IInv, Filled, Start PROVE Filled'
  <1>1. phase = "down" /\ historicBucketsDataSize' = historicBucketsDataSize
    BY Zenon DEF Start
  <1>2. PICK read \in SUBSET disk :
            /\ Cardinality(read) = IF Cardinality(disk) < TailAtStart THEN Cardinality(disk) ELSE TailAtStart
            /\ historicBucketsToSend' = {FromDisk(b) : b \in read}
            /\ tail' = disk \ read
    BY Zenon DEF Start
  <1>3. historicBucketsToSend = {}
    BY <1>1, Zenon DEF IInv, Down
  <1>4. \A b : ~FromDisk(b).data
    BY DEF FromDisk
  <1>5. IsFiniteSet(disk)
    <2>1. disk \subseteq 1 .. produced
      BY Zenon DEF IInv, Stored
    <2>2. produced \in 0 .. MaxBuckets
      BY Zenon DEF IInv, TypeOK
    <2>3. 1 \in Int /\ produced \in Int
      BY <2>2
    <2>4. IsFiniteSet(1 .. produced)
      BY <2>3, FS_Interval, Zenon
    <2> QED
      BY <2>1, <2>4, FS_Subset, Zenon
  <1>6. WithData' = {} /\ WithData = {}
    BY <1>2, <1>3, <1>4, Zenon DEF WithData
  <1>7. DataCounted'
    BY <1>1, <1>6, Zenon DEF Filled, DataCounted
  <1>8. TailBehindQueue'
    <2> SUFFICES ASSUME tail' # {} PROVE historicBucketsToSend' # {}
      BY Zenon DEF TailBehindQueue
    <2>1. read # disk
      BY <1>2, Zenon
    <2>2. Cardinality(read) # Cardinality(disk)
      BY <1>5, <2>1, FS_Subset, Zenon
    <2>3. Cardinality(read) = TailAtStart
      BY <1>2, <2>2, Zenon
    <2>4. read # {}
      BY <2>3, FS_EmptySet, ConveyorAssumption, Zenon
    <2> QED
      BY <1>2, <2>4, Zenon
  <1> QED
    BY <1>7, <1>8, Zenon DEF Filled

\* Filled is inductive where IInv holds.
LEMMA NextFilled == IInv /\ Filled /\ [Next]_vars => Filled'
  <1> SUFFICES ASSUME IInv, Filled, [Next]_vars PROVE Filled'
    BY Zenon
  <1>1. CASE \/ Tick \/ flushTick \/ DisableNewSends \/ WaitRecentSenders
             \/ \E t \in 0 .. MaxTime - 1 : preProcess(t)
    <2>1. UNCHANGED <<queue, tail>>
      BY <1>1, Zenon DEF Tick, flushTick, DisableNewSends, WaitRecentSenders, preProcess
    <2> QED
      BY <2>1, StillFilled, Zenon
  <1>2. CASE preprocessorStep \/ \E w \in RecentSenders : recentStep(w)
    <2>1. CASE \E w \in Workers, l \in {"idle", "sleep"} : append(w, l)
      BY <2>1, AppendFilled, Zenon
    <2>2. CASE \/ sendToSenders
               \/ \E w \in Workers : recentStart(w) \/ sendRecent(w) \/ put(w) \/ recentErase(w)
      <3>1. UNCHANGED <<queue, tail>>
        BY <2>2, Zenon DEF sendToSenders, recentStart, sendRecent, put, recentErase
      <3> QED
        BY <3>1, StillFilled, Zenon
    <2> QED
      BY <1>2, <2>1, <2>2, Kinds, Zenon DEF preprocessorStep, recentStep
  <1>3. CASE eraserStep \/ \E w \in HistoricSenders : historicStep(w)
    <2>1. CASE append(Eraser, "sleep")
      BY <2>1, AppendFilled, Kinds, Zenon
    <2>2. CASE \/ eraserCheck \/ eraserWake
               \/ \E w \in HistoricSenders :
                    historicCheck(w) \/ historicRetry(w) \/ historicDiscard(w) \/ historicErase(w)
      <3>1. UNCHANGED <<queue, tail>>
        BY <2>2, Zenon DEF eraserCheck, eraserWake, historicCheck, historicRetry, historicDiscard,
           historicErase
      <3> QED
        BY <3>1, StillFilled, Zenon
    <2> QED
      BY <1>3, <2>1, <2>2, PopFilled, Zenon DEF eraserStep, historicStep
  <1>4. CASE WaitPreprocessor \/ Crash
    BY <1>4, StopFilled, Zenon DEF WaitPreprocessor, Crash
  <1>5. CASE Start
    BY <1>5, StartFilled, Zenon
  <1>6. CASE UNCHANGED vars
    BY <1>6, StillFilled, Zenon DEF vars, queue
  <1> QED
    BY <1>1, <1>2, <1>3, <1>4, <1>5, <1>6, Zenon DEF Next

\* Filled holds in every state.
LEMMA SpecFilled == Spec => []Filled
  BY InitFilled, NextFilled, SpecIInv, PTL DEF Spec

-----------------------------------------------------------------------------
\* A set without two different elements has cardinality zero or one.
LEMMA AtMostOne ==
    ASSUME NEW S, \A x, y \in S : x = y
    PROVE  (S = {} /\ Cardinality(S) = 0) \/ (S # {} /\ Cardinality(S) = 1)
  <1>1. CASE S = {}
    BY <1>1, FS_EmptySet, Zenon
  <1>2. CASE S # {}
    <2>1. PICK x \in S : TRUE
      BY <1>2, Zenon
    <2>2. S = {x}
      BY <2>1, Zenon
    <2> QED
      BY <1>2, <2>2, FS_Singleton, Zenon
  <1> QED
    BY <1>1, <1>2, Zenon

\* The invariant makes a bucket be in one place.
LEMMA OwnOneOwner == IInv => OneOwner
  <1> SUFFICES ASSUME IInv, NEW b \in Buckets
               PROVE  Cardinality(Holders(b)) + Cardinality(Queued(b)) + Cardinality({b} \cap tail) <= 1
    BY Zenon DEF OneOwner
  <1>1. b # 0
    BY DEF Buckets
  <1>2. \A v, w \in Holders(b) : v = w
    BY <1>1, Zenon DEF IInv, Own, Holders
  <1>3. \A c, d \in Queued(b) : c = d
    BY Zenon DEF IInv, Own, Queued
  <1>4. \A x, y \in {b} \cap tail : x = y
    BY Zenon
  <1>5. Holders(b) = {} \/ Queued(b) = {}
    BY Zenon DEF IInv, Own, Holders, Queued
  <1>6. {b} \cap tail = {} \/ (Holders(b) = {} /\ Queued(b) = {})
    <2>1. CASE b \in tail
      <3>3. /\ \A w \in Workers : cbd[w].b \notin tail
            /\ \A c \in historicBucketsToSend : c.b \notin tail
        BY Zenon DEF IInv, Own
      <3>1. \A w \in Workers : cbd[w].b # b
        BY <2>1, <3>3, Zenon
      <3>2. \A c \in historicBucketsToSend : c.b # b
        BY <2>1, <3>3, Zenon
      <3> QED
        BY <3>1, <3>2, Zenon DEF Holders, Queued
    <2>2. CASE b \notin tail
      BY <2>2, Zenon
    <2> QED
      BY <2>1, <2>2, Zenon
  <1>7. /\ (Holders(b) = {} /\ Cardinality(Holders(b)) = 0) \/ (Holders(b) # {} /\ Cardinality(Holders(b)) = 1)
        /\ (Queued(b) = {} /\ Cardinality(Queued(b)) = 0) \/ (Queued(b) # {} /\ Cardinality(Queued(b)) = 1)
        /\ ({b} \cap tail = {} /\ Cardinality({b} \cap tail) = 0)
           \/ ({b} \cap tail # {} /\ Cardinality({b} \cap tail) = 1)
    BY <1>2, <1>3, <1>4, AtMostOne, Zenon
  <1> HIDE DEF Holders, Queued
  <1> QED
    BY <1>5, <1>6, <1>7

\* The invariant bounds the memory of the queue, and what has no data can be read back.
LEMMA StoredMemoryAccounted == IInv /\ Filled => MemoryAccounted
  <1> SUFFICES ASSUME IInv, Filled PROVE MemoryAccounted
    BY Zenon
  <1>1. ASSUME NEW c \in historicBucketsToSend PROVE c.data \/ c.b \in disk
    BY <1>1, Zenon DEF IInv, Stored
  <1>2. ASSUME NEW w \in Workers, cbd[w] # None PROVE cbd[w].data \/ cbd[w].b \in disk
    BY <1>2, Zenon DEF IInv, Stored, Roles
  <1> QED
    BY <1>1, <1>2, Zenon DEF IInv, TypeOK, Filled, DataCounted, WithData, MemoryAccounted

\* At any time a bucket is with one goroutine, once in the queue, or in the unread tail of the
\* disk cache: no two senders have it, and it is not erased under a sender.
THEOREM ConveyorOneOwner == Spec => []OneOwner
  BY SpecIInv, OwnOneOwner, PTL

\* popOldestHistoricSecondLocked refills the queue from disk, so that it never runs dry before
\* the disk cache.
THEOREM ConveyorTailBehindQueue == Spec => []TailBehindQueue
  <1>1. Filled => TailBehindQueue
    BY Zenon DEF Filled
  <1> QED
    BY <1>1, SpecFilled, PTL

\* historicBucketsDataSize is exact, never negative and within the limit, and a bucket whose
\* data was dropped to stay within it is on disk.
THEOREM ConveyorMemoryAccounted == Spec => []MemoryAccounted
  BY SpecIInv, SpecFilled, StoredMemoryAccounted, PTL
================================================================================
