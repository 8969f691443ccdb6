---------------------------- MODULE AgentConveyor ----------------------------
(***************************************************************************)
(* The conveyor of an agent shard, from the preprocessor to the            *)
(* aggregators: recent senders, the historic queue in memory backed by the *)
(* disk cache, historic senders, the eraser, graceful shutdown, crash and  *)
(* restart.                                                                *)
(*                                                                         *)
(* A goroutine is a worker with a program counter and the bucket in its    *)
(* hands.  Each critical section of Shard.mu, each call of the disk cache  *)
(* and each remote call is one action; a goroutine in cond.Wait is at      *)
(* "wait".  The disk cache (module DiskCache) is the set `disk` of saved   *)
(* buckets and the part `tail` of it not yet read back after a start.      *)
(* Buckets are numbered in the order they are produced; timeOf is their    *)
(* second, and all have length one.  An aggregator answers discard, keep   *)
(* or an error, after which it may or may not have the bucket.             *)
(***************************************************************************)
EXTENDS Integers, FiniteSets

CONSTANTS
    RecentSenders, HistoricSenders,     \* goSendRecent, goSendHistoric
    Eraser, Preprocessor,               \* goEraseHistoric, goPreProcess
    ShortWindow,        \* MaxShortWindow + FutureWindow
    HistoricWindow,     \* config.HistoricWindow
    FutureSeconds,      \* MaxFutureSecondsOnDisk
    MemoryLimit,        \* MaxHistoricBucketsMemorySize for this shard
    TailAtStart,        \* MaxConveyorDelay * 2, buckets read at start
    MaxBuckets, MaxTime, MaxStops      \* bounds of the model

ASSUME ConveyorAssumption ==
    /\ {ShortWindow, HistoricWindow, FutureSeconds, MemoryLimit, MaxBuckets, MaxTime, MaxStops}
        \subseteq Nat
    /\ TailAtStart \in Nat \ {0}
    /\ HistoricSenders # {}
    \* goroutines of different kinds are different
    /\ RecentSenders \cap (HistoricSenders \cup {Eraser, Preprocessor}) = {}
    /\ HistoricSenders \cap {Eraser, Preprocessor} = {}
    /\ Eraser # Preprocessor

Waiters == HistoricSenders \cup {Eraser}
Workers == RecentSenders \cup Waiters \cup {Preprocessor}
Buckets == 1 .. MaxBuckets

VARIABLES
    now,                        \* the clock of the machine
    CurrentTime,                \* as last seen by the flusher
    sendTime,                   \* next second the flusher may produce
    produced, timeOf,
    pc, cbd,                    \* of each worker
    historicBucketsToSend, historicBucketsDataSize,
    disk, tail,
    phase,                      \* "run", "stopping", "flush" (FlushAllData) or "down"
    stops,                      \* crashes and shutdowns so far
    \* history
    taken,                      \* buckets an aggregator has
    lost,                       \* buckets given up, with a log line and a counter
    unsafeStop,                 \* a disk write failed, senders were not waited for, or a crash
    dropped                     \* buckets that were in memory only when the agent stopped

vars == <<now, CurrentTime, sendTime, produced, timeOf, pc, cbd, historicBucketsToSend,
          historicBucketsDataSize, disk, tail, phase, stops, taken, lost, unsafeStop, dropped>>

clock == <<now, CurrentTime>>
source == <<sendTime, produced, timeOf>>
queue == <<historicBucketsToSend, historicBucketsDataSize>>
life == <<phase, stops, dropped>>

None == [b |-> 0, saved |-> FALSE, data |-> FALSE]
Fresh(b) == [b |-> b, saved |-> FALSE, data |-> TRUE]
FromDisk(b) == [b |-> b, saved |-> TRUE, data |-> FALSE]

\* Where the goroutines start.
startPc == [w \in Workers |-> IF w \in Waiters THEN "pop" ELSE "idle"]

Init ==
    /\ now = 2 /\ CurrentTime = 2
    /\ sendTime = 0
    /\ produced = 0 /\ timeOf = [b \in Buckets |-> 0]
    /\ pc = startPc
    /\ cbd = [w \in Workers |-> None]
    /\ historicBucketsToSend = {} /\ historicBucketsDataSize = 0
    /\ disk = {} /\ tail = {}
    /\ phase = "run" /\ stops = 0
    /\ taken = {} /\ lost = {} /\ unsafeStop = FALSE /\ dropped = {}

Running == phase # "down"

\* pc after cond.Signal: one of the waiting goroutines, if any, goes on.
Signalled(p) ==
    LET waiting == {w \in Waiters : p[w] = "wait"} IN
    IF waiting = {} THEN {p} ELSE {[p EXCEPT ![w] = "pop"] : w \in waiting}

Goto(w, l) == pc' = [pc EXCEPT ![w] = l]
Drop(w) == cbd' = [cbd EXCEPT ![w] = None]

-----------------------------------------------------------------------------
\* The clock and the flusher.
Tick ==
    /\ now < MaxTime
    /\ now' = now + 1
    /\ UNCHANGED <<CurrentTime, source, pc, cbd, queue, disk, tail, life, taken, lost, unsafeStop>>

\* Fault: the flusher does not wake a sender when the time moves.
clockSilent(p) == {p}

clockSignal(p) == Signalled(p)

flushTick ==
    /\ phase \in {"run", "stopping"}
    /\ now > CurrentTime
    /\ CurrentTime' = now
    /\ pc' \in clockSignal(pc)
    /\ UNCHANGED <<now, source, cbd, queue, disk, tail, life, taken, lost, unsafeStop>>

\* The preprocessor gets the bucket of second t; the final flush goes ahead of the clock.
preProcess(t) ==
    /\ pc[Preprocessor] = "idle"
    /\ produced < MaxBuckets
    /\ t >= sendTime
    /\ \/ phase \in {"run", "stopping"} /\ t < now
       \/ phase = "flush" /\ t <= now + FutureSeconds
    /\ sendTime' = t + 1
    /\ produced' = produced + 1
    /\ timeOf' = [timeOf EXCEPT ![produced + 1] = t]
    /\ cbd' = [cbd EXCEPT ![Preprocessor] = Fresh(produced + 1)]
    /\ Goto(Preprocessor, "offer")
    /\ UNCHANGED <<clock, queue, disk, tail, life, taken, lost, unsafeStop>>

-----------------------------------------------------------------------------
\* sendToSenders: hand over to a recent sender that is ready, or else to the historic conveyor.
sendToSenders ==
    /\ Running /\ pc[Preprocessor] = "offer"
    /\ \/ \E r \in RecentSenders :
            /\ phase = "run" /\ pc[r] = "idle"
            /\ pc' = [pc EXCEPT ![Preprocessor] = "idle", ![r] = "got"]
            /\ cbd' = [cbd EXCEPT ![Preprocessor] = None, ![r] = cbd[Preprocessor]]
       \/ Goto(Preprocessor, "put") /\ UNCHANGED cbd
    /\ UNCHANGED <<clock, source, queue, disk, tail, life, taken, lost, unsafeStop>>

\* Fault: once sending is disabled nothing is written.
putWhenSending(w) == ~cbd[w].saved /\ phase = "run"

needsPut(w) == ~cbd[w].saved

\* diskCachePutWithLog: saved, unless that fails or the cache is switched off.
diskCachePut(w, next) ==
    /\ \/ /\ needsPut(w)
          /\ disk' = disk \cup {cbd[w].b}
          /\ cbd' = [cbd EXCEPT ![w].saved = TRUE]
          /\ UNCHANGED unsafeStop
       \/ /\ needsPut(w)
          /\ unsafeStop' = TRUE
          /\ UNCHANGED <<disk, cbd>>
       \/ /\ ~needsPut(w)
          /\ UNCHANGED <<disk, cbd, unsafeStop>>
    /\ Goto(w, next)

put(w) ==
    /\ Running /\ pc[w] = "put"
    /\ diskCachePut(w, "append")
    /\ UNCHANGED <<clock, source, queue, tail, life, taken, lost>>

\* Fault: data goes to memory whatever is there.
fitsAlways == TRUE

fits == historicBucketsDataSize < MemoryLimit

lostInMemory(c) == c.data /\ ~fits /\ ~c.saved

\* Fault: nobody is woken up.
appendSilent(p) == {p}

appendSignal(p) == Signalled(p)

\* Fault: over the memory limit a bucket is not put into the queue, as it is on disk.
enqueueData(c) == IF c.data THEN historicBucketsToSend \cup {c} ELSE historicBucketsToSend

enqueue(c) == historicBucketsToSend \cup {c}

\* appendHistoricBucketsToSend: over the memory limit keep the id only.
appendHistoric(w, next) ==
    LET c == cbd[w] IN
    /\ \/ /\ lostInMemory(c)
          /\ lost' = lost \cup {c.b}
          /\ Goto(w, next)
          /\ UNCHANGED queue
       \/ /\ ~lostInMemory(c)
          /\ LET kept == [c EXCEPT !.data = c.data /\ fits] IN
              /\ historicBucketsToSend' = enqueue(kept)
              /\ historicBucketsDataSize' = historicBucketsDataSize + (IF kept.data THEN 1 ELSE 0)
          /\ pc' \in appendSignal([pc EXCEPT ![w] = next])
          /\ UNCHANGED lost
    /\ Drop(w)

append(w, next) ==
    /\ Running /\ pc[w] = "append"
    /\ appendHistoric(w, next)
    /\ UNCHANGED <<clock, source, disk, tail, life, taken, unsafeStop>>

\* diskCacheEraseWithLog; a failed erase leaves the bucket on disk until the next start.
diskCacheErase(b) == disk' = disk \ {b} \/ disk' = disk

-----------------------------------------------------------------------------
\* goSendRecent, with or without config.SaveSecondsImmediately.
recentStart(w) ==
    /\ Running /\ pc[w] = "got"
    /\ \/ diskCachePut(w, "send")
       \/ Goto(w, "send") /\ UNCHANGED <<disk, cbd, unsafeStop>>
    /\ UNCHANGED <<clock, source, queue, tail, life, taken, lost>>

\* sendRecent: too late, no live replica, error or keep: to the historic conveyor.
sendRecent(w) ==
    /\ Running /\ pc[w] = "send" /\ w \in RecentSenders
    /\ \/ Goto(w, "put") /\ UNCHANGED taken
       \/ /\ timeOf[cbd[w].b] + ShortWindow >= now
          /\ taken' = taken \cup {cbd[w].b}
          /\ Goto(w, "put") \/ Goto(w, "erase")
    /\ UNCHANGED <<clock, source, cbd, queue, disk, tail, life, lost, unsafeStop>>

recentErase(w) ==
    /\ Running /\ pc[w] = "erase" /\ w \in RecentSenders
    /\ diskCacheErase(cbd[w].b)
    /\ Drop(w)
    /\ Goto(w, "idle")
    /\ UNCHANGED <<clock, source, queue, tail, life, taken, lost, unsafeStop>>

-----------------------------------------------------------------------------
\* The historic queue.
Oldest(c) == \A d \in historicBucketsToSend : timeOf[c.b] <= timeOf[d.b]

inFuture(c, t) == timeOf[c.b] >= t /\ timeOf[c.b] <= t + FutureSeconds

\* Fault: the place of the bucket taken out is not filled from disk.
readNothing == {{}}

\* The bucket readHistoricSecondLocked reads, as a set.
nextTail == IF tail = {} THEN {{}} ELSE {{b} : b \in tail}

\* Fault: a bucket read stays in the tail.
tailKept(read) == tail

tailAfter(read) == tail \ read

dataSize(c) == IF c.data THEN 1 ELSE 0

popOldest(w) ==
    /\ Running /\ pc[w] = "pop"
    /\ \/ /\ \/ historicBucketsToSend = {}
             \/ \E c \in historicBucketsToSend : Oldest(c) /\ inFuture(c, now)
          /\ Goto(w, "wait")
          /\ UNCHANGED <<cbd, queue, tail>>
       \/ \E c \in historicBucketsToSend, read \in nextTail :
          /\ Oldest(c) /\ ~inFuture(c, now)
          /\ historicBucketsToSend' =
                (historicBucketsToSend \ {c}) \cup {FromDisk(b) : b \in read}
          /\ historicBucketsDataSize' = historicBucketsDataSize - dataSize(c)
          /\ tail' = tailAfter(read)
          /\ cbd' = [cbd EXCEPT ![w] = c]
          /\ Goto(w, "check")
    /\ UNCHANGED <<clock, source, disk, life, taken, lost, unsafeStop>>

outOfWindow(b) == timeOf[b] < now - HistoricWindow

\* Give up the bucket in hand and go for the next.
giveUp(w) ==
    /\ lost' = lost \cup {cbd[w].b}
    /\ diskCacheErase(cbd[w].b)
    /\ Drop(w)
    /\ Goto(w, "pop")

\* sendHistoric up to the remote call: drop what is too old, read the data back if needed
\* (a bucket that cannot be read is erased by the disk cache).
historicCheck(w) ==
    /\ Running /\ pc[w] = "check" /\ w \in HistoricSenders
    /\ \/ /\ outOfWindow(cbd[w].b)
          /\ giveUp(w)
       \/ /\ ~outOfWindow(cbd[w].b)
          /\ ~cbd[w].data
          /\ giveUp(w)
       \/ /\ ~outOfWindow(cbd[w].b)
          /\ cbd' = [cbd EXCEPT ![w].data = TRUE]
          /\ Goto(w, "send")
          /\ UNCHANGED <<disk, lost>>
    /\ UNCHANGED <<clock, source, queue, tail, life, taken, unsafeStop>>

\* No live replica, an error or keep: try again later; the aggregator may have the bucket.
historicRetry(w) ==
    /\ Running /\ pc[w] = "send" /\ w \in HistoricSenders
    /\ taken' = taken \/ taken' = taken \cup {cbd[w].b}
    /\ Goto(w, "check")
    /\ UNCHANGED <<clock, source, cbd, queue, disk, tail, life, lost, unsafeStop>>

historicDiscard(w) ==
    /\ Running /\ pc[w] = "send" /\ w \in HistoricSenders
    /\ taken' = taken \cup {cbd[w].b}
    /\ Goto(w, "erase")
    /\ UNCHANGED <<clock, source, cbd, queue, disk, tail, life, lost, unsafeStop>>

historicErase(w) ==
    /\ Running /\ pc[w] = "erase" /\ w \in HistoricSenders
    /\ diskCacheErase(cbd[w].b)
    /\ Drop(w)
    /\ Goto(w, "pop")
    /\ UNCHANGED <<clock, source, queue, tail, life, taken, lost, unsafeStop>>

\* goEraseHistoric: too old, or the disk limit is exceeded (which depends on the sizes of the
\* files), or put it back and sleep for a minute.
eraserCheck ==
    /\ Running /\ pc[Eraser] = "check"
    /\ \/ outOfWindow(cbd[Eraser].b) /\ giveUp(Eraser)
       \/ disk # {} /\ giveUp(Eraser)
       \/ /\ ~outOfWindow(cbd[Eraser].b)
          /\ Goto(Eraser, "append")
          /\ UNCHANGED <<disk, cbd, lost>>
    /\ UNCHANGED <<clock, source, queue, tail, life, taken, unsafeStop>>

eraserWake ==
    /\ Running /\ pc[Eraser] = "sleep"
    /\ Goto(Eraser, "pop")
    /\ UNCHANGED <<clock, source, cbd, queue, disk, tail, life, taken, lost, unsafeStop>>

-----------------------------------------------------------------------------
\* Shutdown, crash and start.
DisableNewSends ==
    /\ phase = "run"
    /\ stops < MaxStops
    /\ phase' = "stopping"
    /\ pc' = [w \in Workers |-> IF pc[w] = "wait" THEN "pop" ELSE pc[w]]    \* cond.Broadcast
    /\ UNCHANGED <<clock, source, cbd, queue, disk, tail, stops, dropped, taken, lost, unsafeStop>>

\* WaitRecentSenders has a timeout; then FlushAllData.
WaitRecentSenders ==
    /\ phase = "stopping"
    /\ phase' = "flush"
    /\ unsafeStop' = (unsafeStop \/ \E r \in RecentSenders : pc[r] # "idle")
    /\ UNCHANGED <<clock, source, pc, cbd, queue, disk, tail, stops, dropped, taken, lost>>

InMemory == {cbd[w].b : w \in Workers} \cup {c.b : c \in historicBucketsToSend}

\* The process ends; what is in memory only is gone.
stop ==
    /\ phase' = "down"
    /\ stops' = stops + 1
    /\ dropped' = dropped \cup ((InMemory \ {0}) \ (disk \cup taken))
    /\ pc' = startPc
    /\ cbd' = [w \in Workers |-> None]
    /\ historicBucketsToSend' = {} /\ historicBucketsDataSize' = 0
    /\ tail' = {}
    /\ UNCHANGED <<clock, source, disk, taken, lost>>

WaitPreprocessor ==
    /\ phase = "flush" /\ pc[Preprocessor] = "idle"
    /\ stop
    /\ UNCHANGED unsafeStop

Crash ==
    /\ Running /\ stops < MaxStops
    /\ unsafeStop' = TRUE
    /\ stop

Start ==
    /\ phase = "down"
    /\ phase' = "run"
    /\ CurrentTime' = now
    /\ sendTime' = now - 2
    /\ \E read \in SUBSET disk :
        /\ Cardinality(read) = IF Cardinality(disk) < TailAtStart THEN Cardinality(disk) ELSE TailAtStart
        /\ historicBucketsToSend' = {FromDisk(b) : b \in read}
        /\ tail' = disk \ read
    /\ UNCHANGED <<now, produced, timeOf, pc, cbd, historicBucketsDataSize, disk, stops, dropped,
                   taken, lost, unsafeStop>>

-----------------------------------------------------------------------------
recentStep(w) ==
    \/ recentStart(w) \/ sendRecent(w) \/ put(w) \/ append(w, "idle") \/ recentErase(w)

historicStep(w) ==
    popOldest(w) \/ historicCheck(w) \/ historicRetry(w) \/ historicDiscard(w) \/ historicErase(w)

eraserStep == popOldest(Eraser) \/ eraserCheck \/ append(Eraser, "sleep") \/ eraserWake

preprocessorStep == sendToSenders \/ put(Preprocessor) \/ append(Preprocessor, "idle")

Next ==
    \/ Tick \/ flushTick
    \/ \E t \in 0 .. MaxTime - 1 : preProcess(t)     \* so that its time comes
    \/ preprocessorStep
    \/ \E w \in RecentSenders : recentStep(w)
    \/ \E w \in HistoricSenders : historicStep(w)
    \/ eraserStep
    \/ DisableNewSends \/ WaitRecentSenders \/ WaitPreprocessor \/ Crash \/ Start

Spec == Init /\ [][Next]_vars

\* Goroutines keep running, the clock advances and the process is started again.  A historic
\* sender that tries again and again is answered discard in the end; and because the eraser
\* sleeps for a minute after it put a bucket back, senders that are woken up get a bucket.
Fairness ==
    /\ WF_vars(Tick) /\ WF_vars(flushTick)
    /\ WF_vars(preprocessorStep) /\ WF_vars(eraserStep)
    /\ \A w \in RecentSenders : WF_vars(recentStep(w))
    /\ \A w \in HistoricSenders :
        /\ WF_vars(historicStep(w))
        /\ SF_vars(popOldest(w) /\ pc'[w] = "check")
        /\ SF_vars(historicDiscard(w))
    /\ WF_vars(WaitRecentSenders) /\ WF_vars(WaitPreprocessor) /\ WF_vars(Start)

LiveSpec == Spec /\ Fairness

-----------------------------------------------------------------------------
\* Properties.

Holders(b) == {w \in Workers : cbd[w].b = b}
Queued(b) == {c \in historicBucketsToSend : c.b = b}

\* A bucket is in one place at a time - with one goroutine, once in the historic queue, or in
\* the unread tail of the disk cache - so it is never sent by two senders at once nor erased
\* under a sender.
OneOwner ==
    \A b \in Buckets :
        Cardinality(Holders(b)) + Cardinality(Queued(b)) + Cardinality({b} \cap tail) <= 1

\* A bucket the preprocessor produced is at any time accounted for: it is on its way, an
\* aggregator has it, it was given up with a log line (out of window, disk or memory limit,
\* unreadable), or the agent stopped while it was in memory only.
NothingForgotten ==
    \A b \in 1 .. produced :
        \/ b \in taken \cup lost \cup dropped
        \/ IF Running THEN b \in InMemory \cup tail ELSE b \in disk

\* agent_shard_send.go:598 - popping an item adds the next from disk, so the historic queue
\* runs dry only after the tail of the disk cache: pop does not look at the disk otherwise.
TailBehindQueue == tail # {} => historicBucketsToSend # {}

\* agent_shard_send.go:535 - historicBucketsDataSize is the data the queue holds: it never gets
\* negative (the panic in popOldestHistoricSecondLocked) and stays within the memory limit; and
\* a bucket whose data was dropped for it can be read back, as only its owner erases it.
MemoryAccounted ==
    /\ historicBucketsDataSize = Cardinality({c \in historicBucketsToSend : c.data})
    /\ historicBucketsDataSize <= MemoryLimit
    /\ \A c \in historicBucketsToSend \cup ({cbd[w] : w \in Workers} \ {None}) :
        c.data \/ c.b \in disk

\* Whenever a bucket can be sent, some goroutine of the historic conveyor is on its way to
\* look at the queue: no signal of the condition variable is lost, not even to the eraser.  This
\* ends with the flusher: in FlushAllData a second saved ahead of the clock waits for a start.
NoLostWakeup ==
    /\ phase \in {"run", "stopping"}
    /\ \E c \in historicBucketsToSend : Oldest(c) /\ ~inFuture(c, now) /\ ~inFuture(c, CurrentTime)
    => \E w \in Waiters : pc[w] \notin {"wait", "sleep"}

\* A graceful shutdown loses nothing: if the disk works and recent senders finish in time,
\* every bucket that no aggregator has is on disk when the process ends.
ShutdownKeepsBuckets == dropped # {} => unsafeStop

\* Every bucket is delivered or given up in the end, through restarts and for seconds that
\* were saved ahead of the clock.
EventuallySettled ==
    \A b \in Buckets : produced >= b ~> b \in taken \cup lost \cup dropped
=============================================================================
