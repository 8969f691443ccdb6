----------------------------- MODULE SuperQueue -----------------------------
(***************************************************************************)
(* The ring of per-second buckets of an agent shard: events are put into   *)
(* the second they will be sent in, the flusher goroutine hands finished   *)
(* seconds to the preprocessor, and shutdown drains the ring.              *)
(*                                                                         *)
(* All of it runs under Shard.mu, except that the preprocessor takes a     *)
(* bucket from its channel at any moment; so flushBuckets is one action    *)
(* per iteration of its loop, and while it runs (`sendUpTo` is set) no     *)
(* event is accepted.  The wall clock is an input: any reading of it, with *)
(* jumps in both directions.  Times are natural numbers above QueueLen, so *)
(* that the unsigned subtractions of the code do not wrap.                 *)
(*                                                                         *)
(* An event is the second it reports and the second it is to be sent in;   *)
(* what is aggregated in a bucket does not matter here.                    *)
(***************************************************************************)
EXTENDS Integers, Sequences

CONSTANTS
    QueueLen,       \* superQueueLen, 128
    FutureSlots,    \* superQueueFutureSlots, 3
    Spread,         \* seconds over which the coarsest metric is spread, 120
    Resolutions,    \* resolutions of metrics in seconds, 1..60
    Times,          \* readings of the clock and timestamps of events
    Windows,        \* now.Add(-AgentWindow) is 1 or 2 calendar seconds earlier
    MaxEvents       \* bound of the model: events accepted

NoFlush == 0

ASSUME ConstantsAssumption ==
    /\ QueueLen \in Nat /\ QueueLen > 2 /\ FutureSlots \in Nat /\ Spread \in Nat
    /\ Spread + FutureSlots <= QueueLen
    /\ Resolutions \subseteq Nat \ {0}
    /\ \A r \in Resolutions : 2 * r <= Spread
    /\ Times \subseteq Nat
    /\ \A t \in Times : t > QueueLen
    /\ Windows \subseteq Nat
    /\ \A w \in Windows : w < QueueLen
    /\ MaxEvents \in Nat

VARIABLES
    CurrentTime, SendTime,
    SuperQueue,            \* slot -> the events in it
    BucketsToPreprocess,   \* the channel, of capacity one
    sendUpTo,              \* local of flushBuckets while it holds s.mu
    stopReceivingIncomingData,
    stepsLeft,             \* iterations FlushAllData still has to make
    phase,                 \* "run", then "flush" (FlushAllData), then "closed"
    \* history
    accepted,              \* number of events accepted
    jumps,                 \* number of times SendTime jumped ahead
    lastBucket             \* the last bucket handed to the preprocessor

vars == <<CurrentTime, SendTime, SuperQueue, BucketsToPreprocess, sendUpTo,
          stopReceivingIncomingData, stepsLeft, phase, accepted, jumps, lastBucket>>

Init ==
    /\ CurrentTime \in Times
    /\ SendTime = CurrentTime - 2
    /\ SuperQueue = [i \in 0 .. QueueLen - 1 |-> {}]
    /\ BucketsToPreprocess = <<>>
    /\ sendUpTo = NoFlush
    /\ stopReceivingIncomingData = FALSE
    /\ stepsLeft = QueueLen
    /\ phase = "run"
    /\ accepted = 0
    /\ jumps = 0
    /\ lastBucket = [time |-> 0, events |-> {}, jumps |-> 0]

-----------------------------------------------------------------------------
gapInReceivingQueue == CurrentTime - (SendTime + (QueueLen - FutureSlots) - Spread)

\* Fault: events are accepted after StopReceivingIncomingData.
discardOnGap == gapInReceivingQueue > 0

shouldDiscardIncomingData == stopReceivingIncomingData \/ gapInReceivingQueue > 0

\* Fault: timestamps from the future are taken as they are.
unclamped(ts) == IF ts = 0 THEN CurrentTime ELSE ts

\* Timestamp 0 means now; the future is clamped.
clamp(ts) ==
    LET t == IF ts = 0 THEN CurrentTime ELSE ts IN
    IF t > CurrentTime + FutureSlots THEN CurrentTime + FutureSlots ELSE t

keyTimestamp(ts, r) == (clamp(ts) \div r) * r

\* Fault: nothing is done about late events.
lateSlotKept(slot, r) == slot

\* A late event is sent at once, but keeps its place among the seconds of its resolution.
lateSlot(slot, r) ==
    IF slot < SendTime THEN slot + ((SendTime - slot + r - 1) \div r) * r ELSE slot

\* n is the place among r seconds that the hash of the row selects.
slotOf(ts, r, n) ==
    lateSlot(IF r = 1 THEN clamp(ts) ELSE keyTimestamp(ts, r) + r + n, r)

\* ApplyUnique, ApplyValues, ApplyCounter and the functions for built-in metrics.
Apply(ts, r, n) ==
    /\ sendUpTo = NoFlush
    /\ ~shouldDiscardIncomingData
    /\ accepted < MaxEvents
    /\ LET slot == slotOf(ts, r, n)
           e == [ts |-> keyTimestamp(ts, r), slot |-> slot, jumps |-> jumps] IN
        SuperQueue' = [SuperQueue EXCEPT ![slot % QueueLen] = @ \cup {e}]
    /\ accepted' = accepted + 1
    /\ UNCHANGED <<CurrentTime, SendTime, BucketsToPreprocess, sendUpTo,
                   stopReceivingIncomingData, stepsLeft, phase, jumps, lastBucket>>

-----------------------------------------------------------------------------
\* After a long sleep SendTime moves ahead by a multiple of the length of the ring.
jumpAhead(now) ==
    SendTime + ((now - (QueueLen - FutureSlots) - SendTime + QueueLen - 1) \div QueueLen) * QueueLen

\* flushBuckets up to its loop.
flushBuckets(now, w) ==
    /\ phase = "run"
    /\ sendUpTo = NoFlush
    /\ CurrentTime' = IF now > CurrentTime THEN now ELSE CurrentTime
    /\ \/ /\ SendTime < CurrentTime' - (QueueLen - FutureSlots)
          /\ SendTime' = jumpAhead(CurrentTime')
          /\ jumps' = jumps + 1
       \/ /\ SendTime >= CurrentTime' - (QueueLen - FutureSlots)
          /\ UNCHANGED <<SendTime, jumps>>
    /\ sendUpTo' = now - w
    /\ UNCHANGED <<SuperQueue, BucketsToPreprocess, stopReceivingIncomingData, stepsLeft, phase,
                   accepted, lastBucket>>

emptySlot == [SuperQueue EXCEPT ![SendTime % QueueLen] = {}]

nextSendTime == SendTime + 1

FlushAllDataSingleStep(sendEmpty) ==
    /\ SendTime' = nextSendTime
    /\ LET events == SuperQueue[SendTime % QueueLen]
           b == [time |-> SendTime, events |-> events, jumps |-> jumps] IN
       \/ /\ events = {} /\ ~sendEmpty
          /\ UNCHANGED <<SuperQueue, BucketsToPreprocess, lastBucket>>
       \/ /\ events # {} \/ sendEmpty
          /\ BucketsToPreprocess = <<>>     \* or the send blocks
          /\ SuperQueue' = emptySlot
          /\ BucketsToPreprocess' = <<b>>
          /\ lastBucket' = b

MayFlush ==
    /\ sendUpTo > SendTime
    /\ BucketsToPreprocess = <<>>
    /\ SendTime < CurrentTime

flushStep ==
    /\ sendUpTo # NoFlush
    /\ MayFlush
    /\ FlushAllDataSingleStep(gapInReceivingQueue <= 0)
    /\ UNCHANGED <<CurrentTime, sendUpTo, stopReceivingIncomingData, stepsLeft, phase, accepted, jumps>>

flushReturn ==
    /\ sendUpTo # NoFlush
    /\ ~MayFlush
    /\ sendUpTo' = NoFlush
    /\ UNCHANGED <<CurrentTime, SendTime, SuperQueue, BucketsToPreprocess,
                   stopReceivingIncomingData, stepsLeft, phase, accepted, jumps, lastBucket>>

goPreProcess ==
    /\ BucketsToPreprocess # <<>>
    /\ BucketsToPreprocess' = <<>>
    /\ UNCHANGED <<CurrentTime, SendTime, SuperQueue, sendUpTo, stopReceivingIncomingData,
                   stepsLeft, phase, accepted, jumps, lastBucket>>

-----------------------------------------------------------------------------
\* Shutdown.  The flusher may make a last iteration after ShutdownFlusher; FlushAllData
\* runs when it has quit, without the lock.
StopReceivingIncomingData ==
    /\ phase = "run"
    /\ sendUpTo = NoFlush
    /\ ~stopReceivingIncomingData
    /\ stopReceivingIncomingData' = TRUE
    /\ UNCHANGED <<CurrentTime, SendTime, SuperQueue, BucketsToPreprocess, sendUpTo, stepsLeft,
                   phase, accepted, jumps, lastBucket>>

WaitFlusher ==
    /\ phase = "run"
    /\ stopReceivingIncomingData
    /\ sendUpTo = NoFlush
    /\ phase' = "flush"
    /\ UNCHANGED <<CurrentTime, SendTime, SuperQueue, BucketsToPreprocess, sendUpTo,
                   stopReceivingIncomingData, stepsLeft, accepted, jumps, lastBucket>>

lastStep == stepsLeft = 0

FlushAllData ==
    /\ phase = "flush"
    /\ \/ /\ ~lastStep
          /\ FlushAllDataSingleStep(FALSE)
          /\ stepsLeft' = stepsLeft - 1
          /\ UNCHANGED phase
       \/ /\ lastStep
          /\ phase' = "closed"      \* StopPreprocessor
          /\ UNCHANGED <<SendTime, SuperQueue, BucketsToPreprocess, stepsLeft, lastBucket>>
    /\ UNCHANGED <<CurrentTime, sendUpTo, stopReceivingIncomingData, accepted, jumps>>

Next ==
    \/ \E ts \in Times \cup {0}, r \in Resolutions : \E n \in 0 .. r - 1 : Apply(ts, r, n)
    \/ \E now \in Times, w \in Windows : flushBuckets(now, w)
    \/ flushStep \/ flushReturn \/ goPreProcess
    \/ StopReceivingIncomingData \/ WaitFlusher \/ FlushAllData

Spec == Init /\ [][Next]_vars

-----------------------------------------------------------------------------
\* Properties.

Event == [ts : Nat, slot : Nat, jumps : Nat]
Bucket == [time : Nat, events : SUBSET Event, jumps : Nat]

TypeOK ==
    /\ CurrentTime \in Nat /\ SendTime \in Nat /\ sendUpTo \in Nat
    /\ DOMAIN SuperQueue = 0 .. QueueLen - 1
    /\ \A i \in 0 .. QueueLen - 1 : \A e \in SuperQueue[i] : e \in Event
    /\ BucketsToPreprocess \in {<<>>, <<lastBucket>>}
    /\ lastBucket.time \in Nat
    /\ \A e \in lastBucket.events : e \in Event
    /\ stopReceivingIncomingData \in BOOLEAN
    /\ stepsLeft \in 0 .. QueueLen
    /\ phase \in {"run", "flush", "closed"}
    /\ accepted \in 0 .. MaxEvents /\ jumps \in Nat

\* agent_shard.go:137 - no bucket carries an event from a second after its own, so
\* future slots and the length of the ring fit together.
NoEventAfterBucket ==
    \A e \in lastBucket.events : e.ts <= lastBucket.time

\* agent_shard.go:53 - rows of the same resolution end up in the same second on every
\* agent: an event is sent in the very second chosen for it, neither a round of the ring
\* earlier nor later, unless the machine slept in between; then it is only later.
SentInChosenSecond ==
    \A e \in lastBucket.events :
        /\ e.slot <= lastBucket.time
        /\ e.jumps = lastBucket.jumps => e.slot = lastBucket.time

\* agent_shard_send.go:44 - bucket times strictly increase, so the historic conveyor is
\* ordered, through clock jumps, sleeps and the final flush.
BucketTimesIncrease ==
    [][lastBucket' # lastBucket => lastBucket'.time > lastBucket.time]_vars

\* Once the preprocessor channel is closed at shutdown no accepted event is left behind
\* in the ring.
AllFlushedWhenClosed ==
    phase = "closed" => \A i \in 0 .. QueueLen - 1 : SuperQueue[i] = {}

\* The furthest a slot is ahead of the clock: 122 for the constants of the code.
MaxFutureSecondsOnDisk == FutureSlots + Spread - 1

\* constants.go:72 - a bucket flushed at shutdown is at most MaxFutureSecondsOnDisk ahead of
\* the clock, so that after a restart the historic conveyor waits for it instead of taking it
\* for a second from the far future; here for an agent that never slept.
FutureLimitWithoutSleep ==
    phase # "run" /\ jumps = 0 => lastBucket.time <= CurrentTime + MaxFutureSecondsOnDisk

\* constants.go:72 "With tiny margin" - the same for every agent.  A jump ahead moves what is
\* in the ring by a multiple of its length, up to QueueLen + 1 seconds ahead of the clock.
FutureLimit ==
    phase # "run" => lastBucket.time <= CurrentTime + MaxFutureSecondsOnDisk
=============================================================================
