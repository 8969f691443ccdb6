----------------------------- MODULE Aggregator -----------------------------
(***************************************************************************)
(* One aggregator replica: the handlers that merge agents' buckets into    *)
(* per-second buckets and park the request (a long poll), the ticker that  *)
(* moves the window of recent seconds and hands over the finished ones,    *)
(* the inserters that write batches to ClickHouse and answer the parked    *)
(* requests, and shutdown.                                                 *)
(*                                                                         *)
(* A handler takes a bucket and its sendMu (shared) under a.mu, merges,    *)
(* registers its long poll under the bucket's mu, and releases sendMu;     *)
(* these are separate actions.  Everything done under one hold of a.mu is  *)
(* one action.  The rows of a bucket are abstracted to the set of requests *)
(* merged into it; an insert writes the rows of a batch of buckets.        *)
(***************************************************************************)
EXTENDS Integers, Sequences, FiniteSets, Functions

CONSTANTS
    Requests,           \* RPC calls agents make
    RequestTimes,       \* seconds they are about
    SimulateErrors,     \* config.SimulateRandomErrors > 0
    ReplicaKey,         \* 1, 2 or 3
    ShortWindows,       \* values remote config gives to ShortWindow
    FutureWindow,       \* data_model.FutureWindow
    HistoricWindow,     \* sh2.HistoricWindow()
    Inserters,          \* config.RecentInserters goroutines
    HistoricInserters,  \* config.HistoricInserters
    InsertHistoricWhen, \* config.InsertHistoricWhen
    InsertBatch,        \* maxHistoricInsertBatch
    ContributorsScale,  \* MaxHistoryInsertContributorsScale
    StartTime,          \* second the aggregator starts at
    Times,              \* seconds the ticker wakes up at
    NoRequest

ASSUME ConstantsAssumption ==
    /\ ReplicaKey \in 1 .. 3
    /\ ShortWindows \subseteq 3 .. 5 /\ ShortWindows # {}
    /\ FutureWindow \in Nat /\ FutureWindow > 0
    /\ HistoricWindow \in Nat
    /\ HistoricInserters \in Nat \ {0} /\ InsertHistoricWhen \in Nat \ {0}
    /\ InsertBatch \in Nat /\ ContributorsScale \in Nat
    /\ StartTime \in Nat /\ Times \subseteq Nat /\ RequestTimes \subseteq Nat
    /\ NoRequest \notin Requests

VARIABLES
    shortWindow,        \* configR.ShortWindow
    recentBuckets,      \* sequence of buckets
    historicBuckets,    \* set of buckets, at most one for a second
    bucketsToSend,      \* "open", or "closed" (the field is nil then)
    request,            \* request -> kind, time, bucket, progress of its handler
    readers,            \* requests that hold the sendMu of their bucket
    polls,              \* requests in the contributor maps of their bucket
    ticker,             \* goTicker: where it is, and its readyBuckets
    inserter,           \* inserter -> where it is, and its batch
    recentSenders,
    historicSenders,
    historicHosts,      \* sum of a.historicHosts over hosts
    inserted,           \* history: requests whose rows are in ClickHouse
    answer,             \* history: request -> response its agent got
    dropped             \* history: buckets dropped because the conveyor was full

buckets == <<shortWindow, recentBuckets, historicBuckets>>
senders == <<recentSenders, historicSenders>>
history == <<inserted, answer, dropped>>
vars == <<buckets, bucketsToSend, request, readers, polls, ticker, inserter,
          senders, historicHosts, history>>

\* A recent bucket is known by its second; a historic one also by the request
\* it was created for, as there can be several for one second over time.
newAggregatorBucket(t, r) == [time |-> t, creator |-> r]
NoBucket == newAggregatorBucket(0, NoRequest)

RequestOf(kind, t, b, stage) == [kind |-> kind, time |-> t, bucket |-> b, stage |-> stage]
Of(b) == {r \in Requests : request[r].stage \in {"admitted", "merged", "registered", "released"}
                          /\ request[r].bucket = b}
Readers(b) == readers \cap Of(b)
Contributors(b) == {r \in polls \cap Of(b) : request[r].kind # "simulated"}
SimulatedErrors(b) == {r \in polls \cap Of(b) : request[r].kind = "simulated"}
DataKinds == {"recent", "historic"}
contributorsCount(S) == Cardinality({r \in UNION {Of(b) : b \in S} : request[r].kind \in DataKinds})
Rows(b) == {r \in Of(b) : request[r].kind \in DataKinds
                          /\ request[r].stage \in {"merged", "registered", "released"}}
BucketHosts(b) == Cardinality({r \in Of(b) : request[r].kind = "historic"
                                             /\ request[r].stage \in {"registered", "released"}})

Answered(S, a) == answer' = [r \in Requests |-> IF r \in S THEN a ELSE answer[r]]

-----------------------------------------------------------------------------
oldestTime == recentBuckets[1].time
newestTime == recentBuckets[Len(recentBuckets)].time

isOurs(t) == t % 3 = ReplicaKey - 1

roundedToOurTime(t) == CHOOSE x \in t .. t + 2 : isOurs(x)

\* Fault: every new bucket comes one second late.
windowWithGap(recent, len) ==
    recent \o [i \in 1 .. len - Len(recent) |-> newAggregatorBucket(recent[1].time + Len(recent) + i, NoRequest)]

fillWindow(recent, len) ==
    recent \o [i \in 1 .. len - Len(recent) |-> newAggregatorBucket(recent[1].time + Len(recent) + i - 1, NoRequest)]

isReady(b, now, w) == now > b.time + w

\* How many buckets from the oldest on are ready.
readyCount(recent, now, w) ==
    CHOOSE n \in 0 .. Len(recent) :
        /\ \A i \in 1 .. n : isReady(recent[i], now, w)
        /\ n < Len(recent) => ~isReady(recent[n + 1], now, w)

\* The window after a tick at second `now` with ShortWindow w.
advanced(recent, now, w) ==
    LET kept == SubSeq(recent, readyCount(recent, now, w) + 1, Len(recent))
        head == IF kept = <<>> THEN <<newAggregatorBucket(now - w, NoRequest)>> ELSE kept
    IN  fillWindow(head, w + FutureWindow)

Idle == [pc |-> "range", bucket |-> NoBucket, batch |-> <<>>, popped |-> {}, stale |-> {},
         oldest |-> 0, historic |-> FALSE, rows |-> {}, err |-> FALSE]

Init ==
    /\ shortWindow \in ShortWindows
    /\ recentBuckets = advanced(<<>>, StartTime, shortWindow)
    /\ historicBuckets = {}
    /\ bucketsToSend = "open"
    /\ request = [r \in Requests |-> RequestOf("recent", 0, NoBucket, "new")]
    /\ readers = {}
    /\ polls = {}
    /\ ticker = [pc |-> "sleep", ready |-> <<>>]
    /\ inserter = [i \in Inserters |-> Idle]
    /\ recentSenders = 0
    /\ historicSenders = 0
    /\ historicHosts = 0
    /\ inserted = {}
    /\ answer = [r \in Requests |-> "none"]
    /\ dropped = {}

-----------------------------------------------------------------------------
(* Handlers. *)

bucketAt(t) == recentBuckets[roundedToOurTime(t) - oldestTime + 1]

isStale(t, oldest) == oldest >= HistoricWindow /\ t < oldest - HistoricWindow

\* Fault: the reader lock is taken only after a.mu is released.
lockLate(r) == readers

lockSendMu(r) == readers \cup {r}

admit(r, kind, t, b) ==
    /\ request' = [request EXCEPT ![r] = RequestOf(kind, t, b, "admitted")]
    /\ readers' = lockSendMu(r)
    /\ UNCHANGED <<shortWindow, recentBuckets, bucketsToSend, polls, ticker, inserter,
                   senders, history>>

refuse(r, kind, t, a) ==
    /\ request' = [request EXCEPT ![r] = RequestOf(kind, t, NoBucket, "refused")]
    /\ Answered({r}, a)
    /\ UNCHANGED <<buckets, bucketsToSend, readers, polls, ticker, inserter, senders,
                   historicHosts, inserted, dropped>>

\* Malformed requests, agents that are too old, requests of another shard or replica.
reject(r) == refuse(r, "recent", 0, "rejected")

\* In shutdown the response is hijacked and never sent.
hijack(r) ==
    /\ bucketsToSend = "closed"
    /\ request' = [request EXCEPT ![r] = RequestOf("recent", 0, NoBucket, "hijacked")]
    /\ UNCHANGED <<buckets, bucketsToSend, readers, polls, ticker, inserter, senders,
                   historicHosts, history>>

sendHistoric(r, t) ==
    /\ bucketsToSend = "open"
    /\ LET rounded == roundedToOurTime(t)
           known   == {b \in historicBuckets : b.time = t}
           b       == IF known = {} THEN newAggregatorBucket(t, r) ELSE CHOOSE x \in known : TRUE
       IN  \/ rounded > newestTime /\ refuse(r, "historic", t, "future")
           \/ rounded <= newestTime /\ isStale(rounded, oldestTime) /\ refuse(r, "historic", t, "old")
           \/ /\ rounded < oldestTime /\ ~isStale(rounded, oldestTime)
              /\ historicBuckets' = historicBuckets \cup {b}
              /\ historicHosts' = historicHosts + 1
              /\ admit(r, "historic", t, b)
           \/ /\ rounded \in oldestTime .. newestTime /\ ~isStale(rounded, oldestTime)
              /\ historicHosts' = historicHosts + 1
              /\ admit(r, "historic", t, bucketAt(t))
              /\ UNCHANGED historicBuckets

sendRecent(r, t) ==
    /\ bucketsToSend = "open"
    /\ LET rounded == roundedToOurTime(t)
       IN  \/ rounded > newestTime /\ refuse(r, "recent", t, "future")
           \/ rounded < oldestTime /\ refuse(r, "recent", t, "late")
           \/ /\ rounded \in oldestTime .. newestTime
              /\ \/ admit(r, "recent", t, bucketAt(t))
                 \/ SimulateErrors /\ admit(r, "simulated", t, bucketAt(t))
              /\ UNCHANGED <<historicBuckets, historicHosts>>

handleSendSourceBucket(r) ==
    /\ request[r].stage = "new"
    /\ \/ reject(r)
       \/ hijack(r)
       \/ \E t \in RequestTimes : sendHistoric(r, t) \/ sendRecent(r, t)

handleSendKeepAlive(r) ==
    /\ request[r].stage = "new"
    /\ admit(r, "keepalive", oldestTime, bucketAt(oldestTime))
    /\ UNCHANGED <<historicBuckets, historicHosts>>

SetStage(r, s) == request' = [request EXCEPT ![r].stage = s]

\* The loop over bucket.Metrics.
merge(r) ==
    /\ request[r].stage = "admitted" /\ request[r].kind \in DataKinds
    /\ SetStage(r, "merged")
    /\ UNCHANGED <<buckets, bucketsToSend, readers, polls, ticker, inserter, senders,
                   historicHosts, history>>

\* StartLongpoll under the bucket's mu.
register(r) ==
    /\ request[r].stage = IF request[r].kind \in DataKinds THEN "merged" ELSE "admitted"
    /\ SetStage(r, "registered")
    /\ polls' = polls \cup {r}
    /\ UNCHANGED <<buckets, bucketsToSend, readers, ticker, inserter, senders, historicHosts,
                   history>>

\* Fault: a return path forgets sendMu.
keepLocked(r) == readers

unlockSendMu(r) == readers \ {r}

release(r) ==
    /\ request[r].stage = "registered"
    /\ SetStage(r, "released")
    /\ readers' = unlockSendMu(r)
    /\ UNCHANGED <<buckets, bucketsToSend, polls, ticker, inserter, senders, historicHosts,
                   history>>

\* The agent disconnects.  Its rows stay in the bucket.
CancelLongpoll(r) ==
    /\ r \in polls
    /\ polls' = polls \ {r}
    /\ UNCHANGED <<buckets, bucketsToSend, request, readers, ticker, inserter, senders,
                   historicHosts, history>>

-----------------------------------------------------------------------------
(* The ticker. *)

\* updateConfigRemotelyExperimental, then advanceRecentBuckets.
advanceRecentBuckets(now, w) ==
    /\ ticker.pc = "sleep"
    /\ LET ready == SubSeq(recentBuckets, 1, readyCount(recentBuckets, now, w))
       IN  ticker' = [pc |-> IF ready = <<>> THEN "sleep" ELSE "ready", ready |-> ready]
    /\ shortWindow' = w
    /\ recentBuckets' = advanced(recentBuckets, now, w)
    /\ UNCHANGED <<historicBuckets, bucketsToSend, request, readers, polls, inserter, senders,
                   historicHosts, history>>

\* Fault: the bucket is taken while handlers still merge into it.
noWait(b) == TRUE

\* sendMu.Lock succeeds: no handler is in the bucket.
waited(b) == Readers(b) = {}

tickerNext(b) ==
    /\ ticker.pc = "ready" /\ b = ticker.ready[1] /\ waited(b)
    /\ ticker' = [pc |-> IF Len(ticker.ready) = 1 THEN "sleep" ELSE "ready", ready |-> Tail(ticker.ready)]
    /\ UNCHANGED <<buckets, bucketsToSend, request, readers, senders, historicHosts, inserted>>

skipNotOurs(b) ==
    /\ ~isOurs(b.time)
    /\ tickerNext(b)
    /\ UNCHANGED <<polls, inserter, answer, dropped>>

handOver(b, i) ==
    /\ isOurs(b.time) /\ bucketsToSend = "open" /\ inserter[i].pc = "range"
    /\ tickerNext(b)
    /\ inserter' = [inserter EXCEPT ![i] = [Idle EXCEPT !.pc = "start", !.bucket = b, !.batch = <<b>>]]
    /\ UNCHANGED <<polls, answer, dropped>>

\* Fault: a bucket that finds no inserter is forgotten with its long polls.
forgetContributors(b) == {}

answeredWhenFull(b) == Contributors(b)

\* No inserter is free: agents are told to keep the data.
conveyorFull(b) ==
    /\ isOurs(b.time) /\ bucketsToSend = "open" /\ \A i \in Inserters : inserter[i].pc # "range"
    /\ tickerNext(b)
    /\ Answered(answeredWhenFull(b), "error")
    /\ polls' = polls \ answeredWhenFull(b)
    /\ dropped' = dropped \cup {b}
    /\ UNCHANGED inserter

tickerQuit(b) ==
    /\ ticker.pc = "ready" /\ b = ticker.ready[1] /\ waited(b)
    /\ isOurs(b.time) /\ bucketsToSend = "closed"
    /\ ticker' = [pc |-> "quit", ready |-> <<>>]
    /\ UNCHANGED <<buckets, bucketsToSend, request, readers, polls, inserter, senders,
                   historicHosts, history>>

Tick == \E now \in Times, w \in ShortWindows : advanceRecentBuckets(now, w)

goTicker ==
    \E b \in Range(ticker.ready) :
        \/ skipNotOurs(b)
        \/ \E i \in Inserters : handOver(b, i)
        \/ conveyorFull(b)
        \/ tickerQuit(b)

-----------------------------------------------------------------------------
(* Inserters. *)

willInsertHistoric ==
    /\ recentSenders + historicSenders < InsertHistoricWhen
    /\ historicSenders < HistoricInserters
    /\ historicBuckets # {}

startInsert(i) ==
    /\ inserter[i].pc = "start"
    /\ inserter' = [inserter EXCEPT ![i].pc = IF willInsertHistoric THEN "pop" ELSE "marshal",
                                    ![i].historic = willInsertHistoric, ![i].oldest = oldestTime]
    /\ historicSenders' = historicSenders + (IF willInsertHistoric THEN 1 ELSE 0)
    /\ recentSenders' = recentSenders + (IF willInsertHistoric THEN 0 ELSE 1)
    /\ UNCHANGED <<buckets, bucketsToSend, request, readers, polls, ticker, historicHosts, history>>

\* The oldest bucket, and all that fell out of the historic window since.
popOldestHistoricBucket(i) ==
    /\ inserter[i].pc = "pop"
    /\ LET stale  == {b \in historicBuckets : isStale(b.time, inserter[i].oldest)}
           fresh  == historicBuckets \ stale
           popped == {b \in fresh : \A x \in fresh : b.time <= x.time}
       IN  /\ historicBuckets' = fresh \ popped
           /\ inserter' = [inserter EXCEPT ![i].pc = "wait", ![i].popped = popped, ![i].stale = stale]
    /\ UNCHANGED <<shortWindow, recentBuckets, bucketsToSend, request, readers, polls, ticker,
                   senders, historicHosts, history>>

waitPopped(i) ==
    /\ inserter[i].pc = "wait"
    /\ \A b \in inserter[i].popped \cup inserter[i].stale : waited(b)
    /\ inserter' = [inserter EXCEPT ![i].pc = "stale"]
    /\ UNCHANGED <<buckets, bucketsToSend, request, readers, polls, ticker, senders, historicHosts,
                   history>>

\* Fault: hosts of a discarded bucket stay counted.
hostsKept(b) == historicHosts

updateHistoricHosts(b) == historicHosts - BucketHosts(b)

discardStale(i, b) ==
    /\ inserter[i].pc = "stale" /\ b \in inserter[i].stale
    /\ inserter' = [inserter EXCEPT ![i].stale = @ \ {b}]
    /\ Answered(Contributors(b), "stale")
    /\ polls' = polls \ Contributors(b)
    /\ historicHosts' = updateHistoricHosts(b)
    /\ UNCHANGED <<buckets, bucketsToSend, request, readers, ticker, senders, inserted, dropped>>

\* Twice the sums, as the code subtracts one half.
enoughContributors(recent, historic) ==
    2 * contributorsCount(historic) > (2 * contributorsCount({recent}) - 1) * ContributorsScale

addHistoric(i) ==
    /\ inserter[i].pc = "stale" /\ inserter[i].stale = {}
    /\ LET popped == inserter[i].popped
           batch == IF popped = {} THEN inserter[i].batch
                    ELSE Append(inserter[i].batch, CHOOSE b \in popped : TRUE)
           done  == \/ popped = {}
                    \/ enoughContributors(batch[1], Range(Tail(batch)))
                    \/ Len(batch) >= 1 + InsertBatch
       IN  inserter' = [inserter EXCEPT ![i].pc = IF done THEN "marshal" ELSE "pop",
                                        ![i].batch = batch, ![i].popped = {}]
    /\ UNCHANGED <<buckets, bucketsToSend, request, readers, polls, ticker, senders, historicHosts,
                   history>>

rowDataMarshal(i) ==
    /\ inserter[i].pc = "marshal"
    /\ inserter' = [inserter EXCEPT ![i].pc = "send", ![i].rows = UNION {Rows(b) : b \in Range(inserter[i].batch)}]
    /\ UNCHANGED <<buckets, bucketsToSend, request, readers, polls, ticker, senders, historicHosts,
                   history>>

leaveRecent(historic) == IF historic THEN recentSenders ELSE recentSenders - 1

\* ClickHouse may have taken the rows of an insert that returned an error.
sendToClickhouse(i) ==
    /\ inserter[i].pc = "send"
    /\ \E err, took \in BOOLEAN :
          /\ err \/ took
          /\ inserter' = [inserter EXCEPT ![i].pc = "answer", ![i].err = err, ![i].rows = {}]
          /\ inserted' = IF took THEN inserted \cup inserter[i].rows ELSE inserted
    /\ recentSenders' = leaveRecent(inserter[i].historic)
    /\ historicSenders' = IF inserter[i].historic THEN historicSenders - 1 ELSE historicSenders
    /\ UNCHANGED <<buckets, bucketsToSend, request, readers, polls, ticker, historicHosts, answer,
                   dropped>>

setDiscard(err) == IF err THEN "error" ELSE "inserted"

answerBucket(i) ==
    /\ inserter[i].pc = "answer" /\ inserter[i].batch # <<>>
    /\ LET b == Head(inserter[i].batch)
       IN  /\ Answered(Contributors(b), setDiscard(inserter[i].err))
           /\ polls' = polls \ Contributors(b)
           /\ historicHosts' = updateHistoricHosts(b)
    /\ inserter' = [inserter EXCEPT ![i].batch = Tail(@)]
    /\ UNCHANGED <<buckets, bucketsToSend, request, readers, ticker, senders, inserted, dropped>>

answerSimulated(i) ==
    /\ inserter[i].pc = "answer" /\ inserter[i].batch = <<>>
    /\ Answered(SimulatedErrors(inserter[i].bucket), "error")
    /\ polls' = polls \ SimulatedErrors(inserter[i].bucket)
    /\ inserter' = [inserter EXCEPT ![i] = Idle]
    /\ UNCHANGED <<buckets, bucketsToSend, request, readers, ticker, senders, historicHosts,
                   inserted, dropped>>

\* Fault: the channel variable is set to nil but the channel is not closed.
neverClosed == FALSE

rangeEnds == bucketsToSend = "closed"

inserterQuit(i) ==
    /\ inserter[i].pc = "range" /\ rangeEnds
    /\ inserter' = [inserter EXCEPT ![i].pc = "quit"]
    /\ UNCHANGED <<buckets, bucketsToSend, request, readers, polls, ticker, senders, historicHosts,
                   history>>

goInsert(i) ==
    \/ startInsert(i) \/ popOldestHistoricBucket(i) \/ waitPopped(i)
    \/ \E b \in inserter[i].stale : discardStale(i, b)
    \/ addHistoric(i) \/ rowDataMarshal(i) \/ sendToClickhouse(i)
    \/ answerBucket(i) \/ answerSimulated(i) \/ inserterQuit(i)

DisableNewInsert ==
    /\ bucketsToSend = "open"
    /\ bucketsToSend' = "closed"
    /\ UNCHANGED <<buckets, request, readers, polls, ticker, inserter, senders, historicHosts,
                   history>>

-----------------------------------------------------------------------------
Handler(r) == merge(r) \/ register(r) \/ release(r)

Next ==
    \/ \E r \in Requests : handleSendSourceBucket(r) \/ handleSendKeepAlive(r) \/ Handler(r) \/ CancelLongpoll(r)
    \/ Tick
    \/ goTicker
    \/ \E i \in Inserters : goInsert(i)
    \/ DisableNewInsert

Spec == Init /\ [][Next]_vars

\* Handlers, ticker and inserters are goroutines that only wait for each other and
\* for ClickHouse, whose answers are bounded by ClickHouseTimeoutInsert; the clock
\* runs until the last second of the model.
Fairness ==
    /\ \A r \in Requests : WF_vars(Handler(r))
    /\ WF_vars(\E now \in Times : isReady(recentBuckets[1], now, shortWindow) /\ advanceRecentBuckets(now, shortWindow))
    /\ WF_vars(goTicker)
    /\ \A i \in Inserters : WF_vars(goInsert(i))

LiveSpec == Spec /\ Fairness

-----------------------------------------------------------------------------
(* Properties. *)

Kinds == DataKinds \cup {"simulated", "keepalive"}
\* An agent erases its copy of a second only when a response says Discard.  The
\* responses that stand for success (goInsert after sendToClickhouse, stale buckets
\* of popOldestHistoricBucket, the historic window check of the handler) are given
\* only for rows that ClickHouse took, or for seconds before the historic window.
DiscardJustified ==
    \A r \in Requests :
        request[r].kind \in DataKinds /\ answer[r] \in {"inserted", "stale", "old"}
        => r \in inserted \/ request[r].time < oldestTime - HistoricWindow

\* The rows of a request that goes to a recent bucket are in the bucket of the first
\* second not before its own that this replica inserts, whatever the window did
\* before; so goTicker never meets contributors in a bucket that is not ours (it
\* would panic).  Historic buckets hold requests of exactly their second.
BucketOfTheSecond ==
    \A r \in Requests :
        LET b == request[r].bucket
        IN  r \in Of(b) =>
              IF b.creator = NoRequest
              THEN isOurs(b.time) /\ b.time \in request[r].time .. request[r].time + 2
              ELSE b.time = request[r].time

Held(i) == Range(inserter[i].batch) \cup inserter[i].popped \cup inserter[i].stale
Live == Range(recentBuckets) \cup historicBuckets \cup Range(ticker.ready)
        \cup UNION {Held(i) : i \in Inserters}

\* "Here we have exclusive access to buckets, without locks": a bucket an inserter
\* has is not reachable for handlers, for the ticker or for another inserter, and
\* no handler is still merging into a bucket that is part of a batch.
ExclusiveAccess ==
    \A i \in Inserters :
        /\ Held(i) \cap (Range(recentBuckets) \cup historicBuckets \cup Range(ticker.ready)) = {}
        /\ \A j \in Inserters \ {i} : Held(i) \cap Held(j) = {}
        /\ \A b \in Range(inserter[i].batch) : Readers(b) = {}

\* A parked request belongs to a bucket that someone still has to answer, unless the
\* ticker quit in shutdown: no agent is left waiting for a bucket that is gone.
PollsHaveOwner ==
    ticker.pc # "quit" =>
        \A r \in polls : request[r].kind # "simulated" => request[r].bucket \in Live

\* The counters goInsert updates far from each other are exact: a.historicHosts is the number
\* of historic requests in buckets that are not answered yet, plus those in buckets dropped by
\* a full conveyor; recentSenders and historicSenders are the inserters busy with each kind of
\* batch, and the limit on historic inserters holds.
CountersExact ==
    LET busy(h) == {i \in Inserters : inserter[i].historic = h
                                       /\ inserter[i].pc \in {"pop", "wait", "stale", "marshal", "send"}}
    IN  /\ ticker.pc # "quit" =>
            historicHosts = Cardinality({r \in UNION {Of(b) : b \in Live \cup dropped} :
                                            request[r].kind = "historic"})
        /\ recentSenders = Cardinality(busy(FALSE))
        /\ historicSenders = Cardinality(busy(TRUE))
        /\ historicSenders <= HistoricInserters

\* "there must be exactly 0 historic hosts in this bucket" (goTicker, conveyor is full).
NoHistoricDropped == \A b \in dropped : BucketHosts(b) = 0

\* A request parked in a recent bucket is answered once its second is over, or its
\* agent disconnects, or the aggregator shuts down.
RecentAnswered ==
    \A r \in Requests :
        r \in Contributors(request[r].bucket) /\ request[r].bucket.creator = NoRequest
          /\ (\E now \in Times : isReady(request[r].bucket, now, shortWindow))
        ~> r \notin polls \/ bucketsToSend = "closed"

\* WaitInsertsFinish returns without its timeout: after DisableNewInsert every inserter
\* finishes its batch and quits.
ShutdownFinishes ==
    bucketsToSend = "closed" ~> \A i \in Inserters : inserter[i].pc = "quit"

=============================================================================
