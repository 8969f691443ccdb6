---------------------------- MODULE Cache2Memory ----------------------------
(***************************************************************************)
(* Memory limits of the time series cache of the API (cache2).  Requests   *)
(* load data from ClickHouse block by block; what is loaded but not yet    *)
(* cached is in flight.  Three functions put a request to sleep on         *)
(* allocCond when cached and in-flight data exceed a limit; the trimmer    *)
(* sleeps on trimCond and removes buckets when woken.                      *)
(*                                                                         *)
(* Every critical section of cache2.mu is an action, and so is every       *)
(* signal sent without it.  Requests have different cache keys: what       *)
(* requests of one key do to each other is the subject of Cache2Chunks.    *)
(* A bucket is its size, a block of rows has size one.                     *)
(***************************************************************************)
EXTENDS Integers, FiniteSets, FiniteSetsExt

CONSTANTS
    Requests,
    StartLimits,    \* maxSize and maxSizeSoft when the API starts
    Limits,         \* those the configuration may hold later
    MaxAge,         \* TRUE if limits.maxAge is set
    MaxBlocks,      \* blocks a SELECT returns at most
    MaxGets, MaxReconfigs   \* bounds of the model

ASSUME Cache2Assumption ==
    /\ StartLimits \in Limits
    /\ \A l \in Limits : /\ l.maxSize \in Nat /\ l.maxSizeSoft \in Nat
                         /\ l.maxSizeSoft < l.maxSize \/ (l.maxSize = 0 /\ l.maxSizeSoft = 0)
    /\ {MaxBlocks, MaxGets, MaxReconfigs} \subseteq Nat /\ MaxAge \in BOOLEAN

NoBucket == -1

VARIABLES
    limits,
    infoSize,       \* info.size(), the size of the cached data as accounted
    inflightBytes,
    inflightReqM,   \* bytes of the registered requests
    bucket,         \* size of the bucket of each key, or NoBucket
    pc,             \* of each request
    loaded,         \* blocks a request has received
    cancelled,      \* its context
    attached,       \* the chunk it loads is still in the cache
    delta,          \* change of the size a goroutine has not yet accounted for
    trim, heap,     \* the trimmer and the buckets it is going to remove
    exiting,        \* the trimmer has left its loop and empties the cache
    shutdownF,
    gets, reconfigs \* how often a request was made, and the configuration changed

trimmer == "trimmer"
Goroutines == Requests \cup {trimmer}

accounting == <<infoSize, inflightBytes, inflightReqM>>
request == <<pc, gets, loaded, cancelled, attached>>
config == <<limits, shutdownF, reconfigs>>
vars == <<accounting, request, config, bucket, delta, trim, heap, exiting>>

Init ==
    /\ limits = StartLimits
    /\ infoSize = 0 /\ inflightBytes = 0
    /\ inflightReqM = [r \in {} |-> 0]
    /\ bucket = [r \in Requests |-> NoBucket]
    /\ pc = [r \in Requests |-> "idle"] /\ gets = 0
    /\ loaded = [r \in Requests |-> 0]
    /\ cancelled = [r \in Requests |-> FALSE] /\ attached = [r \in Requests |-> FALSE]
    /\ delta = [g \in Goroutines |-> 0]
    /\ trim = "top" /\ heap = {} /\ exiting = FALSE
    /\ shutdownF = FALSE /\ reconfigs = 0

effectiveSize == infoSize + inflightBytes

OverHard == limits.maxSize # 0 /\ effectiveSize > limits.maxSize
OverSoft == limits.maxSize # 0 /\ effectiveSize > limits.maxSizeSoft

Goto(r, l) == pc' = [pc EXCEPT ![r] = l]

\* allocCond.Broadcast: those who sleep look again.
awake == [allocWait |-> "alloc", softWait |-> "soft", hardWait |-> "hard"]
Broadcast(p) == [r \in Requests |-> IF p[r] \in DOMAIN awake THEN awake[p[r]] ELSE p[r]]

\* trimCond.Signal
Signalled(t) == IF t = "wait" THEN "top" ELSE t

-----------------------------------------------------------------------------
\* Fault: nobody waiting for memory is told that there is some.
noNews(p, size) == p

\* Who waits for memory goes on when there is some again.
spaceNews(p, size) == IF size <= limits.maxSize THEN Broadcast(p) ELSE p

\* updateRuntimeInfo(Unlocked) of goroutine g, which then has p as program counters.
updateRuntimeInfo(g, p, t) ==
    LET size == infoSize + delta[g] + inflightBytes IN
    /\ infoSize' = infoSize + delta[g]
    /\ delta' = [delta EXCEPT ![g] = 0]
    /\ pc' = IF limits.maxSize # 0 THEN spaceNews(p, size) ELSE p
    /\ trim' = IF limits.maxSize # 0 /\ limits.maxSizeSoft < size THEN Signalled(t) ELSE t

\* removeReqLocked for the requests S: their SELECTs are cancelled.
removeReqs(S, p, t) ==
    LET rest == inflightBytes - MapThenSumSet(LAMBDA r : inflightReqM[r], S)
        size == infoSize + rest IN
    /\ inflightReqM' = [r \in DOMAIN inflightReqM \ S |-> inflightReqM[r]]
    /\ inflightBytes' = rest
    /\ cancelled' = [r \in Requests |-> cancelled[r] \/ r \in S]
    /\ pc' = IF limits.maxSize = 0 \/ size <= limits.maxSize THEN Broadcast(p) ELSE p
    /\ trim' = IF limits.maxSizeSoft > 0 /\ size > limits.maxSizeSoft THEN Signalled(t) ELSE t

-----------------------------------------------------------------------------
\* A request.

Get(r) ==
    /\ pc[r] = "idle" /\ gets < MaxGets
    /\ gets' = gets + 1
    /\ Goto(r, "alloc")
    /\ UNCHANGED <<accounting, config, loaded, cancelled, attached, bucket, delta, trim, heap, exiting>>

tryNotExceedMemoryHardLimit(r) ==
    /\ pc[r] = "alloc"
    /\ \/ OverHard /\ infoSize > 0 /\ Goto(r, "allocWait")
       \/ ~(OverHard /\ infoSize > 0) /\ (Goto(r, "create") \/ Goto(r, "register"))
    /\ UNCHANGED <<accounting, config, gets, loaded, cancelled, attached, bucket, delta, trim, heap, exiting>>

\* newLoader: a new bucket or chunk has no data; a cached one is loaded again when it is
\* stale.  A request that goes from "alloc" to "register" is loadWithoutCache.
getOrCreateBucket(r) ==
    /\ pc[r] = "create"
    /\ bucket' = [bucket EXCEPT ![r] = IF @ = NoBucket THEN 0 ELSE @]
    /\ \/ attached' = [attached EXCEPT ![r] = TRUE]
       \/ bucket[r] > 0 /\ UNCHANGED attached
    /\ Goto(r, "created")
    /\ UNCHANGED <<accounting, config, gets, loaded, cancelled, delta, trim, heap, exiting>>

loaderCreated(r) ==
    /\ pc[r] = "created"
    /\ updateRuntimeInfo(r, [pc EXCEPT ![r] = IF attached[r] THEN "register" ELSE "idle"], trim)
    /\ UNCHANGED <<inflightBytes, inflightReqM, config, gets, loaded, cancelled, attached, bucket, heap, exiting>>

NewInflightReq(r) ==
    /\ pc[r] = "register"
    /\ inflightReqM' = [q \in DOMAIN inflightReqM \cup {r} |-> IF q = r THEN 0 ELSE inflightReqM[q]]
    /\ Goto(r, "begin")
    /\ UNCHANGED <<infoSize, inflightBytes, config, gets, loaded, cancelled, attached, bucket,
                   delta, trim, heap, exiting>>

\* The end of updateInflightApprox: over the soft limit signal the trimmer, then wait.
OverSoftWith(n) ==
    ~shutdownF /\ limits.maxSizeSoft > 0 /\ effectiveSize + n > limits.maxSizeSoft

\* updateInflightApprox(reqID, 0), before the SELECT.
beforeSelect(r) ==
    /\ pc[r] = "begin"
    /\ Goto(r, IF r \in DOMAIN inflightReqM /\ OverSoftWith(0) THEN "softSignal" ELSE "select")
    /\ UNCHANGED <<accounting, config, gets, loaded, cancelled, attached, bucket, delta, trim, heap, exiting>>

signalTrim(r) ==
    /\ \/ pc[r] = "softSignal" /\ Goto(r, "soft")
       \/ pc[r] = "hardSignal" /\ Goto(r, "hard")
    /\ trim' = Signalled(trim)
    /\ UNCHANGED <<accounting, config, gets, loaded, cancelled, attached, bucket, delta, heap, exiting>>

tryNotExceedMemorySoftLimitInflight(r) ==
    /\ pc[r] = "soft"
    /\ Goto(r, IF OverSoft THEN "softWait" ELSE "select")
    /\ UNCHANGED <<accounting, config, gets, loaded, cancelled, attached, bucket, delta, trim, heap, exiting>>

\* updateInflightApprox knows the request.
counted(r) == r \in DOMAIN inflightReqM

\* OnResult: a block of rows arrives, and is ignored if the context is cancelled.
OnResult(r) ==
    /\ pc[r] = "select"
    /\ ~cancelled[r] /\ loaded[r] < MaxBlocks
    /\ loaded' = [loaded EXCEPT ![r] = @ + 1]
    /\ \/ /\ counted(r)
          /\ inflightBytes' = inflightBytes + 1
          /\ inflightReqM' = [inflightReqM EXCEPT ![r] = @ + 1]
          /\ Goto(r, IF OverSoftWith(1) THEN "hardSignal" ELSE "select")
       \/ /\ ~counted(r)
          /\ UNCHANGED <<inflightBytes, inflightReqM, pc>>
    /\ UNCHANGED <<infoSize, config, gets, cancelled, attached, bucket, delta, trim, heap, exiting>>

\* The requests tryNotExceedMemoryHardLimitInflight cancels: the largest first, until the
\* others fit.
Victims ==
    LET rest(S) == effectiveSize - MapThenSumSet(LAMBDA r : inflightReqM[r], S) IN
    {S \in SUBSET DOMAIN inflightReqM :
        /\ \A r \in S, q \in DOMAIN inflightReqM \ S : inflightReqM[r] >= inflightReqM[q]
        /\ rest(S) <= limits.maxSize \/ S = DOMAIN inflightReqM
        /\ \E r \in S : /\ \A q \in S : inflightReqM[r] <= inflightReqM[q]
                        /\ rest(S \ {r}) > limits.maxSize}

tryNotExceedMemoryHardLimitInflight(r) ==
    /\ pc[r] = "hard"
    /\ \/ /\ ~OverHard \/ (infoSize <= 0 /\ DOMAIN inflightReqM = {})
          /\ Goto(r, "select")
          /\ UNCHANGED <<inflightBytes, inflightReqM, cancelled, trim>>
       \/ /\ OverHard /\ infoSize <= 0 /\ DOMAIN inflightReqM # {}
          /\ \E S \in Victims : removeReqs(S, [pc EXCEPT ![r] = "select"], trim)
       \/ /\ OverHard /\ infoSize > 0
          /\ Goto(r, "hardWait")
          /\ UNCHANGED <<inflightBytes, inflightReqM, cancelled, trim>>
    /\ UNCHANGED <<infoSize, config, gets, loaded, attached, bucket, delta, heap, exiting>>

\* The SELECT ends; what it returned is kept unless it failed, as a cancelled one does.
\* afterInflightLoadFinished does nothing during a shutdown.  (An uncached load that failed
\* returns here; the model lets it report a change of zero like the others.)
selectEnds(r) ==
    /\ pc[r] = "select"
    /\ \E ok \in BOOLEAN :
        /\ ok => ~cancelled[r]
        /\ attached' = [attached EXCEPT ![r] = @ /\ ok]
    /\ \/ /\ r \in DOMAIN inflightReqM /\ ~shutdownF
          /\ removeReqs({r}, [pc EXCEPT ![r] = "store"], trim)
       \/ /\ r \notin DOMAIN inflightReqM \/ shutdownF
          /\ Goto(r, "store")
          /\ UNCHANGED <<inflightBytes, inflightReqM, cancelled, trim>>
    /\ UNCHANGED <<infoSize, config, gets, loaded, bucket, delta, heap, exiting>>

\* Fault: data is stored in a chunk that has left the cache.
storesAlways(r) == TRUE

\* The chunk is neither detached nor did the load fail.
stores(r) == attached[r]

\* loadChunks under the mutex of the chunk.
storeChunk(r) ==
    /\ pc[r] = "store"
    /\ \/ /\ stores(r)
          /\ delta' = [delta EXCEPT ![r] = loaded[r] - bucket[r]]
          /\ bucket' = [bucket EXCEPT ![r] = loaded[r]]
       \/ /\ ~stores(r)
          /\ UNCHANGED <<delta, bucket>>
    /\ Goto(r, "account")
    /\ UNCHANGED <<accounting, config, gets, loaded, cancelled, attached, trim, heap, exiting>>

loadFinished(r) ==
    /\ pc[r] = "account"
    /\ updateRuntimeInfo(r, [pc EXCEPT ![r] = "idle"], trim)
    /\ loaded' = [loaded EXCEPT ![r] = 0]
    /\ cancelled' = [cancelled EXCEPT ![r] = FALSE]
    /\ attached' = [attached EXCEPT ![r] = FALSE]
    /\ UNCHANGED <<inflightBytes, inflightReqM, config, gets, bucket, heap, exiting>>

-----------------------------------------------------------------------------
\* The trimmer.

Buckets == {r \in Requests : bucket[r] # NoBucket}

\* The end of the loop body of trim.
endLoop ==
    /\ exiting' = shutdownF
    /\ trim' = IF shutdownF THEN "collect" ELSE IF OverHard THEN "top" ELSE "wait"

\* Fault: trimming starts at the hard limit.
trimsAboveHard == limits.maxSize

trimsAbove == limits.maxSizeSoft

\* The size is checked, and the trimmer goes to sleep, without giving up c.mu.
checkSize ==
    \/ trimsAbove < effectiveSize /\ trim' = "collect" /\ UNCHANGED exiting
    \/ trimsAbove >= effectiveSize /\ endLoop

trimTop ==
    /\ trim = "top"
    /\ \/ shutdownF /\ trim' = "collect" /\ exiting' = TRUE
       \/ ~shutdownF /\ infoSize > 0 /\ MaxAge /\ trim' = "aged" /\ UNCHANGED exiting
       \/ ~shutdownF /\ checkSize
    /\ UNCHANGED <<accounting, request, config, bucket, delta, heap>>

\* Removing a bucket detaches its chunks from those who load them.
removeBucket(b) ==
    /\ bucket' = [bucket EXCEPT ![b] = NoBucket]
    /\ attached' = [attached EXCEPT ![b] = FALSE]
    /\ delta' = [delta EXCEPT ![trimmer] = @ - bucket[b]]

\* trimAged: any bucket may be old.
trimAged ==
    /\ trim = "aged"
    /\ \/ /\ \E b \in Buckets : removeBucket(b)
          /\ UNCHANGED <<infoSize, pc, trim>>
       \/ /\ updateRuntimeInfo(trimmer, pc, "check")
          /\ UNCHANGED <<bucket, attached>>
    /\ UNCHANGED <<inflightBytes, inflightReqM, config, gets, loaded, cancelled, heap, exiting>>

trimCheck ==
    /\ trim = "check"
    /\ checkSize
    /\ UNCHANGED <<accounting, request, config, bucket, delta, heap>>

\* Where reduceMemoryUsage returns to.
Reduced == IF exiting THEN "done" ELSE "bottom"

collectBuckets ==
    /\ trim = "collect"
    /\ heap' = Buckets
    /\ trim' = IF Buckets = {} THEN Reduced ELSE "remove"
    /\ UNCHANGED <<accounting, request, config, bucket, delta, exiting>>

\* Play interval, age and size decide which bucket goes first; none of them is modelled.
removeMin ==
    /\ trim = "remove"
    /\ \E b \in heap : removeBucket(b) /\ heap' = heap \ {b}
    /\ trim' = "account"
    /\ UNCHANGED <<accounting, config, pc, gets, loaded, cancelled, exiting>>

accountRemoved ==
    /\ trim = "account"
    /\ LET done == effectiveSize + delta[trimmer] <= limits.maxSizeSoft IN
        /\ heap' = IF done THEN {} ELSE heap
        /\ updateRuntimeInfo(trimmer, pc, IF done THEN Reduced
                                          ELSE IF heap = {} THEN "collect" ELSE "remove")
    /\ UNCHANGED <<inflightBytes, inflightReqM, config, gets, loaded, cancelled, attached, bucket, exiting>>

trimBottom ==
    /\ trim = "bottom"
    /\ endLoop
    /\ UNCHANGED <<accounting, request, config, bucket, delta, heap>>

\* The timer set before trimCond.Wait.
trimTimer ==
    /\ trim = "wait" /\ MaxAge
    /\ trim' = "top"
    /\ UNCHANGED <<accounting, request, config, bucket, delta, heap, exiting>>

-----------------------------------------------------------------------------
setLimits(l) ==
    /\ ~shutdownF /\ l # limits /\ reconfigs < MaxReconfigs
    /\ reconfigs' = reconfigs + 1
    /\ limits' = l
    /\ trim' = IF l.maxSizeSoft < effectiveSize THEN Signalled(trim) ELSE trim
    /\ pc' = IF l.maxSize = 0 \/ effectiveSize <= l.maxSize THEN Broadcast(pc) ELSE pc
    /\ UNCHANGED <<accounting, gets, loaded, cancelled, attached, bucket, delta, heap, exiting, shutdownF>>

shutdown ==
    /\ ~shutdownF /\ reconfigs < MaxReconfigs
    /\ reconfigs' = reconfigs + 1
    /\ shutdownF' = TRUE
    /\ limits' = [maxSize |-> 0, maxSizeSoft |-> 0]
    /\ trim' = Signalled(trim)
    /\ pc' = Broadcast(pc)
    /\ UNCHANGED <<accounting, gets, loaded, cancelled, attached, bucket, delta, heap, exiting>>

requestStep(r) ==
    \/ tryNotExceedMemoryHardLimit(r) \/ getOrCreateBucket(r) \/ loaderCreated(r)
    \/ NewInflightReq(r) \/ beforeSelect(r) \/ signalTrim(r)
    \/ tryNotExceedMemorySoftLimitInflight(r) \/ OnResult(r)
    \/ tryNotExceedMemoryHardLimitInflight(r) \/ selectEnds(r) \/ storeChunk(r) \/ loadFinished(r)

trimStep == trimTop \/ trimAged \/ trimCheck \/ collectBuckets \/ removeMin \/ accountRemoved \/ trimBottom \/ trimTimer

Next ==
    \/ \E r \in Requests : Get(r) \/ requestStep(r)
    \/ trimStep
    \/ \E l \in Limits : setLimits(l)
    \/ shutdown

Spec == Init /\ [][Next]_vars

\* Goroutines that can run do, SELECTs end, and the trimmer gets c.mu in competition with the
\* requests (sync.Mutex is starvation free).
Fairness == (\A r \in Requests : WF_vars(requestStep(r))) /\ WF_vars(trimStep)

LiveSpec == Spec /\ Fairness

-----------------------------------------------------------------------------
\* Properties.

\* tscache2.go:742, tscache2_inflight.go:82 - whatever is loaded, trimmed and cancelled at the
\* same time, the accounted size is the size of what is cached, up to the changes still to be
\* reported, and a request in flight counts until its SELECT has ended or was cancelled; so the
\* limits neither drift away nor trim an empty cache for ever.
SizesExact ==
    /\ infoSize + MapThenSumSet(LAMBDA g : delta[g], Goroutines)
        = MapThenSumSet(LAMBDA r : bucket[r], Buckets)
    /\ ~shutdownF =>
        /\ inflightBytes = MapThenSumSet(LAMBDA r : inflightReqM[r], DOMAIN inflightReqM)
        /\ \A r \in DOMAIN inflightReqM : pc[r] # "idle" /\ inflightReqM[r] = loaded[r]

\* Nobody sleeps on allocCond although there is memory: every change that makes room wakes
\* up those who wait.
NobodySleepsOverSpace ==
    \A r \in Requests :
        /\ pc[r] = "softWait" => OverSoft
        /\ pc[r] \in {"allocWait", "hardWait"} => OverHard

\* A request sleeps in tryNotExceedMemoryHardLimitInflight for cached data to be trimmed
\* when there is none.
Frozen == \E r \in Requests : pc[r] = "hardWait" /\ infoSize <= 0

\* tscache2_inflight.go:46 - every request gets its answer in the end: whoever sleeps is woken
\* up and the trimmer makes room, unless a request is frozen.
RequestsEnd == \A r \in Requests : pc[r] # "idle" ~> pc[r] = "idle" \/ Frozen

\* tscache2.go:276 - "Freezing in case (size()==0 && inflightBytes > maxSize).  It happens,
\* when one inflight consumes all memory, cancel it to save other requests": nobody is frozen
\* for ever.
FreezeResolved == []<>~Frozen
=============================================================================
