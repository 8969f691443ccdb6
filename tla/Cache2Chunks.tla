---------------------------- MODULE Cache2Chunks ----------------------------
(***************************************************************************)
(* The chunks of one bucket of the time series cache of the API (cache2):  *)
(* how concurrent requests for ranges of time divide the loading, wait for *)
(* each other and store what they have loaded, while data is inserted into *)
(* ClickHouse and chunks are invalidated and trimmed.                      *)
(*                                                                         *)
(* A chunk is identified by its time and a generation: a chunk removed     *)
(* from the bucket lives on, detached, while somebody loads it, beside its *)
(* successor.  Data is a version of the rows of a chunk.  Nanoseconds are  *)
(* replaced by a clock that advances whenever the code reads the time.     *)
(* init holds the mutex of the bucket and takes those of the chunks one by *)
(* one, so it is one action per chunk; everybody else takes one at a time. *)
(***************************************************************************)
EXTENDS Integers, FiniteSets, FiniteSetsExt

CONSTANTS
    Loaders,        \* each makes one request
    Requests,       \* the ranges of chunks asked for and how
    N,              \* chunks are 1 .. N
    End,            \* when each chunk ends, on the clock of the model
    invalidateLinger,
    MaxInserts, MaxEvents   \* bounds: inserts; removals and failed SELECTs

ASSUME ChunksAssumption ==
    /\ N \in Nat \ {0} /\ End \in [1 .. N -> Nat] /\ invalidateLinger \in Nat
    /\ Requests \subseteq [from : 1 .. N, to : 1 .. N, forceLoad : BOOLEAN, play : BOOLEAN]
    /\ \A r \in Requests : r.from <= r.to
    /\ {MaxInserts, MaxEvents} \subseteq Nat

Chunks == 1 .. N
Generations == 1 .. MaxEvents + 1
NoData == -1
Nobody == "nobody"

VARIABLES
    now,
    db, logged,     \* versions in ClickHouse, and those not yet invalidated
    invalidating,   \* a call of invalidate: its time and the versions it is about
    current,        \* generation of the chunks in the bucket, 0 if there is none
    created,        \* generations created so far
    chunk,          \* the chunks themselves
    owner,          \* who holds the mutex of the bucket
    loader,
    told,           \* history: versions invalidate has told the cache about
    reloaded,       \* history: chunks loaded twice at the same time
    events

environment == <<db, logged, invalidating, told>>
vars == <<now, environment, current, created, chunk, owner, loader, reloaded, events>>

NewChunk == [data |-> NoData, invalidatedAt |-> 0, loadStartedAt |-> 0, loading |-> 0, awaiters |-> {}]

NewLoader ==
    [pc |-> "idle", pos |-> 0, timeEnd |-> 0, timeNow |-> 0, forceLoad |-> FALSE, play |-> FALSE,
     kept |-> {},       \* "s": chunks seen but neither copied nor awaited yet, locked
     wait |-> {},       \* those of them that are worth waiting for
     chunks |-> {},     \* what loadChunks has to load and store
     read |-> [c \in {} |-> 0],    \* what the SELECT returned
     missing |-> {},    \* chunks of its range the answer does not contain yet
     waitN |-> 0, failed |-> FALSE]

Init ==
    /\ now = 1
    /\ db = [c \in Chunks |-> 0] /\ logged = {} /\ told = db
    /\ invalidating = [at |-> 0, version |-> [c \in {} |-> 0]]
    /\ current = [c \in Chunks |-> 0] /\ created = current
    /\ chunk = [o \in Chunks \X Generations |-> NewChunk]
    /\ owner = Nobody
    /\ loader = [l \in Loaders |-> NewLoader]
    /\ reloaded = {} /\ events = 0

Attached(o) == current[o[1]] = o[2]

-----------------------------------------------------------------------------
\* The part of a loader that runs with the bucket locked.

newLoader(l, r) ==
    /\ loader[l].pc = "idle" /\ owner = Nobody
    /\ owner' = l /\ now' = now + 1
    /\ loader' = [loader EXCEPT ![l] = [NewLoader EXCEPT !.pc = "init", !.pos = r.from, !.timeEnd = r.to,
                      !.timeNow = now', !.forceLoad = r.forceLoad, !.play = r.play,
                      !.missing = r.from .. r.to]]
    /\ UNCHANGED <<environment, current, created, chunk, reloaded, events>>

Times(S) == {o[1] : o \in S}

\* The chunks kept are awaited if it is worth it and copied otherwise.
awaitCopyChunks(ld) ==
    [ld EXCEPT !.kept = {}, !.wait = {},
               !.waitN = @ + Cardinality(ld.wait),
               !.missing = @ \ {o[1] : o \in {x \in ld.kept \ ld.wait : chunk[x].data # NoData}}]

await(ch, l, S) == [o \in DOMAIN ch |-> IF o \in S THEN [ch[o] EXCEPT !.awaiters = @ \cup {l}] ELSE ch[o]]

startLoad(ch, S, t) ==
    [o \in DOMAIN ch |-> IF o \in S THEN [ch[o] EXCEPT !.loading = @ + 1, !.loadStartedAt = t] ELSE ch[o]]

\* Fault: data that is being loaded counts as data.
mustLoadUnlessLoading(ch, ld, c) ==
    (ch.data = NoData /\ ch.loading = 0) \/ ch.loadStartedAt < End[c] \/ ld.forceLoad

\* There is no data, or it was loaded before the chunk was complete.
mustLoad(ch, ld, c) == ch.data = NoData \/ ch.loadStartedAt < End[c] \/ ld.forceLoad

mayLoad(ch, c) == ch.invalidatedAt # 0 \/ ch.loadStartedAt < End[c] + invalidateLinger

\* In play mode data invalidated less than a second ago is good enough.
mustWait(ch, ld, c) == mustLoad(ch, ld, c) \/ (ch.invalidatedAt # 0 /\ ~ld.play)

\* One turn of the loop of init: the next chunk, created if it is missing.
maybeAddChunk(l) ==
    LET ld == loader[l]
        c == ld.pos
        missing == current[c] = 0
        o == <<c, IF missing THEN created[c] + 1 ELSE current[c]>>
        load == mustLoad(chunk[o], ld, c) \/ mayLoad(chunk[o], c)
        next == [ld EXCEPT !.pos = @ + 1]
        add == ld.kept \cup {o} IN
    /\ ld.pc = "init" /\ c <= ld.timeEnd
    /\ current' = [current EXCEPT ![c] = o[2]]
    /\ created' = [created EXCEPT ![c] = IF missing THEN @ + 1 ELSE @]
    /\ \/ /\ load /\ chunk[o].loading = 0 /\ ld.chunks = {}
          /\ loader' = [loader EXCEPT ![l] = [awaitCopyChunks(next) EXCEPT !.chunks = {o}]]
          /\ chunk' = startLoad(await(chunk, l, ld.wait), {o}, ld.timeNow)
          /\ UNCHANGED reloaded
       \/ \* a SELECT covers a range, so what lies in between is loaded as well
          /\ load /\ chunk[o].loading = 0 /\ ld.chunks # {}
          /\ loader' = [loader EXCEPT ![l] = [next EXCEPT !.chunks = @ \cup add, !.kept = {}, !.wait = {}]]
          /\ chunk' = startLoad(chunk, add, ld.timeNow)
          /\ reloaded' = reloaded \cup {k \in add : chunk[k].loading > 0}
       \/ /\ ~(load /\ chunk[o].loading = 0)
          /\ loader' = [loader EXCEPT ![l] = [next EXCEPT !.kept = add,
                            !.wait = IF mustWait(chunk[o], ld, c) THEN @ \cup {o} ELSE @]]
          /\ UNCHANGED <<chunk, reloaded>>
    /\ UNCHANGED <<now, environment, owner, events>>

\* The rest of init, and run: one more value to wait for if there is something to load.
run(l) ==
    LET ld == loader[l] IN
    /\ ld.pc = "init" /\ ld.pos > ld.timeEnd
    /\ LET end == awaitCopyChunks(ld) IN
        loader' = [loader EXCEPT ![l] = [NewLoader EXCEPT !.pc = "run", !.chunks = ld.chunks,
                      !.missing = end.missing, !.failed = ld.failed, !.waitN = end.waitN + (IF ld.chunks = {} THEN 0 ELSE 1)]]
    /\ chunk' = await(chunk, l, ld.wait)
    /\ owner' = Nobody
    /\ UNCHANGED <<now, environment, current, created, reloaded, events>>

-----------------------------------------------------------------------------
\* loadChunks, a goroutine.

\* The SELECT: the requester of the loader is told at once, the chunks are stored afterwards.
select(l) ==
    LET ld == loader[l] IN
    /\ ld.pc = "run" /\ ld.chunks # {}
    /\ \/ /\ loader' = [loader EXCEPT ![l] =
                [ld EXCEPT !.pc = "store", !.waitN = @ - 1, !.read = [c \in Times(ld.chunks) |-> db[c]],
                           !.missing = @ \ Times(ld.chunks)]]
          /\ UNCHANGED events
       \/ /\ events < MaxEvents
          /\ events' = events + 1
          /\ loader' = [loader EXCEPT ![l] = [ld EXCEPT !.pc = "store", !.waitN = @ - 1, !.failed = TRUE]]
    /\ UNCHANGED <<now, environment, current, created, chunk, owner, reloaded>>

ok(ld) == DOMAIN ld.read # {}

\* Fault: invalidations are forgotten whenever data is stored.
validAlways(ch) == 0

\* What is left of an invalidation once data is stored.
invalidatedSince(ch) == IF ch.loadStartedAt < ch.invalidatedAt THEN ch.invalidatedAt ELSE 0

\* Fault: after an error nobody is told.
awaitersIfOk(ch, ld) == IF ok(ld) THEN {} ELSE ch.awaiters

awaitersLeft(ch, ld) == {}

\* The next chunk is stored unless it was detached, and its awaiters get the data or the error.
storeChunk(l) ==
    LET ld == loader[l]
        o == CHOOSE x \in ld.chunks : \A y \in ld.chunks : x[1] <= y[1]
        c == o[1]
        ch == chunk[o]
        answered == ch.awaiters \ awaitersLeft(ch, ld) IN
    /\ ld.pc = "store" /\ ld.chunks # {}
    /\ \A a \in Loaders : o \notin loader[a].kept   \* nobody holds its mutex
    /\ chunk' = [chunk EXCEPT ![o] =
          [data |-> IF Attached(o) /\ ok(ld) THEN ld.read[c] ELSE ch.data,
           invalidatedAt |-> IF Attached(o) /\ ok(ld) THEN invalidatedSince(ch) ELSE ch.invalidatedAt,
           loadStartedAt |-> ch.loadStartedAt,
           loading |-> IF Attached(o) THEN ch.loading - 1 ELSE ch.loading,
           awaiters |-> awaitersLeft(ch, ld)]]
    /\ loader' = [a \in Loaders |->
          IF a = l THEN [ld EXCEPT !.chunks = @ \ {o},
                               !.read = IF ld.chunks = {o} THEN [x \in {} |-> 0] ELSE @]
          ELSE IF a \in answered
          THEN [loader[a] EXCEPT !.waitN = @ - 1, !.failed = @ \/ ~ok(ld),
                                 !.missing = IF ok(ld) THEN @ \ {c} ELSE @]
          ELSE loader[a]]
    /\ UNCHANGED <<now, environment, current, created, owner, reloaded, events>>

-----------------------------------------------------------------------------
\* ClickHouse, the goroutine that invalidates, and the trimmer.

insert(c) ==
    /\ MapThenSumSet(LAMBDA x : db[x], Chunks) < MaxInserts
    /\ db' = [db EXCEPT ![c] = @ + 1]
    /\ logged' = logged \cup {c}
    /\ UNCHANGED <<now, invalidating, told, current, created, chunk, owner, loader, reloaded,
                   events>>

\* invalidateCache reads the log and the time, invalidate takes the bucket later.
invalidateCache ==
    /\ DOMAIN invalidating.version = {} /\ logged # {}
    /\ now' = now + 1
    /\ invalidating' = [at |-> now', version |-> [c \in logged |-> db[c]]]
    /\ logged' = {}
    /\ UNCHANGED <<db, told, current, created, chunk, owner, loader, reloaded, events>>

invalidate ==
    LET v == invalidating.version IN
    /\ DOMAIN v # {} /\ owner = Nobody
    /\ chunk' = [o \in DOMAIN chunk |-> IF o[1] \in DOMAIN v /\ Attached(o)
                    THEN [chunk[o] EXCEPT !.invalidatedAt = invalidating.at] ELSE chunk[o]]
    /\ told' = [c \in Chunks |-> IF c \in DOMAIN v THEN v[c] ELSE told[c]]
    /\ invalidating' = [at |-> 0, version |-> [c \in {} |-> 0]]
    /\ UNCHANGED <<now, db, logged, current, created, owner, loader, reloaded, events>>

\* removeChunksNotUsedAfter: which chunks were not used for long enough is left open.
removeChunks(S) ==
    /\ owner = Nobody /\ events < MaxEvents
    /\ S # {} /\ \A c \in S : current[c] # 0
    /\ events' = events + 1
    /\ current' = [c \in Chunks |-> IF c \in S THEN 0 ELSE current[c]]
    /\ chunk' = [o \in DOMAIN chunk |-> IF o[1] \in S /\ Attached(o)
                    THEN [chunk[o] EXCEPT !.data = NoData] ELSE chunk[o]]
    /\ UNCHANGED <<now, environment, created, owner, loader, reloaded>>

Next ==
    \/ \E l \in Loaders :
        \/ \E r \in Requests : newLoader(l, r)
        \/ maybeAddChunk(l) \/ run(l) \/ select(l) \/ storeChunk(l)
    \/ \E c \in Chunks : insert(c)
    \/ invalidateCache \/ invalidate
    \/ \E S \in SUBSET Chunks : removeChunks(S)

Spec == Init /\ [][Next]_vars

-----------------------------------------------------------------------------
\* Properties.

\* Who is going to store chunk o.
Loading(o) == {l \in Loaders : o \in loader[l].chunks}

\* tscache2.go:666, :829 - a chunk of the bucket is marked as being loaded exactly as long as
\* somebody loads it, and a request waits for its own SELECT and for chunks somebody else is
\* going to deliver, also when a load failed or the chunk was trimmed meanwhile: otherwise it
\* would wait for ever.
AwaitersHaveLoader ==
    /\ \A o \in DOMAIN chunk :
        /\ Attached(o) => chunk[o].loading = Cardinality(Loading(o))
        /\ chunk[o].awaiters # {} => Loading(o) \ chunk[o].awaiters # {}
    /\ \A l \in Loaders : loader[l].waitN =
          Cardinality({o \in DOMAIN chunk : l \in chunk[o].awaiters})
              + (IF loader[l].pc = "run" /\ loader[l].chunks # {} THEN 1 ELSE 0)

\* tscache2.go:625 - a request that ends without an error has data for every chunk of its range,
\* copied, awaited or loaded.
NothingMissing ==
    \A l \in Loaders :
        loader[l].pc \in {"run", "store"} /\ loader[l].waitN = 0 /\ ~loader[l].failed
            => loader[l].missing = {}

\* The cache would answer from chunk o without loading it again.
Valid(o) ==
    /\ Attached(o) /\ chunk[o].data # NoData
    /\ ~mayLoad(chunk[o], o[1])

Stale(o) == Valid(o) /\ chunk[o].data < told[o[1]]

\* tscache2.go:771 - "chunk has been invalidated while loading": data read before an insert the
\* cache has been told about is not taken for valid once all the loads are over.
NeverStale == \A o \in DOMAIN chunk : chunk[o].loading = 0 => ~Stale(o)

\* tscache2.go:771 - the same, at any time, of chunks that were never loaded by two loaders at a
\* time: an invalidation is never lost to a load that began before it.
StaleOnlyIfReloaded == \A o \in DOMAIN chunk \ reloaded : ~Stale(o)
=============================================================================
