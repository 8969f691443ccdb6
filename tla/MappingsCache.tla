--------------------------- MODULE MappingsCache ---------------------------
(***************************************************************************)
(* The cache of mappings from strings to integers that agents and          *)
(* aggregators keep in memory and in a file.  Getters refresh the access   *)
(* time of an element; AddValues adds elements and evicts the ones not     *)
(* used for the longest time; the file is written as a whole.              *)
(*                                                                         *)
(* mu protects the fields.  Modifiers look at the cache under mu.RLock,    *)
(* release it, and change the cache under mu.Lock; modifyMu keeps other    *)
(* modifiers out in between, but not getters.  Each hold of mu is one      *)
(* action.  Save holds both locks to its end, so it is one action.         *)
(*                                                                         *)
(* A mapping never changes, so a string stands for its value too.  A       *)
(* string is its length, and no two strings of the model have the same;    *)
(* empty strings and marker values, which AddValues skips, are left out.   *)
(***************************************************************************)
EXTENDS Integers, Sequences, FiniteSets, FiniteSetsExt, SequencesExt

CONSTANTS
    Strings,
    Times,          \* accessTS and nowUnix of callers
    MaxSizes,       \* values of config.MappingCacheSize
    MaxTTLs,        \* values of config.MappingCacheTTL
    ShrinkShare,    \* 1024: the part of the cache removed at once if it got too large
    Getters, Modifiers,
    NoModifier,
    MaxVersion      \* bound of the model: calls of AddValues that change something

ASSUME CacheAssumption ==
    /\ Strings \subseteq Nat \ {0} /\ Times \subseteq Nat \ {0} /\ MaxSizes \subseteq Nat
    /\ MaxTTLs \subseteq Nat /\ ShrinkShare \in Nat \ {0} /\ MaxVersion \in Nat
    /\ NoModifier \notin Modifiers

VARIABLES
    running,
    cache,                      \* string -> accessTS
    sumSize, sumTS,
    maxSize, maxTTL,
    version, lastSavedVersion,
    modifyMu,                   \* the modifier that holds it
    getter,                     \* getter -> where it is in GetValue
    modifier,                   \* modifier -> where it is, and its locals
    stored,                     \* the mappings in the file
    panicked                    \* history: addSumTSLocked panicked

fields == <<cache, sumSize, sumTS>>
config == <<maxSize, maxTTL>>
versions == <<version, lastSavedVersion>>
vars == <<running, fields, config, versions, modifyMu, getter, modifier, stored, panicked>>

elementSizeMem(s) == (s * 5) \div 4 + 32
SizeOf(S) == MapThenSumSet(elementSizeMem, S)
TotalTS(f) == MapThenSumSet(LAMBDA s : f[s], DOMAIN f)

Empty == [s \in {} |-> 0]
NotGetting == [pc |-> "idle", str |-> 0, ts |-> 0]
NotModifying == [pc |-> "idle", now |-> 0, pairs |-> <<>>, maxSize |-> 0, maxTTL |-> 0, items |-> Empty]

Init ==
    /\ running = TRUE
    /\ cache = Empty /\ sumSize = 0 /\ sumTS = 0
    /\ maxSize \in MaxSizes /\ maxTTL \in MaxTTLs
    /\ version = 0 /\ lastSavedVersion = 0
    /\ modifyMu = NoModifier
    /\ getter = [g \in Getters |-> NotGetting]
    /\ modifier = [m \in Modifiers |-> NotModifying]
    /\ stored = Empty
    /\ panicked = FALSE

-----------------------------------------------------------------------------
(* Getters. *)

\* GetValue and GetValueBytes under RLock; a miss or a fresh element ends the call.
GetValue(g, ts, s) ==
    /\ running /\ getter[g].pc = "idle"
    /\ s \in DOMAIN cache /\ cache[s] < ts
    /\ getter' = [getter EXCEPT ![g] = [pc |-> "update", str |-> s, ts |-> ts]]
    /\ UNCHANGED <<running, fields, config, versions, modifyMu, modifier, stored, panicked>>

\* Fault: an element evicted meanwhile is added back.
touchedAgain(s, ts) == [x \in DOMAIN cache \cup {s} |-> IF x = s THEN ts ELSE cache[x]]

\* Elements are never added back, only their accessTS is updated.
touched(s, ts) == IF s \in DOMAIN cache THEN [cache EXCEPT ![s] = ts] ELSE cache

\* TryLock fails while anyone else is at the cache; then nothing is updated.
updateAccessTS(g) ==
    LET s == getter[g].str IN
    /\ running /\ getter[g].pc = "update"
    /\ getter' = [getter EXCEPT ![g] = NotGetting]
    /\ \/ UNCHANGED <<cache, sumTS>>
       \/ /\ cache' = touched(s, getter[g].ts)
          /\ sumTS' = IF s \in DOMAIN cache THEN sumTS - cache[s] + getter[g].ts ELSE sumTS
    /\ UNCHANGED <<running, sumSize, config, versions, modifyMu, modifier, stored, panicked>>

-----------------------------------------------------------------------------
(* Modifiers. *)

SetSizeTTL(size, ttl) ==
    /\ running
    /\ maxSize' = size /\ maxTTL' = ttl
    /\ UNCHANGED <<running, fields, versions, modifyMu, getter, modifier, stored, panicked>>

\* The limits are loaded before modifyMu is taken.
AddValues(m, now, pairs) ==
    /\ running /\ modifier[m].pc = "idle" /\ version < MaxVersion
    /\ modifier' = [modifier EXCEPT ![m] = [NotModifying EXCEPT
                        !.pc = "add", !.now = now, !.pairs = pairs, !.maxSize = maxSize, !.maxTTL = maxTTL]]
    /\ UNCHANGED <<running, fields, config, versions, modifyMu, getter, stored, panicked>>

RemoveByTTL(m, now) ==
    /\ running /\ modifier[m].pc = "idle"
    /\ modifier' = [modifier EXCEPT ![m] = [NotModifying EXCEPT !.pc = "expire", !.now = now, !.maxTTL = maxTTL]]
    /\ UNCHANGED <<running, fields, config, versions, modifyMu, getter, stored, panicked>>

\* Fault: modifiers are not kept out.
anyMoment == TRUE

mayModify == modifyMu = NoModifier

expiredTTL(ts, now, ttl) == ttl > 0 /\ ts + ttl < now

Snapshot(S) == [s \in S |-> cache[s]]

\* Map iteration visits elements in the given order and stops at twice the number of
\* elements that is barely enough.
candidates(order, removeSize) ==
    LET enough == {n \in 0 .. Len(order) : SizeOf(ToSet(SubSeq(order, 1, n))) >= removeSize}
        n == IF enough = {} THEN Len(order) ELSE Max({1, 2 * Min(enough)})
    IN  ToSet(SubSeq(order, 1, Min({n, Len(order)})))

\* How much has to go for new elements of this size; if the limit was lowered the cache
\* shrinks slowly.
removeSize(newSize, limit) ==
    LET excess == sumSize + newSize - limit
    IN  IF excess > newSize /\ excess > sumSize \div ShrinkShare THEN sumSize \div ShrinkShare ELSE excess

\* What AddValues may evict: nothing if the new elements fit.
selections(pairs, limit) ==
    LET newSize == SizeOf(ToSet(pairs)) IN
    IF sumSize + newSize <= limit THEN {{}}
    ELSE {candidates(order, removeSize(newSize, limit)) : order \in SetToSeqs(DOMAIN cache)}

\* AddValues under RLock, without a change when no string is new.
selectEvicted(m) ==
    LET pairs == SelectSeq(modifier[m].pairs, LAMBDA s : s \notin DOMAIN cache) IN
    /\ running /\ modifier[m].pc = "add" /\ mayModify
    /\ \/ /\ pairs = <<>>
          /\ modifier' = [modifier EXCEPT ![m] = NotModifying]
          /\ UNCHANGED modifyMu
       \/ /\ pairs # <<>>
          /\ \E S \in selections(pairs, modifier[m].maxSize) :
                modifier' = [modifier EXCEPT ![m].pc = "added", ![m].pairs = pairs, ![m].items = Snapshot(S)]
          /\ modifyMu' = m
    /\ UNCHANGED <<running, fields, config, versions, getter, stored, panicked>>

\* RemoveByTTL under RLock: the expired among the first elements visited.
selectExpired(m) ==
    /\ running /\ modifier[m].pc = "expire" /\ mayModify
    /\ \E S \in SUBSET {s \in DOMAIN cache : expiredTTL(cache[s], modifier[m].now, modifier[m].maxTTL)} :
          \/ /\ S = {}
             /\ modifier' = [modifier EXCEPT ![m] = NotModifying]
             /\ UNCHANGED modifyMu
          \/ /\ S # {}
             /\ modifier' = [modifier EXCEPT ![m].pc = "expired", ![m].items = Snapshot(S)]
             /\ modifyMu' = m
    /\ UNCHANGED <<running, fields, config, versions, getter, stored, panicked>>

needsSpace(newSize, removed, limit) == sumSize - removed + newSize > limit

\* The elements AddValues evicts, visited from the one not used for the longest time:
\* expired ones, then as many as needed, but none used since nowUnix.
evicted(l, order) ==
    LET before(i) == SizeOf(ToSet(SubSeq(order, 1, i - 1)))
        stops(i)  == \/ l.items[order[i]] >= l.now
                     \/ /\ ~expiredTTL(l.items[order[i]], l.now, l.maxTTL)
                        /\ ~needsSpace(SizeOf(ToSet(l.pairs)), before(i), l.maxSize)
        n == Min({i \in DOMAIN order : stops(i)} \cup {Len(order) + 1})
    IN  ToSet(SubSeq(order, 1, n - 1))

Sorted(items) ==
    {o \in SetToSeqs(DOMAIN items) : \A i, j \in DOMAIN o : i < j => items[o[i]] <= items[o[j]]}

\* Fault: new elements are added whether they fit or not.
addedAlways(l, size) == ToSet(l.pairs)

\* The new elements that fit next to what is left.
added(l, size) ==
    LET fits(n) == size + SizeOf(ToSet(SubSeq(l.pairs, 1, n))) <= l.maxSize
    IN  ToSet(SubSeq(l.pairs, 1, Max({n \in 0 .. Len(l.pairs) : \A k \in 1 .. n : fits(k)})))

processEnds ==
    /\ running' = FALSE
    /\ cache' = Empty /\ sumSize' = 0 /\ sumTS' = 0
    /\ version' = 0 /\ lastSavedVersion' = 0
    /\ modifyMu' = NoModifier
    /\ getter' = [g \in Getters |-> NotGetting]
    /\ modifier' = [m \in Modifiers |-> NotModifying]

\* removeItem subtracts the accessTS seen under RLock; a negative sum is a panic.
change(m, remove, add) ==
    LET l    == modifier[m]
        left == sumTS - TotalTS([s \in remove |-> l.items[s]])
    IN  IF left < 0
        THEN /\ processEnds /\ panicked' = TRUE
        ELSE /\ cache' = [s \in (DOMAIN cache \ remove) \cup add |-> IF s \in add THEN l.now ELSE cache[s]]
             /\ sumSize' = sumSize - SizeOf(remove) + SizeOf(add)
             /\ sumTS' = left + l.now * Cardinality(add)
             /\ version' = IF l.pc = "added" THEN version + 1 ELSE version
             /\ modifyMu' = NoModifier
             /\ modifier' = [modifier EXCEPT ![m] = NotModifying]
             /\ UNCHANGED <<running, lastSavedVersion, getter, panicked>>

\* AddValues and RemoveByTTL under Lock.
replace(m) ==
    /\ running /\ modifier[m].pc = "added"
    /\ \E order \in Sorted(modifier[m].items) :
          LET remove == evicted(modifier[m], order)
          IN  change(m, remove, added(modifier[m], sumSize - SizeOf(remove)))
    /\ UNCHANGED <<config, stored>>

removeExpired(m) ==
    /\ running /\ modifier[m].pc = "expired"
    /\ change(m, DOMAIN modifier[m].items, {})
    /\ UNCHANGED <<config, stored>>

-----------------------------------------------------------------------------
(* The file. *)

\* Fault: a failed save counts as a save.
savedAnyway(ok) == version

savedVersion(ok) == IF ok THEN version ELSE lastSavedVersion

\* Chunks are chained by their hashes: a failed save, or a crash during a save, leaves the
\* old content if nothing was written yet, else the first chunks of the new one.
Save ==
    /\ running /\ mayModify /\ version # lastSavedVersion
    /\ \E ok \in BOOLEAN :
          /\ stored' \in IF ok THEN {cache} ELSE {stored} \cup {Snapshot(S) : S \in SUBSET DOMAIN cache}
          /\ lastSavedVersion' = savedVersion(ok)
    /\ UNCHANGED <<running, fields, config, version, modifyMu, getter, modifier, panicked>>

\* A crash, or the end of a process that may have saved before.
Stop == running /\ processEnds /\ UNCHANGED <<config, stored, panicked>>

\* A new process loads the file, up to the first damaged chunk, whatever the limits are.
load ==
    /\ ~running
    /\ running' = TRUE
    /\ \E S \in SUBSET DOMAIN stored :
          LET f == [s \in S |-> stored[s]]
          IN  cache' = f /\ sumSize' = SizeOf(S) /\ sumTS' = TotalTS(f)
    /\ UNCHANGED <<config, versions, modifyMu, getter, modifier, stored, panicked>>

Batches == {p \in SeqOf(Strings, 2) : p # <<>> /\ IsInjective(p)}

Next ==
    \/ \E g \in Getters : updateAccessTS(g) \/ \E ts \in Times, s \in Strings : GetValue(g, ts, s)
    \/ \E m \in Modifiers :
        \/ \E now \in Times : RemoveByTTL(m, now) \/ \E pairs \in Batches : AddValues(m, now, pairs)
        \/ selectEvicted(m) \/ selectExpired(m) \/ replace(m) \/ removeExpired(m)
    \/ \E size \in MaxSizes, ttl \in MaxTTLs : SetSizeTTL(size, ttl)
    \/ Save \/ Stop \/ load

Spec == Init /\ [][Next]_vars

-----------------------------------------------------------------------------
(* Properties. *)

\* mappings_cache.go:208 - sumSize is the size of the elements in the cache, whatever
\* getters, evictions and reloads do in between; eviction and limits depend on it alone.
SizeAccounted == sumSize = SizeOf(DOMAIN cache)

\* mappings_cache.go:399, :412 "adding existing item", "removing not existing item" - what a
\* modifier selected under RLock is still right when it has the lock.
SelectionValid ==
    \A m \in Modifiers :
        /\ modifier[m].pc \in {"added", "expired"} => DOMAIN modifier[m].items \subseteq DOMAIN cache
        /\ modifier[m].pc = "added" => ToSet(modifier[m].pairs) \cap DOMAIN cache = {}

\* mappings_cache.go:380 - AddValues leaves the cache within the limit it started with, or
\* at least not larger than it was.
WithinLimit ==
    [][\A m \in Modifiers :
        running' /\ modifier[m].pc = "added" /\ modifier'[m].pc = "idle" =>
            sumSize' <= modifier[m].maxSize \/ sumSize' <= sumSize]_vars

\* mappings_cache.go:438 - when Save finds nothing to do, every mapping in memory is in the
\* file, so nothing is learned again after a restart.
NothingUnsaved == running /\ version = lastSavedVersion => DOMAIN cache \subseteq DOMAIN stored

\* mappings_cache.go:203 - the panic "sumTS negative" never happens: as mappings_cache.go:351
\* says, "due to modifyMu.Lock we always successfully upgrade to c.mu.Lock with no updates
\* between", so what is subtracted was added.
SumTSNeverNegative == ~panicked
=============================================================================
