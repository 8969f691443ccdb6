----------------------------- MODULE JournalFast -----------------------------
(***************************************************************************)
(* The versioned journal of metric descriptions on its way from the        *)
(* metadata engine through the aggregators to the agents.                  *)
(*                                                                         *)
(* The engine keeps one row per entity, with the version of its last edit. *)
(* Every aggregator keeps a compact journal: dashboards are dropped, and   *)
(* so are edits that do not change what is left of the entity.  An agent   *)
(* asks some aggregator for everything after the last version it has seen. *)
(* Aggregators and agents run the same code (JournalFast) and save the     *)
(* journal to a file now and then.                                         *)
(*                                                                         *)
(* One goroutine per node asks for updates and applies them.  Nobody else  *)
(* changes the version it asks from, so that asking, answering and         *)
(* applying are one action; the broadcast to waiting agents that follows   *)
(* an update is another one.                                               *)
(***************************************************************************)
EXTENDS Integers, FiniteSets, FiniteSetsExt

CONSTANTS
    Aggregators, Agents,
    Entities, Dashboards,   \* entities in the journal, and those aggregators drop
    Values,                 \* of each entity: what compactJournalEvent leaves of it
    MaxVersion, MaxFaults   \* bounds: edits; restarts and failures of the engine

ASSUME JournalAssumption ==
    /\ Entities # {} /\ Dashboards \subseteq Entities /\ Aggregators \cap Agents = {}
    /\ \A e \in Entities : Values[e] \subseteq Nat \ {0}
    /\ MaxVersion \in Nat /\ MaxFaults \in Nat

Nodes == Aggregators \cup Agents
None == [value |-> 0, version |-> 0]    \* the entity does not exist
Empty == [e \in Entities |-> None]

VARIABLES
    row,            \* the metadata engine
    journal, loaderVersion,     \* of every node
    file, lastSavedVersion,
    metricsDead,    \* of every aggregator: the engine does not answer
    broadcasting,   \* aggregators about to call broadcastJournal
    clients,        \* metricsVersionClients3: agents waiting in a long poll
    skipped,        \* history: edits some aggregator took for no change
    panicked,       \* history: an event was added out of order
    faults

server == <<metricsDead, broadcasting>>
storage == <<file, lastSavedVersion>>
history == <<skipped, panicked>>
vars == <<row, journal, loaderVersion, storage, server, clients, history, faults>>

version(j) == Max({j[e].version : e \in Entities})

Init ==
    /\ row = Empty
    /\ journal = [n \in Nodes |-> Empty]
    /\ loaderVersion = [n \in Nodes |-> 0] /\ lastSavedVersion = loaderVersion
    /\ file = [n \in Nodes |-> [loaderVersion |-> 0, lastEventVersion |-> 0, journal |-> Empty]]
    /\ metricsDead = [g \in Aggregators |-> FALSE] /\ broadcasting = {}
    /\ clients = [g \in Aggregators |-> {}]
    /\ skipped = {} /\ panicked = FALSE /\ faults = 0

\* The entries up to a version, and after it.
cut(j, v) == [e \in Entities |-> IF j[e].version <= v THEN j[e] ELSE None]

\* Fault: the version asked from is sent again.
afterOrAt(j, v) == [e \in Entities |-> IF j[e].version >= v THEN j[e] ELSE None]

after(j, v) == [e \in Entities |-> IF j[e].version > v THEN j[e] ELSE None]

\* Fault: the limits keep the newest entries.
DiffsNewest(j, from) == {after(j, v) : v \in from .. version(j)} \ {Empty}

\* What getJournalDiffLocked3 may return: the oldest entries after a version, cut by limits on
\* number and size.
Diffs(j, from) == {cut(after(j, from), v) : v \in from + 1 .. version(j)} \ {Empty}

-----------------------------------------------------------------------------
\* The metadata engine, modelled from how aggregators use it.

edit(e, v) ==
    /\ version(row) < MaxVersion
    /\ row' = [row EXCEPT ![e] = [value |-> v, version |-> version(row) + 1]]
    /\ UNCHANGED <<journal, loaderVersion, storage, server, clients, history, faults>>

-----------------------------------------------------------------------------
\* applyUpdate

\* equalWithoutVersionJournalEvent
unchanged(j, events, e) == j[e].version # 0 /\ j[e].value = events[e].value

\* What compaction leaves of the events.
compacted(j, events) ==
    [e \in Entities |-> IF e \in Dashboards \/ unchanged(j, events, e) THEN None ELSE events[e]]

Has(events) == {e \in Entities : events[e].version # 0}

\* addEventLocked for all of the events.
added(j, events) == [e \in Entities |-> IF e \in Has(events) THEN events[e] ELSE j[e]]

\* addEventLocked panics.
tooOld(j, events) == \E e \in Has(events) : events[e].version <= version(j)

-----------------------------------------------------------------------------
\* updateJournalIsFinished of an aggregator: it asks the engine.

updateAggregator(g) ==
    /\ g \notin broadcasting
    /\ \E events \in Diffs(row, loaderVersion[g]) :
        LET kept == compacted(journal[g], events) IN
        /\ journal' = [journal EXCEPT ![g] = added(@, kept)]
        /\ panicked' = (panicked \/ tooOld(journal[g], kept))
        /\ loaderVersion' = [loaderVersion EXCEPT ![g] = version(events)]   \* not that of kept
        /\ broadcasting' = IF kept = Empty THEN broadcasting ELSE broadcasting \cup {g}
        /\ skipped' = skipped \cup {events[e].version : e \in Has(events) \ (Has(kept) \cup Dashboards)}
    /\ metricsDead' = [metricsDead EXCEPT ![g] = FALSE]
    /\ UNCHANGED <<row, storage, clients, faults>>

\* A dead aggregator does not wait for news but for any answer.
engineIsBack(g) ==
    /\ g \notin broadcasting /\ metricsDead[g]
    /\ version(row) <= loaderVersion[g]
    /\ metricsDead' = [metricsDead EXCEPT ![g] = FALSE]
    /\ UNCHANGED <<row, journal, loaderVersion, storage, broadcasting, clients, history, faults>>

engineFails(g) ==
    /\ g \notin broadcasting /\ ~metricsDead[g]
    /\ faults < MaxFaults
    /\ faults' = faults + 1
    /\ metricsDead' = [metricsDead EXCEPT ![g] = TRUE]
    /\ broadcasting' = broadcasting \cup {g}
    /\ UNCHANGED <<row, journal, loaderVersion, storage, clients, history>>

-----------------------------------------------------------------------------
\* What an aggregator does for the agents.

Waiting(a) == \E g \in Aggregators : a \in clients[g]

\* The agents' part: what they are sent is applied as it is.
updateAgents(events) ==
    /\ journal' = [n \in Nodes |-> IF n \in DOMAIN events THEN added(journal[n], events[n]) ELSE journal[n]]
    /\ panicked' = (panicked \/ \E a \in DOMAIN events : tooOld(journal[a], events[a]))
    /\ loaderVersion' = [n \in Nodes |-> IF n \in DOMAIN events THEN version(events[n]) ELSE loaderVersion[n]]

\* Agent a asks aggregator g, an arbitrary one every time.  A dead one answers with an error.
HandleGetMetrics3(g, a) ==
    LET diffs == Diffs(journal[g], loaderVersion[a]) IN
    /\ ~Waiting(a) /\ ~metricsDead[g]
    /\ \/ /\ \E events \in diffs : updateAgents([n \in {a} |-> events])
          /\ UNCHANGED clients
       \/ /\ diffs = {}
          /\ clients' = [clients EXCEPT ![g] = @ \cup {a}]
          /\ UNCHANGED <<journal, loaderVersion, panicked>>
    /\ UNCHANGED <<row, storage, server, skipped, faults>>

\* The connection is lost.
CancelLongpoll(g, a) ==
    /\ a \in clients[g]
    /\ clients' = [clients EXCEPT ![g] = @ \ {a}]
    /\ UNCHANGED <<row, journal, loaderVersion, storage, server, history, faults>>

\* Fault: a dead aggregator lets its clients wait.
servedIfAlive(g, a) == ~metricsDead[g] /\ Diffs(journal[g], loaderVersion[a]) # {}

\* A waiting client gets an error, or what is new for it.
served(g, a) == metricsDead[g] \/ Diffs(journal[g], loaderVersion[a]) # {}

broadcastJournal(g) ==
    LET ready == {a \in clients[g] : served(g, a)} IN
    /\ g \in broadcasting
    /\ broadcasting' = broadcasting \ {g}
    /\ clients' = [clients EXCEPT ![g] = @ \ ready]
    /\ \E events \in [ready -> UNION {Diffs(journal[g], loaderVersion[a]) : a \in ready} \cup {Empty}] :
        /\ \A a \in ready : metricsDead[g] \/ events[a] \in Diffs(journal[g], loaderVersion[a])
        /\ updateAgents([a \in IF metricsDead[g] THEN {} ELSE ready |-> events[a]])
    /\ UNCHANGED <<row, storage, metricsDead, skipped, faults>>

-----------------------------------------------------------------------------
\* Files.

\* Bound: nothing is saved when no restart can follow.
Save(n) ==
    /\ faults < MaxFaults
    /\ lastSavedVersion[n] # version(journal[n])
    /\ lastSavedVersion' = [lastSavedVersion EXCEPT ![n] = version(journal[n])]
    /\ file' = [file EXCEPT ![n] = [loaderVersion |-> loaderVersion[n],
                                    lastEventVersion |-> version(journal[n]), journal |-> journal[n]]]
    /\ UNCHANGED <<row, journal, loaderVersion, server, clients, history, faults>>

\* Fault: the loader version in the file is believed although its events are missing.
believed(f, j) == TRUE

\* The journal was read to the end.
complete(f, j) == f.lastEventVersion = version(j) /\ f.loaderVersion >= version(j)

\* A node stops at any time and loads what it finds in the file: the events up to v, if the
\* file is damaged.
restart(n, v) ==
    LET j == cut(file[n].journal, v) IN
    /\ faults < MaxFaults
    /\ faults' = faults + 1
    /\ file' = [file EXCEPT ![n].journal = j]
    /\ journal' = [journal EXCEPT ![n] = j]
    /\ loaderVersion' = [loaderVersion EXCEPT ![n] =
          IF complete(file[n], j) THEN file[n].loaderVersion ELSE version(j)]
    /\ lastSavedVersion' = [lastSavedVersion EXCEPT ![n] = 0]
    /\ metricsDead' = [g \in Aggregators |-> metricsDead[g] /\ g # n]
    /\ broadcasting' = broadcasting \ {n}
    /\ clients' = [g \in Aggregators |-> IF g = n THEN {} ELSE clients[g] \ {n}]
    /\ UNCHANGED <<row, history>>

Next ==
    \/ \E e \in Entities : \E v \in Values[e] : edit(e, v)
    \/ \E g \in Aggregators :
        \/ updateAggregator(g) \/ engineIsBack(g) \/ engineFails(g) \/ broadcastJournal(g)
        \/ \E a \in Agents : HandleGetMetrics3(g, a) \/ CancelLongpoll(g, a)
    \/ \E n \in Nodes : Save(n) \/ (\E v \in 0 .. MaxVersion : restart(n, v))

Spec == Init /\ [][Next]_vars

-----------------------------------------------------------------------------
\* Properties.

\* journal_fast.go:324 - "journal order invariant violated - adding old element": whichever
\* aggregator answers, and whatever was lost in a restart, events are added in order.
NothingOldAdded == ~panicked

\* journal_fast.go:135 - an aggregator has every edit up to the version it asks from, also after
\* a restart from a file that is old or cut: it never asks for them again.
NothingMissed ==
    \A g \in Aggregators, e \in Entities \ Dashboards :
        row[e].version <= loaderVersion[g] => journal[g][e].value = row[e].value

\* journal_fast.go:393 - "we have exactly 0 long poll clients waiting, because we respond with
\* error when metricsDead true": a client waits only as long as there is nothing to tell it.
ClientsWaitRightly ==
    \A g \in Aggregators : g \notin broadcasting => \A a \in clients[g] :
        ~metricsDead[g] /\ version(journal[g]) <= loaderVersion[a]

\* The agent waits at an aggregator that has seen all edits.
Delivered(g, a) ==
    a \in clients[g] /\ g \notin broadcasting /\ loaderVersion[g] >= version(row)

Same(g, a) == \A e \in Entities : journal[a][e].value = journal[g][e].value

\* journal_fuzz_test.go:188 - "journal hash mismatch": when everything is delivered, an agent
\* has the same journal as its aggregator.
AgentHasJournal == \A g \in Aggregators, a \in Agents : Delivered(g, a) => Same(g, a)

\* journal_fast.go:474 - an agent and its aggregator differ, when everything is delivered, only
\* in entities whose last edit some aggregator took for no change.
DiffersOnlyIfSkipped ==
    \A g \in Aggregators, a \in Agents : Delivered(g, a) =>
        \A e \in Entities : row[e].version \notin skipped => journal[a][e].value = journal[g][e].value
==============================================================================
