------------------------- MODULE JournalFastProofs --------------------------
(***************************************************************************)
(* The journal never panics, misses no edit and answers every client, for  *)
(* any number of aggregators, agents, entities and edits: the inductive    *)
(* invariant of JournalFast, what its operators do, that each action keeps *)
(* the invariant, and the properties that follow.                          *)
(***************************************************************************)
EXTENDS JournalFast, TLAPS, WellFoundedInduction

Versions == 0 .. MaxVersion
Journals == [Entities -> [value : Nat, version : Versions]]

TypeInv ==
    /\ row \in Journals
    /\ journal \in [Nodes -> Journals] /\ loaderVersion \in [Nodes -> Versions]
    /\ file \in [Nodes -> [loaderVersion : Versions, lastEventVersion : Versions, journal : Journals]]
    /\ metricsDead \in [Aggregators -> BOOLEAN] /\ broadcasting \subseteq Aggregators
    /\ clients \in [Aggregators -> SUBSET Agents]

\* The version a node would ask from if it started with file f.
startVersion(f) == IF complete(f, f.journal) THEN f.loaderVersion ELSE version(f.journal)

\* Nodes ask from a version that none of their events is beyond.
OrderInv ==
    \A n \in Nodes :
        /\ \A e \in Entities : journal[n][e].version <= loaderVersion[n]
        /\ version(file[n].journal) <= file[n].lastEventVersion

\* Journal j has what the engine has, up to version v, and does not take it for newer.
HasAll(j, v) ==
    \A e \in Entities \ Dashboards : row[e].version <= v =>
        j[e].value = row[e].value /\ j[e].version <= row[e].version

\* What an aggregator or its file has up to the version it asks from.
CompleteInv ==
    \A g \in Aggregators :
        /\ loaderVersion[g] <= version(row) /\ HasAll(journal[g], loaderVersion[g])
        /\ startVersion(file[g]) <= version(row) /\ HasAll(file[g].journal, startVersion(file[g]))

IInv == TypeInv /\ OrderInv /\ CompleteInv /\ ClientsWaitRightly /\ ~panicked

-----------------------------------------------------------------------------

\* A set of numbers below a bound has a largest element.
LEMMA Largest ==
  ASSUME NEW B \in Nat, NEW S, S \subseteq 0 .. B, S # {}
  PROVE  Max(S) \in S /\ \A x \in S : x <= Max(S)
<1> DEFINE T == {n \in Nat : n <= B /\ B - n \in S}
           R == OpToRel(<, Nat)
<1>1. T \subseteq Nat /\ T # {}
  <2>1. PICK z : z \in S /\ z \in 0 .. B
    BY Zenon
  <2>2. B - z \in Nat /\ B - z <= B /\ B - (B - z) = z
    BY <2>1
  <2>3. B - z \in T
    BY <2>1, <2>2, Zenon
  <2> QED BY <2>3, Zenon
<1>2. \E x \in T : \A y \in T : ~(<<y, x>> \in R)
  <2> HIDE DEF R, T
  <2>1. IsWellFoundedOn(R, Nat)
    BY NatLessThanWellFounded, Zenon DEF R
  <2> QED BY <1>1, <2>1, WFMin, Zenon
<1>3. PICK x \in T : \A y \in T : ~(<<y, x>> \in R)
  BY <1>2, Zenon
<1>4. \A y \in T : ~(y < x)
  <2> SUFFICES ASSUME NEW y \in T, y < x PROVE FALSE
    BY Zenon
  <2>1. y \in Nat /\ x \in Nat
    BY <1>1, Zenon
  <2>2. <<y, x>> \in R
    BY <2>1, Zenon DEF OpToRel
  <2> QED BY <1>3, <2>2, Zenon
<1>5. \A z \in S : z <= B - x
  <2> TAKE z \in S
  <2>1. z \in 0 .. B /\ B - z \in Nat /\ B - z <= B /\ B - (B - z) = z
    OBVIOUS
  <2>2. B - z \in T
    BY <2>1, Zenon
  <2>3. ~(B - z < x) /\ x \in Nat
    BY <1>4, <2>2, Zenon
  <2> QED BY <2>1, <2>3
<1>6. B - x \in S
  BY Zenon
<1>7. \E m \in S : \A z \in S : m >= z
  <2>1. \A z \in S : z \in Nat
    OBVIOUS
  <2> QED BY <1>5, <1>6, <2>1, Zenon
<1>8. Max(S) \in S /\ \A z \in S : Max(S) >= z
  BY <1>7, Zenon DEF Max
<1> QED BY <1>8, Zenon

\* The version of a journal is its largest one.
LEMMA Version ==
  ASSUME NEW j \in Journals
  PROVE  /\ version(j) \in Versions
         /\ \A e \in Entities : j[e].version <= version(j) /\ j[e].version \in Nat
         /\ \E e \in Entities : j[e].version = version(j)
<1> DEFINE S == {j[e].version : e \in Entities}
<1>1. S \subseteq 0 .. MaxVersion /\ S # {} /\ MaxVersion \in Nat
  BY JournalAssumption DEF Journals, Versions
<1>2. Max(S) \in S /\ \A x \in S : x <= Max(S)
  BY <1>1, Largest, Zenon
<1>3. version(j) = Max(S)
  BY Zenon DEF version
<1> QED BY <1>1, <1>2, <1>3 DEF Versions

\* The events are those of j after one version, up to their own largest one.
Part(events, j, from) ==
    /\ events \in Journals /\ version(events) \in Versions /\ from < version(events)
    /\ \A e \in Entities : events[e] = IF from < j[e].version /\ j[e].version <= version(events)
                                       THEN j[e] ELSE None

\* What getJournalDiffLocked3 returns.
LEMMA DiffPart ==
  ASSUME NEW j \in Journals, NEW from \in Versions, NEW events \in Diffs(j, from)
  PROVE  Part(events, j, from)
<1>1. PICK v \in from + 1 .. version(j) : events = cut(after(j, from), v) /\ events # Empty
  BY Zenon DEF Diffs
<1>2. None \in [value : Nat, version : Versions] /\ None.version = 0
  BY JournalAssumption DEF None, Versions
<1>3. version(j) \in Versions /\ v \in Nat /\ from \in Nat
  BY Version DEF Versions
<1>4. \A e \in Entities : j[e] \in [value : Nat, version : Versions] /\ j[e].version \in Nat
  BY Version, Zenon DEF Journals
<1>5. events \in [Entities -> [value : Nat, version : Versions]]
  BY <1>1, <1>2, <1>4, Zenon DEF cut, after
<1>6. \A e \in Entities : events[e] = IF from < j[e].version /\ j[e].version <= v THEN j[e] ELSE None
  BY <1>1, <1>2, <1>3, <1>4, Zenon DEF cut, after
<1>7. /\ version(events) \in Versions
      /\ \A e \in Entities : events[e].version <= version(events)
      /\ \E e \in Entities : events[e].version = version(events)
  BY <1>5, Version, Zenon DEF Journals
<1>8. version(events) <= v /\ version(events) \in Nat
  BY <1>2, <1>3, <1>4, <1>6, <1>7 DEF Versions
<1>9. \E e \in Entities : events[e] # None
  BY <1>1, <1>5, Zenon DEF Empty
<1>10. from < version(events)
  BY <1>3, <1>4, <1>6, <1>7, <1>8, <1>9
<1>11. \A e \in Entities : events[e] = IF from < j[e].version /\ j[e].version <= version(events) THEN j[e] ELSE None
  BY <1>3, <1>4, <1>6, <1>7, <1>8
<1> QED BY <1>5, <1>7, <1>10, <1>11, Zenon DEF Part, Journals

\* There is something to return if the journal is ahead.
LEMMA NoDiff ==
  ASSUME NEW j \in Journals, NEW from \in Versions, Diffs(j, from) = {}
  PROVE  version(j) <= from
<1> SUFFICES ASSUME from < version(j) PROVE FALSE
  BY Version DEF Versions
<1> DEFINE events == cut(after(j, from), version(j))
<1>1. PICK e \in Entities : j[e].version = version(j)
  BY Version, Zenon
<1>2. version(j) \in Nat /\ from \in Nat /\ version(j) \in from + 1 .. version(j)
  BY Version DEF Versions
<1>3. events[e] = j[e] /\ Empty[e] = None /\ None.version = 0
  BY <1>1, <1>2 DEF cut, after, Empty, None
<1>4. events # Empty
  BY <1>1, <1>2, <1>3
<1>5. events \in Diffs(j, from)
  BY <1>2, <1>4, Zenon DEF Diffs
<1> QED BY <1>5, Zenon

\* Adding events that are newer than the journal.
LEMMA Added ==
  ASSUME NEW j \in Journals, NEW from \in Versions, NEW to \in Versions, from <= to,
         \A e \in Entities : j[e].version <= from,
         NEW events \in Journals,
         \A e \in Entities : events[e].version = 0 \/ (from < events[e].version /\ events[e].version <= to)
  PROVE  /\ added(j, events) \in Journals /\ ~tooOld(j, events)
         /\ \A e \in Entities : added(j, events)[e].version <= to
<1>1. \A e \in Entities : /\ j[e] \in [value : Nat, version : Versions] /\ j[e].version \in Nat
                          /\ events[e] \in [value : Nat, version : Versions] /\ events[e].version \in Nat
  BY Version, Zenon DEF Journals
<1>2. added(j, events) \in Journals
  BY <1>1, Zenon DEF added, Journals
<1>3. version(j) <= from /\ version(j) \in Nat /\ from \in Nat /\ to \in Nat
  BY Version DEF Versions
<1>4. ~tooOld(j, events)
  BY <1>1, <1>3 DEF tooOld, Has
<1>5. \A e \in Entities : added(j, events)[e].version <= to
  BY <1>1, <1>3 DEF added
<1> QED BY <1>2, <1>4, <1>5, Zenon

-----------------------------------------------------------------------------
\* Nodes start empty.
LEMMA InitIInv == Init => IInv
<1> SUFFICES ASSUME Init PROVE IInv
  BY Zenon
<1> USE DEF Init
<1>1. Empty \in Journals /\ 0 \in Versions /\ \A e \in Entities : Empty[e].version = 0 /\ Empty[e] = None
  BY JournalAssumption DEF Empty, None, Journals, Versions
<1>2. version(Empty) = 0
  BY <1>1, Version, Zenon
<1>3. TypeInv
  BY <1>1, Zenon DEF TypeInv
<1>4. OrderInv
  BY <1>1, <1>2 DEF OrderInv
<1>5. CompleteInv
  BY <1>1, <1>2 DEF CompleteInv, HasAll, startVersion, complete, Nodes
<1>6. ClientsWaitRightly /\ ~panicked
  BY Zenon DEF ClientsWaitRightly
<1> QED BY <1>3, <1>4, <1>5, <1>6, Zenon DEF IInv

\* An edit is newer than all an aggregator has seen.
LEMMA EditIInv == IInv /\ (\E e \in Entities : \E v \in Values[e] : edit(e, v)) => IInv'
<1> SUFFICES ASSUME IInv, NEW e \in Entities, NEW v \in Values[e], edit(e, v) PROVE IInv'
  BY Zenon
<1>1. /\ UNCHANGED <<journal, loaderVersion, file, metricsDead, broadcasting, clients, panicked>>
      /\ version(row) < MaxVersion
      /\ row' = [row EXCEPT ![e] = [value |-> v, version |-> version(row) + 1]]
  BY Zenon DEF edit, storage, server, history
<1>2. row \in Journals /\ version(row) \in Versions /\ version(row) \in Nat /\ v \in Nat /\ MaxVersion \in Nat
  BY JournalAssumption, Version, Zenon DEF IInv, TypeInv, Versions
<1>3. row' \in Journals
  BY <1>1, <1>2 DEF Journals, Versions
<1>4. TypeInv'
  BY <1>1, <1>3, Zenon DEF IInv, TypeInv
<1>5. OrderInv'
  BY <1>1, Zenon DEF IInv, OrderInv, version
<1>6. row'[e].version = version(row) + 1 /\ \A x \in Entities : x # e => row'[x] = row[x]
  BY <1>1, <1>2, Zenon DEF Journals
<1>7. version(row') \in Nat /\ version(row) <= version(row')
  BY <1>2, <1>3, <1>6, Version DEF Versions
<1>8. CompleteInv'
  <2> SUFFICES ASSUME NEW g \in Aggregators
               PROVE  /\ loaderVersion[g] <= version(row') /\ HasAll(journal[g], loaderVersion[g])'
                      /\ startVersion(file[g]) <= version(row') /\ HasAll(file[g].journal, startVersion(file[g]))'
    BY <1>1, Zenon DEF CompleteInv, startVersion, complete, version
  <2>1. /\ loaderVersion[g] <= version(row) /\ HasAll(journal[g], loaderVersion[g])
        /\ startVersion(file[g]) <= version(row) /\ HasAll(file[g].journal, startVersion(file[g]))
    BY Zenon DEF IInv, CompleteInv
  <2>2. loaderVersion[g] \in Nat /\ startVersion(file[g]) \in Nat
    BY Version DEF IInv, TypeInv, Nodes, Versions, startVersion
  <2>3. ASSUME NEW j, NEW b \in Nat, b <= version(row), HasAll(j, b)
        PROVE  \A x \in Entities \ Dashboards : row'[x].version <= b =>
                  j[x].value = row'[x].value /\ j[x].version <= row'[x].version
    BY <1>2, <1>6, <2>3 DEF HasAll
  <2>4. startVersion(file[g])' = startVersion(file[g])
    BY <1>1, Zenon DEF startVersion, complete, version
  <2>5. HasAll(journal[g], loaderVersion[g])'
    <3>1. journal'[g] = journal[g] /\ loaderVersion'[g] = loaderVersion[g]
      BY <1>1, Zenon
    <3>2. \A x \in Entities \ Dashboards : row'[x].version <= loaderVersion[g] =>
              journal[g][x].value = row'[x].value /\ journal[g][x].version <= row'[x].version
      BY <2>1, <2>2, <2>3, Zenon
    <3> QED BY <3>1, <3>2, Zenon DEF HasAll
  <2>6. HasAll(file[g].journal, startVersion(file[g]))'
    <3>1. file'[g].journal = file[g].journal
      BY <1>1, Zenon
    <3>2. \A x \in Entities \ Dashboards : row'[x].version <= startVersion(file[g]) =>
              file[g].journal[x].value = row'[x].value /\ file[g].journal[x].version <= row'[x].version
      BY <2>1, <2>2, <2>3, Zenon
    <3> QED BY <2>4, <3>1, <3>2, Zenon DEF HasAll
  <2> QED BY <1>2, <1>7, <2>1, <2>2, <2>5, <2>6
<1>9. ClientsWaitRightly'
  BY <1>1, Zenon DEF IInv, ClientsWaitRightly, version
<1> QED BY <1>1, <1>4, <1>5, <1>8, <1>9, Zenon DEF IInv

\* The files, and what depends on nothing else.
FilesKept == UNCHANGED <<row, file>>

\* A step that changes neither the engine nor files keeps what is said of files.
LEMMA FilesKeptInv ==
  ASSUME IInv, FilesKept
  PROVE  /\ \A n \in Nodes : (version(file[n].journal) <= file[n].lastEventVersion)'
         /\ \A g \in Aggregators : /\ (startVersion(file[g]) <= version(row))'
                                   /\ HasAll(file[g].journal, startVersion(file[g]))'
<1>1. row' = row /\ file' = file
  BY Zenon DEF FilesKept
<1>2. \A n \in Nodes : (version(file[n].journal) <= file[n].lastEventVersion)'
  BY <1>1, Zenon DEF IInv, OrderInv, version
<1>3. ASSUME NEW g \in Aggregators
      PROVE  /\ (startVersion(file[g]) <= version(row))'
             /\ HasAll(file[g].journal, startVersion(file[g]))'
  <2>1. startVersion(file[g])' = startVersion(file[g]) /\ version(row)' = version(row)
    BY <1>1, Zenon DEF startVersion, complete, version
  <2>2. startVersion(file[g]) <= version(row) /\ HasAll(file[g].journal, startVersion(file[g]))
    BY Zenon DEF IInv, CompleteInv
  <2>3. HasAll(file[g].journal, startVersion(file[g]))'
    BY <1>1, <2>1, <2>2, Zenon DEF HasAll
  <2> QED BY <2>1, <2>2, <2>3, Zenon
<1> QED BY <1>2, <1>3, Zenon

\* An aggregator that learns nothing has all it had while the engine stays the same.
LEMMA EngineSeen ==
  ASSUME IInv, row' = row, NEW g \in Aggregators, journal'[g] = journal[g], loaderVersion'[g] = loaderVersion[g]
  PROVE  (loaderVersion[g] <= version(row) /\ HasAll(journal[g], loaderVersion[g]))'
<1>1. version(row)' = version(row)
  BY Zenon DEF version
<1>2. loaderVersion[g] <= version(row) /\ HasAll(journal[g], loaderVersion[g])
  BY Zenon DEF IInv, CompleteInv
<1>3. HasAll(journal[g], loaderVersion[g])'
  BY <1>2, Zenon DEF HasAll
<1> QED BY <1>1, <1>2, <1>3, Zenon

\* Agents that got events of aggregator g.
LEMMA AgentsUpdated ==
  ASSUME IInv, NEW g \in Aggregators, NEW events, DOMAIN events \subseteq Agents,
         \A a \in DOMAIN events : events[a] \in Diffs(journal[g], loaderVersion[a]), updateAgents(events)
  PROVE  /\ journal' \in [Nodes -> Journals] /\ loaderVersion' \in [Nodes -> Versions] /\ ~panicked'
         /\ \A n \in Nodes : /\ loaderVersion[n] <= loaderVersion'[n]
                             /\ \A e \in Entities : journal'[n][e].version <= loaderVersion'[n]
         /\ \A n \in Aggregators : journal'[n] = journal[n] /\ loaderVersion'[n] = loaderVersion[n]
<1> USE DEF IInv, TypeInv
<1>1. ASSUME NEW a \in DOMAIN events
      PROVE  /\ added(journal[a], events[a]) \in Journals /\ ~tooOld(journal[a], events[a])
             /\ version(events[a]) \in Versions /\ loaderVersion[a] <= version(events[a])
             /\ \A e \in Entities : added(journal[a], events[a])[e].version <= version(events[a])
  <2>1. a \in Nodes /\ g \in Nodes /\ a \in Agents
    BY Zenon DEF Nodes
  <2>2. /\ journal[a] \in Journals /\ loaderVersion[a] \in Versions /\ journal[g] \in Journals
        /\ \A e \in Entities : journal[a][e].version <= loaderVersion[a]
    BY <2>1, Zenon DEF OrderInv
  <2>3. Part(events[a], journal[g], loaderVersion[a])
    BY <1>1, <2>2, DiffPart, Zenon
  <2>4. \A e \in Entities : \/ events[a][e].version = 0
                            \/ loaderVersion[a] < events[a][e].version /\ events[a][e].version <= version(events[a])
    BY <2>3 DEF Part, None
  <2>5. events[a] \in Journals /\ version(events[a]) \in Versions /\ loaderVersion[a] <= version(events[a])
    BY <2>2, <2>3 DEF Part, Versions
  <2> QED BY <2>2, <2>4, <2>5, Added, Zenon
<1>2. \A n \in Nodes : /\ journal'[n] = IF n \in DOMAIN events THEN added(journal[n], events[n]) ELSE journal[n]
                       /\ loaderVersion'[n] = IF n \in DOMAIN events THEN version(events[n]) ELSE loaderVersion[n]
  BY Zenon DEF updateAgents
<1>3. journal' \in [Nodes -> Journals] /\ loaderVersion' \in [Nodes -> Versions]
  BY <1>1, Zenon DEF updateAgents
<1>4. ~panicked'
  BY <1>1, Zenon DEF updateAgents
<1>5. \A n \in Nodes : /\ loaderVersion[n] <= loaderVersion'[n]
                       /\ \A e \in Entities : journal'[n][e].version <= loaderVersion'[n]
  BY <1>1, <1>2 DEF OrderInv, Versions
<1>6. \A n \in Aggregators : n \in Nodes /\ n \notin DOMAIN events
  BY JournalAssumption, Zenon DEF Nodes
<1> QED BY <1>2, <1>3, <1>4, <1>5, <1>6, Zenon

\* What an aggregator makes of the engine's events.
LEMMA Compacted ==
  ASSUME TypeInv, NEW j \in Journals, NEW from \in Versions, NEW events, Part(events, row, from),
         \A e \in Entities : j[e].version <= from, HasAll(j, from)
  PROVE  LET kept == compacted(j, events) IN
         /\ added(j, kept) \in Journals /\ ~tooOld(j, kept)
         /\ \A e \in Entities : added(j, kept)[e].version <= version(events)
         /\ HasAll(added(j, kept), version(events)) /\ version(events) <= version(row)
         /\ kept = Empty => added(j, kept) = j
<1> DEFINE kept == compacted(j, events)
           to == version(events)
<1>1. /\ to \in Versions /\ to \in Nat /\ from \in Nat /\ from < to /\ from <= to /\ events \in Journals
      /\ \A e \in Entities : events[e] = IF from < row[e].version /\ row[e].version <= to THEN row[e] ELSE None
  BY DEF Part, Versions
<1>2. /\ None \in [value : Nat, version : Versions] /\ None.version = 0
      /\ \A e \in Entities : /\ kept[e] = IF e \in Dashboards \/ unchanged(j, events, e) THEN None ELSE events[e]
                             /\ row[e] \in [value : Nat, version : Versions] /\ row[e].version \in Nat
                             /\ j[e].version \in Nat /\ row[e].version <= version(row)
  <2>1. None \in [value : Nat, version : Versions] /\ None.version = 0
    BY JournalAssumption DEF None, Versions
  <2>2. \A e \in Entities : kept[e] = IF e \in Dashboards \/ unchanged(j, events, e) THEN None ELSE events[e]
    BY Zenon DEF compacted
  <2>3. \A e \in Entities : row[e].version \in Nat /\ row[e].version <= version(row) /\ j[e].version \in Nat
    BY Version, Zenon DEF TypeInv
  <2>4. \A e \in Entities : row[e] \in [value : Nat, version : Versions]
    BY Zenon DEF Journals, TypeInv
  <2> QED BY <2>1, <2>2, <2>3, <2>4, Zenon
<1>3. kept \in Journals
  BY <1>1, <1>2, Zenon DEF compacted, Journals
<1>4. \A e \in Entities : kept[e].version = 0 \/ (from < kept[e].version /\ kept[e].version <= to)
  BY <1>1, <1>2, Zenon
<1>5. /\ added(j, kept) \in Journals /\ ~tooOld(j, kept)
      /\ \A e \in Entities : added(j, kept)[e].version <= to
  BY <1>1, <1>3, <1>4, Added, Zenon
<1>6. ASSUME NEW e \in Entities \ Dashboards, row[e].version <= to
      PROVE  added(j, kept)[e].value = row[e].value /\ added(j, kept)[e].version <= row[e].version
  <2>1. added(j, kept)[e] = IF kept[e].version # 0 THEN kept[e] ELSE j[e]
    BY Zenon DEF added, Has
  <2>2. CASE from < row[e].version /\ unchanged(j, events, e)
    BY <1>1, <1>2, <1>6, <2>1, <2>2 DEF unchanged
  <2>3. CASE from < row[e].version /\ ~unchanged(j, events, e)
    BY <1>1, <1>2, <1>6, <2>1, <2>3
  <2>4. CASE row[e].version <= from
    BY <1>1, <1>2, <2>1, <2>4 DEF HasAll
  <2> QED BY <1>1, <1>2, <2>2, <2>3, <2>4
<1>7. to <= version(row)
  <2>1. PICK e \in Entities : events[e].version = to
    BY <1>1, Version, Zenon
  <2> QED BY <1>1, <1>2, <2>1
<1>8. kept = Empty => added(j, kept) = j
  BY <1>2, Zenon DEF added, Has, Empty, Journals
<1> QED BY <1>5, <1>6, <1>7, <1>8, Zenon DEF HasAll

\* An aggregator learns what is new.
LEMMA UpdateAggregatorIInv == IInv /\ (\E g \in Aggregators : updateAggregator(g)) => IInv'
<1> SUFFICES ASSUME IInv, NEW g \in Aggregators, updateAggregator(g) PROVE IInv'
  BY Zenon
<1>1. PICK events \in Diffs(row, loaderVersion[g]) :
        LET kept == compacted(journal[g], events) IN
        /\ journal' = [journal EXCEPT ![g] = added(@, kept)]
        /\ panicked' = (panicked \/ tooOld(journal[g], kept))
        /\ loaderVersion' = [loaderVersion EXCEPT ![g] = version(events)]
        /\ broadcasting' = IF kept = Empty THEN broadcasting ELSE broadcasting \cup {g}
  BY Zenon DEF updateAggregator
<1>2. g \notin broadcasting /\ UNCHANGED <<row, file, clients>> /\ metricsDead' = [metricsDead EXCEPT ![g] = FALSE]
  BY Zenon DEF updateAggregator, storage
<1> DEFINE j == journal[g]
           kept == compacted(j, events)
           new == added(j, kept)
<1>3. /\ g \in Nodes /\ g \notin Agents /\ j \in Journals /\ loaderVersion[g] \in Versions /\ row \in Journals
      /\ \A e \in Entities : j[e].version <= loaderVersion[g]
      /\ HasAll(j, loaderVersion[g]) /\ TypeInv
  BY JournalAssumption, Zenon DEF IInv, TypeInv, OrderInv, CompleteInv, Nodes
<1>4. Part(events, row, loaderVersion[g])
  BY <1>3, DiffPart, Zenon
<1>5. /\ new \in Journals /\ ~tooOld(j, kept) /\ version(events) \in Versions
      /\ \A e \in Entities : new[e].version <= version(events)
      /\ HasAll(new, version(events)) /\ version(events) <= version(row)
      /\ kept = Empty => new = j
  BY <1>3, <1>4, Compacted, Zenon DEF Part
<1>6. /\ journal'[g] = new /\ loaderVersion'[g] = version(events)
      /\ \A n \in Nodes : n # g => journal'[n] = journal[n] /\ loaderVersion'[n] = loaderVersion[n]
      /\ broadcasting' = IF kept = Empty THEN broadcasting ELSE broadcasting \cup {g}
  BY <1>1, <1>3, Zenon DEF IInv, TypeInv
<1>7. TypeInv'
  BY <1>1, <1>2, <1>3, <1>5, Zenon DEF IInv, TypeInv
<1>8. FilesKept
  BY <1>2, Zenon DEF FilesKept
<1>9. OrderInv'
  BY <1>5, <1>6, <1>8, FilesKeptInv, Zenon DEF IInv, OrderInv
<1>10. CompleteInv'
  <2> SUFFICES ASSUME NEW h \in Aggregators
               PROVE  (loaderVersion[h] <= version(row) /\ HasAll(journal[h], loaderVersion[h]))'
    BY <1>8, FilesKeptInv, Zenon DEF CompleteInv
  <2>1. version(row)' = version(row) /\ row' = row /\ h \in Nodes
    BY <1>2, Zenon DEF version, Nodes
  <2>2. CASE h = g
    BY <1>5, <1>6, <2>1, <2>2, Zenon DEF HasAll
  <2>3. CASE h # g
    BY <1>6, <2>1, <2>3, EngineSeen, Zenon
  <2> QED BY <2>2, <2>3, Zenon
<1>11. ClientsWaitRightly'
  <2> SUFFICES ASSUME NEW h \in Aggregators, h \notin broadcasting', NEW a \in clients[h]
               PROVE  ~metricsDead'[h] /\ version(journal'[h]) <= loaderVersion'[a]
    BY <1>2, Zenon DEF ClientsWaitRightly, version
  <2>1. a \in Agents /\ a \in Nodes /\ h \in Nodes /\ loaderVersion'[a] = loaderVersion[a]
    BY <1>3, <1>6, Zenon DEF IInv, TypeInv, Nodes
  <2>2. h \notin broadcasting /\ (h = g => kept = Empty)
    BY <1>2, <1>6, Zenon
  <2>3. journal'[h] = journal[h]
    BY <1>5, <1>6, <2>1, <2>2, Zenon
  <2>4. ~metricsDead[h] /\ version(journal[h]) <= loaderVersion[a]
    BY <2>2, Zenon DEF IInv, ClientsWaitRightly
  <2>5. ~metricsDead'[h]
    BY <1>2, <2>4, Zenon DEF IInv, TypeInv
  <2> QED BY <2>1, <2>3, <2>4, <2>5, Zenon
<1>12. ~panicked'
  BY <1>1, <1>5, Zenon DEF IInv
<1> QED BY <1>7, <1>9, <1>10, <1>11, <1>12, Zenon DEF IInv

-----------------------------------------------------------------------------
\* The engine fails or answers again; a client goes away.
LEMMA QuietIInv ==
  IInv /\ (\E g \in Aggregators : \/ engineIsBack(g) \/ engineFails(g)
                                  \/ \E a \in Agents : CancelLongpoll(g, a)) => IInv'
<1> SUFFICES ASSUME IInv, NEW g \in Aggregators,
                    engineIsBack(g) \/ engineFails(g) \/ \E a \in Agents : CancelLongpoll(g, a)
             PROVE  IInv'
  BY Zenon
<1>1. UNCHANGED <<row, file, journal, loaderVersion, panicked>>
  BY Zenon DEF engineIsBack, engineFails, CancelLongpoll, storage, history
<1>2. /\ metricsDead' \in [Aggregators -> BOOLEAN] /\ broadcasting' \subseteq Aggregators
      /\ clients' \in [Aggregators -> SUBSET Agents]
  BY Zenon DEF IInv, TypeInv, engineIsBack, engineFails, CancelLongpoll, server
<1>3. \A h \in Aggregators : h \notin broadcasting' =>
          h \notin broadcasting /\ clients'[h] \subseteq clients[h] /\ (metricsDead'[h] => metricsDead[h])
  BY DEF IInv, TypeInv, engineIsBack, engineFails, CancelLongpoll, server
<1>4. TypeInv'
  BY <1>1, <1>2, Zenon DEF IInv, TypeInv
<1>5. OrderInv' /\ CompleteInv'
  <2>1. FilesKept
    BY <1>1, Zenon DEF FilesKept
  <2>2. ASSUME NEW h \in Aggregators
        PROVE  (loaderVersion[h] <= version(row) /\ HasAll(journal[h], loaderVersion[h]))'
    BY <1>1, EngineSeen, Zenon
  <2>3. CompleteInv'
    BY <2>1, <2>2, FilesKeptInv, Zenon DEF CompleteInv
  <2>4. OrderInv'
    BY <1>1, <2>1, FilesKeptInv, Zenon DEF IInv, OrderInv
  <2> QED BY <2>3, <2>4, Zenon
<1>6. ClientsWaitRightly'
  BY <1>1, <1>3, Zenon DEF IInv, ClientsWaitRightly, version
<1> QED BY <1>1, <1>4, <1>5, <1>6, Zenon DEF IInv

\* The invariant after agents got events of an aggregator.
LEMMA AgentsUpdatedIInv ==
  ASSUME IInv, NEW g \in Aggregators, NEW events, DOMAIN events \subseteq Agents,
         \A a \in DOMAIN events : events[a] \in Diffs(journal[g], loaderVersion[a]), updateAgents(events),
         UNCHANGED <<row, file, metricsDead>>, broadcasting' \subseteq broadcasting,
         clients' \in [Aggregators -> SUBSET Agents],
         \A h \in Aggregators, a \in Agents : h \notin broadcasting' /\ a \in clients'[h] =>
            \/ h \notin broadcasting /\ a \in clients[h]
            \/ ~metricsDead[h] /\ version(journal[h]) <= loaderVersion[a]
  PROVE  IInv'
<1>1. /\ journal' \in [Nodes -> Journals] /\ loaderVersion' \in [Nodes -> Versions] /\ ~panicked'
      /\ \A n \in Nodes : /\ loaderVersion[n] <= loaderVersion'[n]
                          /\ \A e \in Entities : journal'[n][e].version <= loaderVersion'[n]
      /\ \A n \in Aggregators : journal'[n] = journal[n] /\ loaderVersion'[n] = loaderVersion[n]
  BY AgentsUpdated, Zenon
<1>2. FilesKept
  BY Zenon DEF FilesKept
<1>3. TypeInv'
  BY <1>1, Zenon DEF IInv, TypeInv
<1>4. OrderInv'
  BY <1>1, <1>2, FilesKeptInv, Zenon DEF OrderInv
<1>5. CompleteInv'
  <2> SUFFICES ASSUME NEW h \in Aggregators
               PROVE  (loaderVersion[h] <= version(row) /\ HasAll(journal[h], loaderVersion[h]))'
    BY <1>2, FilesKeptInv, Zenon DEF CompleteInv
  <2> QED BY <1>1, EngineSeen, Zenon
<1>6. ClientsWaitRightly'
  <2> SUFFICES ASSUME NEW h \in Aggregators, h \notin broadcasting', NEW a \in clients'[h]
               PROVE  ~metricsDead[h] /\ version(journal'[h]) <= loaderVersion'[a]
    BY Zenon DEF ClientsWaitRightly, version
  <2>1. a \in Agents /\ a \in Nodes /\ h \in Nodes /\ journal'[h] = journal[h] /\ journal[h] \in Journals
    BY <1>1, Zenon DEF IInv, TypeInv, Nodes
  <2>2. ~metricsDead[h] /\ version(journal[h]) <= loaderVersion[a]
    BY <2>1, Zenon DEF IInv, ClientsWaitRightly
  <2>3. /\ loaderVersion[a] \in Nat /\ loaderVersion'[a] \in Nat /\ loaderVersion[a] <= loaderVersion'[a]
        /\ version(journal[h]) \in Nat
    BY <1>1, <2>1, Version DEF IInv, TypeInv, Versions
  <2> QED BY <2>1, <2>2, <2>3
<1> QED BY <1>1, <1>3, <1>4, <1>5, <1>6, Zenon DEF IInv

\* An agent asks: it is answered at once or waits.
LEMMA HandleGetMetrics3IInv ==
  IInv /\ (\E g \in Aggregators : \E a \in Agents : HandleGetMetrics3(g, a)) => IInv'
<1> SUFFICES ASSUME IInv, NEW g \in Aggregators, NEW a \in Agents, HandleGetMetrics3(g, a) PROVE IInv'
  BY Zenon
<1>1. UNCHANGED <<row, file, metricsDead, broadcasting>> /\ ~metricsDead[g]
  BY Zenon DEF HandleGetMetrics3, storage, server
<1>2. CASE \E events \in Diffs(journal[g], loaderVersion[a]) : updateAgents([n \in {a} |-> events]) /\ UNCHANGED clients
  <2>1. PICK events \in Diffs(journal[g], loaderVersion[a]) : updateAgents([n \in {a} |-> events])
    BY <1>2, Zenon
  <2> DEFINE ev == [n \in {a} |-> events]
  <2>2. DOMAIN ev \subseteq Agents /\ \A n \in DOMAIN ev : ev[n] \in Diffs(journal[g], loaderVersion[n])
    BY Zenon
  <2>3. updateAgents(ev) /\ clients' = clients /\ clients \in [Aggregators -> SUBSET Agents]
    BY <1>2, <2>1, Zenon DEF IInv, TypeInv
  <2> HIDE DEF ev
  <2> QED BY <1>1, <2>2, <2>3, AgentsUpdatedIInv, Zenon
<1>3. CASE /\ Diffs(journal[g], loaderVersion[a]) = {}
           /\ clients' = [clients EXCEPT ![g] = @ \cup {a}]
           /\ UNCHANGED <<journal, loaderVersion, panicked>>
  <2>1. a \in Nodes /\ g \in Nodes
    BY Zenon DEF Nodes
  <2>2. version(journal[g]) <= loaderVersion[a]
    BY <1>3, <2>1, NoDiff, Zenon DEF IInv, TypeInv
  <2>3. FilesKept
    BY <1>1, Zenon DEF FilesKept
  <2>4. TypeInv'
    BY <1>1, <1>3, Zenon DEF IInv, TypeInv
  <2>5. OrderInv'
    BY <1>3, <2>3, FilesKeptInv, Zenon DEF IInv, OrderInv
  <2>6. CompleteInv'
    <3>1. ASSUME NEW h \in Aggregators
          PROVE  (loaderVersion[h] <= version(row) /\ HasAll(journal[h], loaderVersion[h]))'
      BY <1>1, <1>3, EngineSeen, Zenon
    <3> QED BY <2>3, <3>1, FilesKeptInv, Zenon DEF CompleteInv
  <2>7. ClientsWaitRightly'
    <3>1. \A h \in Aggregators : \A b \in clients'[h] : b \in clients[h] \/ (h = g /\ b = a)
      BY <1>3, Zenon DEF IInv, TypeInv
    <3> QED BY <1>1, <1>3, <2>2, <3>1, Zenon DEF IInv, ClientsWaitRightly, version
  <2> QED BY <1>3, <2>4, <2>5, <2>6, <2>7, Zenon DEF IInv
<1> QED BY <1>2, <1>3, Zenon DEF HandleGetMetrics3

\* Waiting agents are answered; who is not has nothing to learn.
LEMMA BroadcastIInv == IInv /\ (\E g \in Aggregators : broadcastJournal(g)) => IInv'
<1> SUFFICES ASSUME IInv, NEW g \in Aggregators, broadcastJournal(g) PROVE IInv'
  BY Zenon
<1> DEFINE ready == {a \in clients[g] : served(g, a)}
           told == IF metricsDead[g] THEN {} ELSE ready
<1>1. /\ UNCHANGED <<row, file, metricsDead>> /\ broadcasting' = broadcasting \ {g}
      /\ clients' = [clients EXCEPT ![g] = @ \ ready]
  BY Zenon DEF broadcastJournal, storage
<1>2. PICK events : /\ \A a \in ready : metricsDead[g] \/ events[a] \in Diffs(journal[g], loaderVersion[a])
                    /\ updateAgents([a \in told |-> events[a]])
  BY Zenon DEF broadcastJournal
<1>3. ready \subseteq Agents /\ clients \in [Aggregators -> SUBSET Agents]
  BY Zenon DEF IInv, TypeInv
<1>4. clients' \in [Aggregators -> SUBSET Agents]
  BY <1>1, <1>3, Zenon
<1>5. ASSUME NEW h \in Aggregators, NEW a \in Agents, h \notin broadcasting', a \in clients'[h]
      PROVE  \/ h \notin broadcasting /\ a \in clients[h]
             \/ ~metricsDead[h] /\ version(journal[h]) <= loaderVersion[a]
  <2>1. CASE h = g
    <3>1. ~served(g, a)
      BY <1>1, <1>3, <1>5, <2>1, Zenon
    <3>2. a \in Nodes /\ g \in Nodes
      BY Zenon DEF Nodes
    <3> QED BY <2>1, <3>1, <3>2, NoDiff, Zenon DEF IInv, TypeInv, served
  <2>2. CASE h # g
    BY <1>1, <1>3, <1>5, <2>2, Zenon
  <2> QED BY <2>1, <2>2, Zenon
<1> DEFINE ev == [a \in told |-> events[a]]
<1>6. DOMAIN ev \subseteq Agents /\ \A a \in DOMAIN ev : ev[a] \in Diffs(journal[g], loaderVersion[a])
  BY <1>2, <1>3, Zenon
<1>7. updateAgents(ev)
  BY <1>2, Zenon
<1> HIDE DEF ev, told, ready
<1>8. broadcasting' \subseteq broadcasting
  BY <1>1, Zenon
<1> QED BY <1>1, <1>4, <1>5, <1>6, <1>7, <1>8, AgentsUpdatedIInv, Zenon

\* The version a node would start from is a function of its file.
LEMMA StartVersion == \A n : startVersion(file[n])' = startVersion(file'[n])
BY Zenon DEF startVersion, complete, version

\* The file gets the journal with the version it is complete up to.
LEMMA SaveIInv == IInv /\ (\E n \in Nodes : Save(n)) => IInv'
<1> SUFFICES ASSUME IInv, NEW n \in Nodes, Save(n) PROVE IInv'
  BY Zenon
<1> DEFINE f == [loaderVersion |-> loaderVersion[n], lastEventVersion |-> version(journal[n]), journal |-> journal[n]]
<1>1. /\ UNCHANGED <<row, journal, loaderVersion, metricsDead, broadcasting, clients, panicked>>
      /\ file' = [file EXCEPT ![n] = f]
  BY Zenon DEF Save, server, history
<1>2. /\ journal[n] \in Journals /\ loaderVersion[n] \in Versions /\ version(journal[n]) \in Versions
      /\ version(journal[n]) <= loaderVersion[n] /\ version(journal[n]) <= version(journal[n])
  BY Version, Zenon DEF IInv, TypeInv, OrderInv, Versions
<1>3. file'[n] = f /\ \A m \in Nodes : m # n => file'[m] = file[m]
  BY <1>1, Zenon DEF IInv, TypeInv
<1>4. TypeInv'
  BY <1>1, <1>2, Zenon DEF IInv, TypeInv
<1>5. startVersion(f) = loaderVersion[n] /\ f.journal = journal[n] /\ f.lastEventVersion = version(journal[n])
  BY <1>2, Zenon DEF startVersion, complete, Versions
<1>6. OrderInv'
  <2> HIDE DEF f
  <2> SUFFICES ASSUME NEW m \in Nodes
               PROVE  /\ \A e \in Entities : journal'[m][e].version <= loaderVersion'[m]
                      /\ version(file'[m].journal) <= file'[m].lastEventVersion
    BY Zenon DEF OrderInv, version
  <2>1. CASE m = n
    BY <1>1, <1>2, <1>3, <1>5, <2>1, Zenon DEF IInv, OrderInv
  <2>2. CASE m # n
    BY <1>1, <1>3, <2>2, Zenon DEF IInv, OrderInv
  <2> QED BY <2>1, <2>2, Zenon
<1>7. CompleteInv'
  <2> SUFFICES ASSUME NEW g \in Aggregators
               PROVE  (startVersion(file[g]) <= version(row) /\ HasAll(file[g].journal, startVersion(file[g])))'
    BY <1>1, EngineSeen, Zenon DEF CompleteInv
  <2>0. /\ loaderVersion[g] <= version(row) /\ HasAll(journal[g], loaderVersion[g])
        /\ startVersion(file[g]) <= version(row) /\ HasAll(file[g].journal, startVersion(file[g]))
    BY Zenon DEF IInv, CompleteInv
  <2>1. version(row)' = version(row) /\ g \in Nodes /\ row' = row
    BY <1>1, Zenon DEF version, Nodes
  <2>2. CASE g = n
    <3>1. startVersion(file[g])' = loaderVersion[g] /\ file'[g].journal = journal[g]
      BY <1>3, <1>5, <2>2, StartVersion, Zenon
    <3> QED BY <2>0, <2>1, <3>1, Zenon DEF HasAll
  <2>3. CASE g # n
    <3>1. startVersion(file[g])' = startVersion(file[g]) /\ file'[g].journal = file[g].journal
      BY <1>3, <2>1, <2>3, StartVersion, Zenon
    <3> QED BY <2>0, <2>1, <3>1, Zenon DEF HasAll
  <2> QED BY <2>2, <2>3, Zenon
<1>8. ClientsWaitRightly'
  BY <1>1, Zenon DEF IInv, ClientsWaitRightly, version
<1> QED BY <1>1, <1>4, <1>6, <1>7, <1>8, Zenon DEF IInv

\* Node n with journal j in its file f, after the file was cut.
AfterCut(n, j, f) ==
    /\ j \in Journals /\ version(j) <= f.lastEventVersion
    /\ f \in [loaderVersion : Versions, lastEventVersion : Versions, journal : Journals] /\ f.journal = j
    /\ startVersion(f) = IF complete(file[n], j) THEN file[n].loaderVersion ELSE version(j)
    /\ startVersion(f) \in Versions /\ \A e \in Entities : j[e].version <= startVersion(f)
    /\ startVersion(f) <= startVersion(file[n])
    /\ HasAll(file[n].journal, startVersion(file[n])) => HasAll(j, startVersion(f))

\* What is left of a file that was cut, and the version a node asks from then.
LEMMA Cut ==
  ASSUME TypeInv, NEW n \in Nodes, NEW v \in Versions, NEW j, j = cut(file[n].journal, v),
         version(file[n].journal) <= file[n].lastEventVersion, NEW f, f = [file[n] EXCEPT !.journal = j]
  PROVE  AfterCut(n, j, f)
<1> DEFINE o == file[n]
           full == file[n].journal
<1>1. /\ o \in [loaderVersion : Versions, lastEventVersion : Versions, journal : Journals] /\ full \in Journals
      /\ o.loaderVersion \in Nat /\ o.lastEventVersion \in Nat /\ v \in Nat
  BY DEF TypeInv, Versions
<1>2. None \in [value : Nat, version : Versions] /\ None.version = 0
  BY JournalAssumption DEF None, Versions
<1>3. j \in Journals
  BY <1>1, <1>2, Zenon DEF cut, Journals
<1>4. \A e \in Entities : j[e] = IF full[e].version <= v THEN full[e] ELSE None
  BY Zenon DEF cut
<1>5. /\ version(full) \in Nat /\ version(j) \in Nat /\ version(j) \in Versions
      /\ \A e \in Entities : /\ full[e].version <= version(full) /\ full[e].version \in Nat
                             /\ j[e].version <= version(j) /\ j[e].version \in Nat
      /\ \E e \in Entities : j[e].version = version(j)
      /\ \E e \in Entities : full[e].version = version(full)
  BY <1>1, <1>3, Version, Zenon DEF Versions
<1>6. version(j) <= version(full)
  BY <1>2, <1>4, <1>5
<1>7. /\ f \in [loaderVersion : Versions, lastEventVersion : Versions, journal : Journals] /\ f.journal = j
      /\ f.loaderVersion = o.loaderVersion /\ f.lastEventVersion = o.lastEventVersion
  BY <1>1, <1>3, Zenon
<1>8. complete(f, j) <=> complete(o, j)
  BY <1>7, Zenon DEF complete
<1>9. startVersion(f) = IF complete(o, j) THEN o.loaderVersion ELSE version(j)
  BY <1>7, <1>8, Zenon DEF startVersion
<1>10. startVersion(f) \in Versions /\ version(j) <= startVersion(f)
  BY <1>1, <1>5, <1>9, Zenon DEF complete
<1>11. \A e \in Entities : j[e].version <= startVersion(f)
  BY <1>5, <1>10 DEF Versions
<1>12. complete(o, j) => version(j) = version(full) /\ \A e \in Entities : j[e] = full[e]
  BY <1>1, <1>2, <1>4, <1>5, <1>6 DEF complete
<1>13. version(full) <= startVersion(o) /\ startVersion(o) \in Nat
  BY <1>1, <1>5, Zenon DEF startVersion, complete
<1>14. startVersion(f) <= startVersion(o)
  <2>1. CASE complete(o, j)
    BY <1>1, <1>9, <1>12, <2>1 DEF complete, startVersion
  <2>2. CASE ~complete(o, j)
    BY <1>5, <1>6, <1>9, <1>13, <2>2
  <2> QED BY <2>1, <2>2, Zenon
<1>15. ASSUME HasAll(full, startVersion(o)), NEW e \in Entities \ Dashboards, row[e].version <= startVersion(f)
       PROVE  j[e].value = row[e].value /\ j[e].version <= row[e].version
  <2>1. row[e].version \in Nat /\ startVersion(f) \in Nat
    BY <1>10, Version DEF TypeInv, Versions
  <2>2. full[e].value = row[e].value /\ full[e].version <= row[e].version
    BY <1>13, <1>14, <1>15, <2>1 DEF HasAll
  <2>3. j[e] = full[e]
    <3>1. CASE complete(o, j)
      BY <1>12, <3>1, Zenon
    <3>2. CASE ~complete(o, j)
      <4>1. version(j) <= v
        BY <1>1, <1>2, <1>4, <1>5
      <4>2. full[e].version <= v
        BY <1>1, <1>5, <1>9, <1>15, <2>1, <2>2, <3>2, <4>1
      <4> QED BY <1>4, <4>2, Zenon
    <3> QED BY <3>1, <3>2, Zenon
  <2> QED BY <2>2, <2>3, Zenon
<1>16. HasAll(full, startVersion(o)) => HasAll(j, startVersion(f))
  BY <1>15, Zenon DEF HasAll
<1>17. version(j) <= f.lastEventVersion
  BY <1>1, <1>5, <1>6, <1>7
<1> QED BY <1>3, <1>7, <1>9, <1>10, <1>11, <1>14, <1>16, <1>17, Zenon DEF AfterCut

\* A node that starts again has what its file holds, and asks from there.
LEMMA RestartIInv == IInv /\ (\E n \in Nodes : \E v \in 0 .. MaxVersion : restart(n, v)) => IInv'
<1> SUFFICES ASSUME IInv, NEW n \in Nodes, NEW v \in Versions, restart(n, v) PROVE IInv'
  BY Zenon DEF Versions
<1> DEFINE j == cut(file[n].journal, v)
           f == [file[n] EXCEPT !.journal = j]
<1>1. /\ row' = row /\ panicked' = panicked
      /\ file' = [file EXCEPT ![n] = f] /\ journal' = [journal EXCEPT ![n] = j]
      /\ loaderVersion' = [loaderVersion EXCEPT ![n] =
            IF complete(file[n], j) THEN file[n].loaderVersion ELSE version(j)]
      /\ metricsDead' = [g \in Aggregators |-> metricsDead[g] /\ g # n]
      /\ broadcasting' = broadcasting \ {n}
      /\ clients' = [g \in Aggregators |-> IF g = n THEN {} ELSE clients[g] \ {n}]
  BY Zenon DEF restart, history
<1>2. TypeInv /\ version(file[n].journal) <= file[n].lastEventVersion
  BY Zenon DEF IInv, OrderInv
<1>0. j = cut(file[n].journal, v) /\ f = [file[n] EXCEPT !.journal = j]
  BY Zenon
<1> HIDE DEF j, f
<1>3. /\ j \in Journals /\ version(j) <= f.lastEventVersion
      /\ f \in [loaderVersion : Versions, lastEventVersion : Versions, journal : Journals] /\ f.journal = j
      /\ startVersion(f) = IF complete(file[n], j) THEN file[n].loaderVersion ELSE version(j)
      /\ startVersion(f) \in Versions /\ \A e \in Entities : j[e].version <= startVersion(f)
      /\ startVersion(f) <= startVersion(file[n])
      /\ HasAll(file[n].journal, startVersion(file[n])) => HasAll(j, startVersion(f))
  <2>1. AfterCut(n, j, f)
    BY <1>0, <1>2, Cut, Zenon
  <2> QED BY <2>1, Zenon DEF AfterCut
<1>4. /\ file'[n] = f /\ journal'[n] = j /\ loaderVersion'[n] = startVersion(f)
      /\ \A m \in Nodes : m # n => /\ file'[m] = file[m] /\ journal'[m] = journal[m]
                                   /\ loaderVersion'[m] = loaderVersion[m]
  BY <1>1, <1>2, <1>3, Zenon DEF TypeInv
<1>5. TypeInv'
  <2>1. row' \in Journals /\ journal' \in [Nodes -> Journals] /\ loaderVersion' \in [Nodes -> Versions]
    BY <1>1, <1>2, <1>3, Zenon DEF TypeInv
  <2>2. file' \in [Nodes -> [loaderVersion : Versions, lastEventVersion : Versions, journal : Journals]]
    BY <1>1, <1>2, <1>3, Zenon DEF TypeInv
  <2>3. metricsDead' \in [Aggregators -> BOOLEAN] /\ broadcasting' \subseteq Aggregators
    BY <1>1, <1>2, Zenon DEF TypeInv
  <2>4. clients' \in [Aggregators -> SUBSET Agents]
    BY <1>1, <1>2, Zenon DEF TypeInv
  <2> QED BY <2>1, <2>2, <2>3, <2>4, Zenon DEF TypeInv
<1>6. OrderInv'
  <2> SUFFICES ASSUME NEW m \in Nodes
               PROVE  /\ \A e \in Entities : journal'[m][e].version <= loaderVersion'[m]
                      /\ version(file'[m].journal) <= file'[m].lastEventVersion
    BY Zenon DEF OrderInv, version
  <2>1. CASE m = n
    BY <1>3, <1>4, <2>1, Zenon
  <2>2. CASE m # n
    BY <1>4, <2>2, Zenon DEF IInv, OrderInv
  <2> QED BY <2>1, <2>2, Zenon
<1>7. CompleteInv'
  <2> SUFFICES ASSUME NEW g \in Aggregators
               PROVE  /\ loaderVersion'[g] <= version(row') /\ HasAll(journal[g], loaderVersion[g])'
                      /\ (startVersion(file[g]) <= version(row) /\ HasAll(file[g].journal, startVersion(file[g])))'
    BY Zenon DEF CompleteInv, version
  <2>0. /\ loaderVersion[g] <= version(row) /\ HasAll(journal[g], loaderVersion[g])
        /\ startVersion(file[g]) <= version(row) /\ HasAll(file[g].journal, startVersion(file[g]))
    BY Zenon DEF IInv, CompleteInv
  <2>1. version(row)' = version(row) /\ version(row') = version(row) /\ g \in Nodes /\ row' = row
    BY <1>1, Zenon DEF version, Nodes
  <2>2. CASE g = n
    <3>1. /\ startVersion(file[g])' = startVersion(f) /\ file'[g].journal = j
          /\ journal'[g] = j /\ loaderVersion'[g] = startVersion(f)
      BY <1>3, <1>4, <2>2, StartVersion, Zenon
    <3>2. startVersion(f) <= version(row)
      <4>1. version(row) \in Nat /\ startVersion(file[n]) \in Nat
        BY <1>2, Version DEF TypeInv, Versions, startVersion
      <4> QED BY <1>3, <2>0, <2>2, <4>1 DEF Versions
    <3>3. HasAll(j, startVersion(f))
      BY <1>3, <2>0, <2>2, Zenon
    <3> QED BY <2>1, <3>1, <3>2, <3>3, Zenon DEF HasAll
  <2>3. CASE g # n
    <3>1. /\ startVersion(file[g])' = startVersion(file[g]) /\ file'[g].journal = file[g].journal
          /\ journal'[g] = journal[g] /\ loaderVersion'[g] = loaderVersion[g]
      BY <1>4, <2>1, <2>3, StartVersion, Zenon
    <3> QED BY <2>0, <2>1, <3>1, Zenon DEF HasAll
  <2> QED BY <2>2, <2>3, Zenon
<1>8. ClientsWaitRightly'
  <2> SUFFICES ASSUME NEW g \in Aggregators, g \notin broadcasting', NEW a \in clients'[g]
               PROVE  ~metricsDead'[g] /\ version(journal'[g]) <= loaderVersion'[a]
    BY Zenon DEF ClientsWaitRightly, version
  <2>1. g # n /\ a \in clients[g] /\ a # n /\ g \notin broadcasting
    BY <1>1, Zenon
  <2>2. a \in Nodes /\ g \in Nodes
    BY <1>2, <2>1, Zenon DEF TypeInv, Nodes
  <2>3. ~metricsDead[g] /\ version(journal[g]) <= loaderVersion[a]
    BY <2>1, Zenon DEF IInv, ClientsWaitRightly
  <2>4. ~metricsDead'[g]
    BY <1>1, <2>3, Zenon
  <2> QED BY <1>4, <2>1, <2>2, <2>3, <2>4, Zenon
<1> QED BY <1>1, <1>5, <1>6, <1>7, <1>8, Zenon DEF IInv

-----------------------------------------------------------------------------

\* No step breaks the invariant.
LEMMA NextIInv == IInv /\ [Next]_vars => IInv'
<1> SUFFICES ASSUME IInv, [Next]_vars PROVE IInv'
  BY Zenon
<1>1. CASE Next
  BY <1>1, EditIInv, UpdateAggregatorIInv, QuietIInv, HandleGetMetrics3IInv, BroadcastIInv, SaveIInv,
     RestartIInv, Zenon DEF Next
<1>2. CASE UNCHANGED vars
  <2>1. UNCHANGED <<row, journal, loaderVersion, file, metricsDead, broadcasting, clients, panicked>>
    BY <1>2, Zenon DEF vars, storage, server, history
  <2>2. TypeInv'
    BY <2>1, Zenon DEF IInv, TypeInv
  <2>3. OrderInv'
    BY <2>1, Zenon DEF IInv, OrderInv, version
  <2>4. CompleteInv'
    <3>1. UNCHANGED CompleteInv
      BY <2>1 DEF CompleteInv, startVersion, HasAll, complete, version
    <3> QED BY <3>1, Zenon DEF IInv
  <2>5. ClientsWaitRightly'
    BY <2>1, Zenon DEF IInv, ClientsWaitRightly, version
  <2> QED BY <2>1, <2>2, <2>3, <2>4, <2>5, Zenon DEF IInv
<1> QED BY <1>1, <1>2, Zenon

\* IInv holds at all times, whatever the number of nodes, entities, edits and restarts.
LEMMA Invariance == Spec => []IInv
  BY InitIInv, NextIInv, PTL DEF Spec

\* journal_fast.go:324 - addEventLocked never panics: whichever aggregator answers an agent, and
\* whatever a restart lost, every event is newer than all those in the journal it is added to.
THEOREM InOrder == Spec => []NothingOldAdded
<1>1. IInv => NothingOldAdded
  BY Zenon DEF IInv, NothingOldAdded
<1> QED BY <1>1, Invariance, PTL

\* journal_fast.go:135 - an aggregator has every edit up to the version it asks from, so that it
\* never has to ask for an older one, also after it started from a file that is old or cut.
THEOREM MissesNothing == Spec => []NothingMissed
<1>1. IInv => NothingMissed
  BY Zenon DEF IInv, CompleteInv, HasAll, NothingMissed
<1> QED BY <1>1, Invariance, PTL

\* journal_fast.go:393 - an agent is left waiting only by an aggregator that is alive and has
\* nothing newer than the agent, or is about to broadcast.
THEOREM WaitRightly == Spec => []ClientsWaitRightly
<1>1. IInv => ClientsWaitRightly
  BY Zenon DEF IInv
<1> QED BY <1>1, Invariance, PTL
=============================================================================
