------------------------- MODULE DiskCacheInvariant -------------------------
(***************************************************************************)
(* The inductive invariant of DiskCache; starting, scanning the directory, *)
(* opening and skipping a tail, stopping and damage keep it, and so do     *)
(* creating a file and every step that drops a reference to one.           *)
(***************************************************************************)
EXTENDS DiskCache, TLAPS, FiniteSetTheorems

End(f, p) == p + HeaderSize + disk[f].chunk[p].size

\* Chunks follow each other without a gap up to the end of the file.
DiskInv ==
    \A f \in DOMAIN disk :
        /\ DOMAIN disk[f] = {"len", "chunk"}
        /\ disk[f].len # 0 => 0 \in DOMAIN disk[f].chunk
        /\ \A p \in DOMAIN disk[f].chunk :
            /\ End(f, p) >= disk[f].len \/ End(f, p) \in DOMAIN disk[f].chunk
            /\ \A q \in DOMAIN disk[f].chunk : p < q => End(f, p) <= q

\* An open, a waiting and an unreachable file are different files of the directory.
FilesInv ==
    /\ DOMAIN file \cup DOMAIN waitingFilesTail \cup abandoned \subseteq DOMAIN disk
    /\ \A f \in DOMAIN waitingFilesTail :
        f \notin DOMAIN file /\ f \notin abandoned /\ waitingFilesTail[f] = disk[f].len
    /\ \A f \in DOMAIN file : f \notin abandoned /\ file[f].size <= disk[f].len

\* The tail file is not being written and is read from chunk to chunk.
TailInv ==
    readingFileTail # NoFile =>
        /\ readingFileTail \in DOMAIN file /\ readingFileTail # writingFile
        /\ Tail.size = disk[readingFileTail].len
        /\ Tail.nextPos < Tail.size => Tail.nextPos \in DOMAIN disk[readingFileTail].chunk
        /\ \A id \in DOMAIN knownBuckets :
            knownBuckets[id].file = readingFileTail => knownBuckets[id].pos < Tail.nextPos

\* The file being written ends where its next chunk goes; only a header without its
\* body may lie beyond.
WriteInv ==
    writingFile # NoFile =>
        LET size == file[writingFile].size
            df == disk[writingFile] IN
        /\ writingFile \in DOMAIN file
        /\ \A p \in DOMAIN df.chunk : End(writingFile, p) <= size \/ (p = size /\ op.kind = "body")
        /\ op.kind # "body" => df.len = size
        /\ op.kind = "body" => df.len = size + HeaderSize /\ size \in DOMAIN df.chunk

OpInv ==
    /\ op.kind = "create" => writingFile = NoFile
    /\ op.kind \in {"header", "body"} => writingFile # NoFile
    /\ op.kind \in {"create", "header", "body"} => lastBucketID < MaxBucketID
    /\ op.kind = "unref" =>
        /\ op.id \in DOMAIN knownBuckets
        /\ <<knownBuckets[op.id].file, knownBuckets[op.id].pos>> \notin acked

StatusInv ==
    /\ status # "up" =>
        /\ op = Idle /\ readingFileTail = NoFile /\ writingFile = NoFile
        /\ DOMAIN file = {} /\ DOMAIN knownBuckets = {}
    /\ status = "down" => DOMAIN waitingFilesTail = {} /\ abandoned = {}

IInv ==
    /\ TypeOK /\ DiskInv /\ FilesInv /\ TailInv /\ WriteInv /\ OpInv /\ StatusInv
    /\ RefCountsMatchHolders /\ KnownBucketsReadable /\ NoBucketKnownTwice /\ AckedBucketsKept

-----------------------------------------------------------------------------
\* The empty set of buckets has no members.
LEMMA EmptyCardinality == Cardinality({}) = 0
BY FS_EmptySet, Zenon

\* An empty directory, opened, satisfies the invariant.
LEMMA InitIInv == Init => IInv
<1> SUFFICES ASSUME Init PROVE IInv
    BY Zenon
<1> USE ConstantsAssumption DEF Init, Empty, Idle, NoFile
<1>1. TypeOK
  BY DEF TypeOK
<1>2. DiskInv /\ FilesInv /\ TailInv /\ WriteInv /\ OpInv /\ StatusInv
  BY Zenon DEF DiskInv, FilesInv, TailInv, WriteInv, OpInv, StatusInv
<1>3. RefCountsMatchHolders
  BY EmptyCardinality DEF RefCountsMatchHolders, Holders, BucketsIn, One
<1>4. KnownBucketsReadable /\ NoBucketKnownTwice /\ AckedBucketsKept
  BY Zenon DEF KnownBucketsReadable, NoBucketKnownTwice, AckedBucketsKept
<1> QED BY <1>1, <1>2, <1>3, <1>4, Zenon DEF IInv

\* A step that leaves the disk and the shard's memory alone.
LEMMA StartIInv == IInv /\ Start => IInv'
<1> SUFFICES ASSUME IInv, Start PROVE IInv'
    BY Zenon
<1> USE DEF IInv, Start, memory
<1>1. TypeOK'
  BY Zenon DEF TypeOK
<1>2. (DiskInv /\ FilesInv /\ TailInv /\ WriteInv /\ OpInv /\ StatusInv)'
  BY Zenon DEF DiskInv, FilesInv, TailInv, WriteInv, OpInv, StatusInv, End, Tail
<1>3. RefCountsMatchHolders'
  BY Zenon DEF RefCountsMatchHolders, Holders, BucketsIn, One
<1>4. (KnownBucketsReadable /\ NoBucketKnownTwice /\ AckedBucketsKept)'
  BY Zenon DEF KnownBucketsReadable, NoBucketKnownTwice, AckedBucketsKept
<1> QED BY <1>1, <1>2, <1>3, <1>4, Zenon

\* ReadNextTailSecond taking the mutex, and its return when nothing is left.
LEMMA ReadNextTailSecondIInv == IInv /\ (ReadNextTailSecond \/ tailExhausted) => IInv'
<1> SUFFICES ASSUME IInv, ReadNextTailSecond \/ tailExhausted PROVE IInv'
    BY Zenon
<1> USE DEF IInv, ReadNextTailSecond, tailExhausted, memory, Ready, Reading, Idle
<1>1. TypeOK'
  BY DEF TypeOK
<1>2. (DiskInv /\ FilesInv /\ TailInv /\ WriteInv /\ OpInv /\ StatusInv)'
  BY DEF DiskInv, FilesInv, TailInv, WriteInv, OpInv, StatusInv, End, Tail
<1>3. RefCountsMatchHolders'
  BY Zenon DEF RefCountsMatchHolders, Holders, BucketsIn, One
<1>4. (KnownBucketsReadable /\ NoBucketKnownTwice /\ AckedBucketsKept)'
  BY DEF KnownBucketsReadable, NoBucketKnownTwice, AckedBucketsKept
<1> QED BY <1>1, <1>2, <1>3, <1>4, Zenon

\* A crash or Close.
LEMMA StopIInv == IInv /\ Stop => IInv'
<1> SUFFICES ASSUME IInv, Stop PROVE IInv'
    BY Zenon
<1> USE ConstantsAssumption DEF IInv, Stop, Empty, Idle, NoFile
<1>1. TypeOK'
  BY DEF TypeOK
<1>2. (DiskInv /\ FilesInv /\ TailInv /\ WriteInv /\ OpInv /\ StatusInv)'
  <2>1. DiskInv'
    BY Zenon DEF DiskInv, End
  <2>2. (FilesInv /\ StatusInv)'
    BY Zenon DEF FilesInv, StatusInv
  <2>3. (TailInv /\ WriteInv /\ OpInv)'
    BY Zenon DEF TailInv, WriteInv, OpInv
  <2> QED BY <2>1, <2>2, <2>3, Zenon
<1>3. RefCountsMatchHolders'
  <2>1. \A f : BucketsIn(f)' = {}
    BY Zenon DEF BucketsIn
  <2>2. \A f \in FileNames : One(readingFileTail = f)' = 0 /\ One(writingFile = f)' = 0
    BY Zenon DEF One
  <2>3. \A f \in FileNames : Holders(f)' = 0 + 0 + 0
    BY <2>1, <2>2, EmptyCardinality, Zenon DEF Holders
  <2>4. 0 + 0 + 0 = 0 /\ \A f : f \notin DOMAIN file'
    OBVIOUS
  <2> QED BY <2>3, <2>4, Zenon DEF RefCountsMatchHolders
<1>4. (KnownBucketsReadable /\ NoBucketKnownTwice /\ AckedBucketsKept)'
  BY Zenon DEF KnownBucketsReadable, NoBucketKnownTwice, AckedBucketsKept
<1> QED BY <1>1, <1>2, <1>3, <1>4, Zenon

\* Damage while the agent is down leaves the chunks in place.
LEMMA DamageIInv == IInv /\ Damage => IInv'
<1> SUFFICES ASSUME IInv, Damage PROVE IInv'
    BY Zenon
<1> USE ConstantsAssumption DEF IInv
<1> DEFINE Cut(f, p) == {a \in acked : ~(a[1] = f /\ a[2] >= p)}
<1>1. /\ status = "down"
      /\ UNCHANGED <<status, op, memory, abandoned>>
  BY Zenon DEF Damage
<1>2. PICK f \in DOMAIN disk : \E p \in DOMAIN disk[f].chunk :
        \/ disk' = [disk EXCEPT ![f].chunk[p].magic = "bad"] /\ acked' = Cut(f, p)
        \/ disk' = [disk EXCEPT ![f].chunk[p].body = "damaged"] /\ acked' = acked \ {<<f, p>>}
        \/ p < disk[f].len /\ disk' = [disk EXCEPT ![f].len = p] /\ acked' = Cut(f, p)
  BY Zenon DEF Damage
<1>3. PICK p \in DOMAIN disk[f].chunk :
        \/ disk' = [disk EXCEPT ![f].chunk[p].magic = "bad"] /\ acked' = Cut(f, p)
        \/ disk' = [disk EXCEPT ![f].chunk[p].body = "damaged"] /\ acked' = acked \ {<<f, p>>}
        \/ p < disk[f].len /\ disk' = [disk EXCEPT ![f].len = p] /\ acked' = Cut(f, p)
  BY <1>2, Zenon
<1>4. /\ DOMAIN disk' = DOMAIN disk
      /\ \A g \in DOMAIN disk :
          /\ DOMAIN disk'[g] = {"len", "chunk"}
          /\ disk'[g].len \in Nat /\ disk'[g].len <= disk[g].len
          /\ g # f => disk'[g] = disk[g]
          /\ DOMAIN disk'[g].chunk = DOMAIN disk[g].chunk
  BY <1>3 DEF TypeOK, DiskInv
<1>5. \A g \in DOMAIN disk : \A q \in DOMAIN disk[g].chunk :
          /\ disk'[g].chunk[q] \in Chunk
          /\ disk'[g].chunk[q].size = disk[g].chunk[q].size
  <2>0. \A g \in DOMAIN disk : \A q \in DOMAIN disk[g].chunk : disk[g].chunk[q] \in Chunk
    BY Zenon DEF TypeOK
  <2>1. CASE disk' = [disk EXCEPT ![f].chunk[p].magic = "bad"]
    <3>1. disk'[f].chunk = [disk[f].chunk EXCEPT ![p].magic = "bad"]
      BY <1>3, <2>1, Zenon DEF DiskInv
    <3> QED BY <1>3, <1>4, <2>0, <3>1 DEF Chunk
  <2>2. CASE disk' = [disk EXCEPT ![f].chunk[p].body = "damaged"]
    <3>1. disk'[f].chunk = [disk[f].chunk EXCEPT ![p].body = "damaged"]
      BY <1>3, <2>2, Zenon DEF DiskInv
    <3> QED BY <1>3, <1>4, <2>0, <3>1 DEF Chunk
  <2>3. CASE disk' = [disk EXCEPT ![f].len = p]
    BY <1>3, <2>3 DEF TypeOK, DiskInv, Chunk
  <2> QED BY <1>3, <2>1, <2>2, <2>3, Zenon
<1>6. acked' \subseteq acked
  BY <1>3, Zenon
<1>7. TypeOK'
  BY <1>1, <1>4, <1>5, <1>6, Zenon DEF TypeOK, memory
<1>8. DiskInv'
  <2>1. \A g \in DOMAIN disk : disk'[g].len # 0 => 0 \in DOMAIN disk'[g].chunk
    BY <1>4 DEF DiskInv, TypeOK
  <2>2. \A g \in DOMAIN disk : \A q \in DOMAIN disk[g].chunk : End(g, q)' = End(g, q) /\ End(g, q) \in Nat
    <3> TAKE g \in DOMAIN disk
    <3> TAKE q \in DOMAIN disk[g].chunk
    <3>1. q \in Nat /\ disk[g].chunk[q].size \in Nat /\ HeaderSize \in Nat
      BY Zenon DEF TypeOK, Chunk
    <3>2. disk'[g].chunk[q].size = disk[g].chunk[q].size
      BY <1>5, Zenon
    <3> QED BY <3>1, <3>2 DEF End
  <2>3. \A g \in DOMAIN disk : \A q \in DOMAIN disk[g].chunk :
            /\ End(g, q)' >= disk'[g].len \/ End(g, q)' \in DOMAIN disk'[g].chunk
            /\ \A r \in DOMAIN disk[g].chunk : q < r => End(g, q)' <= r
    BY <1>4, <2>2 DEF DiskInv, TypeOK
  <2> QED BY <1>4, <2>1, <2>3, Zenon DEF DiskInv
<1>9. (FilesInv /\ TailInv /\ WriteInv /\ OpInv /\ StatusInv)'
  BY <1>1, <1>4, Zenon DEF FilesInv, TailInv, WriteInv, OpInv, StatusInv, Idle, memory
<1>10. RefCountsMatchHolders'
  BY <1>1, Zenon DEF RefCountsMatchHolders, Holders, BucketsIn, One, memory
<1>11. (KnownBucketsReadable /\ NoBucketKnownTwice)'
  BY <1>1, Zenon DEF KnownBucketsReadable, NoBucketKnownTwice, StatusInv, memory
<1>12. AckedBucketsKept'
  <2> SUFFICES ASSUME NEW a \in acked'
               PROVE  LET g == a[1] q == a[2] IN
                        /\ g \in DOMAIN disk /\ q \in DOMAIN disk[g].chunk
                        /\ disk'[g].chunk[q].magic = "good" /\ disk'[g].chunk[q].body = "intact"
                        /\ q + HeaderSize + disk'[g].chunk[q].size <= disk'[g].len
    BY <1>1, <1>4, Zenon DEF AckedBucketsKept
  <2>0. a \in acked /\ a = <<a[1], a[2]>> /\ a[2] \in Nat
    BY <1>6 DEF TypeOK
  <2>4. AckedBucketsKept!(a)
    BY <2>0, Zenon DEF AckedBucketsKept
  <2>1. CASE disk' = [disk EXCEPT ![f].chunk[p].magic = "bad"] /\ acked' = Cut(f, p)
    <3>1. LET c == disk[a[1]].chunk[a[2]] d == disk'[a[1]].chunk[a[2]] IN
            /\ disk'[a[1]].len = disk[a[1]].len
            /\ d.magic = c.magic /\ d.body = c.body /\ d.size = c.size
      BY <1>3, <1>5, <2>0, <2>1, <2>4 DEF DiskInv
    <3> QED BY <2>4, <3>1, Zenon
  <2>2. CASE disk' = [disk EXCEPT ![f].chunk[p].body = "damaged"] /\ acked' = acked \ {<<f, p>>}
    <3>1. LET c == disk[a[1]].chunk[a[2]] d == disk'[a[1]].chunk[a[2]] IN
            /\ disk'[a[1]].len = disk[a[1]].len
            /\ d.magic = c.magic /\ d.body = c.body /\ d.size = c.size
      <4>1. disk'[f].len = disk[f].len /\ disk'[f].chunk = [disk[f].chunk EXCEPT ![p].body = "damaged"]
        BY <1>3, <2>2, Zenon DEF DiskInv
      <4>2. ~(a[1] = f /\ a[2] = p)
        BY <2>0, <2>2, Zenon
      <4>3. CASE a[1] = f
        <5>1. a[2] \in DOMAIN disk[f].chunk /\ a[2] # p
          BY <2>4, <4>2, <4>3, Zenon
        <5>2. disk'[f].chunk[a[2]] = disk[f].chunk[a[2]]
          BY <4>1, <5>1, Zenon
        <5> QED BY <4>1, <4>3, <5>2, Zenon
      <4>4. CASE a[1] # f
        BY <1>4, <2>4, <4>4, Zenon
      <4> QED BY <4>3, <4>4, Zenon
    <3> QED BY <2>4, <3>1, Zenon
  <2>3. CASE p < disk[f].len /\ disk' = [disk EXCEPT ![f].len = p] /\ acked' = Cut(f, p)
    BY <2>0, <1>3, <2>3, <1>5 DEF AckedBucketsKept, DiskInv, End, TypeOK, Chunk
  <2> QED BY <1>3, <2>1, <2>2, <2>3, Zenon
<1> QED BY <1>7, <1>8, <1>9, <1>10, <1>11, <1>12, Zenon

\* Offsets and lengths of chunks are numbers.
LEMMA ChunkNumbers ==
  ASSUME TypeOK, NEW f \in DOMAIN disk, NEW p \in DOMAIN disk[f].chunk
  PROVE  p \in Nat /\ disk[f].chunk[p].size \in Nat \ {0} /\ End(f, p) \in Nat /\ p < End(f, p)
<1>1. p \in Nat /\ disk[f].chunk[p] \in Chunk
  BY Zenon DEF TypeOK
<1>2. disk[f].chunk[p].size \in Nat \ {0} /\ HeaderSize \in Nat
  BY <1>1, ConstantsAssumption, Zenon DEF Chunk
<1> QED BY <1>1, <1>2 DEF End

\* makeDiscCacheShard over the directory.
LEMMA ScanIInv == IInv /\ (scanDone \/ \E f \in FileNames : scanFile(f)) => IInv'
<1> SUFFICES ASSUME IInv, scanDone \/ \E f \in FileNames : scanFile(f) PROVE IInv'
    BY Zenon
<1> USE DEF IInv
<1>0. /\ status = "scanning" /\ status' \in {"scanning", "up"}
      /\ UNCHANGED <<disk, op, file, knownBuckets, lastBucketID, readingFileTail, writingFile, acked>>
  BY Zenon DEF scanDone, scanFile, memory
<1>1. \/ UNCHANGED <<waitingFilesTail, abandoned>>
      \/ \E f \in FileNames :
            /\ status' = "scanning" /\ f \in Unscanned
            /\ waitingFilesTail' = With(waitingFilesTail, f, disk[f].len) /\ UNCHANGED abandoned
      \/ \E f \in FileNames :
            /\ status' = "scanning" /\ f \in Unscanned
            /\ UNCHANGED waitingFilesTail /\ abandoned' = abandoned \cup {f}
  BY Zenon DEF scanDone, scanFile, memory
<1>2. TypeOK'
  BY <1>0, <1>1, Zenon DEF TypeOK, With, Unscanned
<1>3. DiskInv'
  BY <1>0, Zenon DEF DiskInv, End
<1>4. FilesInv'
  BY <1>0, <1>1, Zenon DEF FilesInv, StatusInv, With, Unscanned
<1>5. (TailInv /\ WriteInv /\ OpInv /\ StatusInv)'
  BY <1>0, Zenon DEF TailInv, WriteInv, OpInv, StatusInv, Idle
<1>6. RefCountsMatchHolders'
  BY <1>0, Zenon DEF RefCountsMatchHolders, Holders, BucketsIn, One
<1>7. (KnownBucketsReadable /\ NoBucketKnownTwice)'
  BY <1>0, Zenon DEF KnownBucketsReadable, NoBucketKnownTwice, StatusInv
<1>8. AckedBucketsKept'
  <2>1. CASE status' = "up"
    <3>1. DOMAIN disk \subseteq DOMAIN waitingFilesTail' \cup abandoned'
      BY <2>1, <1>0, Zenon DEF scanDone, scanFile, Unscanned, memory
    <3> QED BY <3>1, <1>0, Zenon DEF AckedBucketsKept
  <2>2. CASE status' # "up"
    BY <2>2, <1>0, Zenon DEF AckedBucketsKept
  <2> QED BY <2>1, <2>2, Zenon
<1> QED BY <1>2, <1>3, <1>4, <1>5, <1>6, <1>7, <1>8, Zenon

\* ReadNextTailSecond opening, or failing to open, the oldest waiting file.
LEMMA OpenTailIInv == IInv /\ openTail => IInv'
<1> SUFFICES ASSUME IInv, openTail PROVE IInv'
    BY Zenon
<1> USE ConstantsAssumption DEF IInv
<1>0. /\ status = "up" /\ op.kind = "tail" /\ readingFileTail = NoFile
      /\ UNCHANGED <<disk, status, op, knownBuckets, lastBucketID, writingFile, acked>>
  BY Zenon DEF openTail, Reading
<1>1. PICK f \in DOMAIN waitingFilesTail :
        /\ waitingFilesTail' = Without(waitingFilesTail, f)
        /\ \/ /\ readingFileTail' = f
              /\ file' = With(file, f, [nextPos |-> 0, size |-> waitingFilesTail[f], refCount |-> 1])
              /\ UNCHANGED abandoned
           \/ /\ abandoned' = abandoned \cup {f}
              /\ UNCHANGED <<readingFileTail, file>>
  BY Zenon DEF openTail
<1>2. /\ f \in DOMAIN disk /\ f \in FileNames /\ f # NoFile
      /\ f \notin DOMAIN file /\ f \notin abandoned /\ waitingFilesTail[f] = disk[f].len
      /\ f # writingFile
      /\ \A id \in DOMAIN knownBuckets : knownBuckets[id].file # f
  <2>1. f \in DOMAIN disk /\ f \notin DOMAIN file /\ f \notin abandoned /\ waitingFilesTail[f] = disk[f].len
    BY Zenon DEF FilesInv
  <2>2. f \in FileNames /\ f # NoFile
    BY Zenon DEF TypeOK
  <2>3. f # writingFile
    BY <2>1, <2>2, Zenon DEF WriteInv
  <2>4. \A id \in DOMAIN knownBuckets : knownBuckets[id].file # f
    BY <2>1, Zenon DEF KnownBucketsReadable
  <2> QED BY <2>1, <2>2, <2>3, <2>4, Zenon
<1>3. TypeOK'
  BY <1>0, <1>1, <1>2 DEF TypeOK, With, Without
<1>4. (DiskInv /\ OpInv /\ StatusInv)'
  BY <1>0, Zenon DEF DiskInv, End, OpInv, StatusInv
<1>5. FilesInv'
  BY <1>1, <1>2, <1>0 DEF FilesInv, With, Without, TypeOK
<1>6. TailInv'
  BY <1>0, <1>1, <1>2 DEF TailInv, Tail, With, DiskInv
<1>7. WriteInv'
  BY <1>0, <1>1, <1>2, Zenon DEF WriteInv, With, End
<1>8. RefCountsMatchHolders'
  <2>1. \A g \in FileNames : BucketsIn(g)' = BucketsIn(g)
    BY <1>0, Zenon DEF BucketsIn
  <2>2. BucketsIn(f) = {}
    BY <1>2, Zenon DEF BucketsIn
  <2>3. \A g \in FileNames : g # f => Holders(g)' = Holders(g)
    BY <1>0, <1>1, <1>2, <2>1, Zenon DEF Holders, One
  <2>4. Holders(f)' = IF readingFileTail' = f THEN 1 ELSE 0
    BY <1>0, <1>2, <2>1, <2>2, EmptyCardinality DEF Holders, One
  <2>5. \A g \in FileNames \ {f} : /\ g \in DOMAIN file' <=> g \in DOMAIN file
                                   /\ g \in DOMAIN file => file'[g] = file[g]
    BY <1>1, Zenon DEF With
  <2>6. IF readingFileTail' = f THEN f \in DOMAIN file' /\ file'[f].refCount = 1 ELSE f \notin DOMAIN file'
    BY <1>0, <1>1, <1>2 DEF With
  <2>7. \A g \in FileNames \ {f} : Holders(g)' = IF g \in DOMAIN file' THEN file'[g].refCount ELSE 0
    BY <2>3, <2>5, Zenon DEF RefCountsMatchHolders
  <2>8. Holders(f)' = IF f \in DOMAIN file' THEN file'[f].refCount ELSE 0
    BY <2>4, <2>6, Zenon
  <2> QED BY <2>7, <2>8, Zenon DEF RefCountsMatchHolders
<1>9. (KnownBucketsReadable /\ NoBucketKnownTwice)'
  <2>1. \A g \in DOMAIN file : g \in DOMAIN file' /\ file'[g] = file[g]
    BY <1>1, <1>2, Zenon DEF With
  <2>2. KnownBucketsReadable'
    BY <1>0, <2>1, ZenonT(40) DEF KnownBucketsReadable
  <2>3. NoBucketKnownTwice'
    BY <1>0, Zenon DEF NoBucketKnownTwice
  <2> QED BY <2>2, <2>3, Zenon
<1>10. AckedBucketsKept'
  BY <1>0, <1>1, <1>2 DEF AckedBucketsKept, With, Without, TypeOK
<1> QED BY <1>3, <1>4, <1>5, <1>6, <1>7, <1>8, <1>9, <1>10, Zenon

\* ReadNextTailSecond passing over an erased bucket.
LEMMA SkipDeletedIInv == IInv /\ skipDeleted => IInv'
<1> SUFFICES ASSUME IInv, skipDeleted PROVE IInv'
    BY Zenon
<1> USE ConstantsAssumption DEF IInv
<1> DEFINE t == readingFileTail
<1>0. /\ status = "up" /\ t # NoFile /\ Tail.nextPos < Tail.size /\ TailEnd <= Tail.size
      /\ TailChunk.magic = "deleted"
      /\ file' = [file EXCEPT ![t].nextPos = TailEnd]
      /\ UNCHANGED <<disk, status, op, knownBuckets, lastBucketID, readingFileTail,
                     waitingFilesTail, writingFile, acked, abandoned>>
  BY Zenon DEF skipDeleted, TailReadable, Reading
<1>1. /\ t \in DOMAIN disk /\ t \in DOMAIN file /\ Tail.nextPos \in DOMAIN disk[t].chunk
      /\ file[t] \in [nextPos : Nat, size : Nat, refCount : Nat]
      /\ TailEnd = End(t, Tail.nextPos)
  BY <1>0, Zenon DEF TailInv, FilesInv, TypeOK, TailEnd, TailChunk, End
<1>2. TailEnd \in Nat /\ Tail.nextPos < TailEnd
  BY <1>1, ChunkNumbers, Zenon
<1>3. /\ DOMAIN file' = DOMAIN file
      /\ \A g \in DOMAIN file :
          /\ file'[g] \in [nextPos : Nat, size : Nat, refCount : Nat]
          /\ file'[g].size = file[g].size /\ file'[g].refCount = file[g].refCount
          /\ file'[g].nextPos = IF g = t THEN TailEnd ELSE file[g].nextPos
  BY <1>0, <1>1, <1>2, Zenon DEF TypeOK
<1>4. TypeOK'
  BY <1>0, <1>3, Zenon DEF TypeOK
<1>5. (DiskInv /\ OpInv /\ StatusInv)'
  BY <1>0, Zenon DEF DiskInv, End, OpInv, StatusInv
<1>6. FilesInv'
  BY <1>0, <1>3, Zenon DEF FilesInv
<1>7. TailInv'
  <2>1. TailEnd < Tail.size => TailEnd \in DOMAIN disk[t].chunk
    BY <1>0, <1>1, <1>2 DEF DiskInv, TailInv, TypeOK
  <2>2. \A id \in DOMAIN knownBuckets : knownBuckets[id].file = t => knownBuckets[id].pos < TailEnd
    BY <1>0, <1>1, <1>2 DEF TailInv, TypeOK, Tail
  <2> QED BY <1>0, <1>1, <1>3, <2>1, <2>2, Zenon DEF TailInv, Tail
<1>8. WriteInv'
  BY <1>0, <1>3, Zenon DEF WriteInv, End
<1>9. RefCountsMatchHolders'
  BY <1>0, <1>3 DEF RefCountsMatchHolders, Holders, One, BucketsIn
<1>10. (KnownBucketsReadable /\ NoBucketKnownTwice)'
  BY <1>0, <1>3, Zenon DEF KnownBucketsReadable, NoBucketKnownTwice
<1>11. AckedBucketsKept'
  <2> SUFFICES ASSUME NEW a \in acked, a[1] = t, a[2] >= Tail.nextPos
               PROVE  a[2] >= TailEnd
    BY <1>0, <1>1, <1>3, Zenon DEF AckedBucketsKept, Tail
  <2>1. a[2] \in DOMAIN disk[t].chunk /\ disk[t].chunk[a[2]].magic = "good"
    BY Zenon DEF AckedBucketsKept
  <2>2. a[2] # Tail.nextPos
    BY <1>0, <2>1, Zenon DEF TailChunk
  <2> QED BY <2>1, <2>2, <1>1, <1>2, ChunkNumbers DEF DiskInv, Tail
<1> QED BY <1>4, <1>5, <1>6, <1>7, <1>8, <1>9, <1>10, <1>11, Zenon

-----------------------------------------------------------------------------
\* The buckets of a file, as buckets are added and removed.
LEMMA BucketsFinite ==
  ASSUME TypeOK, NEW f
  PROVE  IsFiniteSet(BucketsIn(f)) /\ Cardinality(BucketsIn(f)) \in Nat
<1>0. lastBucketID \in Int /\ 1 \in Int
  BY ConstantsAssumption DEF TypeOK
<1>1. IsFiniteSet(1 .. lastBucketID)
  BY <1>0, FS_Interval, Zenon
<1>2. BucketsIn(f) \subseteq 1 .. lastBucketID
  BY Zenon DEF BucketsIn, TypeOK
<1>3. IsFiniteSet(BucketsIn(f))
  BY <1>1, <1>2, FS_Subset, Zenon
<1> QED BY <1>3, FS_CardinalityType, Zenon

\* A new id adds one holder to its file and none to any other.
LEMMA BucketAdded ==
  ASSUME TypeOK, NEW sec, assignBucketID(sec), NEW f
  PROVE  Cardinality(BucketsIn(f)') = Cardinality(BucketsIn(f)) + One(sec.file = f)
<1>1. lastBucketID + 1 \notin DOMAIN knownBuckets
  BY ConstantsAssumption DEF TypeOK
<1>2. CASE sec.file = f
  <2>1. BucketsIn(f)' = BucketsIn(f) \cup {lastBucketID + 1}
    BY <1>1, <1>2, Zenon DEF BucketsIn, assignBucketID, With
  <2>2. lastBucketID + 1 \notin BucketsIn(f)
    BY <1>1, Zenon DEF BucketsIn
  <2> QED BY <1>2, <2>1, <2>2, BucketsFinite, FS_AddElement, Zenon DEF One
<1>3. CASE sec.file # f
  <2>1. BucketsIn(f)' = BucketsIn(f)
    BY <1>1, <1>3, Zenon DEF BucketsIn, assignBucketID, With
  <2> QED BY <1>3, <2>1, BucketsFinite DEF One
<1> QED BY <1>2, <1>3, Zenon

\* An erased id takes one holder from its file and none from any other.
LEMMA BucketRemoved ==
  ASSUME TypeOK, NEW id \in DOMAIN knownBuckets, knownBuckets' = Without(knownBuckets, id), NEW f
  PROVE  Cardinality(BucketsIn(f)') = Cardinality(BucketsIn(f)) - One(knownBuckets[id].file = f)
<1>2. CASE knownBuckets[id].file = f
  <2>1. BucketsIn(f)' = BucketsIn(f) \ {id}
    BY <1>2, Zenon DEF BucketsIn, Without
  <2>2. id \in BucketsIn(f)
    BY <1>2, Zenon DEF BucketsIn
  <2> QED BY <1>2, <2>1, <2>2, BucketsFinite, FS_RemoveElement, Zenon DEF One
<1>3. CASE knownBuckets[id].file # f
  <2>1. BucketsIn(f)' = BucketsIn(f)
    BY <1>3, Zenon DEF BucketsIn, Without
  <2> QED BY <1>3, <2>1, BucketsFinite DEF One
<1> QED BY <1>2, <1>3, Zenon

\* A file without bucket holders is one no known bucket is in.
LEMMA NoBuckets ==
  ASSUME TypeOK, NEW f
  PROVE  Cardinality(BucketsIn(f)) = 0 <=> \A id \in DOMAIN knownBuckets : knownBuckets[id].file # f
<1>1. Cardinality(BucketsIn(f)) = 0 <=> BucketsIn(f) = {}
  BY BucketsFinite, FS_EmptySet, Zenon
<1> QED BY <1>1, Zenon DEF BucketsIn

\* writeSecond creating a file.
LEMMA CreateFileIInv == IInv /\ createFile => IInv'
<1> SUFFICES ASSUME IInv, createFile PROVE IInv'
    BY Zenon
<1> USE ConstantsAssumption DEF IInv
<1>0. /\ status = "up" /\ op.kind = "create" /\ writingFile = NoFile
      /\ UNCHANGED <<status, knownBuckets, lastBucketID, readingFileTail,
                     waitingFilesTail, acked, abandoned>>
  BY Zenon DEF createFile, OpInv
<1>1. CASE op' = Idle /\ UNCHANGED <<disk, file, writingFile>>
  <2> USE <1>0, <1>1
  <2>1. (TypeOK /\ DiskInv /\ FilesInv /\ TailInv)'
    BY Zenon DEF TypeOK, DiskInv, FilesInv, TailInv, Tail, End
  <2>2. (WriteInv /\ OpInv /\ StatusInv)'
    BY Zenon DEF WriteInv, OpInv, StatusInv, Idle
  <2>3. RefCountsMatchHolders'
    BY Zenon DEF RefCountsMatchHolders, Holders, BucketsIn, One
  <2>4. (KnownBucketsReadable /\ NoBucketKnownTwice /\ AckedBucketsKept)'
    BY DEF KnownBucketsReadable, NoBucketKnownTwice, AckedBucketsKept
  <2> QED BY <2>1, <2>2, <2>3, <2>4, Zenon
<1>2. ASSUME NEW f \in NewNames,
             disk' = With(disk, f, [len |-> 0, chunk |-> Empty]),
             file' = With(file, f, [nextPos |-> 0, size |-> 0, refCount |-> 1]),
             writingFile' = f,
             op' = [op EXCEPT !.kind = "header"]
      PROVE  IInv'
  <2>1. /\ f \in FileNames /\ f # NoFile /\ f \notin DOMAIN disk
        /\ f \notin DOMAIN file /\ f \notin DOMAIN waitingFilesTail /\ f \notin abandoned
        /\ \A id \in DOMAIN knownBuckets : knownBuckets[id].file # f
    BY <1>2, Zenon DEF NewNames, FilesInv, KnownBucketsReadable
  <2>2. /\ DOMAIN disk' = DOMAIN disk \cup {f} /\ \A g \in DOMAIN disk : disk'[g] = disk[g]
        /\ disk'[f] = [len |-> 0, chunk |-> Empty] /\ DOMAIN Empty = {}
    BY <1>2, <2>1, Zenon DEF With, Empty
  <2>3. /\ DOMAIN file' = DOMAIN file \cup {f} /\ \A g \in DOMAIN file : file'[g] = file[g]
        /\ file'[f] = [nextPos |-> 0, size |-> 0, refCount |-> 1]
    BY <1>2, <2>1, Zenon DEF With
  <2>4. op' \in [kind : {"header"}, time : Times, size : BodySizes]
    BY <1>0, <1>2 DEF TypeOK, Idle
  <2>5. TypeOK'
    <3>1. /\ DOMAIN disk' \subseteq FileNames
          /\ \A g \in DOMAIN disk' :
              /\ disk'[g].len \in Nat
              /\ DOMAIN disk'[g].chunk \subseteq Nat
              /\ \A p \in DOMAIN disk'[g].chunk : disk'[g].chunk[p] \in Chunk
      BY <2>1, <2>2 DEF TypeOK
    <3>2. /\ DOMAIN file' \subseteq FileNames
          /\ \A g \in DOMAIN file' : file'[g] \in [nextPos : Nat, size : Nat, refCount : Nat]
      BY <2>1, <2>3 DEF TypeOK
    <3> QED BY <1>0, <1>2, <2>1, <2>4, <3>1, <3>2, Zenon DEF TypeOK
  <2>6. DiskInv'
    BY <2>2 DEF DiskInv, End
  <2>7. FilesInv'
    BY <1>0, <2>1, <2>2, <2>3 DEF FilesInv
  <2>8. TailInv'
    BY <1>0, <1>2, <2>1, <2>2, <2>3, Zenon DEF TailInv, Tail, FilesInv
  <2>9. (WriteInv /\ OpInv /\ StatusInv)'
    BY <1>0, <1>2, <2>1, <2>2, <2>3, <2>4 DEF WriteInv, OpInv, StatusInv
  <2>10. RefCountsMatchHolders'
    <3>1. Cardinality(BucketsIn(f)) = 0
      BY <2>1, NoBuckets, Zenon
    <3>2. \A g \in FileNames : BucketsIn(g)' = BucketsIn(g)
      BY <1>0, Zenon DEF BucketsIn
    <3>3. f # readingFileTail
      BY <2>1, Zenon DEF TailInv
    <3> QED BY <1>0, <1>2, <2>1, <2>3, <3>1, <3>2, <3>3 DEF RefCountsMatchHolders, Holders, One
  <2>11. (KnownBucketsReadable /\ NoBucketKnownTwice)'
    BY <1>0, <2>2, <2>3 DEF KnownBucketsReadable, NoBucketKnownTwice
  <2>12. AckedBucketsKept'
    <3> SUFFICES ASSUME NEW a \in acked
                 PROVE  AckedBucketsKept!(a)'
      BY <1>0, Zenon DEF AckedBucketsKept
    <3>1. a[1] # f /\ AckedBucketsKept!(a)
      BY <2>1, Zenon DEF AckedBucketsKept
    <3>2. a[1] = readingFileTail => a[1] \in DOMAIN file
      BY Zenon DEF TypeOK, TailInv
    <3> QED BY <3>1, <3>2, <1>0, <2>2, <2>3, Zenon
  <2> QED BY <2>5, <2>6, <2>7, <2>8, <2>9, <2>10, <2>11, <2>12, Zenon
<1> QED BY <1>1, <1>2, Zenon DEF createFile

-----------------------------------------------------------------------------
\* unrefFile drops one reference and, if it was the last, the file.
Dropped(f, d) ==
    /\ DOMAIN file' = IF file[f].refCount = 1 THEN DOMAIN file \ {f} ELSE DOMAIN file
    /\ \A g \in DOMAIN file' :
         /\ file'[g] \in [nextPos : Nat, size : Nat, refCount : Nat]
         /\ file'[g].nextPos = file[g].nextPos /\ file'[g].size = file[g].size
         /\ file'[g].refCount = file[g].refCount - One(g = f)
    /\ DOMAIN disk' \subseteq DOMAIN disk /\ DOMAIN disk \ {f} \subseteq DOMAIN disk'
    /\ f \in DOMAIN file' => f \in DOMAIN disk'
    /\ \A g \in DOMAIN disk' : disk'[g] = d[g]
    /\ abandoned \subseteq abandoned' /\ abandoned' \subseteq (abandoned \cup {f}) \cap DOMAIN disk'
    /\ f \in DOMAIN file' => f \notin abandoned'

LEMMA Unref ==
  ASSUME TypeOK, FilesInv, NEW f \in DOMAIN file, file[f].refCount >= 1,
         NEW d, DOMAIN d = DOMAIN disk, unrefFile(f, d)
  PROVE  Dropped(f, d)
<1> USE DEF Dropped
<1>0. file[f] \in [nextPos : Nat, size : Nat, refCount : Nat] /\ f \notin abandoned
  BY Zenon DEF TypeOK, FilesInv
<1>1. CASE file[f].refCount = 1
  <2>1. closeFile(f, d)
    BY <1>1, <1>0, Zenon DEF unrefFile, LastRef
  <2>2. DOMAIN file' = DOMAIN file \ {f} /\ \A g \in DOMAIN file' : file'[g] = file[g]
    BY <2>1, Zenon DEF closeFile, Without
  <2> QED BY <1>0, <1>1, <2>1, <2>2 DEF closeFile, Without, TypeOK, One, FilesInv
<1>2. CASE file[f].refCount # 1
  <2>1. file' = [file EXCEPT ![f].refCount = @ - 1] /\ disk' = d /\ abandoned' = abandoned
    BY <1>2, <1>0 DEF unrefFile, LastRef
  <2>2. DOMAIN file' = DOMAIN file /\ \A g \in DOMAIN file : g # f => file'[g] = file[g]
    BY <2>1, Zenon
  <2>3. file'[f] = [nextPos |-> file[f].nextPos, size |-> file[f].size, refCount |-> file[f].refCount - 1]
    BY <2>1, <1>0, Zenon
  <2> QED BY <1>0, <1>2, <2>1, <2>2, <2>3 DEF TypeOK, One, FilesInv
<1> QED BY <1>1, <1>2, Zenon

\* A file as DiskInv and TypeOK want it.
Sound(df) ==
    /\ DOMAIN df = {"len", "chunk"} /\ df.len \in Nat
    /\ DOMAIN df.chunk \subseteq Nat
    /\ \A p \in DOMAIN df.chunk : df.chunk[p] \in Chunk
    /\ df.len # 0 => 0 \in DOMAIN df.chunk
    /\ \A p \in DOMAIN df.chunk : LET end == p + HeaderSize + df.chunk[p].size IN
        /\ end >= df.len \/ end \in DOMAIN df.chunk
        /\ \A q \in DOMAIN df.chunk : p < q => end <= q

\* What TypeOK and DiskInv say of each file.
LEMMA DiskSound == TypeOK /\ DiskInv => \A f \in DOMAIN disk : Sound(disk[f]) /\ disk[f].len <= disk[f].len
BY DEF DiskInv, End, TypeOK, Sound

\* Dropping a reference to f keeps the invariant when one holder of f goes away with it
\* and no saved bucket of f is left without a holder.
LEMMA DropIInv ==
  ASSUME IInv, status = "up", NEW f \in DOMAIN file, file[f].refCount >= 1,
         NEW d, unrefFile(f, d),
         UNCHANGED <<status, waitingFilesTail, lastBucketID>>,
         DOMAIN d = DOMAIN disk, \A g \in DOMAIN disk : g # f => d[g] = disk[g], Sound(d[f]),
         d = disk \/ (f = writingFile /\ writingFile' = NoFile),
         disk[f].len <= d[f].len,
         \A p \in DOMAIN disk[f].chunk :
            p \in DOMAIN d[f].chunk /\ (p # file[f].size => d[f].chunk[p] = disk[f].chunk[p]),
         DOMAIN knownBuckets' \subseteq DOMAIN knownBuckets,
         \A id \in DOMAIN knownBuckets' :
            knownBuckets'[id] = knownBuckets[id] /\ op # [kind |-> "unref", id |-> id],
         \A id \in DOMAIN knownBuckets : knownBuckets[id].file # f => id \in DOMAIN knownBuckets',
         readingFileTail' \in {readingFileTail, NoFile},
         readingFileTail # f => readingFileTail' = readingFileTail,
         writingFile' \in {writingFile, NoFile},
         \A g \in FileNames : Holders(g)' = Holders(g) - One(g = f),
         acked' \subseteq acked,
         \A a \in acked' : a[1] = f =>
            \/ \E id \in DOMAIN knownBuckets' : knownBuckets[id].file = f /\ knownBuckets[id].pos = a[2]
            \/ f = readingFileTail' /\ a[2] >= file[f].nextPos,
         op' \in {Idle} \cup [kind : {"tail"}] \cup [kind : {"create"}, time : Times, size : BodySizes],
         op'.kind = "create" => writingFile' = NoFile /\ lastBucketID < MaxBucketID,
         writingFile' # NoFile => op.kind # "body"
  PROVE  IInv'
<1> USE ConstantsAssumption DEF IInv
<1>1. /\ f \in FileNames /\ f # NoFile /\ f \in DOMAIN disk /\ f \notin abandoned
      /\ f \notin DOMAIN waitingFilesTail /\ file[f] \in [nextPos : Nat, size : Nat, refCount : Nat]
  BY Zenon DEF TypeOK, FilesInv
<1>2. Dropped(f, d)
  BY Unref, Zenon
<1>3. RefCountsMatchHolders'
  <2>1. \A g \in FileNames : Holders(g) = IF g \in DOMAIN file THEN file[g].refCount ELSE 0
    BY Zenon DEF RefCountsMatchHolders
  <2>2. \A g \in FileNames : Holders(g)' = IF g \in DOMAIN file' THEN file'[g].refCount ELSE 0
    BY <1>1, <1>2, <2>1 DEF Dropped, One, TypeOK
  <2> QED BY <2>2, Zenon DEF RefCountsMatchHolders
<1>4. /\ \A id \in DOMAIN knownBuckets' : knownBuckets'[id].file \in DOMAIN file'
      /\ readingFileTail' # NoFile => readingFileTail' \in DOMAIN file'
      /\ writingFile' # NoFile => writingFile' \in DOMAIN file'
  <2>1. \A g \in FileNames : Holders(g)' # 0 => g \in DOMAIN file'
    BY <1>3, Zenon DEF RefCountsMatchHolders
  <2>2. ASSUME NEW g \in FileNames
        PROVE  /\ Cardinality(BucketsIn(g)') \in Nat
               /\ Cardinality(BucketsIn(g)') = 0 <=> BucketsIn(g)' = {}
    <3>1. BucketsIn(g)' \subseteq BucketsIn(g)
      BY Zenon DEF BucketsIn
    <3>2. IsFiniteSet(BucketsIn(g)')
      BY <3>1, BucketsFinite, FS_Subset, Zenon
    <3> QED BY <3>2, FS_EmptySet, FS_CardinalityType, Zenon
  <2>3. \A id \in DOMAIN knownBuckets' : knownBuckets'[id].file \in FileNames
    BY Zenon DEF TypeOK
  <2>4. ASSUME NEW g \in FileNames, g \notin DOMAIN file'
        PROVE  BucketsIn(g)' = {} /\ readingFileTail' # g /\ writingFile' # g
    <3>1. Cardinality(BucketsIn(g)') + One(readingFileTail' = g) + One(writingFile' = g) = 0
      BY <2>1, <2>4, Zenon DEF Holders, One
    <3>2. Cardinality(BucketsIn(g)') = 0 /\ readingFileTail' # g /\ writingFile' # g
      BY <3>1, <2>2 DEF One
    <3> QED BY <2>2, <3>2, Zenon
  <2>5. \A id \in DOMAIN knownBuckets' : knownBuckets'[id].file \in DOMAIN file'
    BY <2>3, <2>4, Zenon DEF BucketsIn
  <2>6. readingFileTail' # NoFile => readingFileTail' \in DOMAIN file'
    BY <2>4 DEF TypeOK
  <2>7. writingFile' # NoFile => writingFile' \in DOMAIN file'
    BY <2>4 DEF TypeOK
  <2> QED BY <2>5, <2>6, <2>7, Zenon
<1>5. /\ \A g \in DOMAIN disk' : Sound(disk'[g])
      /\ \A g \in DOMAIN disk' : disk[g].len <= disk'[g].len
  <2>1. \A g \in DOMAIN disk : Sound(disk[g]) /\ disk[g].len <= disk[g].len
    BY DiskSound, Zenon
  <2> QED BY <1>2, <2>1 DEF Dropped
<1>6. TypeOK'
  BY <1>1, <1>2, <1>5 DEF TypeOK, Dropped, Sound
<1>7. DiskInv'
  BY <1>5, Zenon DEF DiskInv, End, Sound
<1>8. FilesInv'
  <2>1. ASSUME NEW g \in DOMAIN file'
        PROVE  g \in DOMAIN disk' /\ g \notin abandoned' /\ file'[g].size <= disk'[g].len
    <3>1. g \in DOMAIN file /\ g \in DOMAIN disk' /\ g \notin abandoned'
      BY <1>2, Zenon DEF FilesInv, Dropped
    <3>2. file[g].size \in Nat /\ disk[g].len \in Nat /\ disk'[g].len \in Nat
      BY <1>5, <3>1, Zenon DEF TypeOK, FilesInv, Sound
    <3>3. file'[g].size = file[g].size /\ file[g].size <= disk[g].len /\ disk[g].len <= disk'[g].len
      BY <1>2, <1>5, <3>1, Zenon DEF FilesInv, Dropped
    <3> QED BY <3>1, <3>2, <3>3
  <2>2. \A g \in DOMAIN waitingFilesTail :
           g \in DOMAIN disk' /\ g \notin DOMAIN file' /\ g \notin abandoned' /\ waitingFilesTail[g] = disk'[g].len
    BY <1>1, <1>2 DEF FilesInv, Dropped
  <2> QED BY <1>2, <2>1, <2>2, Zenon DEF FilesInv, Dropped
<1>9. TailInv'
  <2> SUFFICES ASSUME readingFileTail' # NoFile PROVE TailInv!2'
    BY Zenon DEF TailInv
  <2>1. /\ readingFileTail' = readingFileTail /\ readingFileTail \in DOMAIN file' /\ readingFileTail \in DOMAIN disk'
        /\ file'[readingFileTail].nextPos = Tail.nextPos /\ file'[readingFileTail].size = Tail.size
    BY <1>2, <1>4, <1>8 DEF Dropped, Tail, FilesInv
  <2>2. disk'[readingFileTail] = disk[readingFileTail]
    BY <1>2, <2>1, Zenon DEF Dropped, TailInv
  <2> QED BY <2>1, <2>2, Zenon DEF TailInv, Tail
<1>10. WriteInv'
  <2> SUFFICES ASSUME writingFile' # NoFile PROVE WriteInv!2'
    BY Zenon DEF WriteInv
  <2>1. /\ writingFile' = writingFile /\ writingFile \in DOMAIN file' /\ writingFile \in DOMAIN disk'
        /\ file'[writingFile].size = file[writingFile].size
    BY <1>2, <1>4, <1>8 DEF Dropped, FilesInv
  <2>2. disk'[writingFile] = disk[writingFile]
    BY <1>2, <2>1, Zenon DEF Dropped
  <2>3. op'.kind # "body" /\ op.kind # "body"
    BY DEF Idle
  <2> QED BY <2>1, <2>2, <2>3, Zenon DEF WriteInv, End
<1>11. (OpInv /\ StatusInv)'
  BY DEF OpInv, StatusInv, Idle
<1>12. NoBucketKnownTwice'
  BY DEF NoBucketKnownTwice
<1>13. KnownBucketsReadable'
  <2> SUFFICES ASSUME NEW id \in DOMAIN knownBuckets'
               PROVE  KnownBucketsReadable!(id)'
    BY Zenon DEF KnownBucketsReadable
  <2> DEFINE sec == knownBuckets[id]
  <2>1. KnownBucketsReadable!(id) /\ sec = knownBuckets'[id]
    BY Zenon DEF KnownBucketsReadable
  <2>2. sec.file \in DOMAIN file' /\ sec.file \in DOMAIN disk'
    BY <2>1, <1>4, <1>8, Zenon DEF FilesInv
  <2>3. sec.pos # file[sec.file].size
    <3>1. sec.pos \in Nat /\ sec.size \in Nat /\ HeaderSize \in Nat \ {0} /\ file[sec.file].size \in Nat
      BY <2>1, Zenon DEF TypeOK
    <3> QED BY <2>1, <3>1
  <2>4. sec.pos \in DOMAIN disk'[sec.file].chunk /\ disk'[sec.file].chunk[sec.pos] = disk[sec.file].chunk[sec.pos]
    BY <1>2, <2>1, <2>2, <2>3 DEF Dropped
  <2>5. file'[sec.file].size = file[sec.file].size
    BY <1>2, <2>2, Zenon DEF Dropped
  <2> QED BY <1>8, <2>1, <2>2, <2>4, <2>5, Zenon DEF FilesInv
<1>14. AckedBucketsKept'
  <2> SUFFICES ASSUME NEW a \in acked'
               PROVE  AckedBucketsKept!(a)'
    BY Zenon DEF AckedBucketsKept
  <2>1. AckedBucketsKept!(a) /\ a[1] \in FileNames /\ a[2] \in Nat
    BY Zenon DEF AckedBucketsKept, TypeOK
  <2>2. CASE a[1] # f
    <3>1. a[1] \in DOMAIN disk' /\ disk'[a[1]] = disk[a[1]]
      BY <1>2, <2>1, <2>2, Zenon DEF Dropped
    <3>2. a[1] = readingFileTail => readingFileTail' = a[1] /\ file'[a[1]].nextPos = file[a[1]].nextPos
      BY <1>1, <1>2, <1>4, <2>1, <2>2 DEF Dropped
    <3>3. a[1] \in abandoned => a[1] \in abandoned'
      BY <1>2, Zenon DEF Dropped
    <3> QED BY <2>1, <2>2, <3>1, <3>2, <3>3
  <2>3. CASE a[1] = f
    <3>1. \/ \E id \in DOMAIN knownBuckets' : knownBuckets[id].file = f /\ knownBuckets[id].pos = a[2]
          \/ f = readingFileTail' /\ a[2] >= file[f].nextPos
      BY <2>3, Zenon
    <3>2. f \in DOMAIN file' /\ f \in DOMAIN disk' /\ file'[f].nextPos = file[f].nextPos /\ disk'[f] = d[f]
      BY <1>1, <1>2, <1>4, <3>1 DEF Dropped
    <3>3. d[f].chunk[a[2]] = disk[f].chunk[a[2]] /\ a[2] \in DOMAIN d[f].chunk
      <4>1. CASE a[2] # file[f].size
        BY <2>1, <2>3, <4>1, Zenon
      <4>2. CASE a[2] = file[f].size
        <5>1. ~ \E id \in DOMAIN knownBuckets' : knownBuckets[id].file = f /\ knownBuckets[id].pos = a[2]
          <6> SUFFICES ASSUME NEW id \in DOMAIN knownBuckets, knownBuckets[id].file = f, knownBuckets[id].pos = a[2]
                       PROVE  FALSE
            BY Zenon
          <6>1. a[2] + HeaderSize + knownBuckets[id].size <= file[f].size
            BY Zenon DEF KnownBucketsReadable
          <6>2. knownBuckets[id].size \in Nat /\ HeaderSize \in Nat \ {0} /\ a[2] \in Nat
            BY <2>1, Zenon DEF TypeOK
          <6> QED BY <6>1, <6>2, <4>2
        <5>2. f = readingFileTail /\ f # writingFile
          BY <1>1, <3>1, <5>1, Zenon DEF TailInv
        <5> QED BY <2>1, <2>3, <5>2, Zenon
      <4> QED BY <4>1, <4>2, Zenon
    <3>4. a[2] + HeaderSize + disk[f].chunk[a[2]].size <= d[f].len
      <4>1. a[2] + HeaderSize + disk[f].chunk[a[2]].size <= disk[f].len
        BY <2>1, <2>3, Zenon
      <4>2. a[2] \in Nat /\ HeaderSize \in Nat /\ disk[f].chunk[a[2]].size \in Nat
        BY <2>1, <2>3, <1>1, ChunkNumbers, Zenon
      <4>3. disk[f].len \in Nat /\ d[f].len \in Nat
        BY <1>1, Zenon DEF TypeOK, Sound
      <4> QED BY <4>1, <4>2, <4>3
    <3> QED BY <2>1, <2>3, <3>1, <3>2, <3>3, <3>4
  <2> QED BY <2>2, <2>3, Zenon
<1> QED BY <1>3, <1>6, <1>7, <1>8, <1>9, <1>10, <1>11, <1>12, <1>13, <1>14, Zenon

\* PutBucket up to the choice of the file, rotation included.
LEMMA PutBucketIInv == IInv /\ (\E t \in Times, n \in BodySizes : PutBucket(t, n)) => IInv'
<1> SUFFICES ASSUME IInv, NEW t \in Times, NEW n \in BodySizes, PutBucket(t, n) PROVE IInv'
    BY Zenon
<1> USE ConstantsAssumption DEF IInv
<1> DEFINE w == writingFile
<1>0. /\ status = "up" /\ op = Idle /\ op.kind = "idle" /\ lastBucketID < MaxBucketID
      /\ UNCHANGED <<status, knownBuckets, lastBucketID, readingFileTail, waitingFilesTail, acked>>
  BY Zenon DEF PutBucket, Ready, Idle
<1>1. ASSUME NEW k \in {"create", "header"}, op' = [kind |-> k, time |-> t, size |-> n],
             k = "create" <=> w = NoFile, UNCHANGED <<disk, file, abandoned, writingFile>>
      PROVE  IInv'
  <2> USE <1>0, <1>1
  <2>1. (TypeOK /\ DiskInv /\ FilesInv /\ TailInv)'
    BY Zenon DEF TypeOK, DiskInv, FilesInv, TailInv, Tail, End
  <2>2. (WriteInv /\ OpInv /\ StatusInv)'
    BY Zenon DEF WriteInv, OpInv, StatusInv, End
  <2>3. RefCountsMatchHolders'
    BY Zenon DEF RefCountsMatchHolders, Holders, BucketsIn, One
  <2>4. (KnownBucketsReadable /\ NoBucketKnownTwice /\ AckedBucketsKept)'
    BY Zenon DEF KnownBucketsReadable, NoBucketKnownTwice, AckedBucketsKept, Idle
  <2> QED BY <2>1, <2>2, <2>3, <2>4, Zenon
<1>2. ASSUME w # NoFile, unrefFile(w, disk), writingFile' = NoFile,
             op' = [kind |-> "create", time |-> t, size |-> n]
      PROVE  IInv'
  <2>1. w \in FileNames /\ w \in DOMAIN file /\ w # readingFileTail /\ w \in DOMAIN disk
    BY <1>2, Zenon DEF TypeOK, WriteInv, TailInv, FilesInv
  <2>2. \A g \in FileNames : Holders(g)' = Holders(g) - One(g = w)
    <3>1. \A g \in FileNames : BucketsIn(g)' = BucketsIn(g) /\ Cardinality(BucketsIn(g)) \in Nat
      BY <1>0, BucketsFinite, Zenon DEF BucketsIn
    <3> QED BY <3>1, <1>0, <1>2 DEF Holders, One
  <2>3. file[w].refCount >= 1
    BY <2>1, BucketsFinite DEF RefCountsMatchHolders, Holders, One
  <2>4. \A a \in acked : a[1] = w =>
            \E id \in DOMAIN knownBuckets : knownBuckets[id].file = w /\ knownBuckets[id].pos = a[2]
    BY <1>0, <2>1 DEF AckedBucketsKept, FilesInv
  <2>5. \A id \in DOMAIN knownBuckets : op # [kind |-> "unref", id |-> id]
    BY <1>0
  <2>6. op' \in [kind : {"create"}, time : Times, size : BodySizes] /\ op'.kind = "create"
    BY <1>2, Zenon
  <2>7. Sound(disk[w]) /\ disk[w].len <= disk[w].len
    BY <2>1, DiskSound, Zenon
  <2> QED BY <1>0, <1>2, <2>1, <2>2, <2>3, <2>4, <2>5, <2>6, <2>7, DropIInv, ZenonT(40)
<1>3. \/ op' = [kind |-> "create", time |-> t, size |-> n] /\ w = NoFile /\ UNCHANGED <<disk, file, abandoned, writingFile>>
      \/ op' = [kind |-> "header", time |-> t, size |-> n] /\ w # NoFile /\ UNCHANGED <<disk, file, abandoned, writingFile>>
      \/ w # NoFile /\ unrefFile(w, disk) /\ writingFile' = NoFile /\ op' = [kind |-> "create", time |-> t, size |-> n]
  BY Zenon DEF PutBucket
<1> QED BY <1>1, <1>2, <1>3, Zenon

\* ReadNextTailSecond dropping the tail file.
LEMMA FinishTailIInv == IInv /\ finishTail => IInv'
<1> SUFFICES ASSUME IInv, finishTail PROVE IInv'
    BY Zenon
<1> USE ConstantsAssumption DEF IInv
<1> DEFINE t == readingFileTail
<1>0. /\ status = "up" /\ op.kind = "tail" /\ t # NoFile /\ unrefFile(t, disk) /\ readingFileTail' = NoFile
      /\ UNCHANGED <<status, op, knownBuckets, lastBucketID, waitingFilesTail, writingFile>>
      /\ \/ Tail.nextPos >= Tail.size /\ UNCHANGED acked
         \/ acked' = {a \in acked : ~(a[1] = t /\ a[2] >= Tail.nextPos)}
  BY Zenon DEF finishTail, Reading
<1>1. /\ t \in FileNames /\ t \in DOMAIN file /\ t # writingFile /\ t \in DOMAIN disk
      /\ Tail.size = disk[t].len /\ Tail \in [nextPos : Nat, size : Nat, refCount : Nat]
  BY <1>0, Zenon DEF TypeOK, TailInv, FilesInv, Tail
<1>2. \A g \in FileNames : Holders(g)' = Holders(g) - One(g = t)
  <2>1. \A g \in FileNames : BucketsIn(g)' = BucketsIn(g) /\ Cardinality(BucketsIn(g)) \in Nat
    BY <1>0, BucketsFinite, Zenon DEF BucketsIn
  <2> QED BY <2>1, <1>0 DEF Holders, One
<1>3. file[t].refCount >= 1
  BY <1>1, BucketsFinite DEF RefCountsMatchHolders, Holders, One
<1>4. acked' \subseteq acked
  BY <1>0, Zenon
<1>5. ASSUME NEW a \in acked', a[1] = t
      PROVE  \E id \in DOMAIN knownBuckets : knownBuckets[id].file = t /\ knownBuckets[id].pos = a[2]
  <2>1. a \in acked /\ AckedBucketsKept!(a) /\ a[2] \in Nat
    BY <1>4, Zenon DEF AckedBucketsKept, TypeOK
  <2>2. a[2] + HeaderSize + disk[t].chunk[a[2]].size <= Tail.size /\ disk[t].chunk[a[2]].size \in Nat
    BY <1>1, <1>5, <2>1, ChunkNumbers, Zenon
  <2>3. ~(a[2] >= file[t].nextPos)
    BY <1>0, <1>1, <1>5, <2>1, <2>2 DEF Tail
  <2> QED BY <1>0, <1>1, <1>5, <2>1, <2>3, Zenon DEF FilesInv
<1>6. op \in [kind : {"tail"}] /\ op.kind # "create" /\ op.kind # "body"
  BY <1>0, Zenon DEF TypeOK, Idle
<1>7. \A id \in DOMAIN knownBuckets : op # [kind |-> "unref", id |-> id]
  BY <1>0
<1>8. Sound(disk[t]) /\ disk[t].len <= disk[t].len
  BY <1>1, DiskSound, ZenonT(40)
<1> QED BY <1>0, <1>1, <1>2, <1>3, <1>4, <1>5, <1>6, <1>7, <1>8, DropIInv, ZenonT(40)

\* eraseBucket dropping the reference of the bucket.
LEMMA UnrefErasedIInv == IInv /\ unrefErased => IInv'
<1> SUFFICES ASSUME IInv, unrefErased PROVE IInv'
    BY Zenon
<1> USE ConstantsAssumption DEF IInv
<1> DEFINE id == op.id
           f == knownBuckets[id].file
<1>0. /\ status = "up" /\ op.kind = "unref" /\ unrefFile(f, disk) /\ op' = Idle
      /\ knownBuckets' = Without(knownBuckets, id)
      /\ UNCHANGED <<status, lastBucketID, readingFileTail, waitingFilesTail, writingFile, acked>>
  BY Zenon DEF unrefErased
<1>1. /\ id \in DOMAIN knownBuckets /\ f \in DOMAIN file /\ f \in DOMAIN disk /\ f \in FileNames
      /\ <<f, knownBuckets[id].pos>> \notin acked
  BY <1>0, Zenon DEF OpInv, KnownBucketsReadable, TypeOK
<1>2. /\ DOMAIN knownBuckets' = DOMAIN knownBuckets \ {id}
      /\ \A i \in DOMAIN knownBuckets' : knownBuckets'[i] = knownBuckets[i]
  BY <1>0, Zenon DEF Without
<1>3. \A g \in FileNames : Holders(g)' = Holders(g) - One(g = f)
  <2>1. \A g \in FileNames : /\ Cardinality(BucketsIn(g)') = Cardinality(BucketsIn(g)) - One(f = g)
                             /\ Cardinality(BucketsIn(g)) \in Nat
    BY <1>0, <1>1, BucketRemoved, BucketsFinite, Zenon
  <2> QED BY <2>1, <1>0 DEF Holders, One
<1>4. file[f].refCount >= 1
  <2>1. Cardinality(BucketsIn(f)) \in Nat /\ Cardinality(BucketsIn(f)) # 0
    BY <1>1, BucketsFinite, NoBuckets, Zenon
  <2>2. One(readingFileTail = f) \in Nat /\ One(writingFile = f) \in Nat
    BY Zenon DEF One
  <2>3. file[f].refCount = Cardinality(BucketsIn(f)) + One(readingFileTail = f) + One(writingFile = f)
    BY <1>1, Zenon DEF RefCountsMatchHolders, Holders
  <2> QED BY <2>1, <2>2, <2>3
<1>5. ASSUME NEW a \in acked, a[1] = f
      PROVE  \/ \E i \in DOMAIN knownBuckets' : knownBuckets[i].file = f /\ knownBuckets[i].pos = a[2]
             \/ f = readingFileTail /\ a[2] >= file[f].nextPos
  <2>1. AckedBucketsKept!(a) /\ a = <<a[1], a[2]>>
    BY DEF AckedBucketsKept, TypeOK
  <2>2. f \notin DOMAIN waitingFilesTail /\ f \notin abandoned
    BY <1>1, Zenon DEF FilesInv
  <2>3. CASE f = readingFileTail /\ a[2] >= file[f].nextPos
    BY <2>3, Zenon
  <2>4. CASE \E i \in DOMAIN knownBuckets : knownBuckets[i].file = a[1] /\ knownBuckets[i].pos = a[2]
    <3>1. PICK i \in DOMAIN knownBuckets : knownBuckets[i].file = f /\ knownBuckets[i].pos = a[2]
      BY <1>5, <2>4, Zenon
    <3>2. i # id
      BY <1>1, <1>5, <2>1, <3>1, Zenon
    <3> QED BY <1>2, <3>1, <3>2, Zenon
  <2> QED BY <1>0, <1>5, <2>1, <2>2, <2>3, <2>4, Zenon
<1>6. \A i \in DOMAIN knownBuckets' : op # [kind |-> "unref", id |-> i]
  BY <1>2
<1>7. Idle.kind # "create"
  BY Zenon DEF Idle
<1>8. Sound(disk[f]) /\ disk[f].len <= disk[f].len
  BY <1>1, DiskSound, Zenon
<1> QED BY <1>0, <1>1, <1>2, <1>3, <1>4, <1>5, <1>6, <1>7, <1>8, DropIInv

=============================================================================
