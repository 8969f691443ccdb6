-------------------------- MODULE DiskCacheProofs ---------------------------
(***************************************************************************)
(* Taking a bucket from the tail, erasing one and writing one keep the     *)
(* inductive invariant of DiskCache too.  So it holds for any set of       *)
(* files, times and body lengths, and with it the properties of the cache. *)
(***************************************************************************)
EXTENDS DiskCacheInvariant

\* Writing n bytes of a chunk at the end of the file being written.
Extended(d, n, t, z) == LET w == writingFile pos == file[w].size IN
    /\ DOMAIN d = DOMAIN disk /\ \A g \in DOMAIN disk : g # w => d[g] = disk[g]
    /\ d[w].len = pos + n /\ DOMAIN d[w].chunk = DOMAIN disk[w].chunk \cup {pos}
    /\ d[w].chunk[pos] = [magic |-> "good", time |-> t, size |-> z, body |-> "intact"]
    /\ \A p \in DOMAIN disk[w].chunk : p # pos => d[w].chunk[p] = disk[w].chunk[p]
    /\ Sound(d[w]) /\ disk[w].len <= d[w].len

\* Nothing is below the start of a file.
LEMMA BelowZero == \A m, n \in Nat : n >= m /\ n = 0 => m = 0
OBVIOUS

\* The file stays a chain of chunks.
LEMMA ChunkWritten ==
  ASSUME TypeOK, DiskInv, FilesInv, WriteInv, writingFile # NoFile,
         NEW n \in Nat, NEW t \in Times, NEW z \in BodySizes,
         n <= HeaderSize + z, op.kind = "body" => n >= HeaderSize,
         NEW d, d = Written(writingFile, file[writingFile].size, n, t, z)
  PROVE  Extended(d, n, t, z)
<1> USE ConstantsAssumption
<1> DEFINE w == writingFile
           pos == file[w].size
           c == [magic |-> "good", time |-> t, size |-> z, body |-> "intact"]
<1>1. w \in DOMAIN file /\ w \in DOMAIN disk /\ pos \in Nat /\ disk[w].len \in Nat /\ DOMAIN disk[w].chunk \subseteq Nat
  BY Zenon DEF WriteInv, FilesInv, TypeOK
<1>2. /\ DOMAIN d = DOMAIN disk /\ \A g \in DOMAIN disk : g # w => d[g] = disk[g]
      /\ d[w] = [len |-> pos + n, chunk |-> With(disk[w].chunk, pos, c)]
  BY <1>1, Zenon DEF Written
<1>3. /\ DOMAIN d[w] = {"len", "chunk"} /\ d[w].len = pos + n
      /\ DOMAIN d[w].chunk = DOMAIN disk[w].chunk \cup {pos} /\ d[w].chunk[pos] = c
      /\ \A p \in DOMAIN disk[w].chunk : p # pos => d[w].chunk[p] = disk[w].chunk[p]
  BY <1>2 DEF With
<1>4. disk[w].len <= pos + n /\ disk[w].len >= pos
  BY <1>1 DEF WriteInv
<1>5. \A p \in DOMAIN d[w].chunk : p \in Nat /\ d[w].chunk[p] \in Chunk /\ d[w].chunk[p].size \in Nat
  <2>1. c \in Chunk /\ c.size \in Nat
    BY Zenon DEF Chunk
  <2>2. \A p \in DOMAIN disk[w].chunk : disk[w].chunk[p] \in Chunk /\ disk[w].chunk[p].size \in Nat
    BY <1>1, ChunkNumbers, Zenon DEF TypeOK
  <2> TAKE p \in DOMAIN d[w].chunk
  <2>3. CASE p = pos
    BY <1>1, <1>3, <2>1, <2>3, Zenon
  <2>4. CASE p # pos
    BY <1>1, <1>3, <2>2, <2>4, Zenon
  <2> QED BY <2>3, <2>4, Zenon
<1>6. d[w].len # 0 => 0 \in DOMAIN d[w].chunk
  <2>1. disk[w].len # 0 => 0 \in DOMAIN disk[w].chunk
    BY <1>1, Zenon DEF DiskInv
  <2>2. disk[w].len = 0 => pos = 0
    BY <1>1, <1>4, BelowZero, Zenon
  <2> QED BY <1>3, <2>1, <2>2, Zenon
<1>7. ASSUME NEW p \in DOMAIN disk[w].chunk, p # pos
      PROVE  LET end == p + HeaderSize + d[w].chunk[p].size IN end <= pos /\ end \in DOMAIN d[w].chunk
  <2>1. End(w, p) = p + HeaderSize + d[w].chunk[p].size /\ End(w, p) \in Nat
    BY <1>1, <1>3, <1>7, ChunkNumbers, Zenon DEF End
  <2>2. End(w, p) <= pos
    BY <1>7, Zenon DEF WriteInv
  <2>3. End(w, p) >= disk[w].len \/ End(w, p) \in DOMAIN disk[w].chunk
    BY <1>1, <1>7, Zenon DEF DiskInv
  <2> QED BY <1>1, <1>3, <1>4, <2>1, <2>2, <2>3
<1>8. \A p \in DOMAIN d[w].chunk : p <= pos
  <2> TAKE p \in DOMAIN d[w].chunk
  <2>1. CASE p = pos
    BY <1>1, <2>1
  <2>2. CASE p # pos
    <3>1. p + HeaderSize + d[w].chunk[p].size <= pos
      BY <1>3, <1>7, <2>2, Zenon
    <3>2. p \in Nat /\ d[w].chunk[p].size \in Nat
      BY <1>5, Zenon
    <3> QED BY <1>1, <3>1, <3>2
  <2> QED BY <2>1, <2>2, Zenon
<1>9. \A p \in DOMAIN d[w].chunk : LET end == p + HeaderSize + d[w].chunk[p].size IN
        /\ end >= d[w].len \/ end \in DOMAIN d[w].chunk
        /\ \A q \in DOMAIN d[w].chunk : p < q => end <= q
  <2> TAKE p \in DOMAIN d[w].chunk
  <2>1. CASE p = pos
    BY <1>1, <1>3, <1>5, <1>8, <2>1
  <2>2. CASE p # pos
    <3> DEFINE end == p + HeaderSize + d[w].chunk[p].size
    <3>1. p \in DOMAIN disk[w].chunk /\ end <= pos /\ end \in DOMAIN d[w].chunk
      BY <1>3, <1>7, <2>2, Zenon
    <3>2. \A q \in DOMAIN d[w].chunk : p < q => end <= q
      <4> TAKE q \in DOMAIN d[w].chunk
      <4> HAVE p < q
      <4>1. CASE q = pos
        BY <3>1, <4>1, Zenon
      <4>2. CASE q # pos
        BY <1>1, <1>3, <2>2, <3>1, <4>2, Zenon DEF DiskInv, End
      <4> QED BY <4>1, <4>2, Zenon
    <3> QED BY <3>1, <3>2, Zenon
  <2> QED BY <2>1, <2>2, Zenon
<1> QED BY <1>2, <1>3, <1>4, <1>5, <1>6, <1>9, <1>1 DEF Sound, Extended

\* ReadNextTailSecond returning a bucket.
LEMMA TakeFromTailIInv == IInv /\ takeFromTail => IInv'
<1> SUFFICES ASSUME IInv, takeFromTail PROVE IInv'
    BY Zenon
<1> USE ConstantsAssumption DEF IInv
<1> DEFINE t == readingFileTail
           sec == [file |-> t, pos |-> Tail.nextPos, time |-> TailChunk.time, size |-> TailChunk.size]
           new == lastBucketID + 1
<1>0. /\ status = "up" /\ op.kind = "tail" /\ t # NoFile /\ Tail.nextPos < Tail.size /\ TailEnd <= Tail.size
      /\ TailChunk.magic = "good" /\ lastBucketID < MaxBucketID
      /\ assignBucketID(sec)
      /\ file' = [file EXCEPT ![t] = passBucket(@)] /\ op' = Idle
      /\ UNCHANGED <<disk, status, readingFileTail, waitingFilesTail, writingFile, acked, abandoned>>
  BY Zenon DEF takeFromTail, TailReadable, Reading
<1>1. /\ t \in DOMAIN disk /\ t \in DOMAIN file /\ Tail.nextPos \in DOMAIN disk[t].chunk
      /\ file[t] \in [nextPos : Nat, size : Nat, refCount : Nat]
      /\ TailEnd = End(t, Tail.nextPos) /\ TailChunk = disk[t].chunk[Tail.nextPos] /\ TailChunk \in Chunk
      /\ t \in FileNames /\ t # writingFile
  BY <1>0, Zenon DEF TailInv, FilesInv, TypeOK, TailEnd, TailChunk, End
<1>2. TailEnd \in Nat /\ Tail.nextPos < TailEnd /\ Tail.nextPos \in Nat
  BY <1>1, ChunkNumbers, Zenon
<1>3. /\ DOMAIN file' = DOMAIN file
      /\ \A g \in DOMAIN file :
          /\ file'[g] \in [nextPos : Nat, size : Nat, refCount : Nat]
          /\ file'[g].size = file[g].size
          /\ file'[g].refCount = file[g].refCount + One(g = t)
          /\ file'[g].nextPos = IF g = t THEN TailEnd ELSE file[g].nextPos
  <2>1. file'[t] = [nextPos |-> TailEnd, size |-> file[t].size, refCount |-> file[t].refCount + 1]
    BY <1>0, <1>1, Zenon DEF passBucket
  <2>2. DOMAIN file' = DOMAIN file /\ \A g \in DOMAIN file : g # t => file'[g] = file[g]
    BY <1>0, Zenon
  <2> QED BY <2>1, <2>2, <1>1, <1>2 DEF TypeOK, One
<1>4. /\ new \notin DOMAIN knownBuckets /\ DOMAIN knownBuckets' = DOMAIN knownBuckets \cup {new}
      /\ knownBuckets'[new] = sec /\ lastBucketID' = new /\ new \in 1 .. MaxBucketID
      /\ \A id \in DOMAIN knownBuckets : knownBuckets'[id] = knownBuckets[id]
  BY <1>0 DEF TypeOK, assignBucketID, With
<1>5. TypeOK'
  <2>1. sec \in [file : FileNames, pos : Nat, time : Times, size : BodySizes]
    BY <1>1, <1>2, Zenon DEF Chunk
  <2>2. DOMAIN knownBuckets' \subseteq 1 .. lastBucketID'
    BY <1>4 DEF TypeOK
  <2> QED BY <1>0, <1>3, <1>4, <2>1, <2>2 DEF TypeOK
<1>6. (DiskInv /\ OpInv /\ StatusInv)'
  BY <1>0, Zenon DEF DiskInv, End, OpInv, StatusInv, Idle
<1>7. FilesInv'
  BY <1>0, <1>3, Zenon DEF FilesInv
<1>8. TailInv'
  <2>1. TailEnd < Tail.size => TailEnd \in DOMAIN disk[t].chunk
    BY <1>0, <1>1, <1>2 DEF DiskInv, TailInv, TypeOK
  <2>2. \A id \in DOMAIN knownBuckets' : knownBuckets'[id].file = t => knownBuckets'[id].pos < TailEnd
    BY <1>0, <1>1, <1>2, <1>4 DEF TailInv, TypeOK, Tail
  <2> QED BY <1>0, <1>1, <1>3, <2>1, <2>2 DEF TailInv, Tail
<1>9. WriteInv'
  BY <1>0, <1>1, <1>3, Zenon DEF WriteInv, End, Idle
<1>10. RefCountsMatchHolders'
  <2>1. \A g \in FileNames : Cardinality(BucketsIn(g)') = Cardinality(BucketsIn(g)) + One(t = g)
    BY <1>0, BucketAdded
  <2>2. \A g \in FileNames : Cardinality(BucketsIn(g)) \in Nat
    BY BucketsFinite, Zenon
  <2> QED BY <2>1, <2>2, <1>0, <1>1, <1>3 DEF RefCountsMatchHolders, Holders, One
<1>11. KnownBucketsReadable'
  <2>0. disk' = disk /\ DOMAIN file' = DOMAIN file /\ \A g \in DOMAIN file : file'[g].size = file[g].size
    BY <1>0, <1>3, Zenon
  <2>1. \A id \in DOMAIN knownBuckets : knownBuckets[id] = knownBuckets'[id] /\ op # [kind |-> "unref", id |-> id]
    BY <1>0, <1>4
  <2>2. /\ sec.pos + HeaderSize + sec.size <= file[t].size /\ file[t].size <= disk[t].len
    BY <1>0, <1>1, Zenon DEF TailEnd, Tail, FilesInv
  <2> SUFFICES ASSUME NEW id \in DOMAIN knownBuckets'
               PROVE  KnownBucketsReadable!(id)'
    BY Zenon DEF KnownBucketsReadable
  <2>3. CASE id = new
    <3>1. /\ knownBuckets'[id].file = t /\ knownBuckets'[id].pos = Tail.nextPos
          /\ knownBuckets'[id].time = TailChunk.time /\ knownBuckets'[id].size = TailChunk.size
      BY <1>4, <2>3
    <3>2. Tail.nextPos + HeaderSize + TailChunk.size <= file[t].size /\ file[t].size <= disk[t].len
      BY <2>2, Zenon
    <3> QED BY <1>0, <1>1, <2>0, <3>1, <3>2, Zenon
  <2>4. CASE id \in DOMAIN knownBuckets
    <3>1. knownBuckets'[id] = knownBuckets[id] /\ op # [kind |-> "unref", id |-> id] /\ KnownBucketsReadable!(id)
      BY <2>1, <2>4, Zenon DEF KnownBucketsReadable
    <3> QED BY <2>0, <3>1, Zenon
  <2> QED BY <1>4, <2>3, <2>4, Zenon
<1>12. NoBucketKnownTwice'
  <2>1. \A id \in DOMAIN knownBuckets : knownBuckets[id].file = t => knownBuckets[id].pos # Tail.nextPos
    BY <1>0, <1>2 DEF TailInv, TypeOK
  <2> QED BY <1>4, <2>1 DEF NoBucketKnownTwice
<1>13. AckedBucketsKept'
  <2> SUFFICES ASSUME NEW a \in acked, a[1] = t, a[2] >= Tail.nextPos, a[2] # Tail.nextPos
               PROVE  a[2] >= TailEnd
    BY <1>0, <1>1, <1>3, <1>4 DEF AckedBucketsKept, Tail
  <2>1. a[2] \in DOMAIN disk[t].chunk
    BY Zenon DEF AckedBucketsKept
  <2>2. a[2] \in Nat /\ Tail.nextPos < a[2]
    BY <1>1, <1>2, <2>1, ChunkNumbers
  <2>3. End(t, Tail.nextPos) <= a[2]
    BY <1>1, <2>1, <2>2, Zenon DEF DiskInv
  <2> QED BY <1>1, <2>3, ZenonT(40)
<1> QED BY <1>5, <1>6, <1>7, <1>8, <1>9, <1>10, <1>11, <1>12, <1>13, Zenon

\* EraseBucket, and GetBucket on a bucket that cannot be read.
LEMMA EraseBucketIInv == IInv /\ (\E id \in DOMAIN knownBuckets : EraseBucket(id) \/ GetBucket(id)) => IInv'
<1> SUFFICES ASSUME IInv, NEW id \in DOMAIN knownBuckets, EraseBucket(id) \/ GetBucket(id) PROVE IInv'
    BY Zenon
<1> USE ConstantsAssumption DEF IInv
<1> DEFINE f == knownBuckets[id].file
           p == knownBuckets[id].pos
<1>0. /\ status = "up" /\ op = Idle
      /\ disk' = disk \/ disk' = [disk EXCEPT ![f].chunk[p].magic = "deleted"]
      /\ acked' = acked \ {<<f, p>>}
      /\ op' = [kind |-> "unref", id |-> id]
      /\ UNCHANGED <<status, memory, abandoned>>
  BY Zenon DEF EraseBucket, GetBucket, eraseBucket, Ready
<1>1. f \in DOMAIN disk /\ p \in DOMAIN disk[f].chunk
  BY Zenon DEF KnownBucketsReadable
<1>2. /\ DOMAIN disk' = DOMAIN disk
      /\ \A g \in DOMAIN disk :
          /\ DOMAIN disk'[g] = {"len", "chunk"}
          /\ disk'[g].len = disk[g].len
          /\ DOMAIN disk'[g].chunk = DOMAIN disk[g].chunk
  BY <1>0, <1>1 DEF DiskInv
<1>3. \A g \in DOMAIN disk : \A q \in DOMAIN disk[g].chunk :
          /\ disk'[g].chunk[q] \in Chunk
          /\ disk'[g].chunk[q].size = disk[g].chunk[q].size
          /\ disk'[g].chunk[q].time = disk[g].chunk[q].time
          /\ ~(g = f /\ q = p) => disk'[g].chunk[q] = disk[g].chunk[q]
  <2>1. CASE disk' = disk
    BY <2>1, Zenon DEF TypeOK
  <2>2. CASE disk' = [disk EXCEPT ![f].chunk[p].magic = "deleted"]
    BY <2>2, <1>1 DEF TypeOK, DiskInv, Chunk
  <2> QED BY <1>0, <2>1, <2>2, Zenon
<1>4. TypeOK'
  BY <1>0, <1>2, <1>3 DEF TypeOK, memory
<1>5. \A g \in DOMAIN disk : \A q \in DOMAIN disk[g].chunk : End(g, q)' = End(g, q)
  BY <1>3, Zenon DEF End
<1>6. DiskInv'
  BY <1>2, <1>5 DEF DiskInv
<1>7. FilesInv'
  BY <1>0, <1>2, Zenon DEF FilesInv, memory
<1>8. TailInv'
  BY <1>0, <1>2, Zenon DEF TailInv, Tail, memory, FilesInv
<1>9. WriteInv'
  BY <1>0, <1>2, <1>5 DEF WriteInv, memory, Idle, FilesInv
<1>10. (OpInv /\ StatusInv)'
  BY <1>0, Zenon DEF OpInv, StatusInv, memory
<1>11. RefCountsMatchHolders'
  BY <1>0, Zenon DEF RefCountsMatchHolders, Holders, BucketsIn, One, memory
<1>12. NoBucketKnownTwice'
  BY <1>0, Zenon DEF NoBucketKnownTwice, memory
<1>13. KnownBucketsReadable'
  <2> SUFFICES ASSUME NEW i \in DOMAIN knownBuckets
               PROVE  KnownBucketsReadable!(i)'
    BY <1>0, Zenon DEF KnownBucketsReadable, memory
  <2>1. KnownBucketsReadable!(i) /\ op # [kind |-> "unref", id |-> i]
    BY <1>0, Zenon DEF KnownBucketsReadable, Idle
  <2>2. i # id => ~(knownBuckets[i].file = f /\ knownBuckets[i].pos = p)
    BY Zenon DEF NoBucketKnownTwice
  <2> QED BY <1>0, <1>2, <1>3, <2>1, <2>2, ZenonT(40) DEF memory
<1>14. AckedBucketsKept'
  <2> SUFFICES ASSUME NEW a \in acked'
               PROVE  AckedBucketsKept!(a)'
    BY Zenon DEF AckedBucketsKept
  <2>1. a \in acked /\ a = <<a[1], a[2]>> /\ AckedBucketsKept!(a)
    BY <1>0 DEF AckedBucketsKept, TypeOK
  <2>2. ~(a[1] = f /\ a[2] = p)
    BY <1>0, <2>1, Zenon
  <2> QED BY <1>0, <1>2, <1>3, <2>1, <2>2, ZenonT(40) DEF memory
<1> QED BY <1>4, <1>6, <1>7, <1>8, <1>9, <1>10, <1>11, <1>12, <1>13, <1>14, Zenon



\* While a chunk is being written there is a file to write it to.
LEMMA WritingFacts ==
  ASSUME IInv, op.kind \in {"header", "body"}
  PROVE  /\ writingFile \in FileNames /\ writingFile # NoFile /\ writingFile # readingFileTail
         /\ writingFile \in DOMAIN file /\ writingFile \in DOMAIN disk
         /\ file[writingFile] \in [nextPos : Nat, size : Nat, refCount : Nat]
         /\ op \in [kind : {"header", "body"}, time : Times, size : BodySizes]
         /\ op.size \in Nat \ {0} /\ op.size \in BodySizes /\ op.time \in Times
<1> USE ConstantsAssumption DEF IInv
<1>1. op \in [kind : {"header", "body"}, time : Times, size : BodySizes]
  BY DEF TypeOK, Idle
<1>2. writingFile # NoFile /\ writingFile \in FileNames
  BY Zenon DEF OpInv, TypeOK
<1>3. writingFile \in DOMAIN file /\ writingFile # readingFileTail
  BY <1>2, Zenon DEF WriteInv, TailInv
<1>4. writingFile \in DOMAIN disk /\ file[writingFile] \in [nextPos : Nat, size : Nat, refCount : Nat]
  BY <1>3, Zenon DEF FilesInv, TypeOK
<1> QED BY <1>1, <1>2, <1>3, <1>4, Zenon

\* The write failed: the file being written is given up.
LEMMA WriteFailedIInv ==
  ASSUME IInv, status = "up", op.kind \in {"header", "body"},
         NEW n \in Nat, n <= HeaderSize + op.size, op.kind = "body" => n >= HeaderSize,
         unrefFile(writingFile, Written(writingFile, file[writingFile].size, n, op.time, op.size)),
         writingFile' = NoFile, op' = Idle,
         UNCHANGED <<status, knownBuckets, lastBucketID, readingFileTail, waitingFilesTail, acked>>
  PROVE  IInv'
<1> DEFINE w == writingFile
           d == Written(w, file[w].size, n, op.time, op.size)
<1>1. /\ w \in FileNames /\ w # NoFile /\ w \in DOMAIN file /\ w # readingFileTail /\ w \in DOMAIN disk
      /\ op.time \in Times /\ op.size \in BodySizes
  BY WritingFacts, ZenonT(40)
<1> USE ConstantsAssumption DEF IInv
<1>2. /\ DOMAIN d = DOMAIN disk /\ \A g \in DOMAIN disk : g # w => d[g] = disk[g]
      /\ DOMAIN d[w].chunk = DOMAIN disk[w].chunk \cup {file[w].size}
      /\ \A p \in DOMAIN disk[w].chunk : p # file[w].size => d[w].chunk[p] = disk[w].chunk[p]
      /\ Sound(d[w]) /\ disk[w].len <= d[w].len
  <2>1. Extended(d, n, op.time, op.size)
    BY <1>1, ChunkWritten, Zenon
  <2> QED BY <2>1, Zenon DEF Extended
<1>3. \A g \in FileNames : Holders(g)' = Holders(g) - One(g = w)
  <2>1. \A g \in FileNames : BucketsIn(g)' = BucketsIn(g) /\ Cardinality(BucketsIn(g)) \in Nat
    BY BucketsFinite, Zenon DEF BucketsIn
  <2> QED BY <2>1 DEF Holders, One
<1>4. file[w].refCount >= 1
  BY <1>1, BucketsFinite DEF RefCountsMatchHolders, Holders, One
<1>5. \A a \in acked : a[1] = w =>
          \E id \in DOMAIN knownBuckets : knownBuckets[id].file = w /\ knownBuckets[id].pos = a[2]
  BY <1>1 DEF AckedBucketsKept, FilesInv
<1>6. \A id \in DOMAIN knownBuckets : op # [kind |-> "unref", id |-> id]
  OBVIOUS
<1>7. Idle.kind # "create"
  BY Zenon DEF Idle
<1> QED BY <1>1, <1>2, <1>3, <1>4, <1>5, <1>6, <1>7, DropIInv

\* writeSecond writing the header.
LEMMA WriteHeaderIInv == IInv /\ writeHeader => IInv'
<1> SUFFICES ASSUME IInv, writeHeader PROVE IInv'
    BY Zenon
<1> USE ConstantsAssumption DEF IInv
<1> DEFINE w == writingFile
           pos == file[w].size
<1>0. /\ status = "up" /\ op.kind = "header"
      /\ UNCHANGED <<status, knownBuckets, lastBucketID, readingFileTail, waitingFilesTail, acked>>
  BY Zenon DEF writeHeader
<1>1. /\ w \in FileNames /\ w # NoFile /\ w \in DOMAIN file /\ w # readingFileTail /\ w \in DOMAIN disk
      /\ op \in [kind : {"header"}, time : Times, size : BodySizes] /\ pos \in Nat
      /\ op.size \in Nat \ {0} /\ op.size \in BodySizes /\ op.time \in Times
  BY <1>0, WritingFacts, Zenon
<1>2. CASE \E n \in 0 .. HeaderSize - 1 : /\ unrefFile(w, Written(w, pos, n, op.time, op.size))
                                          /\ writingFile' = NoFile /\ op' = Idle
  <2>1. PICK n \in 0 .. HeaderSize - 1 : unrefFile(w, Written(w, pos, n, op.time, op.size))
    BY <1>2, Zenon
  <2>2. n \in Nat /\ n <= HeaderSize + op.size
    BY <1>1
  <2> QED BY <1>0, <1>2, <2>1, <2>2, WriteFailedIInv, Zenon
<1>3. ASSUME disk' = Written(w, pos, HeaderSize, op.time, op.size), op' = [op EXCEPT !.kind = "body"],
             UNCHANGED <<file, writingFile, abandoned>>
      PROVE  IInv'
  <2>1. HeaderSize \in Nat /\ HeaderSize <= HeaderSize + op.size /\ op.kind # "body"
    BY <1>0, <1>1
  <2>2. /\ DOMAIN disk' = DOMAIN disk /\ \A g \in DOMAIN disk : g # w => disk'[g] = disk[g]
        /\ disk'[w].len = pos + HeaderSize /\ DOMAIN disk'[w].chunk = DOMAIN disk[w].chunk \cup {pos}
        /\ \A p \in DOMAIN disk[w].chunk : p # pos => disk'[w].chunk[p] = disk[w].chunk[p]
        /\ Sound(disk'[w]) /\ disk[w].len <= disk'[w].len
    <3>1. Extended(disk', HeaderSize, op.time, op.size)
      BY <1>1, <1>3, <2>1, ChunkWritten, Zenon
    <3> QED BY <3>1, Zenon DEF Extended
  <2>3. \A g \in DOMAIN disk' : Sound(disk'[g])
    BY <2>2, DiskSound, Zenon
  <2>4. op' = [kind |-> "body", time |-> op.time, size |-> op.size]
    BY <1>1, <1>3, Zenon
  <2>5. TypeOK'
    BY <1>0, <1>1, <1>3, <2>2, <2>3, <2>4, Zenon DEF TypeOK, Sound
  <2>6. DiskInv'
    BY <2>3, Zenon DEF DiskInv, End, Sound
  <2>7. FilesInv'
    BY <1>0, <1>1, <1>3, <2>2 DEF FilesInv, TypeOK, Sound
  <2>8. TailInv'
    BY <1>0, <1>1, <1>3, <2>2, Zenon DEF TailInv, Tail, FilesInv
  <2>9. WriteInv'
    BY <1>0, <1>1, <1>3, <2>2, <2>4 DEF WriteInv, End
  <2>10. (OpInv /\ StatusInv)'
    BY <1>0, <1>1, <1>3, <2>4, Zenon DEF OpInv, StatusInv
  <2>11. (RefCountsMatchHolders /\ NoBucketKnownTwice)'
    BY <1>0, <1>3, Zenon DEF RefCountsMatchHolders, Holders, BucketsIn, One, NoBucketKnownTwice
  <2>12. KnownBucketsReadable'
    <3> SUFFICES ASSUME NEW id \in DOMAIN knownBuckets
                 PROVE  KnownBucketsReadable!(id)'
      BY <1>0, Zenon DEF KnownBucketsReadable
    <3>1. KnownBucketsReadable!(id) /\ op # [kind |-> "unref", id |-> id]
      <4>1. op # [kind |-> "unref", id |-> id]
        BY <1>0
      <4> QED BY <4>1, Zenon DEF KnownBucketsReadable
    <3>2. knownBuckets[id].pos # file[knownBuckets[id].file].size
      <4>1. /\ knownBuckets[id].pos \in Nat /\ knownBuckets[id].size \in Nat /\ HeaderSize \in Nat \ {0}
            /\ file[knownBuckets[id].file].size \in Nat
        BY <3>1, Zenon DEF TypeOK
      <4> QED BY <3>1, <4>1
    <3>3. LET sec == knownBuckets[id] IN
            sec.pos \in DOMAIN disk'[sec.file].chunk /\ disk'[sec.file].chunk[sec.pos] = disk[sec.file].chunk[sec.pos]
      BY <2>2, <3>1, <3>2, Zenon
    <3> QED BY <1>0, <1>3, <2>2, <2>7, <3>1, <3>3, Zenon DEF FilesInv
  <2>13. AckedBucketsKept'
    <3> SUFFICES ASSUME NEW a \in acked
                 PROVE  AckedBucketsKept!(a)'
      BY <1>0, Zenon DEF AckedBucketsKept
    <3>1. AckedBucketsKept!(a) /\ a[2] \in Nat
      BY Zenon DEF AckedBucketsKept, TypeOK
    <3>2. CASE a[1] # w
      BY <1>0, <1>3, <2>2, <3>1, <3>2, Zenon
    <3>3. CASE a[1] = w
      <4>1. disk[w].chunk[a[2]].size \in Nat /\ disk[w].len \in Nat /\ disk[w].len = pos
        BY <1>0, <1>1, <3>1, <3>3, ChunkNumbers, Zenon DEF WriteInv, TypeOK
      <4>2. a[2] # pos
        BY <1>1, <3>1, <3>3, <4>1
      <4>3. disk'[w].chunk[a[2]] = disk[w].chunk[a[2]] /\ a[2] \in DOMAIN disk'[w].chunk
        BY <2>2, <3>1, <3>3, <4>2, Zenon
      <4>4. a[2] + HeaderSize + disk[w].chunk[a[2]].size <= disk'[w].len
        BY <1>1, <2>1, <2>2, <3>1, <3>3, <4>1
      <4> QED BY <1>0, <1>1, <1>3, <2>2, <3>1, <3>3, <4>3, <4>4, Zenon
    <3> QED BY <3>2, <3>3, Zenon
  <2> QED BY <2>5, <2>6, <2>7, <2>8, <2>9, <2>10, <2>11, <2>12, <2>13, Zenon
<1> QED BY <1>2, <1>3, Zenon DEF writeHeader


\* A chunk of z bytes and time t was written at pos, the end of file w, and its bucket
\* got the id new.
Appended(w, pos, t, z, new) ==
    /\ DOMAIN disk' = DOMAIN disk /\ \A g \in DOMAIN disk : g # w => disk'[g] = disk[g]
    /\ disk'[w].len = pos + (HeaderSize + z) /\ disk[w].len <= disk'[w].len
    /\ DOMAIN disk'[w].chunk = DOMAIN disk[w].chunk \cup {pos}
    /\ disk'[w].chunk[pos] = [magic |-> "good", time |-> t, size |-> z, body |-> "intact"]
    /\ \A p \in DOMAIN disk[w].chunk : p # pos => disk'[w].chunk[p] = disk[w].chunk[p]
    /\ DOMAIN file' = DOMAIN file /\ \A g \in DOMAIN file : g # w => file'[g] = file[g]
    /\ file'[w].nextPos = file[w].nextPos /\ file'[w].size = pos + (HeaderSize + z)
    /\ DOMAIN knownBuckets' = DOMAIN knownBuckets \cup {new}
    /\ knownBuckets'[new] = [file |-> w, pos |-> pos, time |-> t, size |-> z]
    /\ \A id \in DOMAIN knownBuckets : knownBuckets'[id] = knownBuckets[id]

\* The buckets known before and the new one can be read back.
LEMMA AppendedReadable ==
  ASSUME TypeOK, FilesInv', KnownBucketsReadable, NEW w \in DOMAIN file, w \in DOMAIN disk,
         NEW pos \in Nat, file[w].size = pos, NEW t, NEW z \in Nat, NEW new,
         Appended(w, pos, t, z, new), \A id \in DOMAIN knownBuckets : op # [kind |-> "unref", id |-> id]
  PROVE  KnownBucketsReadable'
<1> USE ConstantsAssumption DEF Appended
<1> SUFFICES ASSUME NEW id \in DOMAIN knownBuckets'
             PROVE  KnownBucketsReadable!(id)'
  BY Zenon DEF KnownBucketsReadable
<1>1. CASE id = new
  <2>1. pos + HeaderSize + z <= pos + (HeaderSize + z) /\ pos + (HeaderSize + z) <= pos + (HeaderSize + z)
    OBVIOUS
  <2> QED BY <1>1, <2>1
<1>2. CASE id \in DOMAIN knownBuckets
  <2> DEFINE s == knownBuckets[id]
  <2>1. /\ KnownBucketsReadable!(id) /\ disk[s.file].chunk[s.pos].magic = "good"
        /\ s.pos \in Nat /\ s.size \in Nat /\ file[s.file].size \in Nat
    BY <1>2, Zenon DEF KnownBucketsReadable, TypeOK
  <2>2. s.file \in DOMAIN disk' /\ s.file \in DOMAIN file' /\ file'[s.file].size <= disk'[s.file].len
    BY <2>1, Zenon DEF FilesInv
  <2>3. s.file = w => s.pos # pos
    BY <2>1
  <2>4. s.pos \in DOMAIN disk'[s.file].chunk /\ disk'[s.file].chunk[s.pos] = disk[s.file].chunk[s.pos]
    BY <2>1, <2>3, Zenon
  <2>5. s.pos + HeaderSize + s.size <= file'[s.file].size
    BY <2>1
  <2> QED BY <1>2, <2>1, <2>2, <2>4, <2>5, Zenon
<1> QED BY <1>1, <1>2, Zenon

\* The buckets saved before and the new one stay on disk and within reach.
LEMMA AppendedKept ==
  ASSUME TypeOK, TypeOK', TailInv, AckedBucketsKept, NEW w \in DOMAIN file, w \in DOMAIN disk,
         w # readingFileTail, NEW pos \in Nat, NEW t, NEW z \in Nat, NEW new,
         Appended(w, pos, t, z, new), acked' = acked \cup {<<w, pos>>},
         UNCHANGED <<status, readingFileTail, waitingFilesTail, abandoned>>
  PROVE  AckedBucketsKept'
<1> USE ConstantsAssumption DEF Appended
<1> SUFFICES ASSUME NEW a \in acked'
             PROVE  AckedBucketsKept!(a)'
  BY Zenon DEF AckedBucketsKept
<1>1. CASE a = <<w, pos>>
  BY <1>1
<1>2. CASE a \in acked /\ a # <<w, pos>>
  <2>1. AckedBucketsKept!(a) /\ a[2] \in Nat /\ a = <<a[1], a[2]>>
    BY <1>2 DEF AckedBucketsKept, TypeOK
  <2>2. a[2] \in DOMAIN disk'[a[1]].chunk /\ disk'[a[1]].chunk[a[2]] = disk[a[1]].chunk[a[2]]
    BY <1>2, <2>1
  <2>3. a[2] + HeaderSize + disk[a[1]].chunk[a[2]].size <= disk'[a[1]].len
    <3>1. disk[a[1]].chunk[a[2]].size \in Nat /\ disk[a[1]].len \in Nat /\ disk'[a[1]].len \in Nat
      BY <2>1, ChunkNumbers, Zenon DEF TypeOK
    <3> QED BY <2>1, <3>1
  <2>4. a[1] = readingFileTail => file'[a[1]].nextPos = file[a[1]].nextPos
    BY <2>1 DEF TailInv, TypeOK
  <2>5. ASSUME NEW id \in DOMAIN knownBuckets, knownBuckets[id].file = a[1], knownBuckets[id].pos = a[2]
        PROVE  \E i \in DOMAIN knownBuckets' : knownBuckets'[i].file = a[1] /\ knownBuckets'[i].pos = a[2]
    BY <2>5, Zenon
  <2> QED BY <2>1, <2>2, <2>3, <2>4, <2>5, ZenonT(30)
<1> QED BY <1>1, <1>2, Zenon

\* writeSecond writing the body and PutBucket returning the new id.
LEMMA WriteBodyIInv == IInv /\ writeBody => IInv'
<1> SUFFICES ASSUME IInv, writeBody PROVE IInv'
    BY Zenon
<1> DEFINE w == writingFile
           pos == file[w].size
           total == HeaderSize + op.size
           sec == [file |-> w, pos |-> pos, time |-> op.time, size |-> op.size]
           new == lastBucketID + 1
<1>0. status = "up" /\ op.kind = "body" /\ op' = Idle /\ UNCHANGED <<status, readingFileTail, waitingFilesTail>>
  BY Zenon DEF writeBody
<1>1. /\ w \in FileNames /\ w # NoFile /\ w \in DOMAIN file /\ w # readingFileTail /\ w \in DOMAIN disk
      /\ file[w] \in [nextPos : Nat, size : Nat, refCount : Nat] /\ pos \in Nat
      /\ op.size \in Nat \ {0} /\ op.size \in BodySizes /\ op.time \in Times
  BY <1>0, WritingFacts, Zenon
<1> USE ConstantsAssumption DEF IInv
<1>2. CASE \E n \in HeaderSize .. total - 1 :
             /\ unrefFile(w, Written(w, pos, n, op.time, op.size))
             /\ writingFile' = NoFile /\ UNCHANGED <<knownBuckets, lastBucketID, acked>>
  <2>1. PICK n \in HeaderSize .. total - 1 : unrefFile(w, Written(w, pos, n, op.time, op.size))
    BY <1>2, Zenon
  <2>2. n \in Nat /\ n <= HeaderSize + op.size /\ n >= HeaderSize
    BY <1>1
  <2> QED BY <1>0, <1>2, <2>1, <2>2, WriteFailedIInv, Zenon
<1>3. ASSUME disk' = Written(w, pos, total, op.time, op.size),
             file' = [file EXCEPT ![w].refCount = @ + 1, ![w].size = @ + total],
             assignBucketID(sec), acked' = acked \cup {<<w, pos>>}, UNCHANGED <<writingFile, abandoned>>,
             lastBucketID < MaxBucketID
      PROVE  IInv'
  <2>1. total \in Nat /\ total <= HeaderSize + op.size /\ total >= HeaderSize
    BY <1>1
  <2>2. /\ DOMAIN disk' = DOMAIN disk /\ \A g \in DOMAIN disk : g # w => disk'[g] = disk[g]
        /\ disk'[w].len = pos + total /\ DOMAIN disk'[w].chunk = DOMAIN disk[w].chunk \cup {pos}
        /\ disk'[w].chunk[pos] = [magic |-> "good", time |-> op.time, size |-> op.size, body |-> "intact"]
        /\ \A p \in DOMAIN disk[w].chunk : p # pos => disk'[w].chunk[p] = disk[w].chunk[p]
        /\ Sound(disk'[w]) /\ disk[w].len <= disk'[w].len
    <3>1. Extended(disk', total, op.time, op.size)
      BY <1>1, <1>3, <2>1, ChunkWritten, Zenon
    <3> QED BY <3>1, Zenon DEF Extended
  <2>3. \A g \in DOMAIN disk' : Sound(disk'[g])
    BY <2>2, DiskSound, Zenon
  <2>4. /\ DOMAIN file' = DOMAIN file /\ \A g \in DOMAIN file : g # w => file'[g] = file[g]
        /\ file'[w] = [nextPos |-> file[w].nextPos, size |-> pos + total, refCount |-> file[w].refCount + 1]
    BY <1>1, <1>3, Zenon
  <2>5. /\ new \notin DOMAIN knownBuckets /\ DOMAIN knownBuckets' = DOMAIN knownBuckets \cup {new}
        /\ knownBuckets'[new] = sec /\ lastBucketID' = new /\ new \in 1 .. MaxBucketID
        /\ \A id \in DOMAIN knownBuckets : knownBuckets'[id] = knownBuckets[id]
    <3>1. DOMAIN knownBuckets \subseteq 1 .. lastBucketID /\ lastBucketID \in 0 .. MaxBucketID
      BY Zenon DEF TypeOK
    <3>2. new \notin DOMAIN knownBuckets /\ new \in 1 .. MaxBucketID
      BY <1>3, <3>1
    <3> QED BY <1>3, <3>2, Zenon DEF assignBucketID, With
  <2>6. \A id \in DOMAIN knownBuckets : LET s == knownBuckets[id] IN
          /\ op # [kind |-> "unref", id |-> id]
          /\ s.pos # file[s.file].size
          /\ s.file \in DOMAIN disk /\ s.file \in DOMAIN file
          /\ s.pos \in DOMAIN disk[s.file].chunk
          /\ s.pos \in Nat /\ s.size \in Nat /\ file[s.file].size \in Nat
          /\ s.pos + HeaderSize + s.size <= file[s.file].size
          /\ disk[s.file].chunk[s.pos].magic = "good"
          /\ disk[s.file].chunk[s.pos].time = s.time /\ disk[s.file].chunk[s.pos].size = s.size
    <3> TAKE id \in DOMAIN knownBuckets
    <3> DEFINE s == knownBuckets[id]
    <3>1. KnownBucketsReadable!(id) /\ op # [kind |-> "unref", id |-> id]
      <4>1. op # [kind |-> "unref", id |-> id]
        BY <1>0
      <4> QED BY <4>1, Zenon DEF KnownBucketsReadable
    <3>2. s.pos \in Nat /\ s.size \in Nat /\ HeaderSize \in Nat \ {0} /\ file[s.file].size \in Nat
      BY <3>1, Zenon DEF TypeOK
    <3> QED BY <3>1, <3>2
  <2>7. TypeOK'
    <3>1. sec \in [file : FileNames, pos : Nat, time : Times, size : BodySizes] /\ <<w, pos>> \in FileNames \X Nat
      BY <1>1, Zenon
    <3>2. /\ DOMAIN knownBuckets' \subseteq 1 .. lastBucketID'
          /\ \A id \in DOMAIN knownBuckets' :
                knownBuckets'[id] \in [file : FileNames, pos : Nat, time : Times, size : BodySizes]
      BY <2>5, <3>1 DEF TypeOK
    <3>3. \A g \in DOMAIN file' : file'[g] \in [nextPos : Nat, size : Nat, refCount : Nat]
      BY <1>1, <2>1, <2>4 DEF TypeOK
    <3>4. acked' \subseteq FileNames \X Nat
      BY <1>3, <3>1, Zenon DEF TypeOK
    <3>5. \A g \in DOMAIN disk' :
              /\ disk'[g].len \in Nat
              /\ DOMAIN disk'[g].chunk \subseteq Nat
              /\ \A p \in DOMAIN disk'[g].chunk : disk'[g].chunk[p] \in Chunk
      BY <2>3, Zenon DEF Sound
    <3>6. DOMAIN disk' \subseteq FileNames /\ DOMAIN file' \subseteq FileNames
      BY <2>2, <2>4, Zenon DEF TypeOK
    <3>7. lastBucketID' \in 0 .. MaxBucketID
      BY <2>5
    <3>8. /\ op' = Idle /\ status' \in {"down", "scanning", "up"} /\ abandoned' \subseteq FileNames
          /\ readingFileTail' \in FileNames \cup {NoFile} /\ writingFile' \in FileNames \cup {NoFile}
          /\ DOMAIN waitingFilesTail' \subseteq FileNames
          /\ \A g \in DOMAIN waitingFilesTail' : waitingFilesTail'[g] \in Nat
      BY <1>0, <1>3, Zenon DEF TypeOK
    <3> QED BY <3>2, <3>3, <3>4, <3>5, <3>6, <3>7, <3>8, Zenon DEF TypeOK
  <2>8. DiskInv'
    BY <2>3, ZenonT(40) DEF DiskInv, End, Sound
  <2>9. FilesInv'
    <3>1. pos + total <= pos + total
      BY <1>1, <2>1
    <3>2. \A g \in DOMAIN file' : file'[g].size <= disk'[g].len
      <4> TAKE g \in DOMAIN file'
      <4>1. CASE g = w
        BY <2>2, <2>4, <3>1, <4>1
      <4>2. CASE g # w
        BY <2>2, <2>4, <4>2, Zenon DEF FilesInv
      <4> QED BY <4>1, <4>2, Zenon
    <3> QED BY <1>0, <1>1, <1>3, <2>2, <2>4, <3>2 DEF FilesInv
  <2>10. TailInv'
    BY <1>0, <1>1, <1>3, <2>2, <2>4, <2>5 DEF TailInv, Tail, FilesInv
  <2>11. WriteInv'
    <3>1. \A p \in DOMAIN disk'[w].chunk : p + HeaderSize + disk'[w].chunk[p].size <= pos + total
      <4> TAKE p \in DOMAIN disk'[w].chunk
      <4>1. CASE p = pos
        BY <1>1, <2>2, <4>1
      <4>2. CASE p # pos
        <5>1. End(w, p) <= pos /\ End(w, p) = p + HeaderSize + disk'[w].chunk[p].size /\ p \in DOMAIN disk[w].chunk
          BY <1>1, <2>2, <4>2, Zenon DEF WriteInv, End
        <5>2. End(w, p) \in Nat
          BY <1>1, <5>1, ChunkNumbers, Zenon
        <5> QED BY <1>1, <2>1, <5>1, <5>2
      <4> QED BY <4>1, <4>2, Zenon
    <3> QED BY <1>0, <1>1, <1>3, <2>2, <2>4, <3>1, Zenon DEF WriteInv, End, Idle
  <2>12. (OpInv /\ StatusInv)'
    BY <1>0, Zenon DEF OpInv, StatusInv, Idle
  <2>13. RefCountsMatchHolders'
    <3>1. \A g \in FileNames : /\ Cardinality(BucketsIn(g)') = Cardinality(BucketsIn(g)) + One(w = g)
                               /\ Cardinality(BucketsIn(g)) \in Nat
      BY <1>3, BucketAdded, BucketsFinite
    <3>2. \A g \in FileNames : Holders(g)' = Holders(g) + One(w = g)
      <4> TAKE g \in FileNames
      <4>1. /\ One(readingFileTail = g)' = One(readingFileTail = g)
            /\ One(writingFile = g)' = One(writingFile = g)
        BY <1>0, <1>3, Zenon DEF One
      <4>2. {One(readingFileTail = g), One(writingFile = g), One(w = g)} \subseteq Nat
        BY DEF One
      <4> QED BY <3>1, <4>1, <4>2 DEF Holders
    <3> QED BY <1>1, <2>4, <3>2 DEF RefCountsMatchHolders, One, TypeOK
  <2>14. NoBucketKnownTwice'
    BY <2>5, <2>6 DEF NoBucketKnownTwice
  <2>15. Appended(w, pos, op.time, op.size, new)
    <3>1. file'[w].nextPos = file[w].nextPos /\ file'[w].size = pos + total
      BY <2>4
    <3> QED BY <1>1, <2>2, <2>4, <2>5, <3>1, Zenon DEF Appended
  <2>16. KnownBucketsReadable'
    BY <1>1, <2>6, <2>9, <2>15, AppendedReadable
  <2>17. AckedBucketsKept'
    BY <1>0, <1>1, <1>3, <2>7, <2>15, AppendedKept, Zenon
  <2> QED BY <2>7, <2>8, <2>9, <2>10, <2>11, <2>12, <2>13, <2>14, <2>16, <2>17, Zenon
<1>4. lastBucketID < MaxBucketID
  BY <1>0, Zenon DEF OpInv
<1> QED BY <1>2, <1>3, <1>4, Zenon DEF writeBody

-----------------------------------------------------------------------------
\* Every step keeps the invariant.
LEMMA NextIInv == IInv /\ [Next]_vars => IInv'
<1> SUFFICES ASSUME IInv, [Next]_vars PROVE IInv'
    BY Zenon
<1>1. CASE UNCHANGED vars
  <2> USE <1>1 DEF IInv, vars, memory
  <2>1. (TypeOK /\ DiskInv /\ FilesInv /\ TailInv /\ WriteInv /\ OpInv /\ StatusInv)'
    BY Zenon DEF TypeOK, DiskInv, FilesInv, TailInv, WriteInv, OpInv, StatusInv, End, Tail
  <2>2. RefCountsMatchHolders'
    BY Zenon DEF RefCountsMatchHolders, Holders, BucketsIn, One
  <2>3. (KnownBucketsReadable /\ NoBucketKnownTwice /\ AckedBucketsKept)'
    BY Zenon DEF KnownBucketsReadable, NoBucketKnownTwice, AckedBucketsKept
  <2> QED BY <2>1, <2>2, <2>3, Zenon
<1>2. CASE Next
  BY Zenon, <1>2, PutBucketIInv, CreateFileIInv, WriteHeaderIInv, WriteBodyIInv, ReadNextTailSecondIInv,
     OpenTailIInv, FinishTailIInv, SkipDeletedIInv, TakeFromTailIInv, EraseBucketIInv,
     UnrefErasedIInv, StopIInv, DamageIInv, StartIInv, ScanIInv DEF Next
<1> QED BY <1>1, <1>2, Zenon

\* The inductive invariant holds in every reachable state of a shard.
THEOREM Invariance == Spec => []IInv
BY InitIInv, NextIInv, PTL DEF Spec

\* The state of a shard is well typed, and bucket ids are never reused in a run.
THEOREM TypeCorrect == Spec => []TypeOK
<1>1. IInv => TypeOK
  BY Zenon DEF IInv
<1> QED BY <1>1, Invariance, PTL

\* The reference count of every diskCacheFile is the number of its holders, for any
\* number of files and buckets and after any I/O error or crash.
THEOREM RefCounts == Spec => []RefCountsMatchHolders
<1>1. IInv => RefCountsMatchHolders
  BY Zenon DEF IInv
<1> QED BY <1>1, Invariance, PTL

\* What GetBucket is asked for is on disk where knownBuckets says it is.
THEOREM Readable == Spec => []KnownBucketsReadable
<1>1. IInv => KnownBucketsReadable
  BY Zenon DEF IInv
<1> QED BY <1>1, Invariance, PTL

\* ReadNextTailSecond never returns a bucket that is already known.
THEOREM KnownOnce == Spec => []NoBucketKnownTwice
<1>1. IInv => NoBucketKnownTwice
  BY Zenon DEF IInv
<1> QED BY <1>1, Invariance, PTL

\* A bucket PutBucket reported saved is not lost by the cache.
THEOREM Durability == Spec => []AckedBucketsKept
<1>1. IInv => AckedBucketsKept
  BY Zenon DEF IInv
<1> QED BY <1>1, Invariance, PTL

-----------------------------------------------------------------------------
\* Every file of the directory is open, waiting to be read or given up.
Found == DOMAIN disk \subseteq DOMAIN file \cup DOMAIN waitingFilesTail \cup abandoned
FoundInv == status = "up" => Found

\* A file whose last reference goes is removed or given up.
LEMMA UnrefFound ==
  ASSUME Found, NEW f, NEW d, unrefFile(f, d), DOMAIN d = DOMAIN disk, UNCHANGED waitingFilesTail
  PROVE  Found'
<1>1. CASE LastRef(f) /\ closeFile(f, d)
  BY <1>1, Zenon DEF closeFile, Without, Found
<1>2. CASE ~LastRef(f) /\ file' = [file EXCEPT ![f].refCount = @ - 1] /\ disk' = d /\ UNCHANGED abandoned
  BY <1>2, Zenon DEF Found
<1> QED BY <1>1, <1>2, Zenon DEF unrefFile

\* A running shard loses sight of no file.
LEMMA NextFound == FoundInv /\ [Next]_vars => FoundInv'
<1> SUFFICES ASSUME status = "up" => Found, [Next]_vars, status' = "up" PROVE Found'
  BY Zenon DEF FoundInv
<1>1. CASE UNCHANGED <<disk, file, waitingFilesTail, abandoned, status>>
  BY <1>1, Zenon DEF Found
<1>2. ASSUME NEW t, NEW n, PutBucket(t, n) PROVE Found'
  <2>1. UNCHANGED <<status, waitingFilesTail>> /\ Found
    BY <1>2, Zenon DEF PutBucket, Ready
  <2>2. UNCHANGED <<disk, file, abandoned>> \/ unrefFile(writingFile, disk)
    BY <1>2, Zenon DEF PutBucket
  <2> QED BY <2>1, <2>2, <1>1, UnrefFound, Zenon
<1>3. CASE createFile
  <2>1. UNCHANGED <<status, waitingFilesTail, abandoned>> /\ Found
    BY <1>3, Zenon DEF createFile
  <2>2. CASE UNCHANGED <<disk, file>>
    BY <2>1, <2>2, Zenon DEF Found
  <2>3. CASE \E f \in NewNames : /\ disk' = With(disk, f, [len |-> 0, chunk |-> Empty])
                                 /\ file' = With(file, f, [nextPos |-> 0, size |-> 0, refCount |-> 1])
    BY <2>1, <2>3, Zenon DEF Found, With
  <2> QED BY <1>3, <2>2, <2>3, Zenon DEF createFile
<1>4. ASSUME NEW pos, NEW n, NEW t, NEW z PROVE DOMAIN Written(writingFile, pos, n, t, z) = DOMAIN disk
  BY Zenon DEF Written
<1>5. CASE writeHeader
  <2>1. UNCHANGED <<status, waitingFilesTail>> /\ Found
    BY <1>5, Zenon DEF writeHeader
  <2>2. \/ disk' = Written(writingFile, file[writingFile].size, HeaderSize, op.time, op.size)
           /\ UNCHANGED <<file, abandoned>>
        \/ \E n : unrefFile(writingFile, Written(writingFile, file[writingFile].size, n, op.time, op.size))
    BY <1>5, Zenon DEF writeHeader
  <2>3. CASE disk' = Written(writingFile, file[writingFile].size, HeaderSize, op.time, op.size)
             /\ UNCHANGED <<file, abandoned>>
    BY <1>4, <2>1, <2>3, Zenon DEF Found
  <2> QED BY <1>4, <2>1, <2>2, <2>3, UnrefFound, Zenon
<1>6. CASE writeBody
  <2> DEFINE f == writingFile
             total == HeaderSize + op.size
  <2>1. UNCHANGED <<status, waitingFilesTail>> /\ Found
    BY <1>6, Zenon DEF writeBody
  <2>2. \/ /\ disk' = Written(f, file[f].size, total, op.time, op.size)
           /\ file' = [file EXCEPT ![f].refCount = @ + 1, ![f].size = @ + total]
           /\ UNCHANGED abandoned
        \/ \E n : unrefFile(f, Written(f, file[f].size, n, op.time, op.size))
    BY <1>6, Zenon DEF writeBody
  <2>3. CASE /\ disk' = Written(f, file[f].size, total, op.time, op.size)
             /\ file' = [file EXCEPT ![f].refCount = @ + 1, ![f].size = @ + total]
             /\ UNCHANGED abandoned
    <3>1. DOMAIN disk' = DOMAIN disk /\ DOMAIN file' = DOMAIN file
      BY <1>4, <2>3, Zenon
    <3> QED BY <2>1, <2>3, <3>1, Zenon DEF Found
  <2> QED BY <1>4, <2>1, <2>2, <2>3, UnrefFound, Zenon
<1>7. CASE openTail
  BY <1>7, Zenon DEF openTail, Reading, Found, With, Without
<1>8. CASE finishTail
  BY <1>8, UnrefFound, Zenon DEF finishTail, Reading
<1>9. CASE skipDeleted \/ takeFromTail
  <2>1. DOMAIN file' = DOMAIN file /\ UNCHANGED <<disk, waitingFilesTail, abandoned, status>>
    BY <1>9, Zenon DEF skipDeleted, takeFromTail
  <2> QED BY <2>1, Zenon DEF Found
<1>10. ASSUME NEW id \in DOMAIN knownBuckets, EraseBucket(id) \/ GetBucket(id) PROVE Found'
  <2>1. DOMAIN disk' = DOMAIN disk /\ UNCHANGED <<file, waitingFilesTail, abandoned, status>>
    BY <1>10, Zenon DEF EraseBucket, GetBucket, eraseBucket, memory
  <2> QED BY <2>1, Zenon DEF Found
<1>11. CASE unrefErased
  BY <1>11, UnrefFound, Zenon DEF unrefErased
<1>12. CASE Stop \/ Damage \/ Start \/ \E f \in FileNames : scanFile(f)
  BY <1>12, Zenon DEF Stop, Damage, Start, scanFile
<1>13. CASE scanDone
  BY <1>13, Zenon DEF scanDone, Unscanned, Found, memory
<1>14. CASE ReadNextTailSecond \/ tailExhausted \/ UNCHANGED vars
  BY <1>1, <1>14, Zenon DEF ReadNextTailSecond, tailExhausted, vars, memory
<1> QED
  BY <1>2, <1>3, <1>5, <1>6, <1>7, <1>8, <1>9, <1>10, <1>11, <1>12, <1>13, <1>14, Zenon DEF Next

\* disk_cache.go - the directory holds no file that nobody will read or remove, unless opening,
\* examining or removing it failed.
THEOREM NothingOrphaned == Spec => []NoOrphanFiles
<1>1. Init => FoundInv
  BY Zenon DEF Init, FoundInv, Found, Empty
<1>2. IInv /\ FoundInv => NoOrphanFiles
  BY Zenon DEF IInv, FilesInv, FoundInv, Found, NoOrphanFiles
<1> QED BY <1>1, <1>2, NextFound, Invariance, PTL DEF Spec

=============================================================================
