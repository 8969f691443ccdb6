------------------------ MODULE DiskCacheRefinement -------------------------
(***************************************************************************)
(* The disk cache implements the store of buckets for any set of files,    *)
(* times and body lengths: every step of DiskCache is a step of            *)
(* BucketStore under the mapping of DiskCacheStore, or leaves it alone.    *)
(***************************************************************************)
EXTENDS DiskCacheProofs, DiskCacheStore

\* What the conveyor sees does not change.
Same ==
    /\ SavedBuckets' = SavedBuckets /\ HeldBuckets' = HeldBuckets
    /\ (status = "up")' = (status = "up") /\ lastBucketID' = lastBucketID

\* The buckets still saved after a step have the time and length they had before.
SavedAlike == \A a \in acked' : savedBucket(a)' = savedBucket(a)

\* Nothing else is needed for the set of saved buckets to stay the same.
LEMMA AlikeSame == SavedAlike /\ acked' = acked => SavedBuckets' = SavedBuckets
BY Zenon DEF SavedAlike, SavedBuckets

\* Saved buckets that are not written over stay as they are, also when a file is dropped:
\* it is not theirs.
LEMMA UnrefAlike ==
  ASSUME IInv, IInv', acked' \subseteq acked, NEW f, NEW d, unrefFile(f, d),
         \A a \in acked : d[a[1]].chunk[a[2]] = disk[a[1]].chunk[a[2]]
  PROVE  SavedAlike
<1> SUFFICES ASSUME NEW a \in acked' PROVE savedBucket(a)' = savedBucket(a)
  BY Zenon DEF SavedAlike
<1>1. a \in acked /\ a[1] \in DOMAIN disk'
  BY Zenon DEF IInv, AckedBucketsKept
<1>2. \A g \in DOMAIN disk' : disk'[g] = d[g]
  BY Zenon DEF unrefFile, closeFile, Without
<1>3. disk'[a[1]].chunk[a[2]] = disk[a[1]].chunk[a[2]]
  BY <1>1, <1>2
<1> QED BY <1>3, Zenon DEF savedBucket

\* The ids held are the known ones unless one is being erased.
LEMMA HeldSame ==
  ASSUME knownBuckets' = knownBuckets, op.kind # "unref", op'.kind # "unref"
  PROVE  HeldBuckets' = HeldBuckets
BY Zenon DEF HeldBuckets, Erasing, heldBucket

-----------------------------------------------------------------------------
\* Steps the conveyor does not see.

\* Taking the mutex, opening and skipping a tail, scanning the directory.
LEMMA QuietSame ==
  ASSUME IInv, \/ ReadNextTailSecond \/ tailExhausted \/ openTail \/ skipDeleted \/ Start
               \/ \E f \in FileNames : scanFile(f)
  PROVE  Same
<1>1. UNCHANGED <<disk, acked, knownBuckets, lastBucketID>>
  BY Zenon DEF ReadNextTailSecond, tailExhausted, openTail, skipDeleted, Start, scanFile, memory
<1>2. op.kind # "unref" /\ op'.kind # "unref"
  BY DEF ReadNextTailSecond, tailExhausted, openTail, skipDeleted, Start, scanFile, TailReadable,
         Reading, Ready, Idle, IInv, StatusInv
<1>3. (status = "up")' = (status = "up")
  BY Zenon DEF ReadNextTailSecond, tailExhausted, openTail, skipDeleted, Start, scanFile
<1>4. SavedBuckets' = SavedBuckets
  BY <1>1, Zenon DEF SavedBuckets, savedBucket
<1> QED BY <1>1, <1>2, <1>3, <1>4, HeldSame, Zenon DEF Same

\* PutBucket choosing or rotating the file.
LEMMA PutBucketSame ==
  ASSUME IInv, IInv', NEW t \in Times, NEW n \in BodySizes, PutBucket(t, n)
  PROVE  Same
<1>1. UNCHANGED <<status, acked, knownBuckets, lastBucketID>>
  BY Zenon DEF PutBucket
<1>2. op.kind # "unref" /\ op'.kind # "unref"
  BY DEF PutBucket, Ready, Idle
<1>3. disk' = disk \/ unrefFile(writingFile, disk)
  BY Zenon DEF PutBucket
<1>4. SavedAlike
  <2>1. CASE disk' = disk
    BY <1>1, <2>1, Zenon DEF SavedAlike, savedBucket
  <2>2. CASE unrefFile(writingFile, disk)
    BY <1>1, <2>2, UnrefAlike, Zenon
  <2> QED BY <1>3, <2>1, <2>2, Zenon
<1> QED BY <1>1, <1>2, <1>4, HeldSame, AlikeSame, Zenon DEF Same

\* Creating a file.
LEMMA CreateFileSame == ASSUME IInv, IInv', createFile PROVE Same
<1>1. UNCHANGED <<status, acked, knownBuckets, lastBucketID>>
  BY Zenon DEF createFile
<1>2. op.kind # "unref" /\ op'.kind # "unref"
  <2>1. op.kind = "create" /\ op \in [kind : {"create", "header", "body"}, time : Times, size : BodySizes]
    BY DEF createFile, IInv, TypeOK, Idle
  <2> QED BY <2>1 DEF createFile, Idle
<1>3. \A g \in DOMAIN disk : disk'[g] = disk[g]
  BY Zenon DEF createFile, With, NewNames
<1>4. \A a \in acked : a[1] \in DOMAIN disk
  BY Zenon DEF IInv, AckedBucketsKept
<1>5. SavedAlike
  BY <1>1, <1>3, <1>4, Zenon DEF SavedAlike, savedBucket
<1> QED BY <1>1, <1>2, <1>5, HeldSame, AlikeSame, Zenon DEF Same

\* A chunk is written behind the saved ones.
LEMMA WrittenBehind ==
  ASSUME IInv, status = "up", op.kind \in {"header", "body"}, NEW n \in Nat, n <= HeaderSize + op.size,
         op.kind = "body" => n >= HeaderSize, NEW d,
         d = Written(writingFile, file[writingFile].size, n, op.time, op.size), NEW a \in acked
  PROVE  /\ d[a[1]].chunk[a[2]] = disk[a[1]].chunk[a[2]]
         /\ ~(a[1] = writingFile /\ a[2] = file[writingFile].size)
<1> DEFINE w == writingFile
           pos == file[w].size
<1>1. /\ w # NoFile /\ w \in DOMAIN file /\ w \in DOMAIN disk /\ pos \in Nat
      /\ op.time \in Times /\ op.size \in BodySizes
  BY WritingFacts, Zenon
<1>2. Extended(d, n, op.time, op.size)
  BY <1>1, ChunkWritten, Zenon DEF IInv
<1>3. AckedBucketsKept!(a)
  BY Zenon DEF IInv, AckedBucketsKept
<1>4. a[2] \in Nat /\ disk[a[1]].chunk[a[2]].size \in Nat \ {0} /\ HeaderSize \in Nat
  BY <1>3, ChunkNumbers, ConstantsAssumption, Zenon DEF IInv
<1>5. disk[w].len <= pos + HeaderSize
  BY <1>1, <1>4 DEF IInv, WriteInv
<1>6. disk[w].len \in Nat
  BY <1>1, Zenon DEF IInv, TypeOK
<1>7. ~(a[1] = w /\ a[2] = pos)
  BY <1>1, <1>3, <1>4, <1>5, <1>6
<1> QED BY <1>2, <1>3, <1>7, Zenon DEF Extended

\* Writing the header, successfully or not.
LEMMA WriteHeaderSame == ASSUME IInv, IInv', writeHeader PROVE Same
<1> DEFINE w == writingFile
           d(n) == Written(w, file[w].size, n, op.time, op.size)
<1>1. /\ UNCHANGED <<status, acked, knownBuckets, lastBucketID>> /\ status = "up" /\ op.kind = "header"
      /\ disk' = d(HeaderSize) \/ \E n \in 0 .. HeaderSize - 1 : unrefFile(w, d(n))
  BY Zenon DEF writeHeader
<1>2. op.size \in Nat /\ HeaderSize \in Nat /\ op \in [kind : {"header", "body"}, time : Times, size : BodySizes]
  BY <1>1, WritingFacts, ConstantsAssumption, Zenon
<1>3. op'.kind # "unref"
  BY <1>1, <1>2 DEF writeHeader, Idle
<1>4. SavedAlike
  <2>1. CASE disk' = d(HeaderSize)
    <3>1. \A a \in acked : disk'[a[1]].chunk[a[2]] = disk[a[1]].chunk[a[2]]
      BY <1>1, <1>2, <2>1, WrittenBehind
    <3> QED BY <1>1, <3>1, Zenon DEF SavedAlike, savedBucket
  <2>2. ASSUME NEW n \in 0 .. HeaderSize - 1, unrefFile(w, d(n)) PROVE SavedAlike
    <3>1. n \in Nat /\ n <= HeaderSize + op.size
      BY <1>2
    <3>2. \A a \in acked : d(n)[a[1]].chunk[a[2]] = disk[a[1]].chunk[a[2]]
      BY <1>1, <3>1, WrittenBehind, Zenon
    <3> QED BY <1>1, <2>2, <3>2, UnrefAlike
  <2> QED BY <1>1, <2>1, <2>2, Zenon
<1> QED BY <1>1, <1>3, <1>4, HeldSame, AlikeSame, Zenon DEF Same

\* Dropping the reference of a bucket whose mark is written.
LEMMA UnrefErasedSame == ASSUME IInv, IInv', unrefErased PROVE Same
<1>1. /\ op.kind = "unref" /\ op' = Idle /\ UNCHANGED <<status, acked, lastBucketID>>
      /\ knownBuckets' = Without(knownBuckets, op.id) /\ unrefFile(knownBuckets[op.id].file, disk)
  BY Zenon DEF unrefErased
<1>2. SavedAlike
  BY <1>1, UnrefAlike, Zenon
<1>3. Erasing = {op.id} /\ Erasing' = {}
  BY <1>1, Zenon DEF Erasing, Idle
<1>4. HeldBuckets' = HeldBuckets
  BY <1>1, <1>3, Zenon DEF HeldBuckets, heldBucket, Without
<1> QED BY <1>1, <1>2, <1>4, AlikeSame, Zenon DEF Same

-----------------------------------------------------------------------------
\* Steps of the store.

\* A bucket gets the next id.
LEMMA HandedOut ==
  ASSUME IInv, NEW sec, assignBucketID(sec), op.kind # "unref", op'.kind # "unref"
  PROVE  /\ Store!handOut(heldBucket(sec))
         /\ heldBucket(sec) \in (Store!Held)'
<1> DEFINE new == lastBucketID + 1
<1>1. Erasing = {} /\ Erasing' = {}
  BY Zenon DEF Erasing
<1>2. new \notin DOMAIN knownBuckets
  BY DEF IInv, TypeOK
<1>3. knownBuckets' = With(knownBuckets, new, sec) /\ lastBucketID' = new
  BY Zenon DEF assignBucketID
<1>4. HeldBuckets' = [id \in DOMAIN HeldBuckets \cup {new} |-> IF id = new THEN heldBucket(sec) ELSE HeldBuckets[id]]
  BY <1>1, <1>2, <1>3, Zenon DEF HeldBuckets, With, heldBucket
<1>5. new \in DOMAIN HeldBuckets' /\ HeldBuckets'[new] = heldBucket(sec)
  BY <1>4, Zenon
<1> QED BY <1>3, <1>4, <1>5, Zenon DEF Store!handOut, Store!Held

\* PutBucket's last write: Put if it succeeds.
LEMMA WriteBodyPuts ==
  ASSUME IInv, IInv', writeBody
  PROVE  Same \/ \E b \in (Store!Held)' : Store!Put(b)
<1> DEFINE w == writingFile
           pos == file[w].size
           total == HeaderSize + op.size
           sec == [file |-> w, pos |-> pos, time |-> op.time, size |-> op.size]
           b == heldBucket(sec)
           d(n) == Written(w, pos, n, op.time, op.size)
<1>1. /\ status = "up" /\ status' = "up" /\ op.kind = "body" /\ op' = Idle /\ op.kind # "unref" /\ op'.kind # "unref"
  BY Zenon DEF writeBody, Idle
<1>2. /\ w # NoFile /\ w \in DOMAIN file /\ w \in DOMAIN disk /\ pos \in Nat
      /\ op.time \in Times /\ op.size \in BodySizes /\ op.size \in Nat \ {0} /\ HeaderSize \in Nat
  BY <1>1, WritingFacts, ConstantsAssumption, Zenon
<1>3. ASSUME NEW n \in HeaderSize .. total - 1, unrefFile(w, d(n)),
             UNCHANGED <<knownBuckets, lastBucketID, acked>>
      PROVE  Same
  <2>1. n \in Nat /\ n <= HeaderSize + op.size /\ n >= HeaderSize
    BY <1>2
  <2>2. \A a \in acked : d(n)[a[1]].chunk[a[2]] = disk[a[1]].chunk[a[2]]
    BY <1>1, <2>1, WrittenBehind, Zenon
  <2>3. SavedAlike
    BY <1>3, <2>2, UnrefAlike
  <2> QED BY <1>1, <1>3, <2>3, HeldSame, AlikeSame, Zenon DEF Same
<1>4. ASSUME disk' = d(total), assignBucketID(sec), acked' = acked \cup {<<w, pos>>}
      PROVE  \E c \in (Store!Held)' : Store!Put(c)
  <2>1. total \in Nat /\ total <= HeaderSize + op.size /\ total >= HeaderSize
    BY <1>2
  <2>2. \A a \in acked : /\ disk'[a[1]].chunk[a[2]] = disk[a[1]].chunk[a[2]]
                         /\ ~(a[1] = w /\ a[2] = pos)
    BY <1>1, <1>4, <2>1, WrittenBehind, Zenon
  <2>3. disk'[w].chunk[pos].time = op.time /\ disk'[w].chunk[pos].size = op.size
    <3>1. Extended(disk', total, op.time, op.size)
      BY <1>2, <1>4, <2>1, ChunkWritten, Zenon DEF IInv
    <3> QED BY <3>1 DEF Extended
  <2>4. SavedBuckets' = SavedBuckets \cup {b}
    <3>1. \A a \in acked : savedBucket(a)' = savedBucket(a)
      BY <2>2, Zenon DEF savedBucket
    <3>2. \A a : a = <<w, pos>> => savedBucket(a)' = b
      BY <2>3 DEF savedBucket, heldBucket
    <3>3. \A a \in acked' : a \in acked \/ a = <<w, pos>>
      BY <1>4, Zenon
    <3>4. acked \subseteq acked' /\ <<w, pos>> \in acked'
      BY <1>4, Zenon
    <3> QED BY <3>1, <3>2, <3>3, <3>4, Zenon DEF SavedBuckets
  <2>5. b \notin SavedBuckets
    BY <2>2, Zenon DEF SavedBuckets, savedBucket, heldBucket
  <2>6. b \notin Store!Held
    <3>1. \A id \in DOMAIN knownBuckets : ~(knownBuckets[id].file = w /\ knownBuckets[id].pos = pos)
      <4> SUFFICES ASSUME NEW id \in DOMAIN knownBuckets, knownBuckets[id].file = w, knownBuckets[id].pos = pos
                   PROVE  FALSE
        BY Zenon
      <4>1. pos + HeaderSize + knownBuckets[id].size <= pos
        BY Zenon DEF IInv, KnownBucketsReadable
      <4>2. knownBuckets[id].size \in Nat \ {0}
        BY ConstantsAssumption, Zenon DEF IInv, TypeOK
      <4> QED BY <1>2, <4>1, <4>2
    <3>2. \A id \in DOMAIN knownBuckets : heldBucket(knownBuckets[id]) # b
      BY <3>1, Zenon DEF heldBucket
    <3> QED BY <3>2, Zenon DEF Store!Held, HeldBuckets
  <2>7. Store!handOut(b) /\ b \in (Store!Held)'
    BY <1>1, <1>4, HandedOut, Zenon
  <2> QED BY <1>1, <2>4, <2>5, <2>6, <2>7, Zenon DEF Store!Put
<1> QED BY <1>3, <1>4, Zenon DEF writeBody

\* ReadNextTailSecond returning a bucket: Take.
LEMMA TakeFromTailTakes ==
  ASSUME IInv, takeFromTail
  PROVE  \E b \in (Store!Held)' : Store!Take(b)
<1> DEFINE sec == [file |-> readingFileTail, pos |-> Tail.nextPos, time |-> TailChunk.time, size |-> TailChunk.size]
           b == heldBucket(sec)
<1>1. /\ status = "up" /\ status' = "up" /\ op.kind # "unref" /\ op'.kind # "unref" /\ assignBucketID(sec)
      /\ readingFileTail # NoFile /\ UNCHANGED <<disk, acked>>
  BY Zenon DEF takeFromTail, TailReadable, Reading, Idle
<1>2. \A id \in DOMAIN knownBuckets : ~(knownBuckets[id].file = readingFileTail /\ knownBuckets[id].pos = Tail.nextPos)
  <2>1. Tail.nextPos \in Nat
    BY <1>1, Zenon DEF IInv, TailInv, TypeOK, Tail
  <2> QED BY <1>1, <2>1 DEF IInv, TailInv
<1>3. \A id \in DOMAIN knownBuckets : heldBucket(knownBuckets[id]) # b
  BY <1>2, Zenon DEF heldBucket
<1>4. b \notin Store!Held
  BY <1>3, Zenon DEF Store!Held, HeldBuckets
<1>5. Store!handOut(b) /\ b \in (Store!Held)'
  BY <1>1, HandedOut, Zenon
<1>6. SavedBuckets' = SavedBuckets
  BY <1>1, Zenon DEF SavedBuckets, savedBucket
<1> QED BY <1>1, <1>4, <1>5, <1>6, Zenon DEF Store!Take

\* EraseBucket, or GetBucket finding the body damaged, writing the mark: Erase.
LEMMA EraseErases ==
  ASSUME IInv, NEW id \in DOMAIN knownBuckets, Ready, eraseBucket(id)
  PROVE  id \in DOMAIN HeldBuckets /\ Store!Erase(id)
<1> DEFINE sec == knownBuckets[id]
           place == <<sec.file, sec.pos>>
           b == heldBucket(sec)
<1>1. /\ status = "up" /\ status' = "up" /\ op = Idle /\ op' = [kind |-> "unref", id |-> id]
      /\ UNCHANGED <<knownBuckets, lastBucketID>> /\ acked' = acked \ {place}
      /\ disk' = disk \/ disk' = [disk EXCEPT ![sec.file].chunk[sec.pos].magic = "deleted"]
  BY Zenon DEF Ready, eraseBucket, memory
<1>2. Erasing = {} /\ Erasing' = {id}
  BY <1>1, Zenon DEF Erasing, Idle
<1>3. /\ HeldBuckets' = [i \in DOMAIN HeldBuckets \ {id} |-> HeldBuckets[i]]
      /\ id \in DOMAIN HeldBuckets /\ HeldBuckets[id] = b
  BY <1>1, <1>2, Zenon DEF HeldBuckets, heldBucket
<1>4. \A a \in acked : a = <<a[1], a[2]>> /\ a[1] \in DOMAIN disk /\ a[2] \in DOMAIN disk[a[1]].chunk
  BY DEF IInv, TypeOK, AckedBucketsKept
<1>5. \A a \in acked : a # place => savedBucket(a)' = savedBucket(a)
  <2> SUFFICES ASSUME NEW a \in acked, a # place PROVE savedBucket(a)' = savedBucket(a)
    BY Zenon
  <2>1. ~(a[1] = sec.file /\ a[2] = sec.pos)
    BY <1>4, Zenon
  <2>2. disk'[a[1]].chunk[a[2]] = disk[a[1]].chunk[a[2]]
    <3>1. CASE disk' = disk
      BY <3>1, Zenon
    <3>2. CASE disk' = [disk EXCEPT ![sec.file].chunk[sec.pos].magic = "deleted"]
      <4>1. DOMAIN disk[sec.file] = {"len", "chunk"} /\ sec.file \in DOMAIN disk /\ sec.pos \in DOMAIN disk[sec.file].chunk
        BY Zenon DEF IInv, DiskInv, KnownBucketsReadable
      <4> QED BY <1>4, <2>1, <3>2, <4>1, Zenon
    <3> QED BY <1>1, <3>1, <3>2, Zenon
  <2> QED BY <2>2, Zenon DEF savedBucket
<1>6. disk[sec.file].chunk[sec.pos].time = sec.time /\ disk[sec.file].chunk[sec.pos].size = sec.size
  BY Zenon DEF IInv, KnownBucketsReadable
<1>7. \A a \in acked : savedBucket(a) = b <=> a = place
  BY <1>4, <1>6, Zenon DEF savedBucket, heldBucket
<1>8. SavedBuckets' = SavedBuckets \ {b}
  BY <1>1, <1>5, <1>7, Zenon DEF SavedBuckets
<1> QED BY <1>1, <1>3, <1>8, Zenon DEF Store!Erase

\* Saved buckets that are given up because they cannot be read: Lose.
LEMMA GivenUp ==
  ASSUME IInv, SavedAlike, acked' \subseteq acked,
         \A a \in acked \ acked' : savedBucket(a) \notin Store!Held,
         HeldBuckets' = HeldBuckets, (status = "up")' = (status = "up"), lastBucketID' = lastBucketID
  PROVE  \E S \in SUBSET SavedBuckets : Store!Lose(S)
<1> DEFINE S == {savedBucket(a) : a \in acked \ acked'}
<1>1. SavedBuckets' = {savedBucket(a) : a \in acked'}
  BY Zenon DEF SavedBuckets, SavedAlike
<1>2. \A a, c \in acked : savedBucket(a) = savedBucket(c) => a = c
  <2>1. \A a \in acked : a = <<a[1], a[2]>>
    BY DEF IInv, TypeOK
  <2>2. \A a, c \in acked : savedBucket(a) = savedBucket(c) => a[1] = c[1] /\ a[2] = c[2]
    BY Zenon DEF savedBucket
  <2> QED BY <2>1, <2>2
<1>3. SavedBuckets' = SavedBuckets \ S
  BY <1>1, <1>2, Zenon DEF SavedBuckets
<1>4. S \subseteq SavedBuckets \ Store!Held
  BY Zenon DEF SavedBuckets
<1> QED BY <1>3, <1>4, Zenon DEF Store!Lose

\* ReadNextTailSecond leaving a tail file, at its end or because the rest cannot be trusted.
LEMMA FinishTailLoses ==
  ASSUME IInv, IInv', finishTail
  PROVE  \E S \in SUBSET SavedBuckets : Store!Lose(S)
<1>1. /\ op.kind = "tail" /\ UNCHANGED <<status, op, knownBuckets, lastBucketID>>
      /\ readingFileTail # NoFile /\ unrefFile(readingFileTail, disk)
      /\ \/ acked' = acked
         \/ acked' = {a \in acked : ~(a[1] = readingFileTail /\ a[2] >= Tail.nextPos)}
  BY Zenon DEF finishTail, Reading
<1>2. acked' \subseteq acked
  BY <1>1, Zenon
<1>3. SavedAlike
  BY <1>1, <1>2, UnrefAlike, Zenon
<1>4. HeldBuckets' = HeldBuckets
  BY <1>1, HeldSame, Zenon
<1>5. ASSUME NEW a \in acked \ acked', NEW id \in DOMAIN knownBuckets
      PROVE  savedBucket(a) # heldBucket(knownBuckets[id])
  <2>1. a[1] = readingFileTail /\ a[2] >= Tail.nextPos
    BY <1>1, Zenon
  <2>2. knownBuckets[id].file = readingFileTail => knownBuckets[id].pos < Tail.nextPos
    BY <1>1, Zenon DEF IInv, TailInv
  <2>3. knownBuckets[id].pos \in Nat /\ a[2] \in Nat
    BY Zenon DEF IInv, TypeOK
  <2>4. Tail.nextPos \in Nat
    BY <1>1, Zenon DEF IInv, TailInv, TypeOK, Tail
  <2>5. ~(a[1] = knownBuckets[id].file /\ a[2] = knownBuckets[id].pos)
    BY <2>1, <2>2, <2>3, <2>4
  <2> QED BY <2>5, Zenon DEF savedBucket, heldBucket
<1>6. \A a \in acked \ acked' : savedBucket(a) \notin Store!Held
  BY <1>5, Zenon DEF Store!Held, HeldBuckets
<1> QED BY <1>1, <1>2, <1>3, <1>4, <1>6, GivenUp, Zenon

\* Damage of the disk while the agent is down.
LEMMA DamageLoses ==
  ASSUME IInv, Damage
  PROVE  \E S \in SUBSET SavedBuckets : Store!Lose(S)
<1>1. status = "down" /\ UNCHANGED <<status, op, knownBuckets, lastBucketID>>
  BY Zenon DEF Damage, memory
<1>2. op.kind # "unref" /\ DOMAIN knownBuckets = {}
  BY <1>1 DEF IInv, StatusInv, Idle
<1>3. PICK f \in DOMAIN disk : \E p \in DOMAIN disk[f].chunk :
        /\ \/ disk' = [disk EXCEPT ![f].chunk[p].magic = "bad"]
           \/ disk' = [disk EXCEPT ![f].chunk[p].body = "damaged"]
           \/ disk' = [disk EXCEPT ![f].len = p]
        /\ acked' \subseteq acked
  BY Zenon DEF Damage
<1>4. PICK p \in DOMAIN disk[f].chunk :
        /\ \/ disk' = [disk EXCEPT ![f].chunk[p].magic = "bad"]
           \/ disk' = [disk EXCEPT ![f].chunk[p].body = "damaged"]
           \/ disk' = [disk EXCEPT ![f].len = p]
        /\ acked' \subseteq acked
  BY <1>3, Zenon
<1>5. \A g \in DOMAIN disk : \A q \in DOMAIN disk[g].chunk :
          disk'[g].chunk[q].time = disk[g].chunk[q].time /\ disk'[g].chunk[q].size = disk[g].chunk[q].size
  <2>1. DOMAIN disk[f] = {"len", "chunk"} /\ \A q \in DOMAIN disk[f].chunk : disk[f].chunk[q] \in Chunk
    BY Zenon DEF IInv, DiskInv, TypeOK
  <2>2. \A g \in DOMAIN disk : g # f => disk'[g] = disk[g]
    BY <1>4, Zenon
  <2>3. \/ disk'[f].chunk = [disk[f].chunk EXCEPT ![p].magic = "bad"]
        \/ disk'[f].chunk = [disk[f].chunk EXCEPT ![p].body = "damaged"]
        \/ disk'[f].chunk = disk[f].chunk
    BY <1>4, <2>1, Zenon
  <2>4. \A q \in DOMAIN disk[f].chunk : /\ disk'[f].chunk[q].time = disk[f].chunk[q].time
                                        /\ disk'[f].chunk[q].size = disk[f].chunk[q].size
    BY <2>1, <2>3 DEF Chunk
  <2> QED BY <2>2, <2>4, Zenon
<1>6. \A a \in acked : a[1] \in DOMAIN disk /\ a[2] \in DOMAIN disk[a[1]].chunk
  BY Zenon DEF IInv, AckedBucketsKept
<1>7. SavedAlike
  BY <1>4, <1>5, <1>6, Zenon DEF SavedAlike, savedBucket
<1>8. HeldBuckets' = HeldBuckets
  BY <1>1, <1>2, HeldSame, Zenon
<1>9. \A a \in acked \ acked' : savedBucket(a) \notin Store!Held
  BY <1>2, Zenon DEF Store!Held, HeldBuckets
<1> QED BY <1>1, <1>4, <1>7, <1>8, <1>9, GivenUp, Zenon


\* A crash or Close: Stop.
LEMMA StopStops == ASSUME Stop PROVE Store!Stop
<1>1. /\ status' = "down" /\ op' = Idle /\ knownBuckets' = Empty /\ lastBucketID' = 0
      /\ UNCHANGED <<disk, acked>>
  BY Zenon DEF Stop
<1>2. HeldBuckets' = [id \in {} |-> 0]
  BY <1>1, Zenon DEF HeldBuckets, Empty
<1>3. SavedBuckets' = SavedBuckets
  BY <1>1, Zenon DEF SavedBuckets, savedBucket
<1>4. (status = "up")' = FALSE
  BY <1>1, Zenon
<1> QED BY <1>1, <1>2, <1>3, <1>4, Zenon DEF Store!Stop

\* makeDiscCacheShard returning: Start.
LEMMA ScanDoneStarts == ASSUME IInv, scanDone PROVE Store!Start
<1>1. status = "scanning" /\ status' = "up" /\ UNCHANGED <<disk, op, knownBuckets, lastBucketID, acked>>
  BY Zenon DEF scanDone, memory
<1>2. op.kind # "unref"
  BY <1>1 DEF IInv, StatusInv, Idle
<1>3. HeldBuckets' = HeldBuckets
  BY <1>1, <1>2, HeldSame, Zenon
<1>4. SavedBuckets' = SavedBuckets
  BY <1>1, Zenon DEF SavedBuckets, savedBucket
<1>5. (status = "up")' = TRUE /\ ~(status = "up")
  BY <1>1, Zenon
<1> QED BY <1>1, <1>3, <1>4, <1>5, Zenon DEF Store!Start

\* An empty directory is an empty store.
LEMMA InitStore == Init => Store!Init
<1> SUFFICES ASSUME Init PROVE Store!Init
  BY Zenon
<1>1. status = "up" /\ acked = {} /\ knownBuckets = Empty /\ lastBucketID = 0
  BY Zenon DEF Init
<1>2. HeldBuckets = [id \in {} |-> 0]
  BY <1>1, Zenon DEF HeldBuckets, Empty
<1>3. SavedBuckets = {}
  BY <1>1, Zenon DEF SavedBuckets
<1>4. (status = "up") = TRUE
  BY <1>1, Zenon
<1> QED BY <1>1, <1>2, <1>3, <1>4, Zenon DEF Store!Init

\* Every step of the shard is one of the store, or the conveyor does not see it.
LEMMA NextStore == IInv /\ IInv' /\ [Next]_vars => [Store!Next]_(Store!vars)
<1> SUFFICES ASSUME IInv, IInv', [Next]_vars PROVE Same \/ Store!Next
  BY Zenon DEF Same, Store!vars
<1>1. CASE UNCHANGED vars
  BY <1>1, Zenon DEF vars, memory, Same, SavedBuckets, savedBucket, HeldBuckets, heldBucket, Erasing
<1>2. CASE \E t \in Times, n \in BodySizes : PutBucket(t, n)
  BY <1>2, PutBucketSame, Zenon
<1>3. CASE createFile \/ writeHeader \/ unrefErased
  BY <1>3, CreateFileSame, WriteHeaderSame, UnrefErasedSame, Zenon
<1>4. CASE \/ ReadNextTailSecond \/ tailExhausted \/ openTail \/ skipDeleted \/ Start
           \/ \E f \in FileNames : scanFile(f)
  BY <1>4, QuietSame, Zenon
<1>5. CASE writeBody
  BY <1>5, WriteBodyPuts, Zenon DEF Store!Next
<1>6. CASE takeFromTail
  BY <1>6, TakeFromTailTakes, Zenon DEF Store!Next
<1>7. CASE \E id \in DOMAIN knownBuckets : EraseBucket(id) \/ GetBucket(id)
  BY <1>7, EraseErases, Zenon DEF EraseBucket, GetBucket, Store!Next
<1>8. CASE finishTail \/ Damage
  BY <1>8, FinishTailLoses, DamageLoses, Zenon DEF Store!Next
<1>9. CASE Stop \/ scanDone
  BY <1>9, StopStops, ScanDoneStarts, Zenon DEF Store!Next
<1> QED BY <1>1, <1>2, <1>3, <1>4, <1>5, <1>6, <1>7, <1>8, <1>9, Zenon DEF Next

\* disk_cache.go - what the conveyor sees of a shard is a set of saved buckets with atomic
\* operations that survives crashes, for any number of files and buckets.
THEOREM Implementation == Spec => ImplementsStore
<1>1. IInv /\ IInv' /\ [Next]_vars => [Store!Next]_(Store!vars)
  BY NextStore, Zenon
<1> QED BY <1>1, InitStore, Invariance, PTL DEF Spec, ImplementsStore, Store!Spec
=============================================================================
