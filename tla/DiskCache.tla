----------------------------- MODULE DiskCache -----------------------------
(***************************************************************************)
(* One shard of the agent's on-disk bucket cache (diskCacheShard).         *)
(*                                                                         *)
(* A shard is a directory of files named by creation time.  A file is a    *)
(* run of chunks, each a header (magic, time, body length, crc) and a      *)
(* body.  Buckets are erased by overwriting the magic; a file is removed   *)
(* when nothing holds a reference to it.  After a restart every file found *)
(* is queued and read back chunk by chunk.                                 *)
(*                                                                         *)
(* Every operation runs under the shard's mutex.  An operation that makes  *)
(* several system calls is a sequence of actions during which `op` is not  *)
(* idle, because the process may die between two of them; no other         *)
(* operation can start until `op` is idle again.                           *)
(*                                                                         *)
(* Simplifications.  A body is its length and a flag telling whether its   *)
(* bytes still match the crc.  A file that is open is identified with its  *)
(* name, since no name is ever open twice.  The sorted slice of waiting    *)
(* files is a function from name to size whose least name is the head.     *)
(***************************************************************************)
EXTENDS Integers, FiniteSets, FiniteSetsExt

CONSTANTS
    FileNames,       \* creation times, the order in which files are read back
    Times,           \* timestamps of buckets
    BodySizes,       \* lengths of bucket bodies
    HeaderSize,
    FileRotateSize,
    MaxBucketID      \* bound of the model: ids handed out in one run of the process

NoFile == 0
MaxChunkSize == FileRotateSize - HeaderSize

ASSUME ConstantsAssumption ==
    /\ FileNames \subseteq Nat \ {NoFile}
    /\ Times \subseteq Nat
    /\ BodySizes \subseteq Nat \ {0}
    /\ HeaderSize \in Nat \ {0}
    /\ FileRotateSize \in Nat
    /\ MaxBucketID \in Nat

VARIABLES
    \* survives a crash
    disk,             \* file name -> its length and the chunks at their offsets
    \* diskCacheShard
    status,           \* "down", "scanning" (makeDiscCacheShard) or "up"
    op,               \* the operation holding d.mu, and how far it is
    file,             \* the diskCacheFile objects alive, by name
    knownBuckets,
    knownBucketsSize,
    lastBucketID,
    readingFileTail,
    waitingFilesTail,
    waitingFilesSize,
    writingFile,
    totalFileSize,
    \* history
    acked,            \* chunks PutBucket reported saved, not erased or damaged since
    abandoned         \* files this run can no longer reach after an I/O error

memory == <<file, knownBuckets, knownBucketsSize, lastBucketID, readingFileTail,
            waitingFilesTail, waitingFilesSize, writingFile, totalFileSize>>
vars == <<disk, status, op, memory, acked, abandoned>>

Idle == [kind |-> "idle"]
Ready == status = "up" /\ op = Idle

Without(f, x) == [y \in DOMAIN f \ {x} |-> f[y]]
With(f, x, v) == [y \in DOMAIN f \cup {x} |-> IF y = x THEN v ELSE f[y]]
Empty == [x \in {} |-> 0]

Chunk == [magic : {"good", "deleted", "bad"}, time : Times, size : BodySizes,
          body : {"intact", "damaged"}]

Init ==
    /\ disk = Empty
    /\ status = "up"
    /\ op = Idle
    /\ file = Empty
    /\ knownBuckets = Empty
    /\ knownBucketsSize = 0
    /\ lastBucketID = 0
    /\ readingFileTail = NoFile
    /\ waitingFilesTail = Empty
    /\ waitingFilesSize = 0
    /\ writingFile = NoFile
    /\ totalFileSize = 0
    /\ acked = {}
    /\ abandoned = {}

-----------------------------------------------------------------------------
\* Fault: the file is closed one reference too early.
LastRefEarly(f) == file[f].refCount <= 2

LastRef(f) == file[f].refCount <= 1

\* Fault: the file is closed but not removed.
closeFileNoRemove(f, d) ==
    /\ file' = Without(file, f)
    /\ totalFileSize' = totalFileSize - file[f].size
    /\ disk' = d /\ UNCHANGED abandoned

\* The last reference closes the file and removes it; the removal can fail.
closeFile(f, d) ==
    /\ file' = Without(file, f)
    /\ totalFileSize' = totalFileSize - file[f].size
    /\ \/ disk' = Without(d, f) /\ UNCHANGED abandoned
       \/ disk' = d /\ abandoned' = abandoned \cup {f}

\* unrefFileWithRemove(f, true), after the disk has become d.
unrefFile(f, d) ==
    \/ LastRef(f) /\ closeFile(f, d)
    \/ /\ ~LastRef(f)
       /\ file' = [file EXCEPT ![f].refCount = @ - 1]
       /\ disk' = d
       /\ UNCHANGED <<totalFileSize, abandoned>>

-----------------------------------------------------------------------------
\* PutBucket and writeSecond: rotate, create, write the header, write the body.

\* The file is rotated when the chunk does not fit or the file is old; its age is
\* not modelled, so it may be rotated at any time.
PutBucket(t, n) ==
    /\ Ready
    /\ n <= MaxChunkSize
    /\ lastBucketID < MaxBucketID
    /\ \/ /\ writingFile = NoFile
          /\ op' = [kind |-> "create", time |-> t, size |-> n]
          /\ UNCHANGED <<disk, file, totalFileSize, abandoned, writingFile>>
       \/ /\ writingFile # NoFile
          /\ file[writingFile].size + HeaderSize + n <= FileRotateSize
          /\ op' = [kind |-> "header", time |-> t, size |-> n]
          /\ UNCHANGED <<disk, file, totalFileSize, abandoned, writingFile>>
       \/ /\ writingFile # NoFile
          /\ unrefFile(writingFile, disk)
          /\ writingFile' = NoFile
          /\ op' = [kind |-> "create", time |-> t, size |-> n]
    /\ UNCHANGED <<status, knownBuckets, knownBucketsSize, lastBucketID,
                   readingFileTail, waitingFilesTail, waitingFilesSize, acked>>

\* Fault: the file is created without O_EXCL.
NewNamesAny == FileNames

\* Names O_CREATE|O_EXCL succeeds with.
NewNames == FileNames \ DOMAIN disk

createFile ==
    /\ status = "up" /\ op.kind = "create"
    /\ \/ \E f \in NewNames :
            /\ disk' = With(disk, f, [len |-> 0, chunk |-> Empty])
            /\ file' = With(file, f, [nextPos |-> 0, size |-> 0, refCount |-> 1])
            /\ writingFile' = f
            /\ op' = [op EXCEPT !.kind = "header"]
       \/ op' = Idle /\ UNCHANGED <<disk, file, writingFile>>
    /\ UNCHANGED <<status, knownBuckets, knownBucketsSize, lastBucketID, readingFileTail,
                   waitingFilesTail, waitingFilesSize, totalFileSize, acked, abandoned>>

\* A write that fails may have left some of its bytes in the file.
Written(f, pos, n, t, sz) ==
    [disk EXCEPT ![f] = [len |-> pos + n,
        chunk |-> With(@.chunk, pos, [magic |-> "good", time |-> t, size |-> sz, body |-> "intact"])]]

writeHeader ==
    /\ status = "up" /\ op.kind = "header"
    /\ LET pos == file[writingFile].size IN
       \/ /\ disk' = Written(writingFile, pos, HeaderSize, op.time, op.size)
          /\ op' = [op EXCEPT !.kind = "body"]
          /\ UNCHANGED <<file, writingFile, totalFileSize, abandoned>>
       \/ /\ \E n \in 0 .. HeaderSize - 1 :
                unrefFile(writingFile, Written(writingFile, pos, n, op.time, op.size))
          /\ writingFile' = NoFile
          /\ op' = Idle
    /\ UNCHANGED <<status, knownBuckets, knownBucketsSize, lastBucketID,
                   readingFileTail, waitingFilesTail, waitingFilesSize, acked>>

\* Fault: the id is used and not consumed.
assignBucketIDAgain(sec) ==
    /\ knownBuckets' = With(knownBuckets, lastBucketID + 1, sec)
    /\ UNCHANGED lastBucketID

\* lastBucketID++ and the new entry of knownBuckets.
assignBucketID(sec) ==
    /\ lastBucketID' = lastBucketID + 1
    /\ knownBuckets' = With(knownBuckets, lastBucketID + 1, sec)

writeBody ==
    /\ status = "up" /\ op.kind = "body"
    /\ LET f == writingFile
           pos == file[f].size
           total == HeaderSize + op.size IN
       \/ /\ disk' = Written(f, pos, total, op.time, op.size)
          /\ file' = [file EXCEPT ![f].refCount = @ + 1, ![f].size = @ + total]
          /\ totalFileSize' = totalFileSize + total
          /\ knownBucketsSize' = knownBucketsSize + total
          /\ assignBucketID([file |-> f, pos |-> pos, time |-> op.time, size |-> op.size])
          /\ acked' = acked \cup {<<f, pos>>}
          /\ UNCHANGED <<writingFile, abandoned>>
       \/ /\ \E n \in HeaderSize .. total - 1 :
                unrefFile(f, Written(f, pos, n, op.time, op.size))
          /\ writingFile' = NoFile
          /\ UNCHANGED <<knownBuckets, knownBucketsSize, lastBucketID, acked>>
    /\ op' = Idle
    /\ UNCHANGED <<status, readingFileTail, waitingFilesTail, waitingFilesSize>>

-----------------------------------------------------------------------------
\* ReadNextTailSecond: one action per iteration of its loops.

ReadNextTailSecond ==
    /\ Ready
    /\ op' = [kind |-> "tail"]
    /\ UNCHANGED <<disk, status, memory, acked, abandoned>>

Reading == status = "up" /\ op.kind = "tail"

tailExhausted ==
    /\ Reading
    /\ readingFileTail = NoFile /\ waitingFilesTail = Empty
    /\ op' = Idle
    /\ UNCHANGED <<disk, status, memory, acked, abandoned>>


totalWithout(f) == totalFileSize - waitingFilesTail[f]

openTail ==
    /\ Reading
    /\ readingFileTail = NoFile
    /\ \E f \in DOMAIN waitingFilesTail :
        /\ \A g \in DOMAIN waitingFilesTail : f <= g
        /\ waitingFilesSize' = waitingFilesSize - waitingFilesTail[f]
        /\ waitingFilesTail' = Without(waitingFilesTail, f)
        /\ \/ /\ readingFileTail' = f
              /\ file' = With(file, f, [nextPos |-> 0, size |-> waitingFilesTail[f], refCount |-> 1])
              /\ UNCHANGED <<totalFileSize, abandoned>>
           \/ /\ totalFileSize' = totalWithout(f)
              /\ abandoned' = abandoned \cup {f}
              /\ UNCHANGED <<readingFileTail, file>>
    /\ UNCHANGED <<disk, status, op, knownBuckets, knownBucketsSize, lastBucketID,
                   writingFile, acked>>

Tail == file[readingFileTail]
TailChunk == disk[readingFileTail].chunk[Tail.nextPos]
TailEnd == Tail.nextPos + HeaderSize + TailChunk.size

\* The tail file is dropped at its end, and also when nothing after nextPos can be
\* trusted: the header cannot be read (at any position: an I/O error), its length
\* reaches past the end of the file or its magic is unknown.
finishTail ==
    /\ Reading
    /\ readingFileTail # NoFile
    /\ \/ Tail.nextPos >= Tail.size /\ UNCHANGED acked
       \/ /\ Tail.nextPos < Tail.size
          /\ acked' = {a \in acked : ~(a[1] = readingFileTail /\ a[2] >= Tail.nextPos)}
    /\ unrefFile(readingFileTail, disk)
    /\ readingFileTail' = NoFile
    /\ UNCHANGED <<status, op, knownBuckets, knownBucketsSize, lastBucketID,
                   waitingFilesTail, waitingFilesSize, writingFile>>

TailReadable == Reading /\ readingFileTail # NoFile /\ Tail.nextPos < Tail.size /\ TailEnd <= Tail.size

skipDeleted ==
    /\ TailReadable
    /\ TailChunk.magic = "deleted"
    /\ file' = [file EXCEPT ![readingFileTail].nextPos = TailEnd]
    /\ UNCHANGED <<disk, status, op, knownBuckets, knownBucketsSize, lastBucketID, readingFileTail,
                   waitingFilesTail, waitingFilesSize, writingFile, totalFileSize, acked, abandoned>>

\* Fault: the bucket taken from the tail does not hold the file.
passBucketUncounted(t) == [t EXCEPT !.nextPos = TailEnd]

\* Fault: the tail stays at the bucket it returned.
passBucketStuck(t) == [t EXCEPT !.refCount = @ + 1]

passBucket(t) == [t EXCEPT !.refCount = @ + 1, !.nextPos = TailEnd]

takeFromTail ==
    /\ TailReadable
    /\ TailChunk.magic = "good"
    /\ lastBucketID < MaxBucketID
    /\ assignBucketID([file |-> readingFileTail, pos |-> Tail.nextPos,
                       time |-> TailChunk.time, size |-> TailChunk.size])
    /\ knownBucketsSize' = knownBucketsSize + TailChunk.size + HeaderSize
    /\ file' = [file EXCEPT ![readingFileTail] = passBucket(@)]
    /\ op' = Idle
    /\ UNCHANGED <<disk, status, readingFileTail, waitingFilesTail, waitingFilesSize, writingFile,
                   totalFileSize, acked, abandoned>>

-----------------------------------------------------------------------------
\* eraseBucket(id): overwrite the magic (the write can fail), then drop the reference.
eraseBucket(id) ==
    LET sec == knownBuckets[id] IN
    /\ \/ disk' = [disk EXCEPT ![sec.file].chunk[sec.pos].magic = "deleted"]
       \/ disk' = disk
    /\ acked' = acked \ {<<sec.file, sec.pos>>}
    /\ op' = [kind |-> "unref", id |-> id]
    /\ UNCHANGED <<status, memory, abandoned>>

sizeWithout(sec) == knownBucketsSize - (sec.size + HeaderSize)

unrefErased ==
    /\ status = "up" /\ op.kind = "unref"
    /\ LET sec == knownBuckets[op.id] IN
        /\ unrefFile(sec.file, disk)
        /\ knownBucketsSize' = sizeWithout(sec)
        /\ knownBuckets' = Without(knownBuckets, op.id)
    /\ op' = Idle
    /\ UNCHANGED <<status, lastBucketID, readingFileTail, waitingFilesTail, waitingFilesSize,
                   writingFile, acked>>

\* Erasing an unknown id changes nothing.
EraseBucket(id) == Ready /\ id \in DOMAIN knownBuckets /\ eraseBucket(id)

\* A successful GetBucket changes nothing, nor does one for an unknown id or another time.
\* The bucket is erased when its body cannot be read, which may happen to any bucket,
\* or does not match the crc, which a damaged one never does.
GetBucket(id) ==
    /\ Ready
    /\ id \in DOMAIN knownBuckets
    /\ eraseBucket(id)

-----------------------------------------------------------------------------
\* The process dies, or Close() drops every reference without removing a file.
Stop ==
    /\ status # "down"
    /\ status' = "down"
    /\ op' = Idle
    /\ file' = Empty /\ knownBuckets' = Empty /\ waitingFilesTail' = Empty
    /\ knownBucketsSize' = 0 /\ waitingFilesSize' = 0 /\ totalFileSize' = 0
    /\ lastBucketID' = 0
    /\ readingFileTail' = NoFile /\ writingFile' = NoFile
    /\ abandoned' = {}
    /\ UNCHANGED <<disk, acked>>

\* While the agent is down the disk may damage a chunk's magic or body, or cut the file's tail.
Damage ==
    /\ status = "down"
    /\ \E f \in DOMAIN disk : \E p \in DOMAIN disk[f].chunk :
        /\ \/ /\ disk' = [disk EXCEPT ![f].chunk[p].magic = "bad"]
              /\ acked' = {a \in acked : ~(a[1] = f /\ a[2] >= p)}
           \/ /\ disk' = [disk EXCEPT ![f].chunk[p].body = "damaged"]
              /\ acked' = acked \ {<<f, p>>}
           \/ /\ p < disk[f].len
              /\ disk' = [disk EXCEPT ![f].len = p]
              /\ acked' = {a \in acked : ~(a[1] = f /\ a[2] >= p)}
    /\ UNCHANGED <<status, op, memory, abandoned>>

\* makeDiscCacheShard: one action per directory entry; Stat may fail.
Start ==
    /\ status = "down"
    /\ status' = "scanning"
    /\ UNCHANGED <<disk, op, memory, acked, abandoned>>

Unscanned == DOMAIN disk \ (DOMAIN waitingFilesTail \cup abandoned)

scanFile(f) ==
    /\ status = "scanning"
    /\ f \in Unscanned
    /\ \/ /\ waitingFilesTail' = With(waitingFilesTail, f, disk[f].len)
          /\ waitingFilesSize' = waitingFilesSize + disk[f].len
          /\ totalFileSize' = totalFileSize + disk[f].len
          /\ UNCHANGED abandoned
       \/ /\ abandoned' = abandoned \cup {f}
          /\ UNCHANGED <<waitingFilesTail, waitingFilesSize, totalFileSize>>
    /\ UNCHANGED <<disk, status, op, file, knownBuckets, knownBucketsSize, lastBucketID,
                   readingFileTail, writingFile, acked>>

scanDone ==
    /\ status = "scanning"
    /\ Unscanned = {}
    /\ status' = "up"
    /\ UNCHANGED <<disk, op, memory, acked, abandoned>>

Next ==
    \/ \E t \in Times, n \in BodySizes : PutBucket(t, n)
    \/ createFile \/ writeHeader \/ writeBody
    \/ ReadNextTailSecond \/ tailExhausted \/ openTail
    \/ finishTail \/ skipDeleted \/ takeFromTail
    \/ \E id \in DOMAIN knownBuckets : EraseBucket(id) \/ GetBucket(id)
    \/ unrefErased
    \/ Stop \/ Damage \/ Start \/ scanDone
    \/ \E f \in FileNames : scanFile(f)

Spec == Init /\ [][Next]_vars

-----------------------------------------------------------------------------
\* Properties.

TypeOK ==
    /\ DOMAIN disk \subseteq FileNames
    /\ \A f \in DOMAIN disk :
        /\ disk[f].len \in Nat
        /\ DOMAIN disk[f].chunk \subseteq Nat
        /\ \A p \in DOMAIN disk[f].chunk : disk[f].chunk[p] \in Chunk
    /\ status \in {"down", "scanning", "up"}
    /\ op \in {Idle} \cup [kind : {"create", "header", "body"}, time : Times, size : BodySizes]
              \cup [kind : {"tail"}] \cup [kind : {"unref"}, id : DOMAIN knownBuckets]
    /\ DOMAIN file \subseteq FileNames
    /\ \A f \in DOMAIN file : file[f] \in [nextPos : Nat, size : Nat, refCount : Nat]
    /\ DOMAIN knownBuckets \subseteq 1 .. lastBucketID
    /\ \A id \in DOMAIN knownBuckets :
        knownBuckets[id] \in [file : FileNames, pos : Nat, time : Times, size : BodySizes]
    /\ lastBucketID \in 0 .. MaxBucketID
    /\ readingFileTail \in FileNames \cup {NoFile}
    /\ writingFile \in FileNames \cup {NoFile}
    /\ DOMAIN waitingFilesTail \subseteq FileNames
    /\ \A f \in DOMAIN waitingFilesTail : waitingFilesTail[f] \in Nat
    /\ acked \subseteq FileNames \X Nat
    /\ abandoned \subseteq FileNames

BucketsIn(f) == {id \in DOMAIN knownBuckets : knownBuckets[id].file = f}
One(P) == IF P THEN 1 ELSE 0
Holders(f) == Cardinality(BucketsIn(f)) + One(readingFileTail = f) + One(writingFile = f)

\* disk_cache.go:45 - a file is referenced once by readingFileTail, once by writingFile
\* and once by each known bucket in it, whatever failed on the way; so it is open
\* exactly as long as somebody may still use it.
RefCountsMatchHolders ==
    \A f \in FileNames : Holders(f) = IF f \in DOMAIN file THEN file[f].refCount ELSE 0

\* A bucket that was handed out under an id can be read back under it: its file still
\* exists and holds, at the recorded place, a bucket of the recorded time and length
\* that has not been erased.
KnownBucketsReadable ==
    \A id \in DOMAIN knownBuckets : LET sec == knownBuckets[id] IN
        /\ sec.file \in DOMAIN disk /\ sec.file \in DOMAIN file
        /\ sec.pos \in DOMAIN disk[sec.file].chunk
        /\ sec.pos + HeaderSize + sec.size <= file[sec.file].size
        /\ file[sec.file].size <= disk[sec.file].len
        /\ LET c == disk[sec.file].chunk[sec.pos] IN
            /\ c.time = sec.time /\ c.size = sec.size
            /\ c.magic = "good" \/ op = [kind |-> "unref", id |-> id]

\* No bucket is handed out twice in one run: the tail never reaches a chunk that is
\* already known, neither in the file being written nor in one read before.
NoBucketKnownTwice ==
    \A i, j \in DOMAIN knownBuckets :
        /\ knownBuckets[i].file = knownBuckets[j].file
        /\ knownBuckets[i].pos = knownBuckets[j].pos
        => i = j

\* A bucket PutBucket reported saved stays on disk until it is erased, across rotation,
\* failed writes and crashes, and the running agent still has it or is going to read it.
AckedBucketsKept ==
    \A a \in acked : LET f == a[1] p == a[2] IN
        /\ f \in DOMAIN disk
        /\ p \in DOMAIN disk[f].chunk
        /\ disk[f].chunk[p].magic = "good" /\ disk[f].chunk[p].body = "intact"
        /\ p + HeaderSize + disk[f].chunk[p].size <= disk[f].len
        /\ status = "up" =>
            \/ \E id \in DOMAIN knownBuckets : knownBuckets[id].file = f /\ knownBuckets[id].pos = p
            \/ f \in DOMAIN waitingFilesTail
            \/ f = readingFileTail /\ p >= file[f].nextPos
            \/ f \in abandoned

\* Disk space is not leaked: every file of the directory is open or waiting to be
\* read, unless opening, examining or removing it failed.
NoOrphanFiles ==
    status = "up" =>
        DOMAIN disk \ abandoned = (DOMAIN file \cup DOMAIN waitingFilesTail) \ abandoned

\* What TotalFileSize reports as not yet sent, before it is clamped.
unsent ==
    knownBucketsSize + waitingFilesSize
    + IF readingFileTail # NoFile THEN Tail.size - Tail.nextPos ELSE 0

=============================================================================
