--------------------------- MODULE DiskCacheStore ---------------------------
(***************************************************************************)
(* DiskCache implements BucketStore.  A bucket of the store is its place   *)
(* on disk with the time and the length found there, so the mapping also   *)
(* says that a saved bucket is handed out again with the time and length   *)
(* it was saved with.                                                      *)
(***************************************************************************)
EXTENDS DiskCache

savedBucket(a) ==
    LET c == disk[a[1]].chunk[a[2]] IN <<a[1], a[2], c.time, c.size>>

heldBucket(sec) == <<sec.file, sec.pos, sec.time, sec.size>>

\* A bucket whose mark is written is erased, although its file is still referenced.
Erasing == IF op.kind = "unref" THEN {op.id} ELSE {}

SavedBuckets == {savedBucket(a) : a \in acked}
HeldBuckets == [id \in DOMAIN knownBuckets \ Erasing |-> heldBucket(knownBuckets[id])]

Store == INSTANCE BucketStore WITH
    up <- status = "up", saved <- SavedBuckets, held <- HeldBuckets, lastID <- lastBucketID

\* disk_cache.go - PutBucket, ReadNextTailSecond, GetBucket and EraseBucket behave like the
\* operations of a set of saved buckets, each of which happens at one moment, although they
\* write a file in several steps, any of which may fail or be the last before a crash.
ImplementsStore == Store!Spec
=============================================================================
