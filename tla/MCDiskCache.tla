---------------------------- MODULE MCDiskCache ----------------------------
(* DiskCache on a small instance: two file names, buckets of one length, *)
(* at most two of them in a file.                                          *)
EXTENDS DiskCacheStore
=============================================================================
