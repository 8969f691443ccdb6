---------------------------- MODULE BucketStore ----------------------------
(***************************************************************************)
(* What the disk cache of a shard promises to the conveyor: a set of saved *)
(* buckets that survives a crash, and ids under which the running process  *)
(* holds buckets.  Files, offsets, headers and reference counts are the    *)
(* business of DiskCache, which implements this.                           *)
(***************************************************************************)
EXTENDS Integers

VARIABLES
    up,         \* the store is open
    saved,      \* buckets PutBucket reported saved
    held,       \* id -> bucket handed out under it
    lastID

vars == <<up, saved, held, lastID>>

Init == up = TRUE /\ saved = {} /\ held = [id \in {} |-> 0] /\ lastID = 0

Held == {held[id] : id \in DOMAIN held}

\* A bucket gets the next id, which has not been used since the store was opened.
handOut(b) ==
    /\ lastID' = lastID + 1
    /\ held' = [id \in DOMAIN held \cup {lastID + 1} |-> IF id = lastID + 1 THEN b ELSE held[id]]

Put(b) ==
    /\ up /\ b \notin saved \cup Held
    /\ saved' = saved \cup {b}
    /\ handOut(b)
    /\ UNCHANGED up

\* Reading back: any bucket nobody holds.  It need not be a saved one: a failed PutBucket or
\* EraseBucket may leave its bucket in the file.
Take(b) ==
    /\ up /\ b \notin Held
    /\ handOut(b)
    /\ UNCHANGED <<up, saved>>

Erase(id) ==
    /\ up /\ id \in DOMAIN held
    /\ saved' = saved \ {held[id]}
    /\ held' = [i \in DOMAIN held \ {id} |-> held[i]]
    /\ UNCHANGED <<up, lastID>>

\* Saved buckets are lost by damage only, and never one that is held.
Lose(S) ==
    /\ S \subseteq saved \ Held
    /\ saved' = saved \ S
    /\ UNCHANGED <<up, held, lastID>>

Stop ==
    /\ up' = FALSE
    /\ held' = [id \in {} |-> 0] /\ lastID' = 0
    /\ UNCHANGED saved

Start == ~up /\ up' = TRUE /\ UNCHANGED <<saved, held, lastID>>

Next ==
    \/ \E b \in Held' : Put(b) \/ Take(b)
    \/ \E id \in DOMAIN held : Erase(id)
    \/ \E S \in SUBSET saved : Lose(S)
    \/ Stop \/ Start

Spec == Init /\ [][Next]_vars
=============================================================================
