--------------------------- MODULE ReplicaLiveness ---------------------------
(***************************************************************************)
(* How an agent decides which of the three aggregators of a shard gets the *)
(* bucket of a second: the replica the second belongs to while it is       *)
(* considered alive, else a spare.  Results of recent sends switch a       *)
(* replica to dead, keepalive probes switch it back.                       *)
(*                                                                         *)
(* recordSendResult looks at `alive` before it takes the lock, so these    *)
(* are two actions.  The remote calls are abstracted to their result: a    *)
(* replica that is up answers in time, one that is down does not.          *)
(***************************************************************************)
EXTENDS Integers, Sequences, FiniteSets

CONSTANTS
    Senders,            \* goSendRecent goroutines
    WindowLength,       \* config.LivenessResponsesWindowLength
    WindowSuccesses,    \* config.LivenessResponsesWindowSuccesses
    Flaky               \* replicas that may go down in this model

Replicas == 0 .. 2
Seconds == 0 .. 5       \* routing depends on the second modulo 6

ASSUME WindowAssumption ==
    /\ WindowLength \in Nat /\ WindowSuccesses \in 1 .. WindowLength
    /\ Flaky \subseteq Replicas

VARIABLES
    up,                 \* replica -> whether the aggregator answers
    alive,
    lastSendSuccessful, \* replica -> results, each with its origin (history)
    sender,             \* sender -> where it is in sendRecent
    probing,            \* replica -> goLiveChecker waits for an answer
    second,             \* next second to send
    failed              \* history: failed sends recorded since the replica is alive

vars == <<up, alive, lastSendSuccessful, sender, probing, second, failed>>

Idle == [pc |-> "idle", replica |-> 0, spare |-> FALSE, ok |-> FALSE]

Init ==
    /\ up = [r \in Replicas |-> TRUE]
    /\ alive = [r \in Replicas |-> TRUE]
    /\ lastSendSuccessful = [r \in Replicas |-> <<>>]
    /\ sender = [s \in Senders |-> Idle]
    /\ probing = [r \in Replicas |-> FALSE]
    /\ second \in Seconds
    /\ failed = [r \in Replicas |-> 0]

\* An aggregator or the network to it fails or recovers.
Change(r) ==
    /\ r \in Flaky
    /\ up' = [up EXCEPT ![r] = ~@]
    /\ UNCHANGED <<alive, lastSendSuccessful, sender, probing, second, failed>>

-----------------------------------------------------------------------------
original(t) == t % 3

spareOf(t) == (t + 1 + (t % 2)) % 3

\* getShardReplicaForSecond, as the set of replicas to send to.
getShardReplicaForSecond(t) ==
    IF alive[original(t)] THEN {original(t)}
    ELSE IF alive[spareOf(t)] THEN {spareOf(t)} ELSE {}

\* sendRecent begins; without a replica the bucket goes to the historic conveyor.
sendRecent(s) ==
    /\ sender[s].pc = "idle"
    /\ \/ getShardReplicaForSecond(second) = {} /\ UNCHANGED sender
       \/ \E r \in getShardReplicaForSecond(second) :
            sender' = [sender EXCEPT ![s] =
                        [pc |-> "sent", replica |-> r, spare |-> r # original(second), ok |-> FALSE]]
    /\ second' = (second + 1) % 6
    /\ UNCHANGED <<up, alive, lastSendSuccessful, probing, failed>>

response(s) ==
    /\ sender[s].pc = "sent"
    /\ sender' = [sender EXCEPT ![s].ok = up[sender[s].replica],
                                ![s].pc = IF sender[s].spare THEN "idle" ELSE "record"]
    /\ UNCHANGED <<up, alive, lastSendSuccessful, probing, second, failed>>

\* Fault: a result is not added once the window is full.
appendFull(w, x) == IF Len(w) >= WindowLength THEN w ELSE Append(w, x)

appendlastSendSuccessful(w, x) ==
    Append(IF Len(w) >= WindowLength THEN SubSeq(w, 2, WindowLength) ELSE w, x)

Successes(w) == Cardinality({i \in DOMAIN w : w[i].ok})

\* recordSendResult, before the lock.
recordSendResult(s) ==
    /\ sender[s].pc = "record"
    /\ sender' = [sender EXCEPT ![s] =
                    IF alive[sender[s].replica] THEN [@ EXCEPT !.pc = "append"] ELSE Idle]
    /\ UNCHANGED <<up, alive, lastSendSuccessful, probing, second, failed>>

\* Fault: a replica dies on its first bad window, full or not.
isDeadEarly(w) == Successes(w) < WindowSuccesses

isDead(w) == Len(w) = WindowLength /\ Successes(w) < WindowSuccesses

\* recordSendResult, under the lock.
recordSendResultLocked(s) ==
    LET r == sender[s].replica
        w == appendlastSendSuccessful(lastSendSuccessful[r], [ok |-> sender[s].ok, probe |-> FALSE])
        f == IF sender[s].ok \/ ~alive[r] THEN failed[r] ELSE failed[r] + 1 IN
    /\ sender[s].pc = "append"
    /\ \/ /\ isDead(w)
          /\ alive' = [alive EXCEPT ![r] = FALSE]
          /\ lastSendSuccessful' = [lastSendSuccessful EXCEPT ![r] = <<>>]
       \/ /\ ~isDead(w)
          /\ lastSendSuccessful' = [lastSendSuccessful EXCEPT ![r] = w]
          /\ UNCHANGED alive
    /\ failed' = [failed EXCEPT ![r] = IF f < WindowLength THEN f ELSE WindowLength]
    /\ sender' = [sender EXCEPT ![s] = Idle]
    /\ UNCHANGED <<up, probing, second>>

-----------------------------------------------------------------------------
\* goLiveChecker and sendKeepLive.
sendKeepLive(r) ==
    /\ ~probing[r] /\ ~alive[r]
    /\ probing' = [probing EXCEPT ![r] = TRUE]
    /\ UNCHANGED <<up, alive, lastSendSuccessful, sender, second, failed>>

isAlive(w) == Successes(w) = WindowLength

recordKeepLiveResult(r) ==
    LET w == appendlastSendSuccessful(lastSendSuccessful[r], [ok |-> up[r], probe |-> TRUE]) IN
    /\ probing[r]
    /\ probing' = [probing EXCEPT ![r] = FALSE]
    /\ lastSendSuccessful' = [lastSendSuccessful EXCEPT ![r] = w]
    /\ alive' = [alive EXCEPT ![r] = @ \/ isAlive(w)]
    /\ failed' = [failed EXCEPT ![r] = IF isAlive(w) /\ ~alive[r] THEN 0 ELSE @]
    /\ UNCHANGED <<up, sender, second>>

sendStep(s) == sendRecent(s) \/ response(s) \/ recordSendResult(s) \/ recordSendResultLocked(s)

Next ==
    \/ \E r \in Replicas : Change(r) \/ sendKeepLive(r) \/ recordKeepLiveResult(r)
    \/ \E s \in Senders : sendStep(s)

Spec == Init /\ [][Next]_vars

\* Every second is sent by some sender, remote calls end, and a dead replica is probed.
Fairness ==
    /\ \A s \in Senders : WF_vars(sendStep(s))
    /\ \A r \in Replicas : WF_vars(sendKeepLive(r) \/ recordKeepLiveResult(r))

LiveSpec == Spec /\ Fairness

-----------------------------------------------------------------------------
\* Properties.

\* agent_shard_replica.go:43 - a replica is switched to dead only by enough failed sends to
\* it since it was last considered alive, whatever late results of old sends come in.
DiesOfFailures ==
    [][\A r \in Replicas :
        alive[r] /\ ~alive'[r] => failed'[r] >= WindowLength - WindowSuccesses + 1]_vars

\* A replica that stays down is found dead, and one that stays up is used again: late
\* results cannot keep the detector from settling.
DetectorSettles ==
    \A r \in Replicas :
        /\ (<>[](~up[r])) => (<>[](~alive[r]))
        /\ (<>[]up[r]) => (<>[]alive[r])

\* agent_shard_replica.go:44 "if L of L keep alive probes succeed, aggregator is considered
\* live again" - a replica is revived only by that many successful probes.
RevivedByProbes ==
    [][\A r \in Replicas :
        ~alive[r] /\ alive'[r] =>
            \A i \in 1 .. WindowLength : lastSendSuccessful'[r][i] = [ok |-> TRUE, probe |-> TRUE]]_vars
=============================================================================
