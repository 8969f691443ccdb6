-------------------------- MODULE AggregatorProofs --------------------------
(***************************************************************************)
(* An inductive invariant of Aggregator, for any number of requests and    *)
(* inserters, any windows and any behaviour of the clock, and what follows *)
(* from it: buckets are exclusive to the goroutine that inserts them, every *)
(* parked request has somebody who answers it, rows are in the bucket of   *)
(* their second, and an agent is told to erase only what was inserted.     *)
(***************************************************************************)
EXTENDS Aggregator, TLAPS

Stages == {"new", "refused", "hijacked", "admitted", "merged", "registered", "released"}
Inside == {"admitted", "merged", "registered"}
Phases == {"range", "start", "pop", "wait", "stale", "marshal", "send", "answer", "quit"}
Answers == {"none", "rejected", "future", "old", "late", "error", "stale", "inserted"}
Bucket == [time : Int, creator : Requests \cup {NoRequest}]
Request == [kind : Kinds, time : Int, bucket : Bucket, stage : Stages]
Inserter == [pc : Phases, bucket : Bucket, batch : Seq(Bucket), popped : SUBSET Bucket,
             stale : SUBSET Bucket, oldest : Int, historic : BOOLEAN, rows : SUBSET Requests,
             err : BOOLEAN]

TypeOK ==
    /\ recentBuckets \in Seq(Bucket)
    /\ historicBuckets \subseteq Bucket
    /\ request \in [Requests -> Request]
    /\ polls \subseteq Requests
    /\ ticker \in [pc : {"sleep", "ready", "quit"}, ready : Seq(Bucket)]
    /\ inserter \in [Inserters -> Inserter]
    /\ answer \in [Requests -> Answers]

\* Consecutive seconds, enough of them to round a second up to one of ours.
IsWindow(s) ==
    /\ Len(s) >= 3
    /\ \A k \in 1 .. Len(s) : s[k] = newAggregatorBucket(s[1].time + k - 1, NoRequest)

\* Buckets waiting for the ticker have left the window, in order.
ReadyInv ==
    /\ ticker.pc # "ready" => ticker.ready = <<>>
    /\ \A b \in Range(ticker.ready) : b.creator = NoRequest /\ b.time < oldestTime
    /\ \A k, l \in 1 .. Len(ticker.ready) : k < l => ticker.ready[k].time < ticker.ready[l].time

\* A historic bucket was created by a request, and is the only one for its second.
HistoricInv ==
    /\ \A b \in historicBuckets : b.creator # NoRequest /\ request[b.creator].stage # "new"
    /\ \A b, c \in historicBuckets : b.time = c.time => b = c

\* Nobody can create such a bucket again.
Gone(b) ==
    /\ b.creator = NoRequest => b.time < oldestTime
    /\ b.creator # NoRequest => request[b.creator].stage # "new"

\* The buckets of an inserter cannot be found or created by anybody else.
HeldInv ==
    \A i \in Inserters : \A b \in Held(i) :
        /\ Gone(b) /\ b \notin historicBuckets /\ b \notin Range(ticker.ready)
        /\ \A j \in Inserters : b \in Held(j) => j = i

\* Which buckets an inserter has where, and that the stale ones are.
PartsOf(n, oldest) ==
    /\ n.pc \in {"range", "quit"} => n.batch = <<>>
    /\ n.pc \notin {"wait", "stale"} => n.popped = {} /\ n.stale = {}
    /\ \A b, c \in n.popped : b = c
    /\ \A b \in n.popped \cup n.stale : b.creator # NoRequest
    /\ \A b \in n.stale : b.time < n.oldest - HistoricWindow
    /\ n.pc \in {"pop", "wait", "stale"} => n.oldest <= oldest

PartsInv == \A i \in Inserters : PartsOf(inserter[i], oldestTime)

\* No handler is in the bucket.
Quiet(b) == \A r \in readers : request[r].bucket # b

\* The bucket is one inserter n has waited for.
WaitedFor(n, b) == b \in Range(n.batch) \/ (n.pc = "stale" /\ b \in n.popped \cup n.stale)

\* Handlers have sendMu of their bucket; inserters waited for them.
QuietInv ==
    /\ readers = {r \in Requests : request[r].stage \in Inside}
    /\ \A i \in Inserters : \A b : WaitedFor(inserter[i], b) => Quiet(b)

\* The bucket of request q is that of its second.
RightBucket(q) ==
    /\ q.bucket.creator = NoRequest => isOurs(q.bucket.time) /\ q.bucket.time \in q.time .. q.time + 2
    /\ q.bucket.creator # NoRequest => q.bucket.time = q.time

SecondsInv ==
    \A r \in Requests : request[r].stage \in Inside \cup {"released"} => RightBucket(request[r])

\* Somebody will insert or drop bucket b.
Lives(b) ==
    \/ b \in Range(recentBuckets) \/ b \in historicBuckets \/ b \in Range(ticker.ready)
    \/ \E i \in Inserters : b \in Held(i)

\* A handler is in its bucket, or its agent waits for the answer.
Open(r) == r \in readers \/ (r \in polls /\ request[r].kind # "simulated")

OwnerInv ==
    /\ \A r \in polls : request[r].stage \in {"registered", "released"}
    /\ ticker.pc # "quit" => \A r \in Requests : Open(r) => Lives(request[r].bucket)

\* The rows of request r are in bucket b.
IsRow(r, b) ==
    /\ request[r].bucket = b /\ request[r].kind \in DataKinds
    /\ request[r].stage \in {"merged", "registered", "released"}

\* The rows of a batch are those of its buckets, and are in ClickHouse if there was no error.
RowsOf(n) ==
    \A r \in Requests : \A b \in Range(n.batch) :
        /\ n.pc = "send" /\ IsRow(r, b) => r \in n.rows
        /\ n.pc = "answer" /\ ~n.err /\ IsRow(r, b) => r \in inserted

RowsInv == \A i \in Inserters : RowsOf(inserter[i])

\* A request before its long poll starts, or with its long poll in the bucket, has no answer yet.
AnswerInv ==
    \A r \in Requests :
        request[r].stage \in {"new", "admitted", "merged"} \/ r \in polls => answer[r] = "none"

IInv ==
    /\ TypeOK /\ IsWindow(recentBuckets) /\ ReadyInv /\ HistoricInv /\ HeldInv /\ PartsInv
    /\ QuietInv /\ SecondsInv /\ OwnerInv /\ RowsInv /\ AnswerInv /\ DiscardJustified

-----------------------------------------------------------------------------
\* Sequences of buckets as sets.

\* An empty sequence has no elements.
LEMMA RangeEmpty == Range(<<>>) = {}
BY DEF Range

\* The elements of a sequence of one.
LEMMA RangeOne == \A b : Range(<<b>>) = {b}
BY DEF Range

\* Append adds one element.
LEMMA RangeAppend ==
  ASSUME NEW s \in Seq(Bucket), NEW b \in Bucket
  PROVE  Append(s, b) \in Seq(Bucket) /\ Range(Append(s, b)) = Range(s) \cup {b}
<1>1. Append(s, b) \in Seq(Bucket) /\ Len(s) \in Nat
  OBVIOUS
<1>2. DOMAIN Append(s, b) = 1 .. Len(s) + 1 /\ DOMAIN s = 1 .. Len(s)
  OBVIOUS
<1>3. Append(s, b)[Len(s) + 1] = b /\ \A k \in 1 .. Len(s) : Append(s, b)[k] = s[k]
  OBVIOUS
<1>4. \A k : k \in 1 .. Len(s) + 1 <=> k \in 1 .. Len(s) \/ k = Len(s) + 1
  BY <1>1
<1>5. ASSUME NEW x \in Range(Append(s, b)) PROVE x \in Range(s) \cup {b}
  <2>1. PICK k \in 1 .. Len(s) + 1 : x = Append(s, b)[k]
    BY <1>2, <1>5, Zenon DEF Range
  <2> QED BY <1>2, <1>3, <1>4, <2>1, Zenon DEF Range
<1>6. ASSUME NEW x \in Range(s) PROVE x \in Range(Append(s, b))
  <2>1. PICK k \in 1 .. Len(s) : x = s[k]
    BY <1>2, <1>6, Zenon DEF Range
  <2>2. k \in 1 .. Len(s) + 1 /\ x = Append(s, b)[k]
    BY <1>3, <1>4, <2>1, Zenon
  <2> QED BY <1>2, <2>2, Zenon DEF Range
<1>7. b \in Range(Append(s, b))
  <2>1. Len(s) + 1 \in 1 .. Len(s) + 1
    BY <1>1
  <2> QED BY <1>2, <1>3, <2>1, Zenon DEF Range
<1> QED BY <1>1, <1>5, <1>6, <1>7, Zenon

\* Tail takes the first element away.
LEMMA RangeTail ==
  ASSUME NEW s \in Seq(Bucket), s # <<>>
  PROVE  /\ Tail(s) \in Seq(Bucket) /\ s[1] \in Bucket /\ Head(s) = s[1] /\ Len(s) \in Nat \ {0}
         /\ Range(s) = Range(Tail(s)) \cup {s[1]}
         /\ Len(Tail(s)) = Len(s) - 1 /\ \A k \in 1 .. Len(s) - 1 : Tail(s)[k] = s[k + 1]
<1>1. /\ Tail(s) \in Seq(Bucket) /\ s[1] \in Bucket /\ Head(s) = s[1] /\ Len(s) \in Nat \ {0}
      /\ Len(Tail(s)) = Len(s) - 1 /\ \A k \in 1 .. Len(s) - 1 : Tail(s)[k] = s[k + 1]
  OBVIOUS
<1>2. DOMAIN Tail(s) = 1 .. Len(s) - 1 /\ DOMAIN s = 1 .. Len(s)
  BY <1>1
<1>3. ASSUME NEW x \in Range(s) PROVE x \in Range(Tail(s)) \cup {s[1]}
  <2>1. PICK k \in 1 .. Len(s) : x = s[k]
    BY <1>2, <1>3, Zenon DEF Range
  <2>2. CASE k = 1
    BY <2>1, <2>2, Zenon
  <2>3. CASE k # 1
    <3>1. k - 1 \in 1 .. Len(s) - 1 /\ (k - 1) + 1 = k
      BY <1>1, <2>3
    <3>2. x = Tail(s)[k - 1]
      BY <1>1, <2>1, <3>1, Zenon
    <3> QED BY <1>2, <3>1, <3>2, Zenon DEF Range
  <2> QED BY <2>2, <2>3, Zenon
<1>4. ASSUME NEW x \in Range(Tail(s)) PROVE x \in Range(s)
  <2>1. PICK k \in 1 .. Len(s) - 1 : x = Tail(s)[k]
    BY <1>2, <1>4, Zenon DEF Range
  <2>2. k + 1 \in 1 .. Len(s) /\ x = s[k + 1]
    BY <1>1, <2>1
  <2> QED BY <1>2, <2>2, Zenon DEF Range
<1>5. s[1] \in Range(s)
  <2>1. 1 \in 1 .. Len(s)
    BY <1>1
  <2> QED BY <1>2, <2>1, Zenon DEF Range
<1> QED BY <1>1, <1>3, <1>4, <1>5, Zenon

-----------------------------------------------------------------------------
\* The window of recent buckets.

\* Buckets of the window are recent ones, none before its first second.
LEMMA InWindow ==
  ASSUME NEW s \in Seq(Bucket), IsWindow(s)
  PROVE  \A b \in Range(s) : b.creator = NoRequest /\ b.time >= s[1].time
<1> TAKE b \in Range(s)
<1>1. PICK k \in 1 .. Len(s) : b = s[k]
  BY DEF Range
<1>2. b = newAggregatorBucket(s[1].time + k - 1, NoRequest)
  BY <1>1, Zenon DEF IsWindow
<1>3. b.creator = NoRequest /\ b.time = s[1].time + k - 1
  BY <1>2, Zenon DEF newAggregatorBucket
<1>4. s[1].time \in Int
  <2>1. s[1] \in Bucket
    BY DEF IsWindow
  <2> QED BY <2>1, Zenon DEF Bucket
<1> QED BY <1>3, <1>4

\* The elements of a window are buckets, their times numbers.
LEMMA WindowTimes ==
  ASSUME NEW s \in Seq(Bucket), IsWindow(s)
  PROVE  s[1].time \in Int /\ \A b \in Range(s) : b \in Bucket /\ b.time \in Int
<1>1. s[1] \in Bucket
  BY DEF IsWindow
<1>2. \A b \in Range(s) : b \in Bucket
  BY DEF Range
<1> QED BY <1>1, <1>2, Zenon DEF Bucket

\* Inserters have buckets.
LEMMA HeldBuckets == TypeOK => \A i \in Inserters : Held(i) \subseteq Bucket
<1> SUFFICES ASSUME TypeOK, NEW i \in Inserters PROVE Held(i) \subseteq Bucket
  BY Zenon
<1>1. inserter[i].batch \in Seq(Bucket) /\ inserter[i].popped \subseteq Bucket /\ inserter[i].stale \subseteq Bucket
  BY Zenon DEF TypeOK, Inserter
<1>2. Range(inserter[i].batch) \subseteq Bucket
  BY <1>1 DEF Range
<1> QED BY <1>1, <1>2, Zenon DEF Held

\* Handlers do not find the buckets of inserters.
LEMMA NotHeld ==
  ASSUME IInv, NEW b, b \in Range(recentBuckets) \/ b \in historicBuckets, NEW i \in Inserters
  PROVE  b \notin Held(i)
<1>1. CASE b \in historicBuckets
  BY <1>1, Zenon DEF IInv, HeldInv
<1>2. CASE b \in Range(recentBuckets)
  <2>1. b.creator = NoRequest /\ b.time >= oldestTime
    BY <1>2, InWindow, Zenon DEF IInv, TypeOK, oldestTime
  <2>2. ASSUME b \in Held(i) PROVE FALSE
    <3>1. b.time < oldestTime
      BY <2>1, <2>2, Zenon DEF IInv, HeldInv, Gone
    <3>2. b.time \in Int /\ oldestTime \in Int
      BY <1>2, WindowTimes, Zenon DEF IInv, TypeOK, oldestTime
    <3> QED BY <2>1, <3>1, <3>2
  <2> QED BY <2>2, Zenon
<1> QED BY <1>1, <1>2, Zenon

-----------------------------------------------------------------------------
\* Handlers.

\* The types a request step has to keep; the rest does not change.
RequestTypes ==
    /\ historicBuckets \subseteq Bucket /\ polls \subseteq Requests
    /\ answer \in [Requests -> Answers]

\* A step of a handler, which changes one request from stage to stage and may add one bucket.
LEMMA RequestStep ==
  ASSUME IInv, NEW r \in Requests, NEW q \in Request,
         request' = [request EXCEPT ![r] = q], q.stage # "new",
         UNCHANGED <<recentBuckets, ticker, inserter, inserted>>, RequestTypes',
         \/ readers' = readers \cup {r} /\ q.stage \in Inside
         \/ readers' = readers \ {r} /\ q.stage \notin Inside,
         historicBuckets \subseteq historicBuckets',
         \A b \in historicBuckets' : b \in historicBuckets \/ (b.creator = r /\ request[r].stage = "new"),
         \A b, c \in historicBuckets' : b.time = c.time => b = c,
         q.stage \in Inside \cup {"released"} =>
             /\ RightBucket(q) /\ \A i \in Inserters : ~WaitedFor(inserter[i], q.bucket)
             /\ ticker.pc # "quit" => Lives(q.bucket)',
         polls' \subseteq polls \cup {r}, r \in polls' => q.stage \in {"registered", "released"},
         \A p \in Requests : p # r => answer'[p] = answer[p],
         q.stage \in {"admitted", "merged"} \/ r \in polls' => answer'[r] = "none",
         q.kind \in DataKinds /\ answer'[r] \in {"inserted", "stale", "old"}
             => r \in inserted \/ q.time < oldestTime - HistoricWindow
  PROVE  IInv'
<1>1. request'[r] = q /\ \A p \in Requests : p # r => request'[p] = request[p]
  BY Zenon DEF IInv, TypeOK
<1>2. TypeOK'
  BY Zenon DEF IInv, TypeOK, RequestTypes
<1>3. /\ IsWindow(recentBuckets)' /\ ReadyInv' /\ PartsInv' /\ oldestTime' = oldestTime
      /\ \A i \in Inserters : Held(i)' = Held(i)
  <2>1. recentBuckets' = recentBuckets /\ ticker' = ticker /\ inserter' = inserter
    BY Zenon
  <2>2. IsWindow(recentBuckets)' /\ oldestTime' = oldestTime
    BY <2>1, Zenon DEF IInv, oldestTime, IsWindow
  <2>3. ReadyInv'
    BY <2>1, <2>2, Zenon DEF IInv, ReadyInv
  <2>4. PartsInv'
    BY <2>1, <2>2, Zenon DEF IInv, PartsInv
  <2> QED BY <2>1, <2>2, <2>3, <2>4, Zenon DEF Held
<1>4. \A p \in Requests : request[p].stage # "new" => request'[p].stage # "new"
  BY <1>1, Zenon
<1>5. \A b : b \in Bucket /\ b.creator # NoRequest => b.creator \in Requests
  BY Zenon DEF Bucket
<1>6. HistoricInv'
  <2>1. \A b \in historicBuckets : b \in Bucket /\ b.creator # NoRequest /\ request[b.creator].stage # "new"
    BY Zenon DEF IInv, TypeOK, HistoricInv
  <2>2. \A b \in historicBuckets' : b.creator # NoRequest /\ request'[b.creator].stage # "new"
    BY <1>1, <1>4, <1>5, <2>1, ConstantsAssumption, Zenon
  <2> QED BY <2>2, Zenon DEF HistoricInv
<1>7. HeldInv'
  <2> SUFFICES ASSUME NEW i \in Inserters, NEW b \in Held(i)
               PROVE  /\ Gone(b)' /\ b \notin historicBuckets' /\ b \notin Range(ticker.ready)'
                      /\ \A j \in Inserters : b \in Held(j)' => j = i
    BY <1>3, Zenon DEF HeldInv
  <2>1. /\ Gone(b) /\ b \notin historicBuckets /\ b \notin Range(ticker.ready)
        /\ \A j \in Inserters : b \in Held(j) => j = i
    BY Zenon DEF IInv, HeldInv
  <2>2. b \in Bucket
    BY HeldBuckets, Zenon DEF IInv
  <2>3. Gone(b)'
    BY <1>3, <1>4, <1>5, <2>1, <2>2, Zenon DEF Gone
  <2>4. b \notin historicBuckets'
    BY <2>1, ConstantsAssumption, Zenon DEF Gone
  <2> QED BY <1>3, <2>1, <2>3, <2>4, Zenon
<1>8. QuietInv'
  <2>1. readers = {p \in Requests : request[p].stage \in Inside}
    BY Zenon DEF IInv, QuietInv
  <2>2. readers' = {p \in Requests : request'[p].stage \in Inside}
    BY <1>1, <2>1, Zenon
  <2>3. ASSUME NEW i \in Inserters, NEW b, WaitedFor(inserter[i], b), NEW p \in readers'
        PROVE  request'[p].bucket # b
    <3>1. Quiet(b)
      BY <2>3, Zenon DEF IInv, QuietInv
    <3>2. CASE p = r
      BY <1>1, <2>2, <2>3, <3>2, Zenon
    <3>3. CASE p # r
      BY <1>1, <2>1, <2>2, <2>3, <3>1, <3>3, Zenon DEF Quiet
    <3> QED BY <3>2, <3>3, Zenon
  <2> QED BY <2>2, <2>3, Zenon DEF QuietInv, Quiet, WaitedFor
<1>9. SecondsInv'
  <2>1. \A p \in Requests : request[p].stage \in Inside \cup {"released"} => RightBucket(request[p])
    BY Zenon DEF IInv, SecondsInv
  <2>2. \A p \in Requests : request'[p].stage \in Inside \cup {"released"} => RightBucket(request'[p])
    BY <1>1, <2>1, Zenon
  <2> QED BY <2>2, Zenon DEF SecondsInv, RightBucket, isOurs
<1>10. OwnerInv'
  <2>1. \A p \in polls' : request'[p].stage \in {"registered", "released"}
    BY <1>1, Zenon DEF IInv, OwnerInv, TypeOK
  <2>2. \A p \in Requests : p # r => (p \in readers' <=> p \in readers) /\ (p \in polls' => p \in polls)
    OBVIOUS
  <2>3. ASSUME ticker.pc # "quit", NEW p \in Requests, Open(p)' PROVE Lives(request[p].bucket)'
    <3>1. CASE p = r
      <4>1. q.stage \in Inside \cup {"released"}
        BY <1>1, <2>1, <2>3, <3>1, Zenon DEF Open, Inside
      <4> QED BY <1>1, <2>3, <3>1, <4>1, Zenon DEF Lives
    <3>2. CASE p # r
      <4>1. Open(p)
        BY <1>1, <2>2, <2>3, <3>2, Zenon DEF Open
      <4>2. Lives(request[p].bucket)
        BY <2>3, <4>1, Zenon DEF IInv, OwnerInv
      <4> QED BY <1>1, <1>3, <3>2, <4>2, Zenon DEF Lives
    <3> QED BY <3>1, <3>2, Zenon
  <2>4. ticker'.pc = ticker.pc
    BY Zenon
  <2> QED BY <2>1, <2>3, <2>4, Zenon DEF OwnerInv
<1>11. RowsInv'
  <2> SUFFICES ASSUME NEW i \in Inserters, NEW p \in Requests, NEW b \in Range(inserter[i].batch), IsRow(p, b)'
               PROVE  /\ inserter[i].pc = "send" => p \in inserter[i].rows
                      /\ inserter[i].pc = "answer" /\ ~inserter[i].err => p \in inserted
    BY Zenon DEF RowsInv, RowsOf
  <2>1. p # r
    BY <1>1, Zenon DEF IsRow, WaitedFor, Inside
  <2>2. IsRow(p, b)
    BY <1>1, <2>1, Zenon DEF IsRow
  <2> QED BY <2>2, Zenon DEF IInv, RowsInv, RowsOf
<1>12. DiscardJustified'
  <2>1. \A p \in Requests :
          request[p].kind \in DataKinds /\ answer[p] \in {"inserted", "stale", "old"}
          => p \in inserted \/ request[p].time < oldestTime - HistoricWindow
    BY Zenon DEF IInv, DiscardJustified
  <2> QED BY <1>1, <1>3, <2>1, Zenon DEF DiscardJustified
<1>13. AnswerInv'
  <2>1. \A p \in Requests :
          request[p].stage \in {"new", "admitted", "merged"} \/ p \in polls => answer[p] = "none"
    BY Zenon DEF IInv, AnswerInv
  <2> QED BY <1>1, <2>1, Zenon DEF AnswerInv
<1> QED BY <1>2, <1>3, <1>6, <1>7, <1>8, <1>9, <1>10, <1>11, <1>12, <1>13, Zenon DEF IInv

\* What a handler that is in its bucket knows: nobody waits for it in vain, and its bucket lives.
LEMMA HandlerInside ==
  ASSUME IInv, NEW r \in Requests, request[r].stage \in Inside
  PROVE  /\ r \in readers /\ RightBucket(request[r])
         /\ \A i \in Inserters : ~WaitedFor(inserter[i], request[r].bucket)
         /\ ticker.pc # "quit" => Lives(request[r].bucket)
<1>1. r \in readers
  BY Zenon DEF IInv, QuietInv
<1>2. RightBucket(request[r])
  BY Zenon DEF IInv, SecondsInv
<1>3. \A i \in Inserters : ~WaitedFor(inserter[i], request[r].bucket)
  BY <1>1, Zenon DEF IInv, QuietInv, Quiet
<1>4. ticker.pc # "quit" => Lives(request[r].bucket)
  BY <1>1, Zenon DEF IInv, OwnerInv, Open
<1> QED BY <1>1, <1>2, <1>3, <1>4, Zenon

\* Merging, registering the long poll and releasing the bucket.
LEMMA StageStep ==
  ASSUME IInv, NEW r \in Requests, request[r].stage \in Inside, NEW s \in Inside \cup {"released"},
         SetStage(r, s), UNCHANGED <<buckets, ticker, inserter, history>>,
         \/ readers' = readers /\ s \in Inside
         \/ readers' = readers \ {r} /\ s = "released",
         s # "released" => request[r].stage \in {"admitted", "merged"},
         polls' = polls \/ (polls' = polls \cup {r} /\ s # "released"),
         r \in polls' => s \in {"registered", "released"}
  PROVE  IInv'
<1>1. request[r] \in Request
  BY Zenon DEF IInv, TypeOK
<1>2. PICK q \in Request :
        /\ q = [request[r] EXCEPT !.stage = s]
        /\ q.stage = s /\ q.bucket = request[r].bucket /\ q.time = request[r].time /\ q.kind = request[r].kind
  <2>1. /\ [request[r] EXCEPT !.stage = s] \in Request /\ [request[r] EXCEPT !.stage = s].stage = s
        /\ \A f \in {"kind", "time", "bucket"} : [request[r] EXCEPT !.stage = s][f] = request[r][f]
    BY <1>1, Zenon DEF Request, Stages, Inside
  <2> QED BY <2>1, Zenon
<1>3. request' = [request EXCEPT ![r] = q]
  BY <1>2, Zenon DEF SetStage
<1>4. /\ UNCHANGED <<recentBuckets, ticker, inserter, inserted>>
      /\ historicBuckets' = historicBuckets /\ answer' = answer
  BY Zenon DEF buckets, history
<1>5. RequestTypes'
  BY <1>4, Zenon DEF IInv, TypeOK, RequestTypes
<1>6. /\ r \in readers /\ RightBucket(q) /\ \A i \in Inserters : ~WaitedFor(inserter[i], q.bucket)
      /\ ticker.pc # "quit" => Lives(q.bucket)
  BY <1>2, HandlerInside, Zenon DEF RightBucket
<1>7. ticker.pc # "quit" => Lives(q.bucket)'
  BY <1>2, <1>3, <1>4, <1>6, Zenon DEF Lives, Held
<1>8. \/ readers' = readers \cup {r} /\ q.stage \in Inside
      \/ readers' = readers \ {r} /\ q.stage \notin Inside
  BY <1>2, <1>6, Zenon DEF Inside
<1>9. \A b, c \in historicBuckets : b.time = c.time => b = c
  BY Zenon DEF IInv, HistoricInv
<1>10. q.kind \in DataKinds /\ answer'[r] \in {"inserted", "stale", "old"}
             => r \in inserted \/ q.time < oldestTime - HistoricWindow
  BY <1>2, <1>4, Zenon DEF IInv, DiscardJustified
<1>11. q.stage # "new" /\ (r \in polls' => q.stage \in {"registered", "released"})
  BY <1>2, Zenon DEF Inside
<1>12. q.stage \in {"admitted", "merged"} \/ r \in polls' => answer'[r] = "none"
  <2>1. request[r].stage \in {"admitted", "merged"} \/ r \in polls => answer[r] = "none"
    BY Zenon DEF IInv, AnswerInv
  <2> QED BY <1>2, <1>4, <2>1, Zenon
<1> QED BY <1>2, <1>3, <1>4, <1>5, <1>6, <1>7, <1>8, <1>9, <1>10, <1>11, <1>12, RequestStep, Zenon

\* The loop over the metrics, StartLongpoll and the end of a handler keep the invariant.
LEMMA HandlerIInv == ASSUME IInv, NEW r \in Requests, Handler(r) PROVE IInv'
<1>1. CASE merge(r)
  <2>1. r \notin polls
    BY <1>1, Zenon DEF merge, IInv, OwnerInv
  <2> QED BY <1>1, <2>1, StageStep, Zenon DEF merge, Inside
<1>2. CASE register(r)
  <2>1. request[r].stage \in Inside /\ request[r].stage \in {"admitted", "merged"}
    BY <1>2, Zenon DEF register, Inside
  <2> QED BY <1>2, <2>1, StageStep, Zenon DEF register, Inside
<1>3. CASE release(r)
  BY <1>3, StageStep, Zenon DEF release, unlockSendMu, Inside
<1> QED BY <1>1, <1>2, <1>3, Zenon DEF Handler

\* One of three consecutive seconds is inserted by this replica.
LEMMA RoundUp ==
  ASSUME NEW t \in Int
  PROVE  isOurs(roundedToOurTime(t)) /\ roundedToOurTime(t) \in t .. t + 2
<1>1. \E x \in t .. t + 2 : isOurs(x)
  <2>1. ReplicaKey \in {1, 2, 3}
    BY ConstantsAssumption
  <2>2. \A k \in {0, 1, 2} : t % 3 = k \/ (t + 1) % 3 = k \/ (t + 2) % 3 = k
    OBVIOUS
  <2>3. PICK k \in {0, 1, 2} : k = ReplicaKey - 1
    BY <2>1
  <2>4. t \in t .. t + 2 /\ t + 1 \in t .. t + 2 /\ t + 2 \in t .. t + 2
    OBVIOUS
  <2> QED BY <2>2, <2>3, <2>4, Zenon DEF isOurs
<1> QED BY <1>1, Zenon DEF roundedToOurTime

\* The bucket a handler finds in the window for a second.
LEMMA FoundBucket ==
  ASSUME IInv, NEW t \in Int, roundedToOurTime(t) \in oldestTime .. newestTime
  PROVE  /\ bucketAt(t) \in Range(recentBuckets) /\ bucketAt(t) \in Bucket
         /\ bucketAt(t).creator = NoRequest /\ bucketAt(t).time = roundedToOurTime(t)
<1> DEFINE k == roundedToOurTime(t) - oldestTime + 1
<1>1. recentBuckets \in Seq(Bucket) /\ IsWindow(recentBuckets)
  BY Zenon DEF IInv, TypeOK
<1>2. /\ Len(recentBuckets) \in Nat /\ Len(recentBuckets) >= 3
      /\ recentBuckets[1] \in Bucket /\ recentBuckets[Len(recentBuckets)] \in Bucket
  BY <1>1 DEF IsWindow
<1>3. oldestTime \in Int
  BY <1>2, Zenon DEF Bucket, oldestTime
<1>4. Len(recentBuckets) \in 1 .. Len(recentBuckets)
  BY <1>2
<1>5. newestTime = oldestTime + Len(recentBuckets) - 1
  <2>1. recentBuckets[Len(recentBuckets)] = newAggregatorBucket(recentBuckets[1].time + Len(recentBuckets) - 1, NoRequest)
    BY <1>1, <1>4, Zenon DEF IsWindow
  <2> QED BY <2>1 DEF newAggregatorBucket, oldestTime, newestTime
<1>6. roundedToOurTime(t) \in Int
  BY RoundUp
<1>7. k \in 1 .. Len(recentBuckets) /\ oldestTime + k - 1 = roundedToOurTime(t)
  BY <1>2, <1>3, <1>5, <1>6
<1>8. bucketAt(t) = recentBuckets[k]
  BY Zenon DEF bucketAt
<1> HIDE DEF k
<1>9. recentBuckets[k] \in Bucket /\ recentBuckets[k] \in Range(recentBuckets)
  BY <1>1, <1>7 DEF Range
<1>10. recentBuckets[k] = newAggregatorBucket(roundedToOurTime(t), NoRequest)
  BY <1>1, <1>7, Zenon DEF IsWindow, oldestTime
<1>11. recentBuckets[k].creator = NoRequest /\ recentBuckets[k].time = roundedToOurTime(t)
  BY <1>10 DEF newAggregatorBucket
<1> QED BY <1>8, <1>9, <1>11, Zenon

\* A handler takes a bucket b it found in the window or in the map of historic buckets, or created.
LEMMA AdmitStep ==
  ASSUME IInv, NEW r \in Requests, request[r].stage = "new", NEW kind \in Kinds, NEW t \in Int,
         NEW b \in Bucket, admit(r, kind, t, b), RightBucket(RequestOf(kind, t, b, "admitted")),
         \/ b \in Range(recentBuckets) /\ UNCHANGED historicBuckets
         \/ b \in historicBuckets /\ UNCHANGED historicBuckets
         \/ /\ b.creator = r /\ historicBuckets' = historicBuckets \cup {b}
            /\ \A c \in historicBuckets : c.time # b.time
  PROVE  IInv'
<1>1. PICK q \in Request : q = RequestOf(kind, t, b, "admitted")
  BY Zenon DEF Request, RequestOf, Stages
<1>2. q.kind = kind /\ q.time = t /\ q.bucket = b /\ q.stage = "admitted" /\ RightBucket(q)
  BY <1>1, Zenon DEF RequestOf
<1>3. /\ request' = [request EXCEPT ![r] = q] /\ readers' = readers \cup {r} /\ polls' = polls
      /\ recentBuckets' = recentBuckets /\ ticker' = ticker /\ inserter' = inserter
      /\ inserted' = inserted /\ answer' = answer
  BY <1>1, Zenon DEF admit, lockSendMu, history
<1>4. /\ historicBuckets \subseteq Bucket /\ polls \subseteq Requests /\ answer \in [Requests -> Answers]
      /\ request \in [Requests -> Request]
      /\ \A c, d \in historicBuckets : c.time = d.time => c = d
      /\ \A p \in polls : request[p].stage \in {"registered", "released"}
      /\ answer[r] = "none"
  BY Zenon DEF IInv, TypeOK, HistoricInv, OwnerInv, AnswerInv
<1>5. /\ RequestTypes' /\ historicBuckets \subseteq historicBuckets'
      /\ \A c \in historicBuckets' : c \in historicBuckets \/ (c.creator = r /\ request[r].stage = "new")
      /\ \A c, d \in historicBuckets' : c.time = d.time => c = d
  BY <1>3, <1>4, Zenon DEF RequestTypes
<1>6. \A i \in Inserters : b \notin Held(i)
  <2>1. CASE b \in Range(recentBuckets) \/ b \in historicBuckets
    BY <2>1, NotHeld, Zenon
  <2>2. CASE b.creator = r
    BY <2>2, ConstantsAssumption, Zenon DEF IInv, HeldInv, Gone
  <2> QED BY <2>1, <2>2, Zenon
<1>7. \A i \in Inserters : ~WaitedFor(inserter[i], b)
  BY <1>6, Zenon DEF WaitedFor, Held
<1>8. Lives(b)'
  BY <1>3, Zenon DEF Lives
<1>9. r \notin polls /\ answer'[r] = "none" /\ answer'[r] \notin {"inserted", "stale", "old"}
  BY <1>3, <1>4, Zenon
<1> QED BY <1>2, <1>3, <1>5, <1>7, <1>8, <1>9, RequestStep, Zenon DEF Inside

\* A handler that answers at once, or hijacks the response.
LEMMA RefuseStep ==
  ASSUME IInv, NEW r \in Requests, request[r].stage = "new", NEW kind \in Kinds, NEW t \in Int,
         NEW s \in {"refused", "hijacked"},
         request' = [request EXCEPT ![r] = RequestOf(kind, t, NoBucket, s)],
         UNCHANGED <<buckets, ticker, inserter, inserted, readers, polls>>,
         answer' \in [Requests -> Answers], \A p \in Requests : p # r => answer'[p] = answer[p],
         answer'[r] \in {"inserted", "stale", "old"} => t < oldestTime - HistoricWindow
  PROVE  IInv'
<1>1. PICK q \in Request : q = RequestOf(kind, t, NoBucket, s)
  <2>1. NoBucket \in Bucket
    BY DEF NoBucket, newAggregatorBucket, Bucket
  <2> QED BY <2>1, Zenon DEF Request, RequestOf, Stages
<1>2. /\ q.kind = kind /\ q.time = t /\ q.stage = s /\ q.stage \notin Inside \cup {"released"}
      /\ q.stage \notin {"new", "admitted", "merged"}
  BY <1>1, Zenon DEF RequestOf, Inside
<1>3. /\ request' = [request EXCEPT ![r] = q] /\ historicBuckets' = historicBuckets
      /\ UNCHANGED <<recentBuckets, ticker, inserter, inserted>> /\ polls' = polls
  BY <1>1, Zenon DEF buckets
<1>4. /\ historicBuckets \subseteq Bucket /\ polls \subseteq Requests
      /\ \A c, d \in historicBuckets : c.time = d.time => c = d
      /\ \A p \in polls : request[p].stage \in {"registered", "released"}
      /\ readers = {p \in Requests : request[p].stage \in Inside}
  BY Zenon DEF IInv, TypeOK, HistoricInv, OwnerInv, QuietInv
<1>5. RequestTypes'
  BY <1>3, <1>4, Zenon DEF RequestTypes
<1>6. r \notin polls /\ r \notin readers
  BY <1>4, Zenon DEF Inside
<1>7. readers' = readers \ {r} /\ q.stage \notin Inside
  BY <1>2, <1>6, Zenon
<1>8. answer'[r] \in {"inserted", "stale", "old"} => q.time < oldestTime - HistoricWindow
  BY <1>2, Zenon
<1>9. /\ historicBuckets \subseteq historicBuckets' /\ \A b \in historicBuckets' : b \in historicBuckets
      /\ \A b, c \in historicBuckets' : b.time = c.time => b = c
      /\ polls' \subseteq polls \cup {r} /\ r \notin polls'
  BY <1>3, <1>4, <1>6, Zenon
<1> QED BY <1>2, <1>3, <1>5, <1>7, <1>8, <1>9, RequestStep, Zenon

\* The answers after Answered.
LEMMA NewAnswers ==
  ASSUME IInv, NEW S \in SUBSET Requests, NEW a \in Answers, Answered(S, a)
  PROVE  /\ answer' \in [Requests -> Answers]
         /\ \A r \in Requests : answer'[r] = IF r \in S THEN a ELSE answer[r]
BY Zenon DEF IInv, TypeOK, Answered

\* An answer given at once keeps the invariant, if an answer that lets the agent erase is for a
\* second before the historic window.
LEMMA RefuseIInv ==
  ASSUME IInv, NEW r \in Requests, request[r].stage = "new", NEW kind \in Kinds, NEW t \in Int,
         NEW a \in Answers, refuse(r, kind, t, a),
         a \in {"inserted", "stale", "old"} => t < oldestTime - HistoricWindow
  PROVE  IInv'
<1>1. Answered({r}, a)
  BY Zenon DEF refuse
<1>2. /\ answer' \in [Requests -> Answers] /\ answer'[r] = a
      /\ \A p \in Requests : p # r => answer'[p] = answer[p]
  <2>1. {r} \in SUBSET Requests
    BY Zenon
  <2>2. answer' \in [Requests -> Answers] /\ \A p \in Requests : answer'[p] = IF p \in {r} THEN a ELSE answer[p]
    BY <1>1, <2>1, NewAnswers, Zenon
  <2> QED BY <2>2, Zenon
<1>3. /\ request' = [request EXCEPT ![r] = RequestOf(kind, t, NoBucket, "refused")]
      /\ UNCHANGED <<buckets, ticker, inserter, inserted, readers, polls>>
  BY Zenon DEF refuse
<1> QED BY <1>2, <1>3, RefuseStep, Zenon

\* A handler that takes a bucket of the window keeps the invariant.
LEMMA SendRecentIInv ==
  ASSUME IInv, NEW r \in Requests, request[r].stage = "new", NEW kind \in Kinds, NEW t \in Int,
         roundedToOurTime(t) \in oldestTime .. newestTime, admit(r, kind, t, bucketAt(t)),
         UNCHANGED historicBuckets
  PROVE  IInv'
<1>1. PICK b \in Bucket : b = bucketAt(t)
  BY FoundBucket, Zenon
<1>2. b \in Range(recentBuckets) /\ b.creator = NoRequest /\ b.time = roundedToOurTime(t)
  BY <1>1, FoundBucket, Zenon
<1>3. isOurs(b.time) /\ b.time \in t .. t + 2
  BY <1>2, RoundUp, Zenon
<1>4. RightBucket(RequestOf(kind, t, b, "admitted"))
  BY <1>2, <1>3, Zenon DEF RightBucket, RequestOf
<1> QED BY <1>1, <1>2, <1>4, AdmitStep, Zenon

\* The window is at least three seconds.
LEMMA OldestInWindow ==
  ASSUME IInv
  PROVE  oldestTime \in Int /\ newestTime \in Int /\ newestTime >= oldestTime + 2
<1>1. recentBuckets \in Seq(Bucket) /\ IsWindow(recentBuckets)
  BY Zenon DEF IInv, TypeOK
<1>2. /\ Len(recentBuckets) \in Nat /\ Len(recentBuckets) >= 3
      /\ Len(recentBuckets) \in 1 .. Len(recentBuckets)
      /\ recentBuckets[1] \in Bucket
  BY <1>1 DEF IsWindow
<1>3. oldestTime \in Int
  BY <1>2, Zenon DEF Bucket, oldestTime
<1>4. recentBuckets[Len(recentBuckets)] = newAggregatorBucket(recentBuckets[1].time + Len(recentBuckets) - 1, NoRequest)
  BY <1>1, <1>2, Zenon DEF IsWindow
<1>5. newestTime = oldestTime + Len(recentBuckets) - 1
  BY <1>4 DEF newAggregatorBucket, oldestTime, newestTime
<1> QED BY <1>2, <1>3, <1>5

\* A historic request: refused, put into the window, or into the historic bucket of its second.
LEMMA SendHistoricIInv ==
  ASSUME IInv, NEW r \in Requests, request[r].stage = "new", NEW t \in RequestTimes, sendHistoric(r, t)
  PROVE  IInv'
<1> DEFINE rounded == roundedToOurTime(t)
           known   == {c \in historicBuckets : c.time = t}
           found   == IF known = {} THEN newAggregatorBucket(t, r) ELSE CHOOSE x \in known : TRUE
<1>1. t \in Int /\ rounded \in t .. t + 2
  BY RoundUp, ConstantsAssumption
<1>2. /\ "historic" \in Kinds /\ "future" \in Answers /\ "old" \in Answers
      /\ "future" \notin {"inserted", "stale", "old"}
  BY Zenon DEF Kinds, DataKinds, Answers
<1>3. CASE refuse(r, "historic", t, "future")
  BY <1>1, <1>2, <1>3, RefuseIInv, Zenon
<1>4. CASE isStale(rounded, oldestTime) /\ refuse(r, "historic", t, "old")
  <2>1. t < oldestTime - HistoricWindow
    BY <1>1, <1>4, OldestInWindow, ConstantsAssumption DEF isStale
  <2> QED BY <1>1, <1>2, <1>4, <2>1, RefuseIInv, Zenon
<1>5. CASE historicBuckets' = historicBuckets \cup {found} /\ admit(r, "historic", t, found)
  <2>1. historicBuckets \subseteq Bucket /\ \A c \in historicBuckets : c.creator # NoRequest
    BY Zenon DEF IInv, TypeOK, HistoricInv
  <2>2. CASE known = {}
    <3>1. PICK b \in Bucket : b = newAggregatorBucket(t, r) /\ b.time = t /\ b.creator = r
      <4>1. /\ newAggregatorBucket(t, r) \in Bucket
            /\ newAggregatorBucket(t, r).time = t /\ newAggregatorBucket(t, r).creator = r
        BY <1>1, Zenon DEF newAggregatorBucket, Bucket
      <4> QED BY <4>1, Zenon
    <3>2. \A c \in historicBuckets : c.time # b.time
      BY <2>2, <3>1, Zenon
    <3>3. RightBucket(RequestOf("historic", t, b, "admitted"))
      BY <3>1, ConstantsAssumption, Zenon DEF RightBucket, RequestOf
    <3>4. historicBuckets' = historicBuckets \cup {b} /\ admit(r, "historic", t, b)
      BY <1>5, <2>2, <3>1, Zenon
    <3> QED BY <1>1, <1>2, <3>1, <3>2, <3>3, <3>4, AdmitStep, Zenon
  <2>3. CASE known # {}
    <3>1. PICK b : b = found
      BY Zenon
    <3>2. b \in historicBuckets /\ b.time = t
      BY <2>3, <3>1, Zenon
    <3>3. b \in Bucket /\ b.creator # NoRequest
      BY <2>1, <3>2, Zenon
    <3>4. RightBucket(RequestOf("historic", t, b, "admitted"))
      BY <3>2, <3>3, Zenon DEF RightBucket, RequestOf
    <3>5. UNCHANGED historicBuckets /\ admit(r, "historic", t, b)
      BY <1>5, <3>1, <3>2, Zenon
    <3> QED BY <1>1, <1>2, <3>2, <3>3, <3>4, <3>5, AdmitStep, Zenon
  <2> QED BY <2>2, <2>3, Zenon
<1>6. CASE rounded \in oldestTime .. newestTime /\ admit(r, "historic", t, bucketAt(t)) /\ UNCHANGED historicBuckets
  BY <1>1, <1>2, <1>6, SendRecentIInv, Zenon
<1> QED BY <1>3, <1>4, <1>5, <1>6, Zenon DEF sendHistoric

\* handleSendSourceBucket keeps the invariant.
LEMMA SourceBucketIInv == ASSUME IInv, NEW r \in Requests, handleSendSourceBucket(r) PROVE IInv'
<1>1. request[r].stage = "new"
  BY Zenon DEF handleSendSourceBucket
<1>2. /\ "recent" \in Kinds /\ "simulated" \in Kinds /\ 0 \in Int
      /\ {"rejected", "future", "late"} \subseteq Answers
      /\ {"rejected", "future", "late"} \cap {"inserted", "stale", "old"} = {}
  BY DEF Kinds, DataKinds, Answers
<1>3. CASE reject(r)
  BY <1>1, <1>2, <1>3, RefuseIInv, Zenon DEF reject
<1>4. CASE hijack(r)
  <2>1. /\ request' = [request EXCEPT ![r] = RequestOf("recent", 0, NoBucket, "hijacked")]
        /\ UNCHANGED <<buckets, ticker, inserter, inserted, readers, polls>> /\ answer' = answer
    BY <1>4, Zenon DEF hijack, history
  <2>2. answer[r] = "none" /\ answer \in [Requests -> Answers]
    BY <1>1, Zenon DEF IInv, AnswerInv, TypeOK
  <2>3. /\ answer' \in [Requests -> Answers] /\ \A p \in Requests : p # r => answer'[p] = answer[p]
        /\ answer'[r] \notin {"inserted", "stale", "old"}
    BY <2>1, <2>2, Zenon
  <2> QED BY <1>1, <1>2, <2>1, <2>3, RefuseStep, Zenon
<1>5. ASSUME NEW t \in RequestTimes, sendHistoric(r, t) PROVE IInv'
  BY <1>1, <1>5, SendHistoricIInv, Zenon
<1>6. ASSUME NEW t \in RequestTimes, sendRecent(r, t) PROVE IInv'
  <2>1. t \in Int
    BY ConstantsAssumption
  <2>2. CASE refuse(r, "recent", t, "future") \/ refuse(r, "recent", t, "late")
    BY <1>1, <1>2, <2>1, <2>2, RefuseIInv, Zenon
  <2>3. CASE /\ roundedToOurTime(t) \in oldestTime .. newestTime /\ UNCHANGED historicBuckets
             /\ admit(r, "recent", t, bucketAt(t)) \/ admit(r, "simulated", t, bucketAt(t))
    BY <1>1, <1>2, <2>1, <2>3, SendRecentIInv, Zenon
  <2> QED BY <1>6, <2>2, <2>3, Zenon DEF sendRecent
<1> QED BY <1>3, <1>4, <1>5, <1>6, Zenon DEF handleSendSourceBucket

\* handleSendKeepAlive keeps the invariant: the oldest second rounds up to one of the window.
LEMMA KeepAliveIInv == ASSUME IInv, NEW r \in Requests, handleSendKeepAlive(r) PROVE IInv'
<1>1. request[r].stage = "new" /\ UNCHANGED historicBuckets
  BY Zenon DEF handleSendKeepAlive
<1>2. PICK t \in Int : t = oldestTime
  BY OldestInWindow, Zenon
<1>3. admit(r, "keepalive", t, bucketAt(t)) /\ "keepalive" \in Kinds
  BY <1>2, Zenon DEF handleSendKeepAlive, Kinds
<1>4. roundedToOurTime(t) \in oldestTime .. newestTime
  <2>1. roundedToOurTime(t) \in t .. t + 2
    BY RoundUp, Zenon
  <2> QED BY <1>2, <2>1, OldestInWindow
<1> QED BY <1>1, <1>3, <1>4, SendRecentIInv, Zenon

-----------------------------------------------------------------------------
\* The ticker and the inserters.

\* A step of the ticker or of inserter i (nobody, if i is none of them): it changes its own
\* place, takes historic buckets and buckets of the ticker, answers parked requests of the
\* buckets it lets go, and touches neither the window nor the handlers.
LEMMA BackStep ==
  ASSUME IInv, NEW i, UNCHANGED <<recentBuckets, request, readers>>, TypeOK',
         \A j \in Inserters : j # i => inserter'[j] = inserter[j],
         UNCHANGED ticker \/ ReadyInv', Range(ticker.ready)' \subseteq Range(ticker.ready),
         historicBuckets' \subseteq historicBuckets, inserted \subseteq inserted', polls' \subseteq polls,
         i \in Inserters =>
            /\ \A b \in Held(i)' : \/ b \in Held(i)
                                   \/ b \in historicBuckets /\ b \notin historicBuckets'
                                   \/ b \in Range(ticker.ready) /\ b \notin Range(ticker.ready)'
            /\ PartsOf(inserter'[i], oldestTime)
            /\ \A b : WaitedFor(inserter'[i], b) => Quiet(b)
            /\ RowsOf(inserter[i])',
         ticker.pc = "quit" => ticker'.pc = "quit",
         ticker'.pc # "quit" =>
            \A r \in Requests : Open(r)' /\ Lives(request[r].bucket) => Lives(request[r].bucket)',
         \A r \in Requests :
            \/ answer'[r] = answer[r]
            \/ /\ r \in polls /\ r \notin polls'
               /\ request[r].kind \in DataKinds /\ answer'[r] \in {"inserted", "stale", "old"}
                  => r \in inserted' \/ request[r].time < oldestTime - HistoricWindow
  PROVE  IInv'
<1>1. /\ recentBuckets' = recentBuckets /\ request' = request /\ readers' = readers
      /\ oldestTime' = oldestTime
  BY Zenon DEF oldestTime
<1>2. IsWindow(recentBuckets)' /\ SecondsInv'
  BY <1>1, Zenon DEF IInv, IsWindow, SecondsInv, RightBucket, isOurs
<1>3. ReadyInv'
  BY <1>1, Zenon DEF IInv, ReadyInv
<1>4. HistoricInv'
  BY <1>1, Zenon DEF IInv, HistoricInv
<1>5. \A j \in Inserters : j # i => Held(j)' = Held(j)
  BY Zenon DEF Held
<1>6. HeldInv'
  <2>1. ASSUME NEW j \in Inserters, NEW b \in Held(j)'
        PROVE  \/ b \in Held(j)
               \/ b \in historicBuckets /\ b \notin historicBuckets' /\ j = i
               \/ b \in Range(ticker.ready) /\ b \notin Range(ticker.ready)' /\ j = i
    BY <1>5, <2>1, Zenon
  <2>2. ASSUME NEW j \in Inserters, NEW b \in Held(j)
        PROVE  /\ Gone(b) /\ b \notin historicBuckets /\ b \notin Range(ticker.ready)
               /\ \A l \in Inserters : b \in Held(l) => l = j
    BY <2>2, Zenon DEF IInv, HeldInv
  <2>3. \A b \in historicBuckets : b.creator # NoRequest /\ Gone(b)
    BY Zenon DEF IInv, HistoricInv, Gone
  <2>4. \A b \in Range(ticker.ready) : b.creator = NoRequest /\ Gone(b)
    BY Zenon DEF IInv, ReadyInv, Gone
  <2>5. \A b : Gone(b)' <=> Gone(b)
    BY <1>1, Zenon DEF Gone
  <2>6. ASSUME NEW j \in Inserters, NEW b \in Held(j)'
        PROVE  /\ Gone(b)' /\ b \notin historicBuckets' /\ b \notin Range(ticker.ready)'
               /\ \A l \in Inserters : b \in Held(l)' => l = j
    <3>1. Gone(b)
      BY <2>1, <2>2, <2>3, <2>4, <2>6, Zenon
    <3>2. b \notin historicBuckets' /\ b \notin Range(ticker.ready)'
      BY <2>1, <2>2, <2>3, <2>4, <2>6, Zenon
    <3>3. ASSUME NEW l \in Inserters, b \in Held(l)' PROVE l = j
      BY <2>1, <2>2, <2>6, <3>3, Zenon
    <3> QED BY <2>5, <3>1, <3>2, <3>3, Zenon
  <2> QED BY <2>6, Zenon DEF HeldInv
<1>7. PartsInv'
  <2>1. \A j \in Inserters : PartsOf(inserter[j], oldestTime)
    BY Zenon DEF IInv, PartsInv
  <2>2. \A j \in Inserters : PartsOf(inserter'[j], oldestTime)
    BY <2>1, Zenon
  <2> QED BY <1>1, <2>2, Zenon DEF PartsInv
<1>8. QuietInv'
  <2>1. readers' = {r \in Requests : request'[r].stage \in Inside}
    BY <1>1, Zenon DEF IInv, QuietInv
  <2>2. \A j \in Inserters : \A b : WaitedFor(inserter[j], b) => Quiet(b)
    BY Zenon DEF IInv, QuietInv
  <2>3. \A j \in Inserters : \A b : WaitedFor(inserter'[j], b) => Quiet(b)
    BY <2>2, Zenon
  <2>4. \A b : Quiet(b)' <=> Quiet(b)
    BY <1>1, Zenon DEF Quiet
  <2> QED BY <2>1, <2>3, <2>4, Zenon DEF QuietInv
<1>9. OwnerInv'
  <2>1. \A r \in polls' : request'[r].stage \in {"registered", "released"}
    BY <1>1, Zenon DEF IInv, OwnerInv
  <2>2. ASSUME ticker'.pc # "quit", NEW r \in Requests, Open(r)' PROVE Lives(request[r].bucket)'
    <3>1. Open(r)
      BY <1>1, <2>2, Zenon DEF Open
    <3>2. Lives(request[r].bucket)
      BY <2>2, <3>1, Zenon DEF IInv, OwnerInv
    <3> QED BY <2>2, <3>2, Zenon
  <2> QED BY <2>1, <2>2, Zenon DEF OwnerInv
<1>10. RowsInv'
  <2>1. ASSUME NEW j \in Inserters, j # i PROVE RowsOf(inserter[j])'
    <3>1. RowsOf(inserter[j]) /\ inserter'[j] = inserter[j]
      BY <2>1, Zenon DEF IInv, RowsInv
    <3>2. \A r, b : IsRow(r, b)' <=> IsRow(r, b)
      BY <1>1, Zenon DEF IsRow
    <3> QED BY <3>1, <3>2, Zenon DEF RowsOf
  <2> QED BY <2>1, Zenon DEF RowsInv
<1>11. AnswerInv'
  <2>1. \A r \in Requests :
          request[r].stage \in {"new", "admitted", "merged"} \/ r \in polls => answer[r] = "none"
    BY Zenon DEF IInv, AnswerInv
  <2>2. \A r \in polls : request[r].stage \in {"registered", "released"}
    BY Zenon DEF IInv, OwnerInv
  <2>3. \A r \in Requests :
          request[r].stage \in {"new", "admitted", "merged"} \/ r \in polls' => answer'[r] = "none"
    BY <2>1, <2>2, Zenon
  <2> QED BY <1>1, <2>3, Zenon DEF AnswerInv
<1>12. DiscardJustified'
  BY <1>1, Zenon DEF IInv, DiscardJustified
<1> QED BY <1>2, <1>3, <1>4, <1>6, <1>7, <1>8, <1>9, <1>10, <1>11, <1>12, Zenon DEF IInv

\* The buckets an inserter in state n has.
Has(n) == Range(n.batch) \cup n.popped \cup n.stale

\* The rows of its batch are in n.rows or in S, as RowsOf says.
RowsIn(n, S) ==
    \A r \in Requests : \A b \in Range(n.batch) :
        /\ n.pc = "send" /\ IsRow(r, b) => r \in n.rows
        /\ n.pc = "answer" /\ ~n.err /\ IsRow(r, b) => r \in S

\* No agent waits for an answer from bucket b, and no handler is in it.
Finished(b) == Quiet(b) /\ \A r \in polls : request[r].bucket = b => request[r].kind = "simulated"

\* An inserter goes from one state to another: BackStep for the inserters.
LEMMA InserterStep ==
  ASSUME IInv, NEW i \in Inserters, NEW n \in Inserter, inserter' = [inserter EXCEPT ![i] = n],
         UNCHANGED <<recentBuckets, request, readers, ticker>>, answer' \in [Requests -> Answers],
         historicBuckets' \subseteq historicBuckets, inserted \subseteq inserted', polls' \subseteq polls,
         \A b \in Has(n) : b \in Held(i) \/ (b \in historicBuckets /\ b \notin historicBuckets'),
         \A b : b \in Held(i) \/ b \in historicBuckets =>
                   b \in Has(n) \/ b \in historicBuckets' \/ Finished(b)',
         PartsOf(n, oldestTime), \A b : WaitedFor(n, b) => Quiet(b), RowsIn(n, inserted'),
         \A r \in Requests :
            \/ answer'[r] = answer[r]
            \/ /\ r \in polls /\ r \notin polls'
               /\ request[r].kind \in DataKinds /\ answer'[r] \in {"inserted", "stale", "old"}
                  => r \in inserted' \/ request[r].time < oldestTime - HistoricWindow
  PROVE  IInv'
<1>1. inserter \in [Inserters -> Inserter]
  BY Zenon DEF IInv, TypeOK
<1>2. inserter'[i] = n /\ \A j \in Inserters : j # i => inserter'[j] = inserter[j]
  BY <1>1, Zenon
<1>3. TypeOK'
  <2>1. /\ recentBuckets' \in Seq(Bucket) /\ request' \in [Requests -> Request]
        /\ ticker' \in [pc : {"sleep", "ready", "quit"}, ready : Seq(Bucket)]
    BY Zenon DEF IInv, TypeOK
  <2>2. historicBuckets' \subseteq Bucket /\ polls' \subseteq Requests
    BY Zenon DEF IInv, TypeOK
  <2>3. inserter' \in [Inserters -> Inserter]
    BY <1>1, Zenon
  <2> QED BY <2>1, <2>2, <2>3, Zenon DEF TypeOK
<1>4. Held(i)' = Has(n)
  BY <1>2, Zenon DEF Held, Has
<1>5. RowsOf(inserter[i])'
  <2>1. \A r, b : IsRow(r, b)' <=> IsRow(r, b)
    BY Zenon DEF IsRow
  <2> QED BY <1>2, <2>1, Zenon DEF RowsOf, RowsIn
<1>6. ASSUME NEW r \in Requests, Open(r)', Lives(request[r].bucket) PROVE Lives(request[r].bucket)'
  <2> DEFINE b == request[r].bucket
  <2>1. request'[r].bucket = b /\ ~Finished(b)'
    <3>1. request'[r] = request[r]
      BY Zenon
    <3> QED BY <1>6, <3>1, Zenon DEF Finished, Quiet, Open
  <2>2. CASE b \in Range(recentBuckets) \/ b \in Range(ticker.ready)
    BY <2>1, <2>2, Zenon DEF Lives
  <2>3. CASE b \in historicBuckets \/ b \in Held(i)
    BY <1>4, <2>1, <2>3, Zenon DEF Lives
  <2>4. ASSUME NEW j \in Inserters, j # i, b \in Held(j) PROVE Lives(request[r].bucket)'
    <3>1. Held(j)' = Held(j)
      BY <1>2, <2>4, Zenon DEF Held
    <3> QED BY <2>1, <2>4, <3>1, Zenon DEF Lives
  <2> QED BY <1>6, <2>2, <2>3, <2>4, Zenon DEF Lives
<1>7. ticker' = ticker /\ Range(ticker.ready)' = Range(ticker.ready) /\ ticker'.pc = ticker.pc
  BY Zenon
<1>8. \A b \in Held(i)' : b \in Held(i) \/ (b \in historicBuckets /\ b \notin historicBuckets')
  BY <1>4, Zenon
<1>9. PartsOf(inserter'[i], oldestTime) /\ \A b : WaitedFor(inserter'[i], b) => Quiet(b)
  BY <1>2, Zenon
<1> QED BY <1>2, <1>3, <1>5, <1>6, <1>7, <1>8, <1>9, BackStep, Zenon

\* Steps of an inserter that answer nobody.
LEMMA SilentStep ==
  ASSUME IInv, NEW i \in Inserters, NEW n \in Inserter, inserter' = [inserter EXCEPT ![i] = n],
         UNCHANGED <<recentBuckets, request, readers, ticker, polls, answer>>,
         historicBuckets' \subseteq historicBuckets, inserted \subseteq inserted',
         \A b : b \in Has(n) <=> b \in Held(i) \/ (b \in historicBuckets /\ b \notin historicBuckets'),
         PartsOf(n, oldestTime), \A b : WaitedFor(n, b) => Quiet(b), RowsIn(n, inserted')
  PROVE  IInv'
<1>1. answer' \in [Requests -> Answers] /\ polls' \subseteq polls /\ \A r \in Requests : answer'[r] = answer[r]
  BY Zenon DEF IInv, TypeOK
<1>2. \A b : b \in Held(i) \/ b \in historicBuckets => b \in Has(n) \/ b \in historicBuckets'
  BY Zenon
<1>3. \A b \in Has(n) : b \in Held(i) \/ (b \in historicBuckets /\ b \notin historicBuckets')
  BY Zenon
<1> QED BY <1>1, <1>2, <1>3, InserterStep, Zenon

\* What the invariant says of one inserter.
LEMMA OfInserter ==
  ASSUME IInv, NEW i \in Inserters
  PROVE  /\ inserter[i] \in Inserter /\ PartsOf(inserter[i], oldestTime) /\ RowsIn(inserter[i], inserted)
         /\ Held(i) = Has(inserter[i]) /\ \A b : WaitedFor(inserter[i], b) => Quiet(b)
<1>1. inserter[i] \in Inserter
  BY Zenon DEF IInv, TypeOK
<1>2. PartsOf(inserter[i], oldestTime)
  BY Zenon DEF IInv, PartsInv
<1>3. RowsIn(inserter[i], inserted)
  BY Zenon DEF IInv, RowsInv, RowsOf, RowsIn
<1>4. \A b : WaitedFor(inserter[i], b) => Quiet(b)
  BY Zenon DEF IInv, QuietInv
<1> QED BY <1>1, <1>2, <1>3, <1>4, Zenon DEF Held, Has

\* An inserter that starts with the bucket it was given keeps the invariant.
LEMMA StartInsertIInv == ASSUME IInv, NEW i \in Inserters, startInsert(i) PROVE IInv'
<1>1. /\ inserter[i] \in Inserter /\ PartsOf(inserter[i], oldestTime) /\ Held(i) = Has(inserter[i])
      /\ \A b : WaitedFor(inserter[i], b) => Quiet(b)
  BY OfInserter, Zenon
<1>2. PICK p \in {"pop", "marshal"}, h \in BOOLEAN :
        inserter' = [inserter EXCEPT ![i].pc = p, ![i].historic = h, ![i].oldest = oldestTime]
  <2>1. willInsertHistoric \in BOOLEAN
    BY Zenon DEF willInsertHistoric
  <2> QED BY <2>1, Zenon DEF startInsert
<1>3. inserter[i].pc = "start" /\ oldestTime \in Int
  BY OldestInWindow, Zenon DEF startInsert
<1>4. PICK n : n = [inserter[i] EXCEPT !.pc = p, !.historic = h, !.oldest = oldestTime]
  BY Zenon
<1>5. /\ n \in Inserter /\ n.pc = p /\ n.batch = inserter[i].batch /\ n.popped = inserter[i].popped
      /\ n.stale = inserter[i].stale /\ n.oldest = oldestTime
  BY <1>1, <1>3, <1>4, Zenon DEF Inserter, Phases
<1>6. inserter' = [inserter EXCEPT ![i] = n]
  BY <1>2, <1>4, Zenon DEF IInv, TypeOK
<1>7. n.popped = {} /\ n.stale = {}
  BY <1>1, <1>3, <1>5, Zenon DEF PartsOf
<1>8. PartsOf(n, oldestTime)
  BY <1>3, <1>5, <1>7 DEF PartsOf
<1>9. Has(n) = Held(i) /\ (\A b : WaitedFor(n, b) => Quiet(b)) /\ RowsIn(n, inserted)
  BY <1>1, <1>5, <1>7, Zenon DEF Has, WaitedFor, RowsIn
<1>10. /\ UNCHANGED <<recentBuckets, request, readers, ticker, polls, answer>>
       /\ historicBuckets' = historicBuckets /\ inserted' = inserted
  BY Zenon DEF startInsert, buckets, history
<1> QED BY <1>5, <1>6, <1>8, <1>9, <1>10, SilentStep, Zenon

\* popOldestHistoricBucket keeps the invariant: what it takes was in nobody's hands.
LEMMA PopIInv == ASSUME IInv, NEW i \in Inserters, popOldestHistoricBucket(i) PROVE IInv'
<1> DEFINE old    == {b \in historicBuckets : isStale(b.time, inserter[i].oldest)}
           fresh  == historicBuckets \ old
           first  == {b \in fresh : \A x \in fresh : b.time <= x.time}
<1>1. /\ inserter[i] \in Inserter /\ PartsOf(inserter[i], oldestTime) /\ Held(i) = Has(inserter[i])
      /\ \A b : WaitedFor(inserter[i], b) => Quiet(b)
  BY OfInserter, Zenon
<1>2. /\ historicBuckets \subseteq Bucket /\ \A b \in historicBuckets : b.creator # NoRequest
      /\ \A b, c \in historicBuckets : b.time = c.time => b = c
  BY Zenon DEF IInv, TypeOK, HistoricInv
<1>3. /\ inserter[i].pc = "pop" /\ historicBuckets' = fresh \ first
      /\ inserter' = [inserter EXCEPT ![i].pc = "wait", ![i].popped = first, ![i].stale = old]
  BY Zenon DEF popOldestHistoricBucket
<1>4. PICK n : n = [inserter[i] EXCEPT !.pc = "wait", !.popped = first, !.stale = old]
  BY Zenon
<1>5. first \subseteq Bucket /\ old \subseteq Bucket /\ first \subseteq fresh /\ old \subseteq historicBuckets
  BY <1>2, Zenon
<1>6. \A b, c \in first : b = c
  <2>1. \A b \in Bucket : b.time \in Int
    BY Zenon DEF Bucket
  <2> TAKE b, c \in first
  <2>2. b.time <= c.time /\ c.time <= b.time /\ b.time \in Int /\ c.time \in Int
    BY <1>5, <2>1, Zenon
  <2>3. b.time = c.time
    BY <2>2
  <2> QED BY <1>2, <2>3, Zenon
<1>7. inserter[i].oldest \in Int
  BY <1>1, Zenon DEF Inserter
<1>8. \A b \in old : b.time < inserter[i].oldest - HistoricWindow
  BY Zenon DEF isStale
<1> HIDE DEF first, old
<1>9. /\ n \in Inserter /\ n.pc = "wait" /\ n.batch = inserter[i].batch /\ n.popped = first
      /\ n.stale = old /\ n.oldest = inserter[i].oldest
  BY <1>1, <1>4, <1>5, Zenon DEF Inserter, Phases
<1>10. inserter' = [inserter EXCEPT ![i] = n]
  BY <1>3, <1>4, Zenon DEF IInv, TypeOK
<1>11. PartsOf(n, oldestTime)
  <2>1. n.oldest <= oldestTime
    BY <1>1, <1>3, <1>9, Zenon DEF PartsOf
  <2>2. \A b \in n.popped \cup n.stale : b.creator # NoRequest
    BY <1>2, <1>5, <1>9, Zenon
  <2>3. \A b \in n.stale : b.time < n.oldest - HistoricWindow
    BY <1>8, <1>9, Zenon
  <2> QED BY <1>6, <1>9, <2>1, <2>2, <2>3, Zenon DEF PartsOf
<1>12. (\A b : WaitedFor(n, b) => Quiet(b)) /\ RowsIn(n, inserted)
  BY <1>1, <1>9, Zenon DEF WaitedFor, RowsIn
<1>13. inserter[i].popped = {} /\ inserter[i].stale = {}
  BY <1>1, <1>3, Zenon DEF PartsOf
<1>14. \A b : b \in Has(n) <=> b \in Held(i) \/ (b \in historicBuckets /\ b \notin historicBuckets')
  BY <1>1, <1>3, <1>5, <1>9, <1>13, Zenon DEF Has
<1>15. /\ UNCHANGED <<recentBuckets, request, readers, ticker, polls, answer>>
       /\ historicBuckets' \subseteq historicBuckets /\ inserted' = inserted
  BY <1>3, Zenon DEF popOldestHistoricBucket, history
<1> QED BY <1>9, <1>10, <1>11, <1>12, <1>14, <1>15, SilentStep, Zenon

\* sendMu.Lock succeeds only when no handler is in the bucket.
LEMMA WaitedIsQuiet == ASSUME IInv, NEW b, waited(b) PROVE Quiet(b)
<1>1. readers = {r \in Requests : request[r].stage \in Inside}
  BY Zenon DEF IInv, QuietInv
<1>2. ASSUME NEW r \in readers, request[r].bucket = b PROVE r \in Of(b)
  BY <1>1, <1>2, Zenon DEF Of, Inside
<1> QED BY <1>2, Zenon DEF waited, Readers, Quiet

\* Waiting for the handlers of the popped buckets keeps the invariant.
LEMMA WaitIInv == ASSUME IInv, NEW i \in Inserters, waitPopped(i) PROVE IInv'
<1>1. /\ inserter[i] \in Inserter /\ PartsOf(inserter[i], oldestTime) /\ Held(i) = Has(inserter[i])
      /\ \A b : WaitedFor(inserter[i], b) => Quiet(b)
  BY OfInserter, Zenon
<1>2. PICK n : n = [inserter[i] EXCEPT !.pc = "stale"]
  BY Zenon
<1>3. /\ n \in Inserter /\ n.pc = "stale" /\ n.batch = inserter[i].batch /\ n.oldest = inserter[i].oldest
      /\ n.popped = inserter[i].popped /\ n.stale = inserter[i].stale
  BY <1>1, <1>2, Zenon DEF Inserter, Phases
<1>4. inserter' = [inserter EXCEPT ![i] = n] /\ inserter[i].pc = "wait"
  BY <1>2, Zenon DEF IInv, TypeOK, waitPopped
<1>5. PartsOf(n, oldestTime)
  BY <1>1, <1>3, <1>4, Zenon DEF PartsOf
<1>6. \A b \in n.popped \cup n.stale : Quiet(b)
  BY <1>3, WaitedIsQuiet, Zenon DEF waitPopped
<1>7. (\A b : WaitedFor(n, b) => Quiet(b)) /\ RowsIn(n, inserted) /\ Has(n) = Held(i)
  BY <1>1, <1>3, <1>6, Zenon DEF WaitedFor, RowsIn, Has
<1>8. /\ UNCHANGED <<recentBuckets, request, readers, ticker, polls, answer>>
      /\ historicBuckets' = historicBuckets /\ inserted' = inserted
  BY Zenon DEF waitPopped, buckets, history
<1> QED BY <1>3, <1>4, <1>5, <1>7, <1>8, SilentStep, Zenon

\* RowDataMarshal keeps the invariant: it collects all rows, as nobody merges any more.
LEMMA MarshalIInv == ASSUME IInv, NEW i \in Inserters, rowDataMarshal(i) PROVE IInv'
<1>1. /\ inserter[i] \in Inserter /\ PartsOf(inserter[i], oldestTime) /\ Held(i) = Has(inserter[i])
      /\ \A b : WaitedFor(inserter[i], b) => Quiet(b)
  BY OfInserter, Zenon
<1> DEFINE rows == UNION {Rows(b) : b \in Range(inserter[i].batch)}
<1>2. PICK n : n = [inserter[i] EXCEPT !.pc = "send", !.rows = rows]
  BY Zenon
<1>3. rows \subseteq Requests /\ \A r \in Requests : \A b \in Range(inserter[i].batch) : IsRow(r, b) => r \in rows
  <2>1. \A b : Rows(b) \subseteq Requests /\ \A r \in Requests : IsRow(r, b) => r \in Rows(b)
    BY Zenon DEF Rows, Of, IsRow
  <2>2. \A r : r \in rows <=> \E b \in Range(inserter[i].batch) : r \in Rows(b)
    BY Zenon
  <2> HIDE DEF rows
  <2> QED BY <2>1, <2>2, Zenon
<1>4. inserter' = [inserter EXCEPT ![i] = n] /\ inserter[i].pc = "marshal"
  BY <1>2, Zenon DEF IInv, TypeOK, rowDataMarshal
<1> HIDE DEF rows
<1>5. /\ n \in Inserter /\ n.pc = "send" /\ n.batch = inserter[i].batch /\ n.oldest = inserter[i].oldest
      /\ n.popped = inserter[i].popped /\ n.stale = inserter[i].stale /\ n.rows = rows
  BY <1>1, <1>2, <1>3, Zenon DEF Inserter, Phases
<1>6. PartsOf(n, oldestTime)
  BY <1>1, <1>4, <1>5, Zenon DEF PartsOf
<1>7. RowsIn(n, inserted)
  BY <1>3, <1>5, Zenon DEF RowsIn
<1>8. (\A b : WaitedFor(n, b) => Quiet(b)) /\ Has(n) = Held(i)
  BY <1>1, <1>5, Zenon DEF WaitedFor, Has
<1>9. /\ UNCHANGED <<recentBuckets, request, readers, ticker, polls, answer>>
      /\ historicBuckets' = historicBuckets /\ inserted' = inserted
  BY Zenon DEF rowDataMarshal, buckets, history
<1> QED BY <1>4, <1>5, <1>6, <1>7, <1>8, <1>9, SilentStep, Zenon

\* The insert keeps the invariant: without an error ClickHouse has the rows.
LEMMA SendIInv == ASSUME IInv, NEW i \in Inserters, sendToClickhouse(i) PROVE IInv'
<1>1. /\ inserter[i] \in Inserter /\ PartsOf(inserter[i], oldestTime) /\ Held(i) = Has(inserter[i])
      /\ RowsIn(inserter[i], inserted) /\ \A b : WaitedFor(inserter[i], b) => Quiet(b)
  BY OfInserter, Zenon
<1>2. PICK err \in BOOLEAN, took \in BOOLEAN :
        /\ err \/ took
        /\ inserter' = [inserter EXCEPT ![i].pc = "answer", ![i].err = err, ![i].rows = {}]
        /\ inserted' = IF took THEN inserted \cup inserter[i].rows ELSE inserted
  BY Zenon DEF sendToClickhouse
<1>3. PICK n : n = [inserter[i] EXCEPT !.pc = "answer", !.err = err, !.rows = {}]
  BY Zenon
<1>4. /\ n \in Inserter /\ n.pc = "answer" /\ n.batch = inserter[i].batch /\ n.oldest = inserter[i].oldest
      /\ n.popped = inserter[i].popped /\ n.stale = inserter[i].stale /\ n.err = err
  BY <1>1, <1>2, <1>3, Zenon DEF Inserter, Phases
<1>5. inserter' = [inserter EXCEPT ![i] = n] /\ inserter[i].pc = "send"
  BY <1>2, <1>3, Zenon DEF IInv, TypeOK, sendToClickhouse
<1>6. PartsOf(n, oldestTime)
  BY <1>1, <1>4, <1>5, Zenon DEF PartsOf
<1>7. inserted \subseteq inserted' /\ (~err => inserter[i].rows \subseteq inserted')
  BY <1>2, Zenon
<1>8. RowsIn(n, inserted')
  <2>1. \A r \in Requests : \A b \in Range(inserter[i].batch) : IsRow(r, b) => r \in inserter[i].rows
    BY <1>1, <1>5, Zenon DEF RowsIn
  <2>2. ~n.err => ~err
    BY <1>4, Zenon
  <2> QED BY <1>4, <1>7, <2>1, <2>2, Zenon DEF RowsIn
<1>9. (\A b : WaitedFor(n, b) => Quiet(b)) /\ Has(n) = Held(i)
  BY <1>1, <1>4, <1>5, Zenon DEF WaitedFor, Has
<1>10. /\ UNCHANGED <<recentBuckets, request, readers, ticker, polls, answer>>
       /\ historicBuckets' = historicBuckets
  BY Zenon DEF sendToClickhouse, buckets
<1> QED BY <1>4, <1>5, <1>6, <1>7, <1>8, <1>9, <1>10, SilentStep, Zenon

\* Adding the popped bucket to the batch keeps the invariant.
LEMMA AddHistoricIInv == ASSUME IInv, NEW i \in Inserters, addHistoric(i) PROVE IInv'
<1>1. /\ inserter[i] \in Inserter /\ PartsOf(inserter[i], oldestTime) /\ Held(i) = Has(inserter[i])
      /\ \A b : WaitedFor(inserter[i], b) => Quiet(b)
  BY OfInserter, Zenon
<1> DEFINE popped == inserter[i].popped
           s      == IF popped = {} THEN inserter[i].batch ELSE Append(inserter[i].batch, CHOOSE b \in popped : TRUE)
<1>2. PICK p \in {"pop", "marshal"} :
        inserter' = [inserter EXCEPT ![i].pc = p, ![i].batch = s, ![i].popped = {}]
  BY Zenon DEF addHistoric
<1>3. /\ inserter[i].pc = "stale" /\ inserter[i].stale = {} /\ popped \subseteq Bucket
      /\ \A b, c \in popped : b = c
  BY <1>1, Zenon DEF addHistoric, Inserter, PartsOf
<1>4. s \in Seq(Bucket) /\ Range(s) = Range(inserter[i].batch) \cup popped
  <2>1. inserter[i].batch \in Seq(Bucket)
    BY <1>1, Zenon DEF Inserter
  <2>2. CASE popped = {}
    BY <2>1, <2>2, Zenon
  <2>3. CASE popped # {}
    <3>1. PICK c : c = CHOOSE b \in popped : TRUE
      BY Zenon
    <3>2. c \in popped
      BY <2>3, <3>1, Zenon
    <3>3. popped = {c} /\ c \in Bucket
      BY <1>3, <3>2, Zenon
    <3>4. s = Append(inserter[i].batch, c)
      BY <2>3, <3>1, Zenon
    <3> HIDE DEF s, popped
    <3> QED BY <2>1, <3>3, <3>4, RangeAppend, Zenon
  <2> QED BY <2>2, <2>3, Zenon
<1>5. PICK n : n = [inserter[i] EXCEPT !.pc = p, !.batch = s, !.popped = {}]
  BY Zenon
<1>6. inserter' = [inserter EXCEPT ![i] = n]
  BY <1>2, <1>5, Zenon DEF IInv, TypeOK
<1> HIDE DEF s
<1>7. /\ n \in Inserter /\ n.pc = p /\ n.batch = s /\ n.oldest = inserter[i].oldest
      /\ n.popped = {} /\ n.stale = {}
  BY <1>1, <1>3, <1>4, <1>5, Zenon DEF Inserter, Phases
<1>8. PartsOf(n, oldestTime)
  BY <1>1, <1>3, <1>7, Zenon DEF PartsOf
<1>9. RowsIn(n, inserted)
  BY <1>7, Zenon DEF RowsIn
<1>10. (\A b : WaitedFor(n, b) => Quiet(b)) /\ Has(n) = Held(i)
  BY <1>1, <1>3, <1>4, <1>7, Zenon DEF WaitedFor, Has
<1>11. /\ UNCHANGED <<recentBuckets, request, readers, ticker, polls, answer>>
       /\ historicBuckets' = historicBuckets /\ inserted' = inserted
  BY Zenon DEF addHistoric, buckets, history
<1> QED BY <1>6, <1>7, <1>8, <1>9, <1>10, <1>11, SilentStep, Zenon

\* An inserter that finds the channel closed keeps the invariant.
LEMMA QuitIInv == ASSUME IInv, NEW i \in Inserters, inserterQuit(i) PROVE IInv'
<1>1. /\ inserter[i] \in Inserter /\ PartsOf(inserter[i], oldestTime) /\ Held(i) = Has(inserter[i])
      /\ \A b : WaitedFor(inserter[i], b) => Quiet(b)
  BY OfInserter, Zenon
<1>2. PICK n : n = [inserter[i] EXCEPT !.pc = "quit"]
  BY Zenon
<1>3. /\ n \in Inserter /\ n.pc = "quit" /\ n.batch = inserter[i].batch /\ n.oldest = inserter[i].oldest
      /\ n.popped = inserter[i].popped /\ n.stale = inserter[i].stale
  BY <1>1, <1>2, Zenon DEF Inserter, Phases
<1>4. inserter' = [inserter EXCEPT ![i] = n] /\ inserter[i].pc = "range"
  BY <1>2, Zenon DEF IInv, TypeOK, inserterQuit
<1>5. PartsOf(n, oldestTime)
  BY <1>1, <1>3, <1>4, Zenon DEF PartsOf
<1>6. (\A b : WaitedFor(n, b) => Quiet(b)) /\ RowsIn(n, inserted) /\ Has(n) = Held(i)
  BY <1>1, <1>3, Zenon DEF WaitedFor, RowsIn, Has
<1>7. /\ UNCHANGED <<recentBuckets, request, readers, ticker, polls, answer>>
      /\ historicBuckets' = historicBuckets /\ inserted' = inserted
  BY Zenon DEF inserterQuit, buckets, history
<1> QED BY <1>3, <1>4, <1>5, <1>6, <1>7, SilentStep, Zenon

\* The agents that wait for bucket b are answered, all of them.
LEMMA AnswerAll ==
  ASSUME IInv, NEW b, Quiet(b), UNCHANGED <<request, readers>>, polls' = polls \ Contributors(b),
         NEW a \in Answers, Answered(Contributors(b), a)
  PROVE  /\ Finished(b)' /\ polls' \subseteq polls /\ answer' \in [Requests -> Answers]
         /\ \A r \in Requests :
              \/ answer'[r] = answer[r]
              \/ /\ r \in polls /\ r \notin polls' /\ answer'[r] = a /\ request[r].bucket = b
                 /\ request[r].stage \in {"registered", "released"}
<1>1. polls \subseteq Requests /\ \A r \in polls : request[r].stage \in {"registered", "released"}
  BY Zenon DEF IInv, TypeOK, OwnerInv
<1>2. \A r \in Contributors(b) : r \in polls /\ r \in Requests /\ request[r].bucket = b
  BY Zenon DEF Contributors, Of
<1>3. ASSUME NEW r \in polls', request[r].bucket = b PROVE request[r].kind = "simulated"
  <2>1. r \in polls /\ r \notin Contributors(b)
    BY <1>3, Zenon
  <2>2. r \in Of(b)
    BY <1>1, <1>3, <2>1, Zenon DEF Of
  <2> QED BY <2>1, <2>2, Zenon DEF Contributors
<1>4. Finished(b)'
  BY <1>3, Zenon DEF Finished, Quiet
<1>5. Contributors(b) \in SUBSET Requests
  BY <1>2, Zenon
<1>6. /\ answer' \in [Requests -> Answers]
      /\ \A r \in Requests : answer'[r] = IF r \in Contributors(b) THEN a ELSE answer[r]
  BY <1>5, NewAnswers, Zenon
<1> QED BY <1>1, <1>2, <1>4, <1>6, Zenon

\* Answering the agents of a stale bucket keeps the invariant: its second is before the window.
LEMMA DiscardIInv ==
  ASSUME IInv, NEW i \in Inserters, NEW b \in inserter[i].stale, discardStale(i, b)
  PROVE  IInv'
<1>1. /\ inserter[i] \in Inserter /\ PartsOf(inserter[i], oldestTime) /\ Held(i) = Has(inserter[i])
      /\ \A c : WaitedFor(inserter[i], c) => Quiet(c)
  BY OfInserter, Zenon
<1>2. PICK n : n = [inserter[i] EXCEPT !.stale = inserter[i].stale \ {b}]
  BY Zenon
<1>3. /\ n \in Inserter /\ n.pc = inserter[i].pc /\ n.batch = inserter[i].batch
      /\ n.oldest = inserter[i].oldest /\ n.popped = inserter[i].popped /\ n.stale = inserter[i].stale \ {b}
  BY <1>1, <1>2, Zenon DEF Inserter
<1>4. inserter' = [inserter EXCEPT ![i] = n] /\ inserter[i].pc = "stale"
  BY <1>2, Zenon DEF IInv, TypeOK, discardStale
<1>5. PartsOf(n, oldestTime)
  BY <1>1, <1>3, <1>4, Zenon DEF PartsOf
<1>6. (\A c : WaitedFor(n, c) => Quiet(c)) /\ RowsIn(n, inserted') /\ Quiet(b)
  BY <1>1, <1>3, <1>4, Zenon DEF WaitedFor, RowsIn
<1>7. /\ UNCHANGED <<recentBuckets, request, readers, ticker>> /\ polls' = polls \ Contributors(b)
      /\ historicBuckets' = historicBuckets /\ inserted' = inserted /\ Answered(Contributors(b), "stale")
  BY Zenon DEF discardStale, buckets
<1>8. /\ Finished(b)' /\ polls' \subseteq polls /\ answer' \in [Requests -> Answers]
      /\ \A r \in Requests :
           \/ answer'[r] = answer[r]
           \/ /\ r \in polls /\ r \notin polls'
              /\ request[r].bucket = b /\ request[r].stage \in {"registered", "released"}
  <2>1. "stale" \in Answers
    BY Zenon DEF Answers
  <2> QED BY <1>6, <1>7, <2>1, AnswerAll, Zenon
<1>9. \A r \in Requests : request[r].bucket = b /\ request[r].stage \in {"registered", "released"}
                          => request[r].time < oldestTime - HistoricWindow
  <2> SUFFICES ASSUME NEW r \in Requests, request[r].bucket = b, request[r].stage \in {"registered", "released"}
               PROVE  request[r].time < oldestTime - HistoricWindow
    BY Zenon
  <2>1. /\ b.creator # NoRequest /\ b.time < inserter[i].oldest - HistoricWindow
        /\ inserter[i].oldest <= oldestTime
    BY <1>1, <1>4, Zenon DEF PartsOf
  <2>2. b.time = request[r].time
    BY <2>1, Zenon DEF IInv, SecondsInv, RightBucket, Inside
  <2>3. b \in Bucket /\ inserter[i].oldest \in Int
    BY <1>1, Zenon DEF Inserter
  <2>4. b.time \in Int
    BY <2>3, Zenon DEF Bucket
  <2> QED BY <2>1, <2>2, <2>3, <2>4, OldestInWindow, ConstantsAssumption
<1>10. (\A c \in Has(n) : c \in Held(i)) /\ (\A c \in Held(i) : c \in Has(n) \/ c = b)
  BY <1>1, <1>3, Zenon DEF Has
<1>11. \A c : c \in Held(i) \/ c \in historicBuckets => c \in Has(n) \/ c \in historicBuckets' \/ Finished(c)'
  BY <1>7, <1>8, <1>10, Zenon
<1> QED BY <1>3, <1>4, <1>5, <1>6, <1>7, <1>8, <1>9, <1>10, <1>11, InserterStep, Zenon

\* Answering the agents of an inserted bucket keeps the invariant.
LEMMA AnswerIInv == ASSUME IInv, NEW i \in Inserters, answerBucket(i) PROVE IInv'
<1>1. /\ inserter[i] \in Inserter /\ PartsOf(inserter[i], oldestTime) /\ Held(i) = Has(inserter[i])
      /\ RowsIn(inserter[i], inserted) /\ \A c : WaitedFor(inserter[i], c) => Quiet(c)
  BY OfInserter, Zenon
<1>2. PICK n : n = [inserter[i] EXCEPT !.batch = Tail(inserter[i].batch)]
  BY Zenon
<1>3. PICK b : b = Head(inserter[i].batch)
  BY Zenon
<1>4. /\ inserter' = [inserter EXCEPT ![i] = n] /\ inserter[i].pc = "answer" /\ inserter[i].batch # <<>>
      /\ Answered(Contributors(b), setDiscard(inserter[i].err)) /\ polls' = polls \ Contributors(b)
      /\ UNCHANGED <<recentBuckets, request, readers, ticker>>
      /\ historicBuckets' = historicBuckets /\ inserted' = inserted
  BY <1>2, <1>3, Zenon DEF IInv, TypeOK, answerBucket, buckets
<1>5. /\ Tail(inserter[i].batch) \in Seq(Bucket)
      /\ Range(inserter[i].batch) = Range(Tail(inserter[i].batch)) \cup {b}
  <2>1. inserter[i].batch \in Seq(Bucket)
    BY <1>1, Zenon DEF Inserter
  <2> QED BY <1>3, <1>4, <2>1, RangeTail, Zenon
<1>6. /\ n \in Inserter /\ n.pc = inserter[i].pc /\ n.batch = Tail(inserter[i].batch)
      /\ n.oldest = inserter[i].oldest /\ n.popped = inserter[i].popped /\ n.stale = inserter[i].stale
      /\ n.err = inserter[i].err
  BY <1>1, <1>2, <1>5, Zenon DEF Inserter
<1>7. PartsOf(n, oldestTime)
  BY <1>1, <1>4, <1>6, Zenon DEF PartsOf
<1>8. (\A c : WaitedFor(n, c) => Quiet(c)) /\ Quiet(b)
  BY <1>1, <1>4, <1>5, <1>6, Zenon DEF WaitedFor
<1>9. ASSUME ~inserter[i].err
      PROVE  \A r \in Requests : \A c \in Range(inserter[i].batch) : IsRow(r, c) => r \in inserted
  BY <1>1, <1>4, <1>9, Zenon DEF RowsIn
<1>10. RowsIn(n, inserted')
  <2>1. ~n.err => ~inserter[i].err
    BY <1>6, Zenon
  <2> QED BY <1>4, <1>5, <1>6, <1>9, <2>1, Zenon DEF RowsIn
<1>11. PICK a \in {"error", "inserted"} : a = setDiscard(inserter[i].err) /\ (a = "inserted" => ~inserter[i].err)
  BY <1>1, Zenon DEF setDiscard, Inserter
<1>12. /\ Finished(b)' /\ polls' \subseteq polls /\ answer' \in [Requests -> Answers]
       /\ \A r \in Requests :
            \/ answer'[r] = answer[r]
            \/ /\ r \in polls /\ r \notin polls' /\ answer'[r] = a
               /\ request[r].bucket = b /\ request[r].stage \in {"registered", "released"}
  <2>1. a \in Answers
    BY Zenon DEF Answers
  <2>2. Answered(Contributors(b), a)
    BY <1>4, <1>11, Zenon DEF Answered
  <2>3. UNCHANGED <<request, readers>> /\ polls' = polls \ Contributors(b)
    BY <1>4, Zenon
  <2> QED BY <1>8, <2>1, <2>2, <2>3, AnswerAll
<1>13. \A r \in Requests :
          \/ answer'[r] = answer[r]
          \/ /\ r \in polls /\ r \notin polls'
             /\ request[r].kind \in DataKinds /\ answer'[r] \in {"inserted", "stale", "old"} => r \in inserted'
  <2> SUFFICES ASSUME NEW r \in Requests, answer'[r] # answer[r]
               PROVE  /\ r \in polls /\ r \notin polls'
                      /\ request[r].kind \in DataKinds /\ answer'[r] \in {"inserted", "stale", "old"} => r \in inserted'
    BY Zenon
  <2>1. /\ r \in polls /\ r \notin polls' /\ answer'[r] = a
        /\ request[r].bucket = b /\ request[r].stage \in {"registered", "released"}
    BY <1>12, Zenon
  <2>2. request[r].kind \in DataKinds => IsRow(r, b)
    BY <2>1, Zenon DEF IsRow
  <2>3. answer'[r] \in {"inserted", "stale", "old"} => a = "inserted"
    BY <2>1, Zenon
  <2> QED BY <1>4, <1>5, <1>9, <1>11, <2>1, <2>2, <2>3, Zenon
<1>14. (\A c \in Has(n) : c \in Held(i)) /\ (\A c \in Held(i) : c \in Has(n) \/ c = b)
  BY <1>1, <1>5, <1>6, Zenon DEF Has
<1>15. \A c : c \in Held(i) \/ c \in historicBuckets => c \in Has(n) \/ c \in historicBuckets' \/ Finished(c)'
  BY <1>4, <1>12, <1>14, Zenon
<1> QED BY <1>4, <1>6, <1>7, <1>8, <1>10, <1>12, <1>13, <1>14, <1>15, InserterStep, Zenon

\* An inserter between two batches has nothing.
LEMMA IdleInserter == Idle \in Inserter /\ Has(Idle) = {} /\ \A t : PartsOf(Idle, t)
<1>1. NoBucket \in Bucket /\ <<>> \in Seq(Bucket)
  BY DEF NoBucket, newAggregatorBucket, Bucket
<1>2. Idle \in Inserter
  BY <1>1 DEF Idle, Inserter, Phases
<1>3. Idle.pc = "range" /\ Idle.batch = <<>> /\ Idle.popped = {} /\ Idle.stale = {}
  BY Zenon DEF Idle
<1>4. Has(Idle) = {}
  BY <1>3, RangeEmpty, Zenon DEF Has
<1>5. \A t : PartsOf(Idle, t)
  BY <1>3, Zenon DEF PartsOf
<1> QED BY <1>2, <1>4, <1>5, Zenon

\* Answering the simulated errors, the last step for a batch, keeps the invariant.
LEMMA SimulatedIInv == ASSUME IInv, NEW i \in Inserters, answerSimulated(i) PROVE IInv'
<1>1. PartsOf(inserter[i], oldestTime) /\ Held(i) = Has(inserter[i])
  BY OfInserter, Zenon
<1>2. PICK n : n = Idle
  BY Zenon
<1>3. /\ inserter' = [inserter EXCEPT ![i] = n] /\ inserter[i].pc = "answer" /\ inserter[i].batch = <<>>
      /\ UNCHANGED <<recentBuckets, request, readers, ticker>>
      /\ historicBuckets' = historicBuckets /\ inserted' = inserted
      /\ Answered(SimulatedErrors(inserter[i].bucket), "error")
      /\ polls' = polls \ SimulatedErrors(inserter[i].bucket)
  BY <1>2, Zenon DEF answerSimulated, buckets
<1>4. Held(i) = {}
  BY <1>1, <1>3, RangeEmpty, Zenon DEF PartsOf, Has
<1>5. SimulatedErrors(inserter[i].bucket) \in SUBSET Requests /\ SimulatedErrors(inserter[i].bucket) \subseteq polls
  BY Zenon DEF SimulatedErrors, Of
<1>6. /\ answer' \in [Requests -> Answers]
      /\ \A r \in Requests : answer'[r] = IF r \in SimulatedErrors(inserter[i].bucket) THEN "error" ELSE answer[r]
  <2>1. "error" \in Answers
    BY Zenon DEF Answers
  <2> QED BY <1>3, <1>5, <2>1, NewAnswers, Zenon
<1>7. \A r \in Requests : \/ answer'[r] = answer[r]
                          \/ r \in polls /\ r \notin polls' /\ answer'[r] \notin {"inserted", "stale", "old"}
  BY <1>3, <1>5, <1>6, Zenon
<1>8. Has(n) = {} /\ n \in Inserter /\ PartsOf(n, oldestTime)
  BY <1>2, IdleInserter, Zenon
<1>9. n.batch = <<>> /\ n.pc = "range"
  BY <1>2, Zenon DEF Idle
<1>10. (\A b : ~WaitedFor(n, b)) /\ RowsIn(n, inserted')
  BY <1>9, RangeEmpty, Zenon DEF WaitedFor, RowsIn
<1>11. polls' \subseteq polls
  BY <1>3, Zenon
<1> QED BY <1>3, <1>4, <1>6, <1>7, <1>8, <1>10, <1>11, InserterStep, Zenon

\* goInsert keeps the invariant.
LEMMA InserterIInv == ASSUME IInv, NEW i \in Inserters, goInsert(i) PROVE IInv'
BY StartInsertIInv, PopIInv, WaitIInv, DiscardIInv, AddHistoricIInv, MarshalIInv, SendIInv, AnswerIInv,
   SimulatedIInv, QuitIInv, Zenon DEF goInsert

\* A step that moves no inserter: BackStep for the ticker, agents that leave and shutdown.
LEMMA TickerStep ==
  ASSUME IInv, UNCHANGED <<recentBuckets, historicBuckets, request, readers, inserter, inserted>>,
         ticker' \in [pc : {"sleep", "ready", "quit"}, ready : Seq(Bucket)],
         UNCHANGED ticker \/ ReadyInv', Range(ticker.ready)' \subseteq Range(ticker.ready),
         polls' \subseteq polls, answer' \in [Requests -> Answers],
         ticker.pc = "quit" => ticker'.pc = "quit",
         ticker'.pc # "quit" => \A b \in Range(ticker.ready) : b \in Range(ticker.ready)' \/ Finished(b)',
         \A r \in Requests : \/ answer'[r] = answer[r]
                             \/ r \in polls /\ r \notin polls' /\ answer'[r] \notin {"inserted", "stale", "old"}
  PROVE  IInv'
<1>1. TypeOK'
  <2>1. /\ recentBuckets' \in Seq(Bucket) /\ request' \in [Requests -> Request]
        /\ historicBuckets' \subseteq Bucket /\ inserter' \in [Inserters -> Inserter]
    BY Zenon DEF IInv, TypeOK
  <2>2. polls' \subseteq Requests
    BY Zenon DEF IInv, TypeOK
  <2> QED BY <2>1, <2>2, Zenon DEF TypeOK
<1>2. \A j : inserter'[j] = inserter[j] /\ Held(j)' = Held(j)
  BY Zenon DEF Held
<1>3. ASSUME NEW i \in Inserters
      PROVE  /\ PartsOf(inserter'[i], oldestTime) /\ RowsOf(inserter[i])'
             /\ \A b : WaitedFor(inserter'[i], b) => Quiet(b)
  <2>1. /\ PartsOf(inserter[i], oldestTime) /\ RowsIn(inserter[i], inserted)
        /\ \A b : WaitedFor(inserter[i], b) => Quiet(b)
    BY OfInserter, Zenon
  <2>2. RowsOf(inserter[i])'
    <3>1. \A r, b : IsRow(r, b)' <=> IsRow(r, b)
      BY Zenon DEF IsRow
    <3>2. inserter'[i] = inserter[i] /\ inserted' = inserted
      BY Zenon
    <3> QED BY <2>1, <3>1, <3>2, Zenon DEF RowsOf, RowsIn
  <2> QED BY <1>2, <2>1, <2>2, Zenon
<1>4. ASSUME ticker'.pc # "quit", NEW r \in Requests, Open(r)', Lives(request[r].bucket)
      PROVE  Lives(request[r].bucket)'
  <2>1. request'[r] = request[r] /\ ~Finished(request[r].bucket)'
    <3>1. request'[r] = request[r]
      BY Zenon
    <3> QED BY <1>4, <3>1, Zenon DEF Finished, Quiet, Open
  <2> DEFINE b == request[r].bucket
  <2>2. \/ b \in Range(recentBuckets) \/ b \in historicBuckets \/ b \in Range(ticker.ready)
        \/ \E i \in Inserters : b \in Held(i)
    BY <1>4, Zenon DEF Lives
  <2>3. b \in Range(ticker.ready) => b \in Range(ticker.ready)'
    BY <1>4, <2>1, Zenon
  <2> QED BY <1>2, <2>1, <2>2, <2>3, Zenon DEF Lives
<1>5. /\ inserted \subseteq inserted' /\ historicBuckets' \subseteq historicBuckets
      /\ UNCHANGED <<recentBuckets, request, readers>>
  BY Zenon
<1>6. PICK i : i = NoRequest
  BY Zenon
<1>7. i \in Inserters => \A b \in Held(i)' : b \in Held(i)
  BY <1>2, Zenon
<1> QED BY <1>1, <1>2, <1>3, <1>4, <1>5, <1>7, BackStep, Zenon

\* The agent of r left.
LEMMA CancelIInv == ASSUME IInv, NEW r \in Requests, CancelLongpoll(r) PROVE IInv'
<1>1. /\ UNCHANGED <<recentBuckets, historicBuckets, request, readers, inserter, inserted>>
      /\ ticker' = ticker /\ answer' = answer /\ polls' \subseteq polls
  BY Zenon DEF CancelLongpoll, buckets, history
<1>2. /\ ticker' \in [pc : {"sleep", "ready", "quit"}, ready : Seq(Bucket)]
      /\ answer' \in [Requests -> Answers]
  BY <1>1, Zenon DEF IInv, TypeOK
<1>3. Range(ticker.ready)' = Range(ticker.ready) /\ ticker'.pc = ticker.pc
  BY <1>1, Zenon
<1> QED BY <1>1, <1>2, <1>3, TickerStep, Zenon

\* DisableNewInsert keeps the invariant.
LEMMA DisableIInv == ASSUME IInv, DisableNewInsert PROVE IInv'
<1>1. /\ UNCHANGED <<recentBuckets, historicBuckets, request, readers, inserter, inserted>>
      /\ ticker' = ticker /\ answer' = answer /\ polls' \subseteq polls
  BY Zenon DEF DisableNewInsert, buckets, history
<1>2. /\ ticker' \in [pc : {"sleep", "ready", "quit"}, ready : Seq(Bucket)]
      /\ answer' \in [Requests -> Answers]
  BY <1>1, Zenon DEF IInv, TypeOK
<1>3. Range(ticker.ready)' = Range(ticker.ready) /\ ticker'.pc = ticker.pc
  BY <1>1, Zenon
<1> QED BY <1>1, <1>2, <1>3, TickerStep, Zenon

\* The ticker takes its first ready bucket, which no handler can reach any more.
LEMMA TickerPops ==
  ASSUME IInv, NEW b \in Range(ticker.ready), tickerNext(b)
  PROVE  /\ ticker' \in [pc : {"sleep", "ready", "quit"}, ready : Seq(Bucket)] /\ ReadyInv'
         /\ ticker.pc # "quit" /\ ticker'.pc # "quit" /\ Quiet(b)
         /\ Range(ticker.ready) = Range(ticker.ready)' \cup {b} /\ b \notin Range(ticker.ready)'
         /\ b \in Bucket /\ b.creator = NoRequest
<1> DEFINE s == ticker.ready
<1>1. s \in Seq(Bucket) /\ s # <<>>
  <2>1. s \in Seq(Bucket)
    BY Zenon DEF IInv, TypeOK
  <2> QED BY <2>1, RangeEmpty, Zenon
<1>2. /\ ticker.pc = "ready" /\ b = s[1] /\ waited(b)
      /\ ticker' = [pc |-> IF Len(s) = 1 THEN "sleep" ELSE "ready", ready |-> Tail(s)]
      /\ recentBuckets' = recentBuckets
  BY Zenon DEF tickerNext, buckets
<1>3. /\ Tail(s) \in Seq(Bucket) /\ s[1] \in Bucket /\ Len(s) \in Nat \ {0}
      /\ Range(s) = Range(Tail(s)) \cup {s[1]}
      /\ Len(Tail(s)) = Len(s) - 1 /\ \A k \in 1 .. Len(s) - 1 : Tail(s)[k] = s[k + 1]
  BY <1>1, RangeTail, Zenon
<1>4. ticker' \in [pc : {"sleep", "ready", "quit"}, ready : Seq(Bucket)] /\ ticker'.pc # "quit" /\ ticker'.ready = Tail(s)
  BY <1>2, <1>3, Zenon
<1>5. /\ \A c \in Range(s) : c.creator = NoRequest /\ c.time < oldestTime
      /\ \A k, l \in 1 .. Len(s) : k < l => s[k].time < s[l].time
  BY Zenon DEF IInv, ReadyInv
<1>6. \A k \in 1 .. Len(s) : s[k] \in Bucket /\ s[k].time \in Int
  <2>1. \A k \in 1 .. Len(s) : s[k] \in Bucket
    BY <1>1
  <2> QED BY <2>1, Zenon DEF Bucket
<1> HIDE DEF s
<1>7. ReadyInv'
  <2>1. ticker'.pc # "ready" => Tail(s) = <<>>
    BY <1>2, <1>3
  <2>2. oldestTime' = oldestTime
    BY <1>2, Zenon DEF oldestTime
  <2>3. \A c \in Range(Tail(s)) : c.creator = NoRequest /\ c.time < oldestTime
    BY <1>3, <1>5, Zenon
  <2>4. \A k, l \in 1 .. Len(Tail(s)) : k < l => Tail(s)[k].time < Tail(s)[l].time
    <3> TAKE k, l \in 1 .. Len(Tail(s))
    <3>1. k + 1 \in 1 .. Len(s) /\ l + 1 \in 1 .. Len(s) /\ (k < l => k + 1 < l + 1)
      BY <1>3
    <3>2. Tail(s)[k] = s[k + 1] /\ Tail(s)[l] = s[l + 1]
      BY <1>3, Zenon
    <3> QED BY <1>5, <3>1, <3>2, Zenon
  <2> QED BY <1>4, <2>1, <2>2, <2>3, <2>4, Zenon DEF ReadyInv
<1>8. b \notin Range(Tail(s))
  <2> SUFFICES ASSUME NEW k \in DOMAIN Tail(s) PROVE Tail(s)[k] # b
    BY Zenon DEF Range
  <2>1. k \in 1 .. Len(s) - 1
    BY <1>3
  <2>2. 1 \in 1 .. Len(s) /\ k + 1 \in 1 .. Len(s) /\ 1 < k + 1
    BY <1>3, <2>1
  <2>3. s[1].time < s[k + 1].time /\ s[1].time \in Int
    BY <1>5, <1>6, <2>2, Zenon
  <2>4. s[1].time # s[k + 1].time
    BY <2>3
  <2> QED BY <1>2, <1>3, <2>1, <2>4, Zenon
<1>9. Quiet(b)
  BY <1>2, WaitedIsQuiet, Zenon
<1>10. Range(ticker.ready)' = Range(Tail(s)) /\ Range(ticker.ready) = Range(s)
  BY <1>4, Zenon DEF s
<1> QED BY <1>2, <1>3, <1>4, <1>5, <1>7, <1>8, <1>9, <1>10, Zenon

\* Skipping a bucket of another replica keeps the invariant: nobody waits for it.
LEMMA SkipIInv == ASSUME IInv, NEW b \in Range(ticker.ready), skipNotOurs(b) PROVE IInv'
<1>1. /\ tickerNext(b) /\ ~isOurs(b.time) /\ polls' = polls /\ answer' = answer /\ request' = request
      /\ UNCHANGED <<recentBuckets, historicBuckets, request, readers, inserter, inserted>>
  BY Zenon DEF skipNotOurs, tickerNext, buckets
<1>2. /\ ticker' \in [pc : {"sleep", "ready", "quit"}, ready : Seq(Bucket)] /\ ReadyInv'
      /\ ticker.pc # "quit" /\ Quiet(b) /\ Range(ticker.ready) = Range(ticker.ready)' \cup {b}
      /\ b.creator = NoRequest
  BY <1>1, TickerPops, Zenon
<1>3. ASSUME NEW r \in polls PROVE request[r].bucket # b
  <2>1. r \in Requests /\ request[r].stage \in {"registered", "released"}
    BY Zenon DEF IInv, TypeOK, OwnerInv
  <2>2. RightBucket(request[r])
    BY <2>1, Zenon DEF IInv, SecondsInv, Inside
  <2> QED BY <1>1, <1>2, <2>2, Zenon DEF RightBucket
<1>4. Finished(b)'
  BY <1>1, <1>2, <1>3, Zenon DEF Finished, Quiet
<1>5. answer' \in [Requests -> Answers]
  BY <1>1, Zenon DEF IInv, TypeOK
<1>6. \A c \in Range(ticker.ready) : c \in Range(ticker.ready)' \/ Finished(c)'
  BY <1>2, <1>4, Zenon
<1>7. Range(ticker.ready)' \subseteq Range(ticker.ready) /\ polls' \subseteq polls
  BY <1>1, <1>2, Zenon
<1> QED BY <1>1, <1>2, <1>5, <1>6, <1>7, TickerStep, Zenon

\* Dropping a bucket no inserter takes keeps the invariant: its agents are answered.
LEMMA FullIInv == ASSUME IInv, NEW b \in Range(ticker.ready), conveyorFull(b) PROVE IInv'
<1>1. /\ tickerNext(b) /\ polls' = polls \ Contributors(b) /\ Answered(Contributors(b), "error")
      /\ UNCHANGED <<recentBuckets, historicBuckets, request, readers, inserter, inserted>>
  BY Zenon DEF conveyorFull, tickerNext, answeredWhenFull, buckets
<1>2. /\ ticker' \in [pc : {"sleep", "ready", "quit"}, ready : Seq(Bucket)] /\ ReadyInv'
      /\ ticker.pc # "quit" /\ Quiet(b) /\ Range(ticker.ready) = Range(ticker.ready)' \cup {b}
  BY <1>1, TickerPops, Zenon
<1>3. /\ Finished(b)' /\ polls' \subseteq polls /\ answer' \in [Requests -> Answers]
      /\ \A r \in Requests : answer'[r] = answer[r] \/ (r \in polls /\ r \notin polls' /\ answer'[r] = "error")
  <2>1. "error" \in Answers
    BY Zenon DEF Answers
  <2> QED BY <1>1, <1>2, <2>1, AnswerAll
<1>4. \A r \in Requests : \/ answer'[r] = answer[r]
                          \/ r \in polls /\ r \notin polls' /\ answer'[r] \notin {"inserted", "stale", "old"}
  BY <1>3, Zenon
<1>5. \A c \in Range(ticker.ready) : c \in Range(ticker.ready)' \/ Finished(c)'
  BY <1>2, <1>3, Zenon
<1>6. Range(ticker.ready)' \subseteq Range(ticker.ready)
  BY <1>2, Zenon
<1> QED BY <1>1, <1>2, <1>3, <1>4, <1>5, <1>6, TickerStep, Zenon

\* The ticker's exit in shutdown keeps the invariant.
LEMMA TickerQuitIInv == ASSUME IInv, NEW b \in Range(ticker.ready), tickerQuit(b) PROVE IInv'
<1>1. /\ ticker' = [pc |-> "quit", ready |-> <<>>] /\ polls' = polls /\ answer' = answer
      /\ UNCHANGED <<recentBuckets, historicBuckets, request, readers, inserter, inserted>>
  BY Zenon DEF tickerQuit, buckets, history
<1>2. /\ ticker' \in [pc : {"sleep", "ready", "quit"}, ready : Seq(Bucket)]
      /\ ticker'.pc = "quit" /\ ticker'.ready = <<>>
  BY <1>1
<1>3. Range(ticker.ready)' = {}
  BY <1>2, RangeEmpty, Zenon
<1>4. \A k, l \in 1 .. Len(<<>>) : FALSE
  OBVIOUS
<1>5. ReadyInv'
  BY <1>2, <1>3, <1>4, Zenon DEF ReadyInv
<1>6. answer' \in [Requests -> Answers]
  BY <1>1, Zenon DEF IInv, TypeOK
<1>7. Range(ticker.ready)' \subseteq Range(ticker.ready) /\ polls' \subseteq polls
  BY <1>1, <1>3, Zenon
<1> QED BY <1>1, <1>2, <1>5, <1>6, <1>7, TickerStep, Zenon

\* Handing a bucket to an inserter keeps the invariant.
LEMMA HandOverIInv ==
  ASSUME IInv, NEW b \in Range(ticker.ready), NEW i \in Inserters, handOver(b, i)
  PROVE  IInv'
<1>1. PICK n : n = [Idle EXCEPT !.pc = "start", !.bucket = b, !.batch = <<b>>]
  BY Zenon
<1>2. /\ tickerNext(b) /\ inserter[i].pc = "range" /\ inserter' = [inserter EXCEPT ![i] = n]
      /\ UNCHANGED <<recentBuckets, request, readers>> /\ historicBuckets' = historicBuckets
      /\ inserted' = inserted /\ polls' = polls /\ answer' = answer
  BY <1>1, Zenon DEF handOver, tickerNext, buckets
<1>3. /\ ticker' \in [pc : {"sleep", "ready", "quit"}, ready : Seq(Bucket)] /\ ReadyInv'
      /\ ticker.pc # "quit" /\ Quiet(b) /\ b \notin Range(ticker.ready)'
      /\ Range(ticker.ready) = Range(ticker.ready)' \cup {b} /\ b \in Bucket
  BY <1>2, TickerPops, Zenon
<1>4. n \in Inserter /\ n.pc = "start" /\ n.batch = <<b>> /\ n.popped = {} /\ n.stale = {}
  <2>1. <<b>> \in Seq(Bucket)
    BY <1>3
  <2>2. Idle \in Inserter /\ Idle.popped = {} /\ Idle.stale = {}
    BY IdleInserter, Zenon DEF Idle
  <2> QED BY <1>1, <1>3, <2>1, <2>2, Zenon DEF Inserter, Phases
<1>5. Range(n.batch) = {b}
  BY <1>4, RangeOne, Zenon
<1>6. inserter \in [Inserters -> Inserter]
  BY Zenon DEF IInv, TypeOK
<1>7. inserter'[i] = n /\ \A j \in Inserters : j # i => inserter'[j] = inserter[j] /\ Held(j)' = Held(j)
  BY <1>2, <1>6, Zenon DEF Held
<1>8. Held(i)' = {b}
  BY <1>4, <1>5, <1>7, Zenon DEF Held
<1>9. Held(i) = {}
  <2>1. PartsOf(inserter[i], oldestTime)
    BY OfInserter, Zenon
  <2> QED BY <1>2, <2>1, RangeEmpty, Zenon DEF PartsOf, Held
<1>10. TypeOK'
  <2>1. /\ recentBuckets' \in Seq(Bucket) /\ request' \in [Requests -> Request]
        /\ historicBuckets' \subseteq Bucket /\ polls' \subseteq Requests /\ answer' \in [Requests -> Answers]
    BY <1>2, Zenon DEF IInv, TypeOK
  <2>2. inserter' \in [Inserters -> Inserter]
    BY <1>2, <1>4, <1>6, Zenon
  <2> QED BY <1>3, <2>1, <2>2, Zenon DEF TypeOK
<1>11. PartsOf(inserter'[i], oldestTime) /\ \A c : WaitedFor(inserter'[i], c) => Quiet(c)
  <2>1. PartsOf(n, oldestTime)
    BY <1>4, Zenon DEF PartsOf
  <2>2. \A c : WaitedFor(n, c) => Quiet(c)
    BY <1>3, <1>4, <1>5, Zenon DEF WaitedFor
  <2> QED BY <1>7, <2>1, <2>2, Zenon
<1>12. RowsOf(inserter[i])'
  BY <1>4, <1>7, Zenon DEF RowsOf
<1>13. ASSUME NEW r \in Requests, Lives(request[r].bucket) PROVE Lives(request[r].bucket)'
  <2> DEFINE c == request[r].bucket
  <2>1. request'[r] = request[r] /\ recentBuckets' = recentBuckets
    BY <1>2, Zenon
  <2>2. \/ c \in Range(recentBuckets) \/ c \in historicBuckets \/ c \in Range(ticker.ready)
        \/ \E j \in Inserters : c \in Held(j)
    BY <1>13, Zenon DEF Lives
  <2>3. c \in Range(ticker.ready) => c \in Range(ticker.ready)' \/ c \in Held(i)'
    BY <1>3, <1>8, Zenon
  <2>4. ASSUME NEW j \in Inserters, c \in Held(j) PROVE c \in Held(j)'
    BY <1>7, <1>9, <2>4, Zenon
  <2> QED BY <1>2, <2>1, <2>2, <2>3, <2>4, Zenon DEF Lives
<1>14. /\ Range(ticker.ready)' \subseteq Range(ticker.ready) /\ historicBuckets' \subseteq historicBuckets
       /\ inserted \subseteq inserted' /\ polls' \subseteq polls /\ \A r \in Requests : answer'[r] = answer[r]
  BY <1>2, <1>3, Zenon
<1>15. \A c \in Held(i)' : c \in Range(ticker.ready) /\ c \notin Range(ticker.ready)'
  BY <1>3, <1>8, Zenon
<1> QED BY <1>2, <1>3, <1>7, <1>10, <1>11, <1>12, <1>13, <1>14, <1>15, BackStep, Zenon

\* goTicker keeps the invariant.
LEMMA TickerIInv == ASSUME IInv, goTicker PROVE IInv'
BY SkipIInv, HandOverIInv, FullIInv, TickerQuitIInv, Zenon DEF goTicker

-----------------------------------------------------------------------------
\* A tick moves the window.

\* The buckets of s are of consecutive seconds.
Consecutive(s) == \A k \in 1 .. Len(s) : s[k] = newAggregatorBucket(s[1].time + k - 1, NoRequest)

\* Filling keeps what is there and ends in a window.
LEMMA Filled ==
  ASSUME NEW s \in Seq(Bucket), s # <<>>, Consecutive(s), NEW m \in Int, m >= 3
  PROVE  /\ fillWindow(s, m) \in Seq(Bucket) /\ IsWindow(fillWindow(s, m))
         /\ Len(fillWindow(s, m)) >= Len(s) /\ \A k \in 1 .. Len(s) : fillWindow(s, m)[k] = s[k]
<1> DEFINE d == m - Len(s)
           u(i) == newAggregatorBucket(s[1].time + Len(s) + i - 1, NoRequest)
           t == [i \in 1 .. d |-> u(i)]
<1>1. Len(s) \in Nat \ {0} /\ s[1] \in Bucket /\ 1 \in 1 .. Len(s) /\ d \in Int
  OBVIOUS
<1>2. s[1].time \in Int
  BY <1>1, Zenon DEF Bucket
<1>3. fillWindow(s, m) = s \o t
  BY Zenon DEF fillWindow
<1>4. CASE d <= 0
  <2>1. t = <<>>
    BY <1>1, <1>4
  <2>2. s \o t = s
    <3>1. s \o <<>> = s
      OBVIOUS
    <3> QED BY <2>1, <3>1, Zenon
  <2>3. Len(s) >= 3
    BY <1>1, <1>4
  <2> HIDE DEF d, t
  <2> QED BY <1>1, <1>3, <2>2, <2>3 DEF IsWindow, Consecutive
<1>5. CASE d > 0
  <2>1. \A i \in 1 .. d : u(i) \in Bucket
    BY <1>1, <1>2 DEF newAggregatorBucket, Bucket
  <2> HIDE DEF u
  <2>2. t \in Seq(Bucket) /\ Len(t) = d /\ \A i \in 1 .. d : t[i] = u(i)
    BY <1>1, <1>5, <2>1
  <2> HIDE DEF t
  <2>3. s \o t \in Seq(Bucket) /\ Len(s \o t) = Len(s) + d
    BY <1>1, <2>2
  <2>4. \A k \in 1 .. Len(s) : (s \o t)[k] = s[k]
    BY <2>2
  <2>5. \A k \in 1 .. Len(s) + d : k > Len(s) => (s \o t)[k] = t[k - Len(s)]
    BY <1>1, <2>2
  <2> DEFINE x == s \o t
  <2>6. x[1] = s[1]
    BY <1>1, <2>4, Zenon
  <2>7. ASSUME NEW k \in 1 .. Len(x) PROVE x[k] = newAggregatorBucket(x[1].time + k - 1, NoRequest)
    <3>1. k \in 1 .. Len(s) + d
      BY <2>3, Zenon
    <3>2. CASE k <= Len(s)
      <4>1. k \in 1 .. Len(s)
        BY <1>1, <3>1, <3>2
      <4> QED BY <2>4, <2>6, <4>1, Zenon DEF Consecutive
    <3>3. CASE k > Len(s)
      <4>1. k - Len(s) \in 1 .. d /\ s[1].time + Len(s) + (k - Len(s)) - 1 = s[1].time + k - 1
        BY <1>1, <1>2, <3>1, <3>3
      <4>2. x[k] = u(k - Len(s))
        BY <2>2, <2>5, <3>1, <3>3, <4>1, Zenon
      <4>3. u(k - Len(s)) = newAggregatorBucket(s[1].time + k - 1, NoRequest)
        BY <4>1, Zenon DEF u
      <4> QED BY <2>6, <4>2, <4>3, Zenon
    <3> QED BY <1>1, <3>1, <3>2, <3>3
  <2>8. Len(x) >= 3 /\ Len(x) >= Len(s)
    BY <1>1, <1>5, <2>3
  <2> HIDE DEF x
  <2>9. IsWindow(x)
    BY <2>7, <2>8, Zenon DEF IsWindow
  <2> QED BY <1>3, <2>3, <2>4, <2>8, <2>9, Zenon DEF x
<1> QED BY <1>1, <1>4, <1>5

\* The ready buckets are a prefix of the window.
LEMMA ReadyPrefix ==
  ASSUME NEW s \in Seq(Bucket), Consecutive(s), NEW now \in Int, NEW w \in Int
  PROVE  /\ readyCount(s, now, w) \in 0 .. Len(s)
         /\ \A i \in 1 .. readyCount(s, now, w) : isReady(s[i], now, w)
         /\ readyCount(s, now, w) < Len(s) => ~isReady(s[readyCount(s, now, w) + 1], now, w)
<1> DEFINE P(n) == /\ \A i \in 1 .. n : isReady(s[i], now, w)
                   /\ n < Len(s) => ~isReady(s[n + 1], now, w)
<1>1. \E n \in 0 .. Len(s) : P(n)
  <2>1. CASE s = <<>>
    <3>1. 0 \in 0 .. Len(s) /\ P(0)
      BY <2>1
    <3> QED BY <3>1, Zenon
  <2>2. CASE s # <<>>
    <3>1. Len(s) \in Nat \ {0} /\ s[1] \in Bucket
      BY <2>2
    <3>2. s[1].time \in Int
      BY <3>1, Zenon DEF Bucket
    <3> DEFINE x == now - w - s[1].time
               n == IF x < 0 THEN 0 ELSE IF x > Len(s) THEN Len(s) ELSE x
    <3>3. \A k \in 1 .. Len(s) : isReady(s[k], now, w) <=> k <= x
      <4> TAKE k \in 1 .. Len(s)
      <4>1. s[k] = newAggregatorBucket(s[1].time + k - 1, NoRequest)
        BY Zenon DEF Consecutive
      <4>2. s[k].time = s[1].time + k - 1
        BY <4>1 DEF newAggregatorBucket
      <4> QED BY <3>2, <4>2 DEF isReady
    <3>4. x \in Int
      BY <3>2
    <3> HIDE DEF x
    <3>5. n \in 0 .. Len(s)
      BY <3>1, <3>4
    <3>6. \A k \in 1 .. n : k \in 1 .. Len(s) /\ k <= x
      BY <3>1, <3>4
    <3>7. n < Len(s) => n + 1 \in 1 .. Len(s) /\ ~(n + 1 <= x)
      BY <3>1, <3>4
    <3> HIDE DEF n
    <3>8. P(n)
      BY <3>3, <3>6, <3>7, Zenon
    <3> QED BY <3>5, <3>8, Zenon
  <2> QED BY <2>1, <2>2, Zenon
<1>2. readyCount(s, now, w) = CHOOSE n \in 0 .. Len(s) : P(n)
  BY Zenon DEF readyCount
<1> HIDE DEF P
<1>3. readyCount(s, now, w) \in 0 .. Len(s) /\ P(readyCount(s, now, w))
  BY <1>1, <1>2, Zenon
<1> QED BY <1>3, Zenon DEF P

\* What a tick makes of the window s: no second is lost between the ready buckets and the new window.
LEMMA Advanced ==
  ASSUME NEW s \in Seq(Bucket), Consecutive(s), NEW now \in Int, NEW w \in ShortWindows
  PROVE  LET n == readyCount(s, now, w)
             a == advanced(s, now, w)
             ready == SubSeq(s, 1, n)
         IN  /\ a \in Seq(Bucket) /\ IsWindow(a)
             /\ ready \in Seq(Bucket) /\ Len(ready) = n /\ \A k \in 1 .. n : ready[k] = s[k] /\ k \in 1 .. Len(s)
             /\ s # <<>> => a[1].time >= s[1].time + n
             /\ \A k \in 1 .. Len(s) : k > n => s[k] \in Range(a)
<1> DEFINE n == readyCount(s, now, w)
           kept == SubSeq(s, n + 1, Len(s))
           head == IF kept = <<>> THEN <<newAggregatorBucket(now - w, NoRequest)>> ELSE kept
           a == advanced(s, now, w)
           ready == SubSeq(s, 1, n)
<1>1. w \in 3 .. 5 /\ w \in Int /\ w + FutureWindow \in Int /\ w + FutureWindow >= 3 /\ Len(s) \in Nat
  BY ConstantsAssumption
<1>2. /\ n \in 0 .. Len(s) /\ \A i \in 1 .. n : isReady(s[i], now, w)
  BY <1>1, ReadyPrefix, Zenon
<1>3. a = fillWindow(head, w + FutureWindow)
  BY Zenon DEF advanced
<1> HIDE DEF n, a
<1>4. /\ ready \in Seq(Bucket) /\ Len(ready) = n /\ \A k \in 1 .. n : ready[k] = s[k] /\ k \in 1 .. Len(s)
  BY <1>1, <1>2
<1> HIDE DEF ready
<1>5. s # <<>> => s[1] \in Bucket /\ s[1].time \in Int /\ Len(s) > 0
  <2>1. s # <<>> => s[1] \in Bucket /\ Len(s) > 0
    OBVIOUS
  <2> QED BY <2>1, Zenon DEF Bucket
<1>6. CASE n = Len(s)
  <2>1. kept = <<>>
    BY <1>1, <1>6
  <2>2. PICK h : h = <<newAggregatorBucket(now - w, NoRequest)>>
    BY Zenon
  <2>3. head = h
    BY <2>1, <2>2, Zenon
  <2>4. newAggregatorBucket(now - w, NoRequest) \in Bucket /\ newAggregatorBucket(now - w, NoRequest).time = now - w
    BY <1>1 DEF newAggregatorBucket, Bucket
  <2>5. h \in Seq(Bucket) /\ h # <<>> /\ Len(h) = 1 /\ h[1] = newAggregatorBucket(now - w, NoRequest)
    BY <2>2, <2>4
  <2>6. Consecutive(h)
    <3>1. \A k \in 1 .. Len(h) : k = 1 /\ h[1].time + k - 1 = now - w
      BY <1>1, <2>4, <2>5
    <3> QED BY <2>5, <3>1, Zenon DEF Consecutive
  <2>7. a \in Seq(Bucket) /\ IsWindow(a) /\ a[1] = h[1]
    <3>1. 1 \in 1 .. Len(h)
      BY <2>5
    <3> QED BY <1>1, <1>3, <2>3, <2>5, <2>6, <3>1, Filled, Zenon
  <2>8. s # <<>> => a[1].time >= s[1].time + n
    <3> SUFFICES ASSUME s # <<>> PROVE a[1].time >= s[1].time + n
      BY Zenon
    <3>1. n \in 1 .. n /\ n \in 1 .. Len(s) /\ n \in Nat
      BY <1>2, <1>5, <1>6
    <3>2. isReady(s[n], now, w) /\ s[n] = newAggregatorBucket(s[1].time + n - 1, NoRequest)
      BY <1>2, <3>1, Zenon DEF Consecutive
    <3>3. now > s[1].time + n - 1 + w
      BY <3>2 DEF isReady, newAggregatorBucket
    <3>4. a[1].time = now - w
      BY <2>4, <2>5, <2>7, Zenon
    <3> QED BY <1>1, <1>5, <3>1, <3>3, <3>4
  <2>9. \A k \in 1 .. Len(s) : ~(k > n)
    BY <1>6
  <2> QED BY <1>4, <2>7, <2>8, <2>9, Zenon DEF n, a, ready
<1>7. CASE n < Len(s)
  <2>1. s # <<>> /\ n \in Nat
    BY <1>2, <1>7
  <2>2. kept \in Seq(Bucket) /\ Len(kept) = Len(s) - n /\ kept # <<>>
    <3>1. n + 1 \in 1 .. Len(s) /\ Len(s) - n > 0 /\ Len(s) - (n + 1) + 1 = Len(s) - n
      BY <1>1, <1>2, <1>7
    <3>2. kept \in Seq(Bucket)
      BY <1>1, <3>1
    <3>3. Len(kept) = Len(s) - (n + 1) + 1
      BY <1>1, <3>1
    <3> HIDE DEF kept
    <3>4. kept # <<>>
      BY <3>1, <3>3
    <3> QED BY <3>1, <3>2, <3>3, <3>4, Zenon
  <2>3. \A k \in 1 .. Len(s) - n : kept[k] = s[n + k] /\ n + k \in 1 .. Len(s)
    <3> SUFFICES ASSUME NEW k \in 1 .. Len(s) - n PROVE kept[k] = s[n + k] /\ n + k \in 1 .. Len(s)
      BY Zenon
    <3>1. n + k \in 1 .. Len(s) /\ k + (n + 1) - 1 = n + k
      BY <1>1, <1>2, <1>7
    <3>2. kept[k] = s[k + (n + 1) - 1]
      BY <1>1, <1>2, <1>7
    <3> QED BY <3>1, <3>2, Zenon
  <2>4. head = kept
    BY <2>2, Zenon
  <2> HIDE DEF kept, head
  <2>5. \A k \in 1 .. Len(kept) : kept[k] = newAggregatorBucket(s[1].time + (n + k) - 1, NoRequest)
    BY <2>2, <2>3, Zenon DEF Consecutive
  <2>6. 1 \in 1 .. Len(kept) /\ kept[1] = newAggregatorBucket(s[1].time + (n + 1) - 1, NoRequest)
    <3>1. 1 \in 1 .. Len(kept)
      BY <1>1, <1>7, <2>1, <2>2
    <3> QED BY <2>5, <3>1, Zenon
  <2>7. kept[1].time = s[1].time + n
    <3>1. kept[1].time = s[1].time + (n + 1) - 1
      BY <2>6 DEF newAggregatorBucket
    <3> QED BY <1>5, <2>1, <3>1
  <2>8. Consecutive(kept)
    <3>1. \A k \in 1 .. Len(kept) : s[1].time + (n + k) - 1 = kept[1].time + k - 1
      <4>1. s[1].time \in Int /\ Len(kept) \in Nat
        BY <1>1, <1>5, <2>1, <2>2
      <4> QED BY <2>1, <2>7, <4>1
    <3> QED BY <2>5, <3>1, Zenon DEF Consecutive
  <2>9. /\ a \in Seq(Bucket) /\ IsWindow(a) /\ Len(a) >= Len(kept)
        /\ \A k \in 1 .. Len(kept) : a[k] = kept[k]
    BY <1>1, <1>3, <2>2, <2>4, <2>8, Filled, Zenon
  <2>10. a[1].time >= s[1].time + n
    BY <1>5, <2>1, <2>6, <2>7, <2>9
  <2>11. ASSUME NEW k \in 1 .. Len(s), k > n PROVE s[k] \in Range(a)
    <3>1. k - n \in 1 .. Len(s) - n /\ n + (k - n) = k /\ k - n \in DOMAIN a
      BY <1>1, <2>1, <2>2, <2>9, <2>11
    <3>2. a[k - n] = s[k]
      BY <2>2, <2>3, <2>9, <3>1, Zenon
    <3> QED BY <3>1, <3>2, Zenon DEF Range
  <2> QED BY <1>4, <2>9, <2>10, <2>11, Zenon DEF n, a, ready
<1>8. n = Len(s) \/ n < Len(s)
  BY <1>1, <1>2
<1> HIDE DEF head
<1> QED BY <1>6, <1>7, <1>8, Zenon

\* What a tick does to the window and to the ticker.
LEMMA TickMoves ==
  ASSUME IInv, Tick
  PROVE  /\ UNCHANGED <<historicBuckets, request, readers, polls, inserter, inserted, answer>>
         /\ recentBuckets' \in Seq(Bucket) /\ IsWindow(recentBuckets)'
         /\ ticker' \in [pc : {"sleep", "ready", "quit"}, ready : Seq(Bucket)] /\ ReadyInv'
         /\ ticker.pc # "quit" /\ ticker.ready = <<>>
         /\ oldestTime \in Int /\ oldestTime' \in Int /\ oldestTime' >= oldestTime
         /\ Range(ticker.ready)' \subseteq Range(recentBuckets)
         /\ Range(recentBuckets) \subseteq Range(recentBuckets)' \cup Range(ticker.ready)'
<1>1. PICK now \in Times, w \in ShortWindows : advanceRecentBuckets(now, w)
  BY Zenon DEF Tick
<1> DEFINE s == recentBuckets
           n == readyCount(s, now, w)
           ready == SubSeq(s, 1, n)
<1>2. /\ ticker.pc = "sleep" /\ recentBuckets' = advanced(s, now, w)
      /\ ticker' = [pc |-> IF ready = <<>> THEN "sleep" ELSE "ready", ready |-> ready]
      /\ UNCHANGED <<historicBuckets, request, readers, polls, inserter, inserted, answer>>
  BY <1>1, Zenon DEF advanceRecentBuckets, history
<1>3. s \in Seq(Bucket) /\ IsWindow(s) /\ ticker.ready = <<>>
  BY <1>2, Zenon DEF IInv, TypeOK, ReadyInv
<1>4. Consecutive(s) /\ s # <<>> /\ now \in Int
  <2>1. s # <<>>
    BY <1>3 DEF IsWindow
  <2>2. now \in Int
    BY ConstantsAssumption
  <2> QED BY <1>3, <2>1, <2>2, Zenon DEF IsWindow, Consecutive
<1>5. /\ recentBuckets' \in Seq(Bucket) /\ IsWindow(recentBuckets')
      /\ ready \in Seq(Bucket) /\ Len(ready) = n /\ \A k \in 1 .. n : ready[k] = s[k] /\ k \in 1 .. Len(s)
      /\ recentBuckets'[1].time >= s[1].time + n
      /\ \A k \in 1 .. Len(s) : k > n => s[k] \in Range(recentBuckets')
  BY <1>2, <1>3, <1>4, Advanced, Zenon
<1>6. n \in Nat
  BY <1>5
<1> HIDE DEF n, ready
<1>7. oldestTime \in Int /\ oldestTime' \in Int /\ oldestTime' >= oldestTime + n
  <2>1. s[1].time \in Int /\ recentBuckets'[1].time \in Int
    BY <1>3, <1>5, WindowTimes, Zenon
  <2> QED BY <1>5, <2>1, Zenon DEF oldestTime
<1>8. \A k \in 1 .. n : ready[k].creator = NoRequest /\ ready[k].time = oldestTime + k - 1
  <2> TAKE k \in 1 .. n
  <2>1. ready[k] = newAggregatorBucket(oldestTime + k - 1, NoRequest)
    BY <1>4, <1>5, Zenon DEF Consecutive, oldestTime
  <2> QED BY <2>1 DEF newAggregatorBucket
<1>9. \A b : b \in Range(ready) <=> \E k \in 1 .. n : b = ready[k]
  <2>1. DOMAIN ready = 1 .. n
    BY <1>5
  <2> QED BY <2>1, Zenon DEF Range
<1>10. ticker'.ready = ready /\ ticker'.pc = (IF ready = <<>> THEN "sleep" ELSE "ready")
  BY <1>2, Zenon
<1>11. ReadyInv'
  <2>1. \A b \in Range(ready) : b.creator = NoRequest /\ b.time < oldestTime'
    <3> TAKE b \in Range(ready)
    <3>1. PICK k \in 1 .. n : b = ready[k]
      BY <1>9, Zenon
    <3>2. ready[k].creator = NoRequest /\ ready[k].time < oldestTime'
      BY <1>6, <1>7, <1>8
    <3> QED BY <3>1, <3>2, Zenon
  <2>2. \A k, l \in 1 .. Len(ready) : k < l => ready[k].time < ready[l].time
    BY <1>5, <1>7, <1>8
  <2>3. ticker'.pc # "ready" => ready = <<>>
    BY <1>10, Zenon
  <2> QED BY <1>10, <2>1, <2>2, <2>3, Zenon DEF ReadyInv
<1>12. ticker' \in [pc : {"sleep", "ready", "quit"}, ready : Seq(Bucket)]
  BY <1>2, <1>5, Zenon
<1>13. DOMAIN s = 1 .. Len(s)
  BY <1>3
<1>14. Range(ready) \subseteq Range(s)
  BY <1>5, <1>9, <1>13, Zenon DEF Range
<1>15. Range(s) \subseteq Range(recentBuckets') \cup Range(ready)
  <2> SUFFICES ASSUME NEW k \in 1 .. Len(s) PROVE s[k] \in Range(recentBuckets') \cup Range(ready)
    BY <1>13, Zenon DEF Range
  <2>1. CASE k > n
    BY <1>5, <2>1, Zenon
  <2>2. CASE k <= n
    <3>1. k \in 1 .. n
      BY <1>6, <2>2
    <3> QED BY <1>5, <1>9, <3>1, Zenon
  <2> QED BY <1>6, <2>1, <2>2
<1>16. IsWindow(recentBuckets)'
  BY <1>5, Zenon DEF IsWindow
<1>17. oldestTime' >= oldestTime
  BY <1>6, <1>7
<1> QED BY <1>2, <1>3, <1>5, <1>7, <1>10, <1>11, <1>12, <1>14, <1>15, <1>16, <1>17, Zenon

\* advanceRecentBuckets keeps the invariant.
LEMMA TickIInv == ASSUME IInv, Tick PROVE IInv'
<1>1. /\ UNCHANGED <<historicBuckets, request, readers, polls, inserter, inserted, answer>>
      /\ recentBuckets' \in Seq(Bucket) /\ IsWindow(recentBuckets)'
      /\ ticker' \in [pc : {"sleep", "ready", "quit"}, ready : Seq(Bucket)] /\ ReadyInv'
      /\ ticker.pc # "quit" /\ ticker.ready = <<>>
      /\ oldestTime \in Int /\ oldestTime' \in Int /\ oldestTime' >= oldestTime
      /\ Range(ticker.ready)' \subseteq Range(recentBuckets)
      /\ Range(recentBuckets) \subseteq Range(recentBuckets)' \cup Range(ticker.ready)'
  BY TickMoves, Zenon
<1>2. /\ historicBuckets' = historicBuckets /\ request' = request /\ readers' = readers /\ polls' = polls
      /\ inserter' = inserter /\ inserted' = inserted /\ answer' = answer
  BY <1>1, Zenon
<1>3. \A j : Held(j)' = Held(j)
  BY <1>2, Zenon DEF Held
<1>4. TypeOK'
  BY <1>1, <1>2, Zenon DEF IInv, TypeOK
<1>5. HistoricInv' /\ SecondsInv' /\ AnswerInv'
  <2>1. HistoricInv'
    BY <1>2, Zenon DEF IInv, HistoricInv
  <2>2. SecondsInv'
    BY <1>2, Zenon DEF IInv, SecondsInv, RightBucket, isOurs
  <2> QED BY <1>2, <2>1, <2>2, Zenon DEF IInv, AnswerInv
<1>6. HeldInv'
  <2> SUFFICES ASSUME NEW i \in Inserters, NEW b \in Held(i)
               PROVE  /\ Gone(b)' /\ b \notin historicBuckets' /\ b \notin Range(ticker.ready)'
                      /\ \A j \in Inserters : b \in Held(j)' => j = i
    BY <1>3, Zenon DEF HeldInv
  <2>1. /\ Gone(b) /\ b \notin historicBuckets /\ \A j \in Inserters : b \in Held(j) => j = i
    BY Zenon DEF IInv, HeldInv
  <2>2. b \notin Range(ticker.ready)'
    BY <1>1, NotHeld, Zenon
  <2>3. Gone(b)'
    <3>1. b.time \in Int
      BY HeldBuckets, Zenon DEF IInv, Bucket
    <3>2. b.time < oldestTime => b.time < oldestTime'
      BY <1>1, <3>1
    <3> QED BY <1>2, <2>1, <3>2, Zenon DEF Gone
  <2> QED BY <1>2, <1>3, <2>1, <2>2, <2>3, Zenon
<1>7. PartsInv'
  <2> SUFFICES ASSUME NEW i \in Inserters PROVE PartsOf(inserter[i], oldestTime')
    BY <1>2, Zenon DEF PartsInv
  <2>1. PartsOf(inserter[i], oldestTime)
    BY Zenon DEF IInv, PartsInv
  <2>2. inserter[i].oldest \in Int
    BY Zenon DEF IInv, TypeOK, Inserter
  <2>3. inserter[i].oldest <= oldestTime => inserter[i].oldest <= oldestTime'
    BY <1>1, <2>2
  <2> QED BY <2>1, <2>3, Zenon DEF PartsOf
<1>8. QuietInv'
  BY <1>2, Zenon DEF IInv, QuietInv, Quiet
<1>9. OwnerInv'
  <2>1. \A r \in polls : request[r].stage \in {"registered", "released"}
    BY Zenon DEF IInv, OwnerInv
  <2>2. ASSUME NEW r \in Requests, Open(r)' PROVE Lives(request[r].bucket)'
    <3>1. Open(r)
      BY <1>2, <2>2, Zenon DEF Open
    <3>2. Lives(request[r].bucket)
      BY <1>1, <3>1, Zenon DEF IInv, OwnerInv
    <3> DEFINE b == request[r].bucket
    <3>3. b \notin Range(ticker.ready)
      BY <1>1, RangeEmpty, Zenon
    <3> QED BY <1>1, <1>2, <1>3, <3>2, <3>3, Zenon DEF Lives
  <2> QED BY <1>2, <2>1, <2>2, Zenon DEF OwnerInv
<1>10. RowsInv'
  <2>1. \A r, b : IsRow(r, b)' <=> IsRow(r, b)
    BY <1>2, Zenon DEF IsRow
  <2> QED BY <1>2, <2>1, Zenon DEF IInv, RowsInv, RowsOf
<1>11. DiscardJustified'
  <2>1. \A r \in Requests : request[r].time \in Int
    BY Zenon DEF IInv, TypeOK, Request
  <2>2. \A t \in Int : t < oldestTime - HistoricWindow => t < oldestTime' - HistoricWindow
    <3>1. oldestTime \in Int /\ oldestTime' \in Int /\ oldestTime' >= oldestTime
      BY <1>1, Zenon
    <3>2. HistoricWindow \in Int
      BY ConstantsAssumption
    <3>3. \A a, b, t, h \in Int : b >= a /\ t < a - h => t < b - h
      OBVIOUS
    <3> QED BY <3>1, <3>2, <3>3, Zenon
  <2>3. \A r \in Requests :
          request[r].kind \in DataKinds /\ answer[r] \in {"inserted", "stale", "old"}
          => r \in inserted \/ request[r].time < oldestTime - HistoricWindow
    BY Zenon DEF IInv, DiscardJustified
  <2> QED BY <1>2, <2>1, <2>2, <2>3, Zenon DEF DiscardJustified
<1> QED BY <1>1, <1>4, <1>5, <1>6, <1>7, <1>8, <1>9, <1>10, <1>11, Zenon DEF IInv

-----------------------------------------------------------------------------
\* The invariant and what follows from it.

\* The invariant holds when the aggregator starts.
LEMMA InitIInv == Init => IInv
<1> SUFFICES ASSUME Init PROVE IInv
  BY Zenon
<1>1. /\ historicBuckets = {} /\ readers = {} /\ polls = {} /\ inserted = {}
      /\ request = [r \in Requests |-> RequestOf("recent", 0, NoBucket, "new")]
      /\ ticker = [pc |-> "sleep", ready |-> <<>>] /\ inserter = [i \in Inserters |-> Idle]
      /\ answer = [r \in Requests |-> "none"]
  BY Zenon DEF Init
<1>2. recentBuckets \in Seq(Bucket) /\ IsWindow(recentBuckets)
  <2>1. PICK s : s = <<>>
    BY Zenon
  <2>2. s \in Seq(Bucket) /\ Consecutive(s) /\ StartTime \in Int
    BY <2>1, ConstantsAssumption DEF Consecutive
  <2>3. shortWindow \in ShortWindows /\ recentBuckets = advanced(s, StartTime, shortWindow)
    BY <2>1, Zenon DEF Init
  <2> QED BY <2>2, <2>3, Advanced, Zenon
<1>3. \A r \in Requests : /\ request[r] \in Request /\ request[r].stage = "new" /\ answer[r] = "none"
  <2>1. NoBucket \in Bucket
    BY DEF NoBucket, newAggregatorBucket, Bucket
  <2>2. /\ RequestOf("recent", 0, NoBucket, "new") \in Request
        /\ RequestOf("recent", 0, NoBucket, "new").stage = "new"
    BY <2>1 DEF RequestOf, Request, Stages, Kinds, DataKinds
  <2> QED BY <1>1, <2>2, Zenon
<1>4. /\ \A i \in Inserters : inserter[i] = Idle /\ Held(i) = {}
      /\ Range(ticker.ready) = {} /\ ticker.ready = <<>> /\ ticker.pc = "sleep"
  <2>1. \A i \in Inserters : inserter[i] = Idle
    BY <1>1, Zenon
  <2>2. ticker.ready = <<>> /\ ticker.pc = "sleep"
    BY <1>1, Zenon
  <2> QED BY <2>1, <2>2, IdleInserter, RangeEmpty, Zenon DEF Held, Has
<1>5. TypeOK
  <2>1. answer \in [Requests -> Answers] /\ request \in [Requests -> Request]
    <3>1. "none" \in Answers
      BY Zenon DEF Answers
    <3>2. \A r \in Requests : request[r] = RequestOf("recent", 0, NoBucket, "new")
      BY <1>1, Zenon
    <3>3. \A r \in Requests : RequestOf("recent", 0, NoBucket, "new") \in Request
      BY <1>3, <3>2, Zenon
    <3> QED BY <1>1, <3>1, <3>3, Zenon
  <2>2. inserter \in [Inserters -> Inserter]
    BY <1>1, IdleInserter, Zenon
  <2>3. ticker \in [pc : {"sleep", "ready", "quit"}, ready : Seq(Bucket)]
    BY <1>1
  <2> QED BY <1>1, <1>2, <2>1, <2>2, <2>3, Zenon DEF TypeOK
<1>6. ReadyInv
  <2>1. \A k, l \in 1 .. Len(<<>>) : FALSE
    OBVIOUS
  <2> QED BY <1>4, <2>1, Zenon DEF ReadyInv
<1>7. HistoricInv /\ HeldInv /\ RowsInv
  <2>1. Idle.batch = <<>>
    BY Zenon DEF Idle
  <2>2. RowsInv
    BY <1>4, <2>1, RangeEmpty, Zenon DEF RowsInv, RowsOf
  <2> QED BY <1>1, <1>4, <2>2, Zenon DEF HistoricInv, HeldInv
<1>8. PartsInv
  BY <1>4, IdleInserter, Zenon DEF PartsInv
<1>9. QuietInv
  <2>1. \A r \in Requests : request[r].stage \notin Inside
    BY <1>3, Zenon DEF Inside
  <2> QED BY <1>1, <2>1, Zenon DEF QuietInv, Quiet
<1>10. SecondsInv /\ OwnerInv
  BY <1>1, <1>3, Zenon DEF SecondsInv, OwnerInv, Open, Inside
<1>11. AnswerInv /\ DiscardJustified
  BY <1>3, Zenon DEF AnswerInv, DiscardJustified
<1> QED BY <1>2, <1>5, <1>6, <1>7, <1>8, <1>9, <1>10, <1>11, Zenon DEF IInv

\* A step that changes nothing keeps the invariant.
LEMMA StutterIInv == ASSUME IInv, UNCHANGED vars PROVE IInv'
<1>1. /\ UNCHANGED <<recentBuckets, historicBuckets, request, readers, inserter, inserted>>
      /\ ticker' = ticker /\ answer' = answer /\ polls' \subseteq polls
  BY Zenon DEF vars, buckets, history
<1>2. /\ ticker' \in [pc : {"sleep", "ready", "quit"}, ready : Seq(Bucket)]
      /\ answer' \in [Requests -> Answers]
  BY <1>1, Zenon DEF IInv, TypeOK
<1>3. Range(ticker.ready)' = Range(ticker.ready) /\ ticker'.pc = ticker.pc
  BY <1>1, Zenon
<1> QED BY <1>1, <1>2, <1>3, TickerStep, Zenon

\* IInv holds at the start, every step of Next keeps it: the inductive invariant.
THEOREM AggregatorInvariant == Spec => []IInv
<1>1. Init => IInv
  BY InitIInv, Zenon
<1>2. IInv /\ [Next]_vars => IInv'
  <2> SUFFICES ASSUME IInv, [Next]_vars PROVE IInv'
    BY Zenon
  <2>1. CASE UNCHANGED vars
    BY <2>1, StutterIInv, Zenon
  <2>2. CASE Next
    BY <2>2, SourceBucketIInv, KeepAliveIInv, HandlerIInv, CancelIInv, TickIInv, TickerIInv, InserterIInv,
       DisableIInv, Zenon DEF Next
  <2> QED BY <2>1, <2>2, Zenon
<1> QED BY <1>1, <1>2, PTL DEF Spec

\* The invariant gives exclusive access.
LEMMA IInvExclusive == IInv => ExclusiveAccess
<1> SUFFICES ASSUME IInv, NEW i \in Inserters
             PROVE  /\ Held(i) \cap (Range(recentBuckets) \cup historicBuckets \cup Range(ticker.ready)) = {}
                    /\ \A j \in Inserters \ {i} : Held(i) \cap Held(j) = {}
                    /\ \A b \in Range(inserter[i].batch) : Readers(b) = {}
  BY Zenon DEF ExclusiveAccess
<1>1. \A b \in Held(i) : /\ b \notin historicBuckets /\ b \notin Range(ticker.ready)
                         /\ \A j \in Inserters : b \in Held(j) => j = i
  BY Zenon DEF IInv, HeldInv
<1>2. \A b \in Held(i) : b \notin Range(recentBuckets)
  BY NotHeld, Zenon
<1>3. ASSUME NEW b \in Range(inserter[i].batch) PROVE Readers(b) = {}
  <2>1. Quiet(b)
    BY <1>3, OfInserter, Zenon DEF WaitedFor
  <2> QED BY <2>1, Zenon DEF Quiet, Readers, Of
<1> QED BY <1>1, <1>2, <1>3, Zenon

\* A bucket goInsert has is out of reach of handlers, ticker and other inserters, and no handler
\* is merging into a bucket of a batch (goInsert, "exclusive access ... without locks").
THEOREM AggregatorExclusiveAccess == Spec => []ExclusiveAccess
BY AggregatorInvariant, IInvExclusive, PTL

\* The invariant gives every parked request an owner.
LEMMA IInvOwner == IInv => PollsHaveOwner
<1> SUFFICES ASSUME IInv, ticker.pc # "quit", NEW r \in polls, request[r].kind # "simulated"
             PROVE  request[r].bucket \in Live
  BY Zenon DEF PollsHaveOwner
<1>1. r \in Requests /\ Open(r)
  BY Zenon DEF IInv, TypeOK, Open
<1>2. Lives(request[r].bucket)
  BY <1>1, Zenon DEF IInv, OwnerInv
<1> QED BY <1>2, Zenon DEF Lives, Live

\* Until the ticker quits in shutdown, the bucket of every parked request is still in the window,
\* among the historic buckets, with the ticker or with an inserter: somebody will answer.
THEOREM AggregatorPollsHaveOwner == Spec => []PollsHaveOwner
BY AggregatorInvariant, IInvOwner, PTL

\* The invariant puts rows into the bucket of their second.
LEMMA IInvSecond == IInv => BucketOfTheSecond
<1> SUFFICES ASSUME IInv, NEW r \in Requests, r \in Of(request[r].bucket)
             PROVE  IF request[r].bucket.creator = NoRequest
                    THEN /\ isOurs(request[r].bucket.time)
                         /\ request[r].bucket.time \in request[r].time .. request[r].time + 2
                    ELSE request[r].bucket.time = request[r].time
  BY Zenon DEF BucketOfTheSecond
<1>1. request[r].stage \in Inside \cup {"released"}
  BY Zenon DEF Of, Inside
<1>2. RightBucket(request[r])
  BY <1>1, Zenon DEF IInv, SecondsInv
<1> QED BY <1>2, Zenon DEF RightBucket

\* Whatever the window did, a request's rows are in the bucket of the first second not before
\* its own that this replica inserts, or in a historic bucket of exactly its second.
THEOREM AggregatorBucketOfTheSecond == Spec => []BucketOfTheSecond
BY AggregatorInvariant, IInvSecond, PTL

\* The invariant contains the justification of every discard.
LEMMA IInvDiscard == IInv => DiscardJustified
BY Zenon DEF IInv

\* An agent is told to erase its copy only of a second whose rows ClickHouse took, or that is
\* before the historic window.
THEOREM AggregatorDiscardJustified == Spec => []DiscardJustified
BY AggregatorInvariant, IInvDiscard, PTL

\* A step that answers no request that has its answer.
Kept == \A r \in Requests : answer[r] # "none" => answer'[r] = answer[r]

\* An agent gets one answer to a request: the handler, the ticker and the inserters, which answer
\* from different goroutines, never answer a request again.
AnsweredOnce == [][Kept]_vars

\* Answering requests without an answer keeps the others'.
LEMMA AnsweredKept ==
  ASSUME IInv, NEW S \in SUBSET Requests, NEW a, Answered(S, a), \A r \in S : answer[r] = "none"
  PROVE  Kept
BY Zenon DEF Answered, Kept

\* Every step answers only requests that are new, or whose long poll is in the bucket it lets go.
LEMMA NextKept == ASSUME IInv, Next PROVE Kept
<1> USE DEF history
<1>1. \A r \in Requests :
        request[r].stage \in {"new", "admitted", "merged"} \/ r \in polls => answer[r] = "none"
  BY Zenon DEF IInv, AnswerInv
<1>2. ASSUME UNCHANGED answer PROVE Kept
  BY <1>2, Zenon DEF Kept
<1>3. \A b : \A r \in Contributors(b) \cup SimulatedErrors(b) : r \in Requests /\ answer[r] = "none"
  BY <1>1, Zenon DEF Contributors, SimulatedErrors, Of
<1>4. ASSUME NEW b, NEW a, Answered(Contributors(b), a) \/ Answered(SimulatedErrors(b), a) PROVE Kept
  <2>1. Contributors(b) \in SUBSET Requests /\ SimulatedErrors(b) \in SUBSET Requests
    BY <1>3, Zenon
  <2> QED BY <1>3, <1>4, <2>1, AnsweredKept, Zenon
<1>5. ASSUME NEW r \in Requests, request[r].stage = "new", NEW kind, NEW t, NEW a, refuse(r, kind, t, a) PROVE Kept
  <2>1. {r} \in SUBSET Requests /\ \A p \in {r} : answer[p] = "none"
    BY <1>1, <1>5, Zenon
  <2>2. Answered({r}, a)
    BY <1>5, Zenon DEF refuse
  <2> QED BY <2>1, <2>2, AnsweredKept, Zenon
<1>6. ASSUME NEW r \in Requests, handleSendSourceBucket(r) PROVE Kept
  <2>1. request[r].stage = "new"
    BY <1>6, Zenon DEF handleSendSourceBucket
  <2>2. ASSUME NEW t, sendHistoric(r, t) PROVE Kept
    BY <1>2, <1>5, <2>1, <2>2, Zenon DEF sendHistoric, admit
  <2>3. ASSUME NEW t, sendRecent(r, t) PROVE Kept
    BY <1>2, <1>5, <2>1, <2>3, Zenon DEF sendRecent, admit
  <2>4. CASE reject(r) \/ hijack(r)
    BY <1>2, <1>5, <2>1, <2>4, Zenon DEF reject, hijack
  <2> QED BY <1>6, <2>2, <2>3, <2>4, Zenon DEF handleSendSourceBucket
<1>7. ASSUME NEW r \in Requests, handleSendKeepAlive(r) \/ Handler(r) \/ CancelLongpoll(r) PROVE Kept
  BY <1>2, <1>7, Zenon DEF handleSendKeepAlive, admit, Handler, merge, register, release, CancelLongpoll
<1>8. CASE Tick \/ DisableNewInsert
  BY <1>2, <1>8, Zenon DEF Tick, advanceRecentBuckets, DisableNewInsert
<1>9. CASE goTicker
  BY <1>2, <1>4, <1>9, Zenon DEF goTicker, skipNotOurs, handOver, conveyorFull, answeredWhenFull, tickerQuit
<1>10. ASSUME NEW i \in Inserters, goInsert(i) PROVE Kept
  <2>1. CASE answerBucket(i) \/ answerSimulated(i) \/ \E b \in inserter[i].stale : discardStale(i, b)
    BY <1>4, <2>1, Zenon DEF answerBucket, answerSimulated, discardStale
  <2>2. CASE \/ startInsert(i) \/ popOldestHistoricBucket(i) \/ waitPopped(i) \/ addHistoric(i)
             \/ rowDataMarshal(i) \/ sendToClickhouse(i) \/ inserterQuit(i)
    <3>1. UNCHANGED answer
      BY <2>2, Zenon DEF startInsert, popOldestHistoricBucket, waitPopped, addHistoric, rowDataMarshal,
         sendToClickhouse, inserterQuit
    <3> QED BY <1>2, <3>1, Zenon
  <2> QED BY <1>10, <2>1, <2>2, Zenon DEF goInsert
<1> QED BY <1>6, <1>7, <1>8, <1>9, <1>10, Zenon DEF Next

\* No request is answered twice, whoever answers it.
THEOREM AggregatorAnsweredOnce == Spec => AnsweredOnce
<1>1. IInv /\ [Next]_vars => [Kept]_vars
  BY NextKept, Zenon
<1> QED BY <1>1, AggregatorInvariant, PTL DEF Spec, AnsweredOnce

=============================================================================
