----------------------------- MODULE M2MProofs ------------------------------
(***************************************************************************)
(* Proofs about M2M, for any number of contexts, buffers, controls and     *)
(* frames, under two conditions on the programs: none stops or closes a    *)
(* context while the worker runs a job of it, and none calls a STREAMON    *)
(* that failed a second time without STREAMOFF.                            *)
(***************************************************************************)
EXTENDS M2M, Integers, FiniteSetTheorems, TLAPS

Orderly == "StopWhileRunning" \notin Allow /\ "RetryStreamOn" \notin Allow

QueueType == [alloc : BOOLEAN, on : BOOLEAN, queued : Seq(Index),
              ready : Seq(Index), owned : SUBSET Index, done : Seq(Index)]
QueuesType == [Ctxs -> [Queues -> QueueType]]
JobType == [curr : Ctxs \cup {NoCtx}, queue : Seq(Ctxs),
            flags : [Ctxs -> SUBSET {"QUEUED", "RUNNING"}]]
RunType == [at : {"off", "pick", "remove", "give", "finish"},
            by : Ctxs \cup {NoCtx}, ctx : Ctxs \cup {NoCtx}, asked : Asked,
            src : Index \cup {NoBuf}, dst : Index \cup {NoBuf},
            srcOut : Index \cup {NoBuf}, dstOut : Index \cup {NoBuf},
            bad : BOOLEAN]
StampType == [ctl : Ctls, backend : Backends \cup {"none"}]

Types ==
  /\ sequence \in Nat /\ frames \in 0 .. MaxFrames /\ sets \in 0 .. MaxSets
  /\ job \in JobType /\ work \in BOOLEAN /\ run \in [Executors -> RunType]
  /\ open \subseteq Ctxs /\ ctl \in [Ctxs -> Ctls]
  /\ source \in [Ctxs -> [id : Backends, started : BOOLEAN]]
  /\ q \in QueuesType
  /\ stamp \in [Ctxs -> [Index -> StampType]]
  /\ pend \in [Ctxs -> [Index -> Row \cup {NoRow}]]
  /\ rows \in Seq(Row)
  /\ asked \in [Ctxs -> [Index -> Asked]]

(* The queues Q of a context both stream. *)
Both(Q) == Q["OUT"].on /\ Q["CAP"].on

(* A queued or current job is one of a streaming context. *)
Jobs(j, Q) ==
  /\ IsInjective(j.queue)
  /\ \A c \in Range(j.queue) : "QUEUED" \in j.flags[c] /\ Both(Q[c])
  /\ j.curr \in Ctxs => Both(Q[j.curr])

(* What the pair that r picked has to do with the queues Q of its context. *)
Pair(r, Q) ==
  /\ r.at = "remove" =>
       /\ Q["OUT"].ready # << >> /\ r.src = Head(Q["OUT"].ready)
       /\ Q["CAP"].ready # << >> /\ r.dst = Head(Q["CAP"].ready)
  /\ r.at = "give" => /\ r.srcOut = r.src /\ r.src \in Index
                      /\ r.dstOut = r.dst /\ r.dst \in Index

(* One device_run at a time, and that of the current job. *)
Runs(j, R, Q) ==
  /\ \A e \in Executors : R[e].at = "off" => R[e] = Off
  /\ \A e \in Executors : R[e].at # "off" =>
       R[e].ctx \in Ctxs /\ R[e].ctx = j.curr /\ Pair(R[e], Q[R[e].ctx])
  /\ \A e, f \in Executors : R[e].at # "off" /\ R[f].at # "off" => e = f

(* What the runs R have removed from queue t of context c. *)
Gone(R, c, t) ==
  {IF t = "OUT" THEN R[e].srcOut ELSE R[e].dstOut :
     e \in {x \in Executors : R[x].ctx = c /\ R[x].at = "give"}}

(* BufferOwnership for a queue qt, and what makes STREAMON establish it. *)
Places(qt, gone) ==
  /\ qt.on => /\ qt.queued = << >>
              /\ IsInjective(qt.ready) /\ IsInjective(qt.done)
              /\ qt.owned = Range(qt.ready) \cup gone
              /\ Range(qt.ready) \cap gone = {}
              /\ qt.owned \cap Range(qt.done) = {}
  /\ ~qt.on => /\ qt.owned = {} /\ qt.done = << >>
               /\ IsInjective(qt.queued)

Owners(R, Q) == \A c \in Ctxs, t \in Queues : Places(Q[c][t], Gone(R, c, t))

(* The queues Q of a file that is not open are empty. *)
Closed(O, Q) == \A c \in Ctxs \ O : Q[c] = [t \in Queues |-> Unused]

Shape ==
  /\ Types
  /\ Jobs(job, q)
  /\ Runs(job, run, q)
  /\ Owners(run, q)
  /\ Closed(open, q)

(* What was stamped on a buffer and what was true at its QBUF. *)
Stamps ==
  /\ \A c \in Ctxs, i \in Index :
       asked[c][i].streaming => stamp[c][i].ctl = asked[c][i].ctl
  /\ \A c \in Ctxs : ~q[c]["OUT"].on =>
       \A i \in Range(q[c]["OUT"].queued) : ~asked[c][i].streaming
  /\ \A e \in Executors : run[e].at \in {"remove", "give"} =>
       run[e].asked = asked[run[e].ctx][run[e].src]
  /\ ProducerPaired
  /\ QueuedControlsUsed

(* OUTPUT buffers of c whose frames are still to be processed. *)
Waits(c) == Range(q[c]["OUT"].queued) \cup q[c]["OUT"].owned

(* Frames are processed once at most. *)
Once ==
  /\ \A c \in Ctxs : \A i \in Waits(c) : asked[c][i].frame \in 1 .. frames
  /\ \A c, d \in Ctxs : \A i \in Waits(c), j \in Waits(d) :
       asked[c][i].frame = asked[d][j].frame => c = d /\ i = j
  /\ \A r \in Produced : r.asked.frame \in 1 .. frames
  /\ \A r \in Produced : \A c \in Ctxs : \A i \in Waits(c) :
       r.asked.frame # asked[c][i].frame
  /\ \A r, s \in Produced : r.asked.frame = s.asked.frame => r = s

(* A row is pending only in a buffer the program can still dequeue. *)
Kept ==
  \A c \in Ctxs, i \in Index :
    pend[c][i] # NoRow => i \in Range(q[c]["CAP"].done)

(* Every number up to sequence is that of one row, published or pending. *)
Numbered ==
  /\ \A r \in Produced : r.seq \in 1 .. sequence
  /\ \A n \in 1 .. sequence : \E r \in Produced : r.seq = n
  /\ \A k, l \in DOMAIN rows : rows[k].seq = rows[l].seq => k = l
  /\ \A c, d \in Ctxs, i, j \in Index :
       pend[c][i] # NoRow /\ pend[d][j] # NoRow
         /\ pend[c][i].seq = pend[d][j].seq => c = d /\ i = j
  /\ \A k \in DOMAIN rows, c \in Ctxs, i \in Index :
       pend[c][i] # NoRow => rows[k].seq # pend[c][i].seq
-----------------------------------------------------------------------------
(* Sequences. *)

LEMMA RangeType ==
  ASSUME NEW S, NEW s \in Seq(S)
  PROVE  Range(s) \subseteq S /\ (s = << >> <=> Range(s) = {})
  BY DEF Range

LEMMA RangeConcat ==
  ASSUME NEW S, NEW s \in Seq(S), NEW t \in Seq(S)
  PROVE  /\ Range(s \o t) = Range(s) \cup Range(t)
         /\ s \o t \in Seq(S)
         /\ s # << >> => s \o t # << >> /\ Head(s \o t) = Head(s)
<1>1. /\ Len(s) \in Nat /\ Len(t) \in Nat /\ s \o t \in Seq(S)
      /\ DOMAIN (s \o t) = 1 .. Len(s) + Len(t)
      /\ DOMAIN s = 1 .. Len(s) /\ DOMAIN t = 1 .. Len(t)
      /\ \A k \in 1 .. Len(s) : (s \o t)[k] = s[k]
      /\ \A k \in 1 .. Len(t) : (s \o t)[Len(s) + k] = t[k]
  OBVIOUS
<1>2. \A x \in Range(s \o t) : x \in Range(s) \cup Range(t)
  <2> SUFFICES ASSUME NEW k \in 1 .. Len(s) + Len(t)
               PROVE  (s \o t)[k] \in Range(s) \cup Range(t)
    BY <1>1 DEF Range
  <2>1. CASE k <= Len(s)
    BY <1>1, <2>1 DEF Range
  <2>2. CASE k > Len(s)
    <3>1. k - Len(s) \in 1 .. Len(t) /\ k = Len(s) + (k - Len(s))
      BY <1>1, <2>2
    <3> QED
      BY <1>1, <3>1 DEF Range
  <2> QED
    BY <1>1, <2>1, <2>2
<1>3. \A x \in Range(s) : x \in Range(s \o t)
  BY <1>1 DEF Range
<1>4. \A x \in Range(t) : x \in Range(s \o t)
  <2> SUFFICES ASSUME NEW k \in 1 .. Len(t)
               PROVE  t[k] \in Range(s \o t)
    BY <1>1 DEF Range
  <2>1. Len(s) + k \in 1 .. Len(s) + Len(t)
    BY <1>1
  <2> QED
    BY <1>1, <2>1 DEF Range
<1>5. s # << >> => s \o t # << >> /\ Head(s \o t) = Head(s)
  OBVIOUS
<1> QED
  BY <1>1, <1>2, <1>3, <1>4, <1>5

LEMMA InjectiveConcat ==
  ASSUME NEW S, NEW s \in Seq(S), NEW t \in Seq(S), IsInjective(s),
         IsInjective(t), Range(s) \cap Range(t) = {}
  PROVE  IsInjective(s \o t)
<1>1. /\ Len(s) \in Nat /\ Len(t) \in Nat
      /\ DOMAIN (s \o t) = 1 .. Len(s) + Len(t)
      /\ DOMAIN s = 1 .. Len(s) /\ DOMAIN t = 1 .. Len(t)
      /\ \A k \in 1 .. Len(s) : (s \o t)[k] = s[k]
      /\ \A k \in 1 .. Len(t) : (s \o t)[Len(s) + k] = t[k]
  OBVIOUS
<1>2. \A k \in 1 .. Len(s) + Len(t) :
        k \in 1 .. Len(s) \/ \E n \in 1 .. Len(t) : k = Len(s) + n
  <2> SUFFICES ASSUME NEW k \in 1 .. Len(s) + Len(t), k \notin 1 .. Len(s)
               PROVE  \E n \in 1 .. Len(t) : k = Len(s) + n
    OBVIOUS
  <2>1. k - Len(s) \in 1 .. Len(t) /\ k = Len(s) + (k - Len(s))
    BY <1>1
  <2> QED
    BY <2>1
<1>3. \A k \in 1 .. Len(s), n \in 1 .. Len(t) : s[k] # t[n]
  BY <1>1 DEF Range
<1>4. SUFFICES ASSUME NEW k \in 1 .. Len(s) + Len(t),
                      NEW n \in 1 .. Len(s) + Len(t),
                      (s \o t)[k] = (s \o t)[n]
               PROVE  k = n
  BY <1>1 DEF IsInjective
<1>5. CASE k \in 1 .. Len(s) /\ n \in 1 .. Len(s)
  BY <1>1, <1>4, <1>5 DEF IsInjective
<1>6. CASE k \in 1 .. Len(s) /\ n \notin 1 .. Len(s)
  BY <1>1, <1>2, <1>3, <1>4, <1>6
<1>7. CASE k \notin 1 .. Len(s) /\ n \in 1 .. Len(s)
  BY <1>1, <1>2, <1>3, <1>4, <1>7
<1>8. CASE k \notin 1 .. Len(s) /\ n \notin 1 .. Len(s)
  <2>1. PICK a \in 1 .. Len(t), b \in 1 .. Len(t) :
               k = Len(s) + a /\ n = Len(s) + b
    BY <1>2, <1>8
  <2>2. a = b
    BY <1>1, <1>4, <2>1 DEF IsInjective
  <2> QED
    BY <2>1, <2>2
<1> QED
  BY <1>5, <1>6, <1>7, <1>8

LEMMA OneElement ==
  ASSUME NEW S, NEW x \in S
  PROVE  /\ <<x>> \in Seq(S) /\ Range(<<x>>) = {x} /\ IsInjective(<<x>>)
         /\ \A s \in Seq(S) : Append(s, x) = s \o <<x>>
  BY DEF Range, IsInjective

LEMMA RangeAppend ==
  ASSUME NEW S, NEW s \in Seq(S), NEW x \in S
  PROVE  /\ Append(s, x) \in Seq(S)
         /\ Range(Append(s, x)) = Range(s) \cup {x}
<1>1. /\ <<x>> \in Seq(S) /\ Range(<<x>>) = {x} /\ IsInjective(<<x>>)
      /\ Append(s, x) = s \o <<x>>
  BY OneElement
<1>2. PICK t \in Seq(S) : t = <<x>>
  BY <1>1
<1>3. Range(s \o t) = Range(s) \cup Range(t) /\ s \o t \in Seq(S)
  BY ONLY s \in Seq(S), t \in Seq(S), RangeConcat
<1> QED
  BY <1>1, <1>2, <1>3

LEMMA InjectiveAppend ==
  ASSUME NEW S, NEW s \in Seq(S), NEW x \in S, IsInjective(s), x \notin Range(s)
  PROVE  IsInjective(Append(s, x))
<1>1. /\ <<x>> \in Seq(S) /\ Range(<<x>>) = {x} /\ IsInjective(<<x>>)
      /\ Append(s, x) = s \o <<x>>
  BY OneElement
<1>2. PICK t \in Seq(S) : t = <<x>>
  BY <1>1
<1>3. IsInjective(t) /\ Range(s) \cap Range(t) = {}
  BY <1>1, <1>2
<1>4. IsInjective(s \o t)
  BY ONLY s \in Seq(S), t \in Seq(S), IsInjective(s), <1>3, InjectiveConcat
<1> QED
  BY <1>1, <1>2, <1>4

LEMMA EmptySequence ==
  ASSUME NEW S
  PROVE  << >> \in Seq(S) /\ Range(<< >>) = {} /\ IsInjective(<< >>)
  BY DEF Range, IsInjective

LEMMA HeadTail ==
  ASSUME NEW S, NEW s \in Seq(S), s # << >>
  PROVE  /\ Head(s) \in Range(s) /\ Head(s) \in S /\ Tail(s) \in Seq(S)
         /\ Range(s) = {Head(s)} \cup Range(Tail(s))
         /\ IsInjective(s) => Head(s) \notin Range(Tail(s)) /\ IsInjective(Tail(s))
<1>1. /\ Len(s) \in Nat /\ Len(s) >= 1 /\ DOMAIN s = 1 .. Len(s)
      /\ Tail(s) \in Seq(S) /\ DOMAIN Tail(s) = 1 .. Len(s) - 1
      /\ \A k \in 1 .. Len(s) - 1 : Tail(s)[k] = s[k + 1]
      /\ Head(s) = s[1] /\ 1 \in DOMAIN s /\ Head(s) \in S
  OBVIOUS
<1>2. \A k \in 1 .. Len(s) : k = 1 \/ \E n \in 1 .. Len(s) - 1 : k = n + 1
  <2> SUFFICES ASSUME NEW k \in 1 .. Len(s), k # 1
               PROVE  \E n \in 1 .. Len(s) - 1 : k = n + 1
    OBVIOUS
  <2>1. k - 1 \in 1 .. Len(s) - 1 /\ k = (k - 1) + 1
    BY <1>1
  <2> QED
    BY <2>1
<1>3. \A n \in 1 .. Len(s) - 1 : n + 1 \in 1 .. Len(s) /\ n + 1 # 1
  BY <1>1
<1>4. Range(s) = {Head(s)} \cup Range(Tail(s)) /\ Head(s) \in Range(s)
  <2>1. Head(s) \in Range(s)
    BY <1>1 DEF Range
  <2>2. \A x \in Range(Tail(s)) : x \in Range(s)
    BY <1>1, <1>3 DEF Range
  <2>3. ASSUME NEW k \in 1 .. Len(s) PROVE s[k] \in {Head(s)} \cup Range(Tail(s))
    <3>1. CASE k = 1
      BY <1>1, <3>1
    <3>2. CASE k # 1
      <4>1. PICK n \in 1 .. Len(s) - 1 : k = n + 1
        BY <1>2, <3>2
      <4>2. s[k] = Tail(s)[n]
        BY <1>1, <4>1
      <4> QED
        BY <1>1, <4>2 DEF Range
    <3> QED
      BY <3>1, <3>2
  <2>4. \A x \in Range(s) : x \in {Head(s)} \cup Range(Tail(s))
    BY <1>1, <2>3 DEF Range
  <2> QED
    BY <2>1, <2>2, <2>4
<1>5. ASSUME IsInjective(s)
      PROVE  Head(s) \notin Range(Tail(s)) /\ IsInjective(Tail(s))
  <2>1. Head(s) \notin Range(Tail(s))
    BY <1>1, <1>3, <1>5 DEF Range, IsInjective
  <2>2. ASSUME NEW a \in 1 .. Len(s) - 1, NEW b \in 1 .. Len(s) - 1,
               Tail(s)[a] = Tail(s)[b]
        PROVE  a = b
    <3>1. a + 1 = b + 1
      BY <1>1, <1>3, <1>5, <2>2 DEF IsInjective
    <3> QED
      BY <3>1
  <2>3. IsInjective(Tail(s))
    BY <1>1, <2>2 DEF IsInjective
  <2> QED
    BY <2>1, <2>3
<1> QED
  BY <1>1, <1>4, <1>5

(* list_del takes the context out of the job queue. *)
LEMMA UnqueueRange ==
  ASSUME NEW S, NEW s \in Seq(S), IsInjective(s), NEW c
  PROVE  /\ Unqueue(s, c) \in Seq(S) /\ IsInjective(Unqueue(s, c))
         /\ Range(Unqueue(s, c)) = Range(s) \ {c}
<1>1. CASE c \notin Range(s)
  BY <1>1 DEF Unqueue
<1>2. CASE c \in Range(s)
  <2> DEFINE k == CHOOSE n \in DOMAIN s : s[n] = c
             u == RemoveAt(s, k)
  <2>1. k \in DOMAIN s /\ s[k] = c /\ Unqueue(s, c) = u
    BY <1>2 DEF Range, Unqueue
  <2> HIDE DEF k
  <2>2. Len(s) \in Nat /\ DOMAIN s = 1 .. Len(s) /\ k \in 1 .. Len(s)
    BY <2>1
  <2>3. /\ SubSeq(s, 1, k - 1) \in Seq(S) /\ Len(SubSeq(s, 1, k - 1)) = k - 1
        /\ \A n \in 1 .. k - 1 : SubSeq(s, 1, k - 1)[n] = s[n]
    BY <2>2
  <2>4. /\ SubSeq(s, k + 1, Len(s)) \in Seq(S)
        /\ Len(SubSeq(s, k + 1, Len(s))) = Len(s) - k
        /\ \A n \in 1 .. Len(s) - k : SubSeq(s, k + 1, Len(s))[n] = s[k + n]
    BY <2>2
  <2>5. /\ u \in Seq(S) /\ Len(u) = Len(s) - 1 /\ DOMAIN u = 1 .. Len(s) - 1
        /\ \A n \in 1 .. Len(s) - 1 : u[n] = IF n < k THEN s[n] ELSE s[n + 1]
    <3> DEFINE a == SubSeq(s, 1, k - 1)
               b == SubSeq(s, k + 1, Len(s))
    <3>1. u = a \o b
      BY DEF RemoveAt
    <3>2. /\ a \in Seq(S) /\ Len(a) = k - 1
          /\ b \in Seq(S) /\ Len(b) = Len(s) - k
      BY <2>3, <2>4
    <3>3. /\ \A n \in 1 .. k - 1 : a[n] = s[n]
          /\ \A n \in 1 .. Len(s) - k : b[n] = s[k + n]
      BY <2>3, <2>4
    <3> HIDE DEF a, b, u
    <3>4. /\ u \in Seq(S) /\ Len(u) = Len(a) + Len(b)
          /\ \A n \in 1 .. Len(a) : u[n] = a[n]
          /\ \A n \in 1 .. Len(b) : u[Len(a) + n] = b[n]
      <4>1. a \in Seq(S) /\ b \in Seq(S)
        BY <3>2
      <4> QED
        BY ONLY <3>1, <4>1
    <3>5. Len(u) = Len(s) - 1 /\ DOMAIN u = 1 .. Len(s) - 1
      BY <2>2, <3>2, <3>4
    <3>6. ASSUME NEW n \in 1 .. Len(s) - 1
          PROVE  u[n] = IF n < k THEN s[n] ELSE s[n + 1]
      <4>1. CASE n < k
        BY <2>2, <3>2, <3>3, <3>4, <4>1
      <4>2. CASE ~(n < k)
        <5>1. PICK m \in 1 .. Len(s) - k : n = (k - 1) + m
          <6>1. n - (k - 1) \in 1 .. Len(s) - k /\ n = (k - 1) + (n - (k - 1))
            BY <2>2, <4>2
          <6> QED
            BY <6>1
        <5>2. u[n] = b[m]
          BY <3>2, <3>4, <5>1
        <5>3. b[m] = s[k + m] /\ k + m = n + 1
          BY <2>2, <3>3, <5>1
        <5> QED
          BY <4>2, <5>2, <5>3
      <4> QED
        BY <4>1, <4>2
    <3> QED
      BY <3>4, <3>5, <3>6
  <2> HIDE DEF u
  <2>6. \A a, b \in 1 .. Len(s) : s[a] = s[b] => a = b
    BY <2>2 DEF IsInjective
  <2>7. ASSUME NEW a \in 1 .. Len(s) - 1, NEW b \in 1 .. Len(s) - 1, u[a] = u[b]
        PROVE  a = b
    BY <2>2, <2>5, <2>6, <2>7
  <2>8. \A n \in 1 .. Len(s) - 1 : u[n] \in Range(s) /\ u[n] # c
    BY <2>1, <2>2, <2>5, <2>6 DEF Range
  <2>9. ASSUME NEW n \in 1 .. Len(s), n # k
        PROVE  \E m \in 1 .. Len(s) - 1 : u[m] = s[n]
    <3>1. CASE n < k
      BY <2>2, <2>5, <3>1
    <3>2. CASE n > k
      <4>1. n - 1 \in 1 .. Len(s) - 1 /\ ~(n - 1 < k) /\ (n - 1) + 1 = n
        BY <2>2, <3>2
      <4>2. u[n - 1] = s[n]
        BY <2>5, <4>1
      <4> QED
        BY <4>1, <4>2
    <3> QED
      BY <2>2, <2>9, <3>1, <3>2
  <2>10. Range(u) = Range(s) \ {c}
    <3>1. \A x \in Range(u) : x \in Range(s) \ {c}
      BY <2>5, <2>8 DEF Range
    <3>2. ASSUME NEW n \in 1 .. Len(s), s[n] # c PROVE s[n] \in Range(u)
      BY <2>1, <2>5, <2>9, <3>2 DEF Range
    <3>3. \A x \in Range(s) \ {c} : x \in Range(u)
      BY <2>2, <3>2 DEF Range
    <3> QED
      BY <3>1, <3>3
  <2>11. IsInjective(u)
    BY <2>5, <2>7 DEF IsInjective
  <2> QED
    BY <2>1, <2>5, <2>10, <2>11
<1> QED
  BY <1>1, <1>2
-----------------------------------------------------------------------------
(* The framework's job bookkeeping. *)

LEMMA TryQueueOk ==
  ASSUME NEW Q, NEW j \in JobType, Jobs(j, Q), NEW c \in Ctxs
  PROVE  LET k == TryQueue(j, c, Q[c]) IN
         k \in JobType /\ Jobs(k, Q) /\ k.curr = j.curr
<1> DEFINE k == TryQueue(j, c, Q[c])
<1>1. CASE k = j
  BY <1>1
<1>2. CASE k # j
  <2> DEFINE u == Append(j.queue, c)
             F == [j.flags EXCEPT ![c] = j.flags[c] \cup {"QUEUED"}]
  <2>1. /\ \A t \in Queues : Q[c][t].on
        /\ "QUEUED" \notin j.flags[c]
        /\ k = [j EXCEPT !.queue = u, !.flags = F]
    BY <1>2 DEF TryQueue
  <2>2. /\ j.queue \in Seq(Ctxs) /\ j.curr \in Ctxs \cup {NoCtx}
        /\ j.flags \in [Ctxs -> SUBSET {"QUEUED", "RUNNING"}]
    BY DEF JobType
  <2>3. u \in Seq(Ctxs)
    BY <2>2, RangeAppend
  <2>4. Range(u) = Range(j.queue) \cup {c}
    <3>1. PICK v \in Seq(Ctxs) : v = j.queue
      BY <2>2
    <3>2. Range(Append(v, c)) = Range(v) \cup {c}
      BY ONLY c \in Ctxs, v \in Seq(Ctxs), RangeAppend
    <3> QED
      BY <3>1, <3>2
  <2>5. c \notin Range(j.queue) /\ IsInjective(j.queue)
    BY <2>1 DEF Jobs
  <2>6. IsInjective(u)
    BY <2>2, <2>5, InjectiveAppend
  <2>7. /\ F \in [Ctxs -> SUBSET {"QUEUED", "RUNNING"}] /\ "QUEUED" \in F[c]
        /\ \A d \in Ctxs \ {c} : F[d] = j.flags[d]
    BY <2>2
  <2> HIDE DEF u, F
  <2>8. /\ k \in JobType /\ k.curr = j.curr /\ k.queue = u /\ k.flags = F
    BY <2>1, <2>3, <2>7 DEF JobType
  <2>9. Both(Q[c])
    BY <2>1 DEF Both, Queues
  <2>10. \A d \in Range(j.queue) : d \in Ctxs
    BY <2>2, RangeType
  <2>11. Jobs(k, Q)
    BY <2>4, <2>6, <2>7, <2>8, <2>9, <2>10 DEF Jobs
  <2> QED
    BY <2>8, <2>11
<1> QED
  BY <1>1, <1>2

LEMMA FinishOk ==
  ASSUME NEW j \in JobType, IsInjective(j.queue), NEW c \in Ctxs
  PROVE  LET k == JobFinish(j, c) IN
         /\ k \in JobType /\ IsInjective(k.queue)
         /\ k.curr = IF j.curr = c THEN NoCtx ELSE j.curr
         /\ Range(k.queue) \subseteq Range(j.queue)
         /\ j.curr = c => c \notin Range(k.queue)
         /\ \A d \in Ctxs \ {c} : k.flags[d] = j.flags[d]
         /\ j.curr # c => k = j
<1> DEFINE k == JobFinish(j, c)
           u == Unqueue(j.queue, c)
           F == [j.flags EXCEPT ![c] = {}]
<1>1. CASE j.curr # c
  BY <1>1 DEF JobFinish
<1>2. CASE j.curr = c
  <2>1. k = [j EXCEPT !.curr = NoCtx, !.queue = u, !.flags = F]
    BY <1>2 DEF JobFinish
  <2>2. /\ j.queue \in Seq(Ctxs)
        /\ j.flags \in [Ctxs -> SUBSET {"QUEUED", "RUNNING"}]
    BY DEF JobType
  <2>3. u \in Seq(Ctxs) /\ IsInjective(u) /\ Range(u) = Range(j.queue) \ {c}
    BY <2>2, UnqueueRange
  <2>4. /\ F \in [Ctxs -> SUBSET {"QUEUED", "RUNNING"}]
        /\ \A d \in Ctxs \ {c} : F[d] = j.flags[d]
    BY <2>2
  <2> HIDE DEF u, F
  <2>5. k \in JobType /\ k.curr = NoCtx /\ k.queue = u /\ k.flags = F
    BY <2>1, <2>3, <2>4 DEF JobType
  <2> QED
    BY <1>2, <2>3, <2>4, <2>5
<1> QED
  BY <1>1, <1>2

LEMMA CancelOk ==
  ASSUME NEW j \in JobType, IsInjective(j.queue), NEW c \in Ctxs
  PROVE  LET k == CancelJob(j, c) IN
         /\ k \in JobType /\ IsInjective(k.queue)
         /\ k.curr = IF j.curr = c THEN NoCtx ELSE j.curr
         /\ Range(k.queue) \subseteq Range(j.queue) \ {c}
         /\ \A d \in Ctxs \ {c} : k.flags[d] = j.flags[d]
<1> DEFINE f == JobFinish(j, c)
           k == CancelJob(j, c)
           u == Unqueue(f.queue, c)
           F == [f.flags EXCEPT ![c] = {}]
<1>1. /\ f \in JobType /\ IsInjective(f.queue)
      /\ f.curr = IF j.curr = c THEN NoCtx ELSE j.curr
      /\ Range(f.queue) \subseteq Range(j.queue)
      /\ \A d \in Ctxs \ {c} : f.flags[d] = j.flags[d]
  BY FinishOk
<1>2. k = [f EXCEPT !.queue = u, !.flags = F]
  BY DEF CancelJob
<1> HIDE DEF f, k
<1>3. /\ f.queue \in Seq(Ctxs)
      /\ f.flags \in [Ctxs -> SUBSET {"QUEUED", "RUNNING"}]
  BY <1>1 DEF JobType
<1>4. u \in Seq(Ctxs) /\ IsInjective(u) /\ Range(u) = Range(f.queue) \ {c}
  BY <1>1, <1>3, UnqueueRange
<1>5. /\ F \in [Ctxs -> SUBSET {"QUEUED", "RUNNING"}]
      /\ \A d \in Ctxs \ {c} : F[d] = f.flags[d]
  BY <1>3
<1> HIDE DEF u, F
<1>6. k \in JobType /\ k.curr = f.curr /\ k.queue = u /\ k.flags = F
  BY <1>1, <1>2, <1>4, <1>5 DEF JobType
<1> QED
  BY <1>1, <1>4, <1>5, <1>6 DEF k

LEMMA OffType ==
  Off \in RunType /\ Off.at = "off" /\ Off.ctx = NoCtx /\ Off.src = NoBuf
  BY M2MAssumption DEF Off, RunType, NotAsked, Asked

(* A run that starts is the only one. *)
LEMMA ScheduleOk ==
  ASSUME NEW Q, NEW j \in JobType, Jobs(j, Q), Runs(j, run, Q),
         run \in [Executors -> RunType], NEW e \in Executors,
         run[e].at = "off", NEW c \in Ctxs \cup {NoCtx}, Schedule(e, c, j)
  PROVE  /\ job' \in JobType /\ Jobs(job', Q)
         /\ run' \in [Executors -> RunType] /\ Runs(job', run', Q)
         /\ \A f \in Executors : \/ run'[f] = run[f]
                                 \/ /\ run[f] = Off /\ run'[f].at = "pick"
                                    /\ run'[f].src = NoBuf
<1>1. CASE job' = j
  <2>1. run' = run
    BY <1>1 DEF Schedule
  <2> QED
    BY <1>1, <2>1
<1>2. CASE job' # j
  <2> DEFINE h == Head(j.queue)
             F == [j.flags EXCEPT ![h] = j.flags[h] \cup {"RUNNING"}]
             r == [Off EXCEPT !.at = "pick", !.by = c, !.ctx = job'.curr]
  <2>1. /\ j.curr = NoCtx /\ j.queue # << >>
        /\ job' = [j EXCEPT !.curr = h, !.flags = F]
        /\ run' = [run EXCEPT ![e] = r]
    BY <1>2 DEF Schedule, TryRun
  <2>2. /\ j.queue \in Seq(Ctxs)
        /\ j.flags \in [Ctxs -> SUBSET {"QUEUED", "RUNNING"}]
    BY DEF JobType
  <2>3. h \in Ctxs /\ h \in Range(j.queue)
    BY <2>1, <2>2, HeadTail
  <2>4. /\ F \in [Ctxs -> SUBSET {"QUEUED", "RUNNING"}]
        /\ \A d \in Ctxs : "QUEUED" \in j.flags[d] => "QUEUED" \in F[d]
    BY <2>2, <2>3
  <2> HIDE DEF h, F
  <2>5. /\ job' \in JobType /\ job'.curr = h /\ job'.queue = j.queue
        /\ job'.flags = F
    BY <2>1, <2>2, <2>3, <2>4 DEF JobType
  <2>6. Jobs(job', Q)
    <3>1. \A d \in Range(j.queue) : d \in Ctxs
      BY <2>2, RangeType
    <3> QED
      BY <2>3, <2>4, <2>5, <3>1 DEF Jobs
  <2>7. /\ r \in RunType /\ r.at = "pick" /\ r.ctx = h /\ r.src = NoBuf
    BY <2>3, <2>5, M2MAssumption DEF Off, RunType, NotAsked, Asked
  <2> HIDE DEF r
  <2>8. \A f \in Executors : run[f] = Off
    BY <2>1, M2MAssumption DEF Runs
  <2>9. run'[e] = r /\ \A f \in Executors \ {e} : run'[f] = Off
    BY <2>1, <2>8
  <2>10. run' \in [Executors -> RunType]
    BY <2>1, <2>7
  <2>11. Pair(r, Q[h])
    BY <2>7 DEF Pair
  <2>12. Runs(job', run', Q)
    BY <2>3, <2>5, <2>7, <2>9, <2>11, OffType DEF Runs
  <2> QED
    BY <2>5, <2>6, <2>7, <2>8, <2>9, <2>10, <2>12
<1> QED
  BY <1>1, <1>2

(* Queues that change at their ends only leave jobs and runs alone. *)
LEMMA JobsKept ==
  ASSUME NEW j, NEW Q, NEW P, Jobs(j, Q), j.queue \in Seq(Ctxs),
         \A c \in Ctxs : Both(Q[c]) => Both(P[c])
  PROVE  Jobs(j, P)
  BY RangeType DEF Jobs

LEMMA RunsKept ==
  ASSUME NEW j, NEW R, NEW Q, NEW P, Runs(j, R, Q),
         \A e \in Executors : R[e].at # "off" /\ Pair(R[e], Q[R[e].ctx])
                                => Pair(R[e], P[R[e].ctx])
  PROVE  Runs(j, R, P)
  BY DEF Runs

(* A queue that got buffers at the end of its ready list. *)
LEMMA PairAppend ==
  ASSUME NEW r, NEW Q \in [Queues -> QueueType], NEW P, Pair(r, Q),
         \A t \in Queues : \E b \in Seq(Index) : P[t].ready = Q[t].ready \o b
  PROVE  Pair(r, P)
<1>1. \A t \in Queues : Q[t].ready \in Seq(Index)
  BY DEF QueueType
<1>2. ASSUME NEW t \in Queues, Q[t].ready # << >>
      PROVE  P[t].ready # << >> /\ Head(P[t].ready) = Head(Q[t].ready)
  <2>1. PICK b \in Seq(Index) : P[t].ready = Q[t].ready \o b
    OBVIOUS
  <2> QED
    BY <1>1, <1>2, <2>1, RangeConcat
<1> QED
  BY <1>2 DEF Pair, Queues
-----------------------------------------------------------------------------
(* What a buffer's way through a queue does to the queue. *)

LEMMA UnusedOk ==
  /\ Unused \in QueueType /\ Places(Unused, {}) /\ ~Unused.on
  /\ Unused.ready = << >> /\ Unused.done = << >> /\ Unused.queued = << >>
  /\ Unused.owned = {}
  BY DEF Unused, QueueType, Places, IsInjective

(* QBUF on a streaming queue, *)
LEMMA BufQueueOk ==
  ASSUME NEW qt \in QueueType, NEW G, qt.on, Places(qt, G),
         NEW i \in Index, i \notin Held(qt)
  PROVE  LET n == BufQueue(qt, <<i>>) IN
         /\ n \in QueueType /\ Places(n, G) /\ n.on /\ n.alloc = qt.alloc
         /\ n.queued = qt.queued /\ n.done = qt.done
         /\ n.owned = qt.owned \cup {i} /\ n.ready = Append(qt.ready, i)
<1> DEFINE n == BufQueue(qt, <<i>>)
           r == Append(qt.ready, i)
           o == qt.owned \cup {i}
<1>1. qt.ready \in Seq(Index) /\ qt.owned \subseteq Index
  BY DEF QueueType
<1>2. Range(<<i>>) = {i} /\ qt.ready \o <<i>> = r
  BY <1>1, OneElement
<1>3. n = [qt EXCEPT !.ready = r, !.owned = o]
  BY <1>2 DEF BufQueue
<1>4. /\ qt.queued = << >> /\ IsInjective(qt.ready) /\ IsInjective(qt.done)
      /\ qt.owned = Range(qt.ready) \cup G /\ Range(qt.ready) \cap G = {}
      /\ qt.owned \cap Range(qt.done) = {}
  BY DEF Places
<1>5. i \notin qt.owned /\ i \notin Range(qt.done)
  BY DEF Held
<1>6. r \in Seq(Index) /\ Range(r) = Range(qt.ready) \cup {i}
  BY <1>1, RangeAppend
<1>7. IsInjective(r)
  BY <1>1, <1>4, <1>5, InjectiveAppend
<1> HIDE DEF r
<1>8. /\ o = Range(r) \cup G /\ Range(r) \cap G = {} /\ o \cap Range(qt.done) = {}
      /\ o \subseteq Index
  BY <1>1, <1>4, <1>5, <1>6
<1> HIDE DEF o
<1>9. /\ n \in QueueType /\ n.on /\ n.alloc = qt.alloc /\ n.queued = qt.queued
      /\ n.done = qt.done /\ n.owned = o /\ n.ready = r
  BY <1>3, <1>6, <1>8 DEF QueueType
<1> HIDE DEF n
<1>10. Places(n, G)
  BY <1>4, <1>7, <1>8, <1>9 DEF Places
<1> QED
  BY <1>9, <1>10 DEF n, o, r

(* before STREAMON, *)
LEMMA PrequeueOk ==
  ASSUME NEW qt \in QueueType, NEW G, ~qt.on, Places(qt, G),
         NEW i \in Index, i \notin Held(qt)
  PROVE  LET n == [qt EXCEPT !.queued = Append(@, i)] IN
         /\ n \in QueueType /\ Places(n, G) /\ ~n.on /\ n.alloc = qt.alloc
         /\ n.queued = Append(qt.queued, i) /\ n.done = qt.done
         /\ n.owned = qt.owned /\ n.ready = qt.ready
<1> DEFINE u == Append(qt.queued, i)
           n == [qt EXCEPT !.queued = u]
<1>1. qt.queued \in Seq(Index)
  BY DEF QueueType
<1>2. i \notin Range(qt.queued)
  BY DEF Held
<1>3. IsInjective(qt.queued) /\ qt.owned = {} /\ qt.done = << >>
  BY DEF Places
<1>4. u \in Seq(Index)
  BY <1>1, RangeAppend
<1>5. IsInjective(u)
  BY <1>1, <1>2, <1>3, InjectiveAppend
<1> HIDE DEF u
<1>6. /\ n \in QueueType /\ ~n.on /\ n.alloc = qt.alloc /\ n.queued = u
      /\ n.done = qt.done /\ n.owned = qt.owned /\ n.ready = qt.ready
  BY <1>4 DEF QueueType
<1> HIDE DEF n
<1>7. Places(n, G)
  BY <1>3, <1>5, <1>6 DEF Places
<1> QED
  BY <1>6, <1>7 DEF n, u

(* STREAMON, *)
LEMMA StartOk ==
  ASSUME NEW qt \in QueueType, ~qt.on, qt.ready = << >>, Places(qt, {})
  PROVE  LET n == [BufQueue(qt, qt.queued) EXCEPT !.queued = << >>, !.on = TRUE]
         IN
         /\ n \in QueueType /\ Places(n, {}) /\ n.on /\ n.alloc = qt.alloc
         /\ n.queued = << >> /\ n.done = << >>
         /\ n.owned = Range(qt.queued) /\ n.ready = qt.queued
<1> DEFINE r == qt.ready \o qt.queued
           o == qt.owned \cup Range(qt.queued)
           n == [BufQueue(qt, qt.queued) EXCEPT !.queued = << >>, !.on = TRUE]
<1>1. qt.queued \in Seq(Index) /\ qt.done = << >> /\ qt.owned = {}
  BY DEF QueueType, Places
<1>2. n = [qt EXCEPT !.ready = r, !.owned = o, !.queued = << >>, !.on = TRUE]
  BY DEF BufQueue, QueueType
<1>3. r = qt.queued /\ o = Range(qt.queued) /\ o \subseteq Index
  BY <1>1, RangeType
<1> HIDE DEF r, o
<1>4. /\ n \in QueueType /\ n.on /\ n.alloc = qt.alloc /\ n.queued = << >>
      /\ n.done = qt.done /\ n.owned = o /\ n.ready = r
  BY <1>1, <1>2, <1>3 DEF QueueType
<1> HIDE DEF n
<1>5. Range(<< >>) = {} /\ IsInjective(<< >>)
  BY EmptySequence
<1>6. Places(n, {})
  BY <1>1, <1>3, <1>4, <1>5 DEF Places
<1> QED
  BY <1>1, <1>3, <1>4, <1>6 DEF n

(* a STREAMON that fails, *)
LEMMA StartFailsOk ==
  ASSUME NEW qt \in QueueType, NEW G, ~qt.on, Places(qt, G)
  PROVE  LET n == [qt EXCEPT !.ready = @ \o qt.queued] IN
         /\ n \in QueueType /\ Places(n, G) /\ ~n.on /\ n.alloc = qt.alloc
         /\ n.queued = qt.queued /\ n.done = qt.done /\ n.owned = qt.owned
         /\ n.ready = qt.ready \o qt.queued
<1> DEFINE r == qt.ready \o qt.queued
           n == [qt EXCEPT !.ready = r]
<1>1. r \in Seq(Index)
  BY DEF QueueType
<1> HIDE DEF r
<1>2. /\ n \in QueueType /\ ~n.on /\ n.alloc = qt.alloc
      /\ n.queued = qt.queued /\ n.done = qt.done /\ n.owned = qt.owned
      /\ n.ready = r
  BY <1>1 DEF QueueType
<1> HIDE DEF n
<1>3. Places(n, G)
  BY <1>2 DEF Places
<1> QED
  BY <1>2, <1>3 DEF n, r

(* the removal of the head of the ready list, *)
LEMMA BufRemoveOk ==
  ASSUME NEW qt \in QueueType, qt.on, qt.ready # << >>, Places(qt, {})
  PROVE  LET n == BufRemove(qt) IN
         /\ n \in QueueType /\ Places(n, {Head(qt.ready)})
         /\ n.on /\ n.alloc = qt.alloc
         /\ n.queued = qt.queued /\ n.done = qt.done /\ n.owned = qt.owned
         /\ n.ready = Tail(qt.ready) /\ Head(qt.ready) \in Index
<1> DEFINE r == Tail(qt.ready)
           h == Head(qt.ready)
           n == BufRemove(qt)
<1>1. qt.ready \in Seq(Index)
  BY DEF QueueType
<1>2. /\ qt.queued = << >> /\ IsInjective(qt.ready) /\ IsInjective(qt.done)
      /\ qt.owned = Range(qt.ready)
      /\ qt.owned \cap Range(qt.done) = {}
  BY DEF Places
<1>3. /\ r \in Seq(Index) /\ Range(qt.ready) = {h} \cup Range(r) /\ h \in Index
      /\ h \notin Range(r) /\ IsInjective(r)
  BY <1>1, <1>2, HeadTail
<1>4. n = [qt EXCEPT !.ready = r]
  BY DEF BufRemove
<1> HIDE DEF r, h
<1>5. /\ n \in QueueType /\ n.on /\ n.alloc = qt.alloc
      /\ n.queued = qt.queued /\ n.done = qt.done /\ n.owned = qt.owned
      /\ n.ready = r
  BY <1>3, <1>4 DEF QueueType
<1> HIDE DEF n
<1>6. Places(n, {h})
  BY <1>2, <1>3, <1>5 DEF Places
<1> QED
  BY <1>3, <1>5, <1>6 DEF n, h, r

(* its return to vb2, *)
LEMMA BufDoneOk ==
  ASSUME NEW qt \in QueueType, NEW i \in Index, qt.on, Places(qt, {i})
  PROVE  LET n == BufDone(qt, i) IN
         /\ n \in QueueType /\ Places(n, {}) /\ n.on /\ n.alloc = qt.alloc
         /\ n.queued = qt.queued /\ n.done = Append(qt.done, i)
         /\ n.owned = qt.owned \ {i} /\ n.ready = qt.ready
         /\ i \in qt.owned /\ i \notin Range(qt.done)
<1> DEFINE o == qt.owned \ {i}
           d == Append(qt.done, i)
           n == BufDone(qt, i)
<1>1. qt.done \in Seq(Index) /\ qt.owned \subseteq Index
  BY DEF QueueType
<1>2. /\ qt.queued = << >> /\ IsInjective(qt.ready) /\ IsInjective(qt.done)
      /\ qt.owned = Range(qt.ready) \cup {i} /\ Range(qt.ready) \cap {i} = {}
      /\ qt.owned \cap Range(qt.done) = {}
  BY DEF Places
<1>3. i \in qt.owned /\ i \notin Range(qt.done)
  BY <1>2
<1>4. n = [qt EXCEPT !.owned = o, !.done = d]
  BY <1>3 DEF BufDone
<1>5. d \in Seq(Index) /\ Range(d) = Range(qt.done) \cup {i}
  BY <1>1, RangeAppend
<1>6. IsInjective(d)
  BY <1>1, <1>2, <1>3, InjectiveAppend
<1> HIDE DEF d
<1>7. o \subseteq Index /\ o = Range(qt.ready) /\ o \cap Range(d) = {}
  BY <1>1, <1>2, <1>5
<1> HIDE DEF o
<1>8. /\ n \in QueueType /\ n.on /\ n.alloc = qt.alloc
      /\ n.queued = qt.queued /\ n.done = d /\ n.owned = o
      /\ n.ready = qt.ready
  BY <1>4, <1>5, <1>7 DEF QueueType
<1> HIDE DEF n
<1>9. Places(n, {})
  BY <1>2, <1>6, <1>7, <1>8 DEF Places
<1> QED
  BY <1>3, <1>8, <1>9 DEF n, o, d

(* and DQBUF. *)
LEMMA DequeueOk ==
  ASSUME NEW qt \in QueueType, NEW G, qt.on, qt.done # << >>, Places(qt, G)
  PROVE  LET n == [qt EXCEPT !.done = Tail(@)]
             i == Head(qt.done) IN
         /\ n \in QueueType /\ Places(n, G) /\ n.on /\ n.alloc = qt.alloc
         /\ n.queued = qt.queued /\ n.done = Tail(qt.done)
         /\ n.owned = qt.owned /\ n.ready = qt.ready
         /\ i \in Index /\ i \notin qt.owned
         /\ Range(n.done) = Range(qt.done) \ {i}
<1> DEFINE d == Tail(qt.done)
           i == Head(qt.done)
           n == [qt EXCEPT !.done = d]
<1>1. qt.done \in Seq(Index)
  BY DEF QueueType
<1>2. /\ qt.queued = << >> /\ IsInjective(qt.ready) /\ IsInjective(qt.done)
      /\ qt.owned = Range(qt.ready) \cup G /\ Range(qt.ready) \cap G = {}
      /\ qt.owned \cap Range(qt.done) = {}
  BY DEF Places
<1>3. /\ d \in Seq(Index) /\ Range(qt.done) = {i} \cup Range(d) /\ i \in Index
      /\ i \notin Range(d) /\ IsInjective(d)
  BY <1>1, <1>2, HeadTail
<1> HIDE DEF d, i
<1>4. /\ n \in QueueType /\ n.on /\ n.alloc = qt.alloc
      /\ n.queued = qt.queued /\ n.done = d /\ n.owned = qt.owned
      /\ n.ready = qt.ready
  BY <1>3 DEF QueueType
<1> HIDE DEF n
<1>5. Places(n, G)
  BY <1>2, <1>3, <1>4 DEF Places
<1>6. i \notin qt.owned /\ Range(n.done) = Range(qt.done) \ {i}
  BY <1>2, <1>3, <1>4
<1> QED
  BY <1>3, <1>4, <1>5, <1>6 DEF n, d, i
-----------------------------------------------------------------------------
(* What the handlers write next to the queues. *)

LEMMA SnapshotType ==
  ASSUME Types, NEW c \in Ctxs
  PROVE  /\ Snapshot(c) \in StampType /\ Snapshot(c).ctl = ctl[c]
         /\ Snapshot(c).backend \in {source[c].id, "none"}
<1>1. ctl[c] \in Ctls /\ source[c].id \in Backends
  BY DEF Types
<1>2. NextFrame(c) \in Backends \cup {"none"}
  BY <1>1 DEF NextFrame
<1> QED
  BY <1>1, <1>2 DEF Snapshot, StampType, NextFrame

LEMMA StampAllOk ==
  ASSUME Types, NEW c \in Ctxs, NEW t \in Queues, NEW bs, StampAll(c, t, bs)
  PROVE  /\ stamp' \in [Ctxs -> [Index -> StampType]]
         /\ \A d \in Ctxs, i \in Index :
              stamp'[d][i] = IF d = c /\ t = "OUT" /\ i \in Range(bs)
                             THEN Snapshot(c) ELSE stamp[d][i]
<1> DEFINE f == [i \in Index |-> IF i \in Range(bs) THEN Snapshot(c)
                                 ELSE stamp[c][i]]
<1>1. stamp \in [Ctxs -> [Index -> StampType]] /\ Snapshot(c) \in StampType
  BY SnapshotType DEF Types
<1>2. f \in [Index -> StampType]
  BY <1>1
<1>3. stamp' = IF t = "OUT" THEN [stamp EXCEPT ![c] = f] ELSE stamp
  BY DEF StampAll
<1>4. \A i \in Index : f[i] = IF i \in Range(bs) THEN Snapshot(c) ELSE stamp[c][i]
  OBVIOUS
<1> HIDE DEF f
<1>5. CASE t = "OUT"
  BY <1>1, <1>2, <1>3, <1>4, <1>5
<1>6. CASE t # "OUT"
  BY <1>1, <1>3, <1>6
<1> QED
  BY <1>5, <1>6

LEMMA ForgetOk ==
  ASSUME Types, NEW c \in Ctxs, NEW t \in Queues, NEW S, Forget(c, t, S)
  PROVE  /\ stamp' \in [Ctxs -> [Index -> StampType]]
         /\ asked' \in [Ctxs -> [Index -> Asked]] /\ frames' = frames
         /\ \A d \in Ctxs, i \in Index :
              \/ stamp'[d][i] = stamp[d][i] /\ asked'[d][i] = asked[d][i]
              \/ /\ stamp'[d][i] = NoStamp /\ asked'[d][i] = NotAsked
                 /\ d = c /\ t = "OUT" /\ i \in S
                 /\ \A e \in Executors : run[e].ctx = c => run[e].src # i
<1> DEFINE gone == {i \in S : t = "OUT" /\ \A e \in Executors :
                                run[e].ctx = c => run[e].src # i}
           f == [i \in Index |-> IF i \in gone THEN NoStamp ELSE stamp[c][i]]
           g == [i \in Index |-> IF i \in gone THEN NotAsked ELSE asked[c][i]]
<1>1. /\ stamp \in [Ctxs -> [Index -> StampType]]
      /\ asked \in [Ctxs -> [Index -> Asked]]
  BY DEF Types
<1>2. NoStamp \in StampType /\ NotAsked \in Asked
  BY M2MAssumption DEF NoStamp, StampType, NotAsked, Asked
<1>3. /\ stamp' = [stamp EXCEPT ![c] = f] /\ asked' = [asked EXCEPT ![c] = g]
      /\ frames' = frames
  BY DEF Forget
<1>4. f \in [Index -> StampType] /\ g \in [Index -> Asked]
  BY <1>1, <1>2
<1>5. /\ \A i \in Index : f[i] = IF i \in gone THEN NoStamp ELSE stamp[c][i]
      /\ \A i \in Index : g[i] = IF i \in gone THEN NotAsked ELSE asked[c][i]
  OBVIOUS
<1>6. \A i \in gone : /\ t = "OUT" /\ i \in S
                      /\ \A e \in Executors : run[e].ctx = c => run[e].src # i
  OBVIOUS
<1> HIDE DEF f, g, gone
<1>7. /\ stamp' \in [Ctxs -> [Index -> StampType]]
      /\ asked' \in [Ctxs -> [Index -> Asked]]
      /\ stamp'[c] = f /\ asked'[c] = g
      /\ \A d \in Ctxs \ {c} : stamp'[d] = stamp[d] /\ asked'[d] = asked[d]
  BY <1>1, <1>3, <1>4
<1> QED
  BY <1>3, <1>5, <1>6, <1>7

(* vpipe_buf_finish publishes the pending rows of S, one each. *)
LEMMA BufFinishOk ==
  ASSUME Types, NEW c \in Ctxs, NEW S \in SUBSET Index, BufFinish(c, S)
  PROVE  /\ pend' \in [Ctxs -> [Index -> Row \cup {NoRow}]]
         /\ rows' \in Seq(Row)
         /\ \A d \in Ctxs, i \in Index :
              pend'[d][i] = IF d = c /\ i \in S THEN NoRow ELSE pend[d][i]
         /\ \E s \in Seq(Index), z \in Seq(Row) :
              /\ rows' = rows \o z
              /\ Len(z) = Len(s)
              /\ \A k \in 1 .. Len(s) : z[k] = pend[c][s[k]]
              /\ IsInjective(s)
              /\ \A k, n \in 1 .. Len(s) : k < n => s[k] < s[n]
              /\ Range(s) = {i \in S : pend[c][i] # NoRow}
<1> DEFINE P == {i \in S : pend[c][i] # NoRow}
           f == [i \in Index |-> IF i \in S THEN NoRow ELSE pend[c][i]]
<1>1. /\ pend \in [Ctxs -> [Index -> Row \cup {NoRow}]] /\ rows \in Seq(Row)
  BY DEF Types
<1>2. pend' = [pend EXCEPT ![c] = f]
  BY DEF BufFinish
<1>3. f \in [Index -> Row \cup {NoRow}]
  BY <1>1
<1>4. \A i \in Index : f[i] = IF i \in S THEN NoRow ELSE pend[c][i]
  OBVIOUS
<1> HIDE DEF f
<1>5. /\ pend' \in [Ctxs -> [Index -> Row \cup {NoRow}]]
      /\ \A d \in Ctxs, i \in Index :
           pend'[d][i] = IF d = c /\ i \in S THEN NoRow ELSE pend[d][i]
  BY <1>1, <1>2, <1>3, <1>4
<1>6. PICK s \in Increasing(P) : rows' = rows \o [k \in DOMAIN s |-> pend[c][s[k]]]
  BY DEF BufFinish
<1>7. Cardinality(P) \in Nat
  BY M2MAssumption, FS_Subset, FS_CardinalityType
<1>8. /\ s \in [1 .. Cardinality(P) -> P] /\ Range(s) = P
      /\ \A k, n \in DOMAIN s : k < n => s[k] < s[n]
  BY <1>6 DEF Increasing
<1>9. \A i \in P : i \in Index /\ i \in Nat /\ pend[c][i] \in Row
  BY <1>1, M2MAssumption
<1> HIDE DEF P
<1>10. s \in Seq(Index) /\ Len(s) = Cardinality(P) /\ DOMAIN s = 1 .. Len(s)
  <2>1. s \in Seq(P) /\ Len(s) = Cardinality(P)
    BY <1>7, <1>8
  <2> QED
    BY <1>8, <1>9, <2>1
<1>11. IsInjective(s)
  <2> SUFFICES ASSUME NEW k \in DOMAIN s, NEW n \in DOMAIN s, s[k] = s[n]
               PROVE  k = n
    BY DEF IsInjective
  <2>1. s[k] \in Nat /\ k \in Nat /\ n \in Nat
    BY <1>8, <1>9, <1>10
  <2>2. k < n => s[k] < s[n]
    BY <1>8
  <2>3. n < k => s[n] < s[k]
    BY <1>8
  <2> QED
    BY <2>1, <2>2, <2>3
<1> DEFINE z == [k \in DOMAIN s |-> pend[c][s[k]]]
<1>12. /\ z \in Seq(Row) /\ Len(z) = Len(s)
       /\ \A k \in 1 .. Len(s) : z[k] = pend[c][s[k]]
  <2>1. \A k \in 1 .. Len(s) : pend[c][s[k]] \in Row
    BY <1>8, <1>9, <1>10
  <2>2. z \in [1 .. Len(s) -> Row] /\ Len(s) \in Nat
    BY <1>10, <2>1
  <2> QED
    BY <1>10, <2>2
<1> HIDE DEF z
<1>13. rows' = rows \o z
  BY <1>6 DEF z
<1>14. rows' \in Seq(Row)
  BY <1>1, <1>12, <1>13, RangeConcat
<1> QED
  BY <1>5, <1>8, <1>10, <1>11, <1>12, <1>13, <1>14 DEF P

LEMMA FinishQueueOk ==
  ASSUME Types, NEW c \in Ctxs, NEW t \in Queues
  PROVE  /\ Held(q[c][t]) \subseteq Index
         /\ FinishQueue(c, t)
              => BufFinish(c, IF t = "CAP" THEN Held(q[c][t]) ELSE {})
<1>1. q[c][t] \in QueueType
  BY DEF Types, QueuesType
<1>2. /\ q[c][t].queued \in Seq(Index) /\ q[c][t].done \in Seq(Index)
      /\ q[c][t].owned \subseteq Index
  BY <1>1 DEF QueueType
<1>3. Held(q[c][t]) \subseteq Index
  BY <1>2, RangeType DEF Held
<1> QED
  BY <1>3 DEF FinishQueue
-----------------------------------------------------------------------------
(* How the parts of Shape survive a change of one context. *)

LEMMA GoneNone ==
  ASSUME NEW j, NEW R, NEW Q, Runs(j, R, Q), NEW c \in Ctxs, j.curr # c
  PROVE  /\ \A e \in Executors : R[e].ctx # c
         /\ \A t \in Queues : Gone(R, c, t) = {}
<1>1. \A e \in Executors : R[e].ctx # c
  BY OffType, M2MAssumption DEF Runs
<1> QED
  BY <1>1 DEF Gone

LEMMA GoneKept ==
  ASSUME NEW R, NEW S, NEW c \in Ctxs,
         \A f \in Executors :
           S[f] = R[f] \/ (R[f].at # "give" /\ S[f].at # "give")
  PROVE  \A t \in Queues : Gone(S, c, t) = Gone(R, c, t)
<1>1. \A f \in Executors :
        /\ S[f].at = "give" <=> R[f].at = "give"
        /\ R[f].at = "give" => S[f] = R[f]
  OBVIOUS
<1> QED
  BY <1>1 DEF Gone

(* The queues Q, with n for the queue t of c. *)
With(Q, c, t, n) == [Q EXCEPT ![c][t] = n]

LEMMA OneQueue ==
  ASSUME NEW Q \in QueuesType, NEW c \in Ctxs, NEW t \in Queues,
         NEW n \in QueueType
  PROVE  LET P == With(Q, c, t, n) IN
         /\ P \in QueuesType /\ P[c][t] = n
         /\ \A d \in Ctxs, u \in Queues : <<d, u>> # <<c, t>> => P[d][u] = Q[d][u]
         /\ \A d \in Ctxs \ {c} : P[d] = Q[d]
<1> DEFINE P == With(Q, c, t, n)
           f == [Q[c] EXCEPT ![t] = n]
<1>1. Q[c] \in [Queues -> QueueType]
  BY DEF QueuesType
<1>2. /\ f \in [Queues -> QueueType] /\ f[t] = n
      /\ \A u \in Queues \ {t} : f[u] = Q[c][u]
  BY <1>1
<1>3. P = [Q EXCEPT ![c] = f]
  BY DEF With
<1> HIDE DEF f, P
<1>4. /\ P \in QueuesType /\ P[c] = f /\ \A d \in Ctxs \ {c} : P[d] = Q[d]
  BY <1>2, <1>3 DEF QueuesType
<1> QED
  BY <1>2, <1>4 DEF P

LEMMA Appended ==
  ASSUME NEW Q \in QueuesType, NEW j \in JobType, NEW R, Jobs(j, Q),
         Runs(j, R, Q), Owners(R, Q), NEW O, Closed(O, Q),
         NEW c \in Ctxs, c \in O, NEW t \in Queues, NEW n \in QueueType,
         NEW b \in Seq(Index), n.ready = Q[c][t].ready \o b,
         Q[c][t].on => n.on, Places(n, Gone(R, c, t)),
         NEW P, P = With(Q, c, t, n)
  PROVE  Jobs(j, P) /\ Runs(j, R, P) /\ Owners(R, P) /\ Closed(O, P)
<1>1. /\ P \in QueuesType /\ P[c][t] = n
      /\ \A d \in Ctxs, u \in Queues : <<d, u>> # <<c, t>> => P[d][u] = Q[d][u]
      /\ \A d \in Ctxs \ {c} : P[d] = Q[d]
  BY OneQueue
<1>2. \A d \in Ctxs : Both(Q[d]) => Both(P[d])
  <2> SUFFICES ASSUME NEW d \in Ctxs, NEW u \in Queues, Q[d][u].on
               PROVE  P[d][u].on
    BY DEF Both, Queues
  <2>1. CASE <<d, u>> = <<c, t>>
    BY <1>1, <2>1
  <2>2. CASE <<d, u>> # <<c, t>>
    BY <1>1, <2>2
  <2> QED
    BY <2>1, <2>2
<1>3. Jobs(j, P)
  BY <1>2, JobsKept DEF JobType
<1>4. \A d \in Ctxs, u \in Queues : Q[d][u].ready \in Seq(Index)
  BY DEF QueuesType, QueueType
<1>5. \A d \in Ctxs, u \in Queues :
        \E a \in Seq(Index) : P[d][u].ready = Q[d][u].ready \o a
  <2> SUFFICES ASSUME NEW d \in Ctxs, NEW u \in Queues
               PROVE  \E a \in Seq(Index) : P[d][u].ready = Q[d][u].ready \o a
    OBVIOUS
  <2>1. CASE <<d, u>> = <<c, t>>
    BY <1>1, <2>1
  <2>2. CASE <<d, u>> # <<c, t>>
    <3>1. P[d][u].ready = Q[d][u].ready \o << >> /\ << >> \in Seq(Index)
      BY <1>1, <1>4, <2>2
    <3> QED
      BY <3>1
  <2> QED
    BY <2>1, <2>2
<1>6. \A d \in Ctxs : Q[d] \in [Queues -> QueueType]
  BY DEF QueuesType
<1>7. ASSUME NEW e \in Executors, R[e].at # "off", Pair(R[e], Q[R[e].ctx])
      PROVE  Pair(R[e], P[R[e].ctx])
  <2>1. R[e].ctx \in Ctxs
    BY <1>7 DEF Runs
  <2>2. PICK d \in Ctxs : d = R[e].ctx
    BY <2>1
  <2>3. /\ Q[d] \in [Queues -> QueueType] /\ Pair(R[e], Q[d])
        /\ \A u \in Queues :
             \E a \in Seq(Index) : P[d][u].ready = Q[d][u].ready \o a
    BY <1>5, <1>6, <1>7, <2>2
  <2>4. Pair(R[e], P[d])
    BY ONLY <2>3, PairAppend, Zenon
  <2> QED
    BY <2>2, <2>4
<1>8. Runs(j, R, P)
  BY <1>7, RunsKept
<1>9. Owners(R, P)
  BY <1>1 DEF Owners
<1>10. Closed(O, P)
  BY <1>1 DEF Closed
<1> QED
  BY <1>3, <1>8, <1>9, <1>10

(* The queues of c change while no job of c runs or waits. *)
LEMMA Restarted ==
  ASSUME NEW Q \in QueuesType, NEW j \in JobType, NEW R, Jobs(j, Q),
         Runs(j, R, Q), Owners(R, Q), NEW c \in Ctxs,
         \A e \in Executors : R[e].ctx # c,
         NEW k \in JobType, IsInjective(k.queue),
         Range(k.queue) \subseteq Range(j.queue) \ {c},
         \A d \in Ctxs \ {c} : k.flags[d] = j.flags[d],
         k.curr = IF j.curr = c THEN NoCtx ELSE j.curr,
         NEW P \in QueuesType, \A d \in Ctxs \ {c} : P[d] = Q[d],
         \A t \in Queues : Places(P[c][t], {})
  PROVE  Jobs(k, P) /\ Runs(k, R, P) /\ Owners(R, P)
<1>1. \A d \in Range(k.queue) : d \in Ctxs \ {c} /\ d \in Range(j.queue)
  BY RangeType DEF JobType
<1>2. Jobs(k, P)
  BY <1>1, M2MAssumption DEF Jobs
<1>3. \A e \in Executors : R[e].at # "off" => R[e].ctx \in Ctxs \ {c}
  BY DEF Runs
<1>4. Runs(k, R, P)
  BY <1>3, M2MAssumption DEF Runs
<1>5. \A t \in Queues : Gone(R, c, t) = {}
  BY DEF Gone
<1>6. Owners(R, P)
  BY <1>5 DEF Owners
<1> QED
  BY <1>2, <1>4, <1>6

LEMMA OwnersKept ==
  ASSUME NEW R, NEW S, NEW Q, Owners(R, Q),
         \A f \in Executors :
           S[f] = R[f] \/ (R[f].at # "give" /\ S[f].at # "give")
  PROVE  Owners(S, Q)
  BY GoneKept DEF Owners

(* What a schedule leaves of Shape when the queues have become Q. *)
LEMMA Scheduled ==
  ASSUME NEW Q, NEW j \in JobType, Jobs(j, Q), Runs(j, run, Q),
         Owners(run, Q), run \in [Executors -> RunType], NEW e \in Executors,
         run[e].at = "off", NEW c \in Ctxs \cup {NoCtx}, Schedule(e, c, j)
  PROVE  /\ job' \in JobType /\ run' \in [Executors -> RunType]
         /\ Jobs(job', Q) /\ Runs(job', run', Q) /\ Owners(run', Q)
<1>1. /\ job' \in JobType /\ Jobs(job', Q)
      /\ run' \in [Executors -> RunType] /\ Runs(job', run', Q)
      /\ \A f \in Executors : \/ run'[f] = run[f]
                              \/ run[f] = Off /\ run'[f].at = "pick"
  BY ScheduleOk
<1>2. Owners(run', Q)
  BY <1>1, OffType, OwnersKept
<1> QED
  BY <1>1, <1>2

(* try_schedule of an ioctl of c. *)
LEMMA TryScheduled ==
  ASSUME NEW Q, job \in JobType, Jobs(job, Q), Runs(job, run, Q),
         Owners(run, Q), run \in [Executors -> RunType], DevLock,
         NEW c \in Ctxs, Schedule("ioctl", c, TryQueue(job, c, Q[c]))
  PROVE  /\ job' \in JobType /\ run' \in [Executors -> RunType]
         /\ Jobs(job', Q) /\ Runs(job', run', Q) /\ Owners(run', Q)
<1>1. PICK j : j = TryQueue(job, c, Q[c])
  OBVIOUS
<1>2. j \in JobType /\ Jobs(j, Q) /\ j.curr = job.curr
  BY <1>1, TryQueueOk
<1>3. Runs(j, run, Q)
  BY <1>2 DEF Runs
<1>4. Schedule("ioctl", c, j) /\ "ioctl" \in Executors /\ run["ioctl"].at = "off"
  BY <1>1 DEF DevLock, Executors
<1> QED
  BY <1>2, <1>3, <1>4, Scheduled

-----------------------------------------------------------------------------
(* Shape is an invariant. *)

LEMMA InitShape == Init => Shape
<1> SUFFICES ASSUME Init PROVE Shape
  OBVIOUS
<1>1. Unused \in QueueType /\ Places(Unused, {}) /\ ~Unused.on
  BY UnusedOk
<1>2. q = [c \in Ctxs |-> [t \in Queues |-> Unused]]
  BY DEF Init
<1>3. q \in QueuesType
  BY <1>1, <1>2 DEF QueuesType
<1>4. run \in [Executors -> RunType] /\ \A e \in Executors : run[e] = Off
  BY OffType DEF Init
<1>5. job \in JobType /\ job.curr = NoCtx /\ job.queue = << >>
  BY DEF Init, JobType
<1>6. NoStamp \in StampType /\ NotAsked \in Asked
  BY M2MAssumption DEF NoStamp, StampType, NotAsked, Asked
<1>7. /\ stamp \in [Ctxs -> [Index -> StampType]]
      /\ asked \in [Ctxs -> [Index -> Asked]]
      /\ pend \in [Ctxs -> [Index -> Row \cup {NoRow}]]
      /\ rows \in Seq(Row)
  BY <1>6 DEF Init
<1>8. /\ open \subseteq Ctxs /\ ctl \in [Ctxs -> Ctls]
      /\ source \in [Ctxs -> [id : Backends, started : BOOLEAN]]
  BY M2MAssumption DEF Init, Fixture
<1>9. /\ sequence \in Nat /\ frames \in 0 .. MaxFrames /\ sets \in 0 .. MaxSets
      /\ work \in BOOLEAN
  <2>1. sequence = 0 /\ frames = 0 /\ sets = 0 /\ work = FALSE
    BY DEF Init
  <2>2. /\ sequence \in Nat /\ frames \in 0 .. MaxFrames
        /\ sets \in 0 .. MaxSets
    BY <2>1, M2MAssumption
  <2> QED
    BY <2>1, <2>2
<1>10. Types
  BY <1>3, <1>4, <1>5, <1>7, <1>8, <1>9 DEF Types
<1>11. Jobs(job, q)
  BY <1>5, EmptySequence, M2MAssumption DEF Jobs
<1>12. Runs(job, run, q)
  BY <1>4, OffType DEF Runs
<1>13. \A c \in Ctxs, t \in Queues : Gone(run, c, t) = {}
  BY <1>4, OffType DEF Gone
<1>14. Owners(run, q)
  BY <1>1, <1>2, <1>13 DEF Owners
<1>15. Closed(open, q)
  BY <1>2 DEF Closed
<1> QED
  BY <1>10, <1>11, <1>12, <1>14, <1>15 DEF Shape

LEMMA OpenShape ==
  ASSUME Shape, NEW c \in Ctxs, Open(c)
  PROVE  Shape'
<1>1. /\ open' = open \cup {c} /\ ctl' = [ctl EXCEPT ![c] = 0]
      /\ source' = [source EXCEPT ![c] = Fixture]
      /\ UNCHANGED <<sets, job, work, run, q, sequence, pend, rows, stamp,
                     frames, asked>>
  BY DEF Open, jobVars, rowVars, stampVars
<1>2. Fixture \in [id : Backends, started : BOOLEAN]
  BY M2MAssumption DEF Fixture
<1>3. /\ open' \subseteq Ctxs /\ ctl' \in [Ctxs -> Ctls]
      /\ source' \in [Ctxs -> [id : Backends, started : BOOLEAN]]
  BY <1>1, <1>2, M2MAssumption DEF Shape, Types
<1>4. Types'
  BY <1>1, <1>3 DEF Shape, Types
<1>5. Closed(open', q')
  BY <1>1 DEF Shape, Closed
<1> QED
  BY <1>1, <1>4, <1>5 DEF Shape

LEMMA ControlShape ==
  ASSUME Shape, NEW c \in Ctxs,
         \/ \E v \in Ctls : SetCtrl(c, v)
         \/ \E b \in Backends : SetBackend(c, b)
  PROVE  Shape'
<1>1. UNCHANGED <<open, job, work, run, q, sequence, pend, rows, stamp,
                  frames, asked>>
  BY DEF SetCtrl, SetBackend, jobVars, rowVars, stampVars
<1>2. CASE \E v \in Ctls : SetCtrl(c, v)
  <2>1. PICK v \in Ctls : SetCtrl(c, v)
    BY <1>2
  <2>2. ctl' \in [Ctxs -> Ctls] /\ source' = source
    BY <2>1 DEF SetCtrl, Shape, Types
  <2>3. sets' \in 0 .. MaxSets
    <3>1. sets \in 0 .. MaxSets /\ sets < MaxSets /\ sets' = sets + 1
      BY <2>1 DEF SetCtrl, Shape, Types
    <3> QED
      BY <3>1, M2MAssumption
  <2>4. Types'
    BY <1>1, <2>2, <2>3 DEF Shape, Types
  <2> QED
    BY <1>1, <2>4 DEF Shape
<1>3. CASE \E b \in Backends : SetBackend(c, b)
  <2>1. PICK b \in Backends : SetBackend(c, b)
    BY <1>3
  <2>2. /\ ctl' = ctl /\ sets' = sets
        /\ source' \in [Ctxs -> [id : Backends, started : BOOLEAN]]
    BY <2>1 DEF SetBackend, Shape, Types
  <2>3. Types'
    BY <1>1, <2>2 DEF Shape, Types
  <2> QED
    BY <1>1, <2>3 DEF Shape
<1> QED
  BY <1>2, <1>3

LEMMA WorkShape ==
  ASSUME Shape, Work
  PROVE  Shape'
<1>1. /\ run["worker"].at = "off" /\ work' = FALSE
      /\ Schedule("worker", NoCtx, job)
      /\ UNCHANGED <<open, ctl, source, sets, q, sequence, pend, rows, stamp,
                     frames, asked>>
  BY DEF Work, ctxVars, rowVars, stampVars
<1>2. /\ job \in JobType /\ run \in [Executors -> RunType] /\ Jobs(job, q)
      /\ Runs(job, run, q) /\ Owners(run, q) /\ "worker" \in Executors
  BY DEF Shape, Types, Executors
<1>3. /\ job' \in JobType /\ run' \in [Executors -> RunType]
      /\ Jobs(job', q) /\ Runs(job', run', q) /\ Owners(run', q)
  BY <1>1, <1>2, Scheduled
<1>4. Types'
  BY <1>1, <1>3 DEF Shape, Types
<1> QED
  BY <1>1, <1>3, <1>4 DEF Shape

(* What QBuf makes of the queue. *)
LEMMA QueuedOk ==
  ASSUME NEW qt \in QueueType, NEW G, Places(qt, G), NEW i \in Index,
         i \notin Held(qt)
  PROVE  LET n == IF qt.on THEN BufQueue(qt, <<i>>)
                  ELSE [qt EXCEPT !.queued = Append(@, i)] IN
         /\ n \in QueueType /\ Places(n, G) /\ n.on = qt.on
         /\ n.done = qt.done
         /\ n.ready = IF qt.on THEN Append(qt.ready, i) ELSE qt.ready
         /\ Range(n.queued) \cup n.owned = (Range(qt.queued) \cup qt.owned) \cup {i}
         /\ \E b \in Seq(Index) : n.ready = qt.ready \o b
<1> DEFINE n == IF qt.on THEN BufQueue(qt, <<i>>)
                ELSE [qt EXCEPT !.queued = Append(@, i)]
<1>1. /\ qt.ready \in Seq(Index) /\ qt.queued \in Seq(Index)
      /\ qt.on \in BOOLEAN
  BY DEF QueueType
<1>2. CASE qt.on
  <2>1. /\ n \in QueueType /\ Places(n, G) /\ n.on /\ n.done = qt.done
        /\ n.queued = qt.queued
        /\ n.owned = qt.owned \cup {i} /\ n.ready = Append(qt.ready, i)
    BY <1>2, BufQueueOk
  <2>2. Append(qt.ready, i) = qt.ready \o <<i>> /\ <<i>> \in Seq(Index)
    BY <1>1, OneElement
  <2>3. n.on = qt.on
    BY <1>1, <1>2, <2>1 DEF QueueType
  <2> HIDE DEF n
  <2>4. \E b \in Seq(Index) : n.ready = qt.ready \o b
    BY <2>1, <2>2
  <2>5. Range(n.queued) \cup n.owned = (Range(qt.queued) \cup qt.owned) \cup {i}
    BY <2>1
  <2> QED
    BY <1>2, <2>1, <2>3, <2>4, <2>5 DEF n
<1>3. CASE ~qt.on
  <2>1. /\ n \in QueueType /\ Places(n, G) /\ ~n.on /\ n.done = qt.done
        /\ n.queued = Append(qt.queued, i)
        /\ n.owned = qt.owned /\ n.ready = qt.ready
    BY <1>3, PrequeueOk
  <2>2. Range(Append(qt.queued, i)) = Range(qt.queued) \cup {i}
    BY <1>1, RangeAppend
  <2>3. n.on = qt.on
    BY <1>1, <1>3, <2>1 DEF QueueType
  <2> HIDE DEF n
  <2>4. qt.ready = qt.ready \o << >> /\ << >> \in Seq(Index)
    BY <1>1
  <2>5. \E b \in Seq(Index) : n.ready = qt.ready \o b
    BY <2>1, <2>4
  <2>6. Range(n.queued) \cup n.owned = (Range(qt.queued) \cup qt.owned) \cup {i}
    BY <2>1, <2>2
  <2> QED
    BY <1>3, <2>1, <2>3, <2>5, <2>6 DEF n
<1> QED
  BY <1>2, <1>3

LEMMA QBufShape ==
  ASSUME Shape, NEW c \in Ctxs, NEW t \in Queues, NEW i \in Index, QBuf(c, t, i)
  PROVE  Shape'
<1>1. PICK qt : qt = q[c][t]
  OBVIOUS
<1>2. PICK n : n = IF qt.on THEN BufQueue(qt, <<i>>)
                   ELSE [qt EXCEPT !.queued = Append(@, i)]
  OBVIOUS
<1>3. /\ DevLock /\ c \in open /\ i \notin Held(qt)
      /\ q' = With(q, c, t, n)
      /\ StampAll(c, t, IF qt.on THEN <<i>> ELSE << >>)
      /\ Schedule("ioctl", c, TryQueue(job, c, q'[c]))
      /\ UNCHANGED <<work, open, ctl, source, sets, sequence, pend, rows>>
  BY <1>1, <1>2 DEF QBuf, With, ctxVars, rowVars
<1>4. /\ Types /\ q \in QueuesType /\ qt \in QueueType
      /\ job \in JobType /\ run \in [Executors -> RunType]
      /\ Jobs(job, q) /\ Runs(job, run, q) /\ Owners(run, q) /\ Closed(open, q)
      /\ Places(qt, Gone(run, c, t))
  BY <1>1 DEF Shape, Types, QueuesType, Owners
<1>5. /\ n \in QueueType /\ Places(n, Gone(run, c, t)) /\ n.on = qt.on
      /\ \E b \in Seq(Index) : n.ready = qt.ready \o b
  BY <1>2, <1>3, <1>4, QueuedOk
<1>6. PICK P : P = q'
  OBVIOUS
<1>7. P \in QueuesType
  BY <1>3, <1>4, <1>5, <1>6, OneQueue
<1>8. /\ Jobs(job, P) /\ Runs(job, run, P) /\ Owners(run, P) /\ Closed(open, P)
  BY <1>1, <1>3, <1>4, <1>5, <1>6, Appended
<1>9. Schedule("ioctl", c, TryQueue(job, c, P[c]))
  BY <1>3, <1>6
<1>10. /\ job' \in JobType /\ run' \in [Executors -> RunType]
       /\ Jobs(job', P) /\ Runs(job', run', P) /\ Owners(run', P)
  BY <1>3, <1>4, <1>8, <1>9, TryScheduled
<1>11. stamp' \in [Ctxs -> [Index -> StampType]]
  BY <1>3, <1>4, StampAllOk
<1>12. frames' \in 0 .. MaxFrames
  <2>1. /\ frames \in 0 .. MaxFrames
        /\ frames' = frames \/ (frames < MaxFrames /\ frames' = frames + 1)
    BY DEF QBuf, Shape, Types
  <2> QED
    BY <2>1, M2MAssumption
<1>13. asked' \in [Ctxs -> [Index -> Asked]]
  <2>1. asked \in [Ctxs -> [Index -> Asked]] /\ ctl[c] \in Ctls
    BY <1>4 DEF Types
  <2>2. CASE t = "OUT"
    <3> DEFINE k == frames + 1
               o == qt.on
               a == [frame |-> k, ctl |-> ctl[c], streaming |-> o]
               f == [asked[c] EXCEPT ![i] = a]
    <3>1. k \in Nat
      BY <1>4, M2MAssumption DEF Types
    <3>2. o \in BOOLEAN
      BY <1>4 DEF QueueType
    <3>3. asked' = [asked EXCEPT ![c] = f]
      BY <1>1, <2>2 DEF QBuf
    <3> HIDE DEF k, o
    <3>4. a \in Asked
      BY <2>1, <3>1, <3>2 DEF Asked
    <3> HIDE DEF a
    <3>5. f \in [Index -> Asked]
      BY <2>1, <3>4
    <3> QED
      BY <2>1, <3>3, <3>5
  <2>3. CASE t # "OUT"
    BY <2>1, <2>3 DEF QBuf
  <2> QED
    BY <2>2, <2>3
<1>14. Types'
  BY <1>3, <1>4, <1>6, <1>7, <1>10, <1>11, <1>12, <1>13 DEF Types
<1> QED
  BY <1>3, <1>6, <1>8, <1>10, <1>14 DEF Shape

LEMMA StreamOnShape ==
  ASSUME Orderly, Shape, NEW c \in Ctxs, NEW t \in Queues, StreamOn(c, t)
  PROVE  Shape'
<1>1. PICK qt : qt = q[c][t]
  OBVIOUS
<1>2. PICK n :
        n = [BufQueue(qt, qt.queued) EXCEPT !.queued = << >>, !.on = TRUE]
  OBVIOUS
<1>3. /\ DevLock /\ c \in open /\ ~qt.on /\ qt.ready = << >>
      /\ q' = With(q, c, t, n)
      /\ StampAll(c, t, qt.queued)
      /\ Schedule("ioctl", c, TryQueue(job, c, q'[c]))
      /\ UNCHANGED <<work, open, ctl, sets, sequence, pend, rows, frames, asked>>
  BY <1>1, <1>2 DEF StreamOn, With, rowVars, Orderly
<1>4. /\ Types /\ q \in QueuesType /\ qt \in QueueType
      /\ job \in JobType /\ run \in [Executors -> RunType]
      /\ Jobs(job, q) /\ Runs(job, run, q) /\ Owners(run, q) /\ Closed(open, q)
      /\ Places(qt, Gone(run, c, t))
  BY <1>1 DEF Shape, Types, QueuesType, Owners
<1>5. Gone(run, c, t) = {}
  <2>1. job.curr # c
    BY <1>1, <1>3, <1>4 DEF Jobs, Both, Queues
  <2> QED
    BY <1>4, <2>1, GoneNone
<1>6. n \in QueueType /\ Places(n, {}) /\ n.on /\ n.ready = qt.queued
  BY <1>2, <1>3, <1>4, <1>5, StartOk
<1>7. /\ qt.queued \in Seq(Index) /\ n.ready = qt.ready \o qt.queued
  <2>1. qt.queued \in Seq(Index)
    BY <1>4 DEF QueueType
  <2> QED
    BY <1>3, <1>6, <2>1
<1>8. PICK P : P = q'
  OBVIOUS
<1>9. P \in QueuesType
  BY <1>3, <1>4, <1>6, <1>8, OneQueue
<1>10. /\ Jobs(job, P) /\ Runs(job, run, P) /\ Owners(run, P) /\ Closed(open, P)
  BY <1>1, <1>3, <1>4, <1>5, <1>6, <1>7, <1>8, Appended
<1>11. Schedule("ioctl", c, TryQueue(job, c, P[c]))
  BY <1>3, <1>8
<1>12. /\ job' \in JobType /\ run' \in [Executors -> RunType]
       /\ Jobs(job', P) /\ Runs(job', run', P) /\ Owners(run', P)
  BY <1>3, <1>4, <1>10, <1>11, TryScheduled
<1>13. stamp' \in [Ctxs -> [Index -> StampType]]
  BY <1>3, <1>4, StampAllOk
<1>14. source' \in [Ctxs -> [id : Backends, started : BOOLEAN]]
  BY <1>4 DEF StreamOn, Types
<1>15. Types'
  BY <1>3, <1>4, <1>8, <1>9, <1>12, <1>13, <1>14 DEF Types
<1> QED
  BY <1>3, <1>8, <1>10, <1>12, <1>15 DEF Shape

LEMMA StreamOnFailsShape ==
  ASSUME Shape, NEW c \in Ctxs, StreamOnFails(c)
  PROVE  Shape'
<1>1. PICK qt : qt = q[c]["OUT"]
  OBVIOUS
<1>2. PICK n : n = [qt EXCEPT !.ready = @ \o qt.queued]
  OBVIOUS
<1>3. /\ c \in open /\ ~qt.on /\ "OUT" \in Queues
      /\ q' = With(q, c, "OUT", n)
      /\ StampAll(c, "OUT", qt.queued)
      /\ UNCHANGED <<job, work, run, open, ctl, source, sets, sequence, pend,
                     rows, frames, asked>>
  BY <1>1, <1>2 DEF StreamOnFails, With, ctxVars, rowVars, jobVars, Queues
<1>4. /\ Types /\ q \in QueuesType /\ qt \in QueueType
      /\ job \in JobType
      /\ Jobs(job, q) /\ Runs(job, run, q) /\ Owners(run, q) /\ Closed(open, q)
      /\ Places(qt, Gone(run, c, "OUT"))
  BY <1>1, <1>3 DEF Shape, Types, QueuesType, Owners
<1>5. /\ n \in QueueType /\ Places(n, Gone(run, c, "OUT")) /\ ~n.on
      /\ n.ready = qt.ready \o qt.queued
  BY <1>2, <1>3, <1>4, StartFailsOk
<1>6. qt.queued \in Seq(Index)
  BY <1>4 DEF QueueType
<1>7. PICK P : P = q'
  OBVIOUS
<1>8. P \in QueuesType
  BY <1>3, <1>4, <1>5, <1>7, OneQueue
<1>9. /\ Jobs(job, P) /\ Runs(job, run, P) /\ Owners(run, P) /\ Closed(open, P)
  BY <1>1, <1>3, <1>4, <1>5, <1>6, <1>7, Appended
<1>10. stamp' \in [Ctxs -> [Index -> StampType]]
  BY <1>3, <1>4, StampAllOk
<1>11. Types'
  BY <1>3, <1>4, <1>7, <1>8, <1>10 DEF Types
<1> QED
  BY <1>3, <1>7, <1>9, <1>11 DEF Shape

LEMMA DQBufShape ==
  ASSUME Shape, NEW c \in Ctxs, NEW t \in Queues, DQBuf(c, t)
  PROVE  Shape'
<1>1. PICK qt : qt = q[c][t]
  OBVIOUS
<1>2. PICK n, i : n = [qt EXCEPT !.done = Tail(@)] /\ i = Head(qt.done)
  OBVIOUS
<1>3. /\ c \in open /\ qt.on /\ qt.done # << >>
      /\ q' = With(q, c, t, n)
      /\ BufFinish(c, IF t = "CAP" THEN {i} ELSE {})
      /\ Forget(c, t, {i})
      /\ UNCHANGED <<job, work, run, open, ctl, source, sets, sequence>>
  BY <1>1, <1>2 DEF DQBuf, With, ctxVars, jobVars
<1>4. /\ Types /\ q \in QueuesType /\ qt \in QueueType
      /\ job \in JobType
      /\ Jobs(job, q) /\ Runs(job, run, q) /\ Owners(run, q) /\ Closed(open, q)
      /\ Places(qt, Gone(run, c, t))
  BY <1>1 DEF Shape, Types, QueuesType, Owners
<1>5. /\ n \in QueueType /\ Places(n, Gone(run, c, t)) /\ n.on
      /\ n.ready = qt.ready /\ i \in Index
  BY <1>2, <1>3, <1>4, DequeueOk
<1>6. n.ready = qt.ready \o << >> /\ << >> \in Seq(Index)
  <2>1. qt.ready \in Seq(Index)
    BY <1>4 DEF QueueType
  <2> QED
    BY <1>5, <2>1
<1>7. PICK P : P = q'
  OBVIOUS
<1>8. P \in QueuesType
  BY <1>3, <1>4, <1>5, <1>7, OneQueue
<1>9. /\ Jobs(job, P) /\ Runs(job, run, P) /\ Owners(run, P) /\ Closed(open, P)
  BY <1>1, <1>3, <1>4, <1>5, <1>6, <1>7, Appended
<1>10. /\ stamp' \in [Ctxs -> [Index -> StampType]]
       /\ asked' \in [Ctxs -> [Index -> Asked]] /\ frames' = frames
  BY <1>3, <1>4, ForgetOk
<1>11. /\ pend' \in [Ctxs -> [Index -> Row \cup {NoRow}]]
       /\ rows' \in Seq(Row)
  <2>1. (IF t = "CAP" THEN {i} ELSE {}) \in SUBSET Index
    BY <1>5
  <2> QED
    BY <1>3, <1>4, <2>1, BufFinishOk
<1>12. Types'
  BY <1>3, <1>4, <1>7, <1>8, <1>10, <1>11 DEF Types
<1> QED
  BY <1>3, <1>7, <1>9, <1>12 DEF Shape

(* REQBUFS and STREAMOFF, and close for both queues, reset a queue. *)
LEMMA ResetOk ==
  ASSUME NEW r \in Seq(Index), NEW b \in BOOLEAN
  PROVE  LET n == [Unused EXCEPT !.alloc = b, !.ready = r] IN
         /\ n \in QueueType /\ Places(n, {}) /\ ~n.on /\ n.ready = r
         /\ n.owned = {} /\ n.done = << >> /\ n.queued = << >>
<1> DEFINE n == [Unused EXCEPT !.alloc = b, !.ready = r]
<1>1. /\ n \in QueueType /\ ~n.on /\ n.ready = r /\ n.owned = {}
      /\ n.done = << >> /\ n.queued = << >>
  BY UnusedOk DEF QueueType
<1> HIDE DEF n
<1>2. Places(n, {})
  BY <1>1, EmptySequence DEF Places
<1> QED
  BY <1>1, <1>2 DEF n

LEMMA ReqBufsShape ==
  ASSUME Orderly, Shape, NEW c \in Ctxs, NEW t \in Queues, NEW b \in BOOLEAN,
         ReqBufs(c, t, b)
  PROVE  Shape'
<1>1. PICK qt : qt = q[c][t]
  OBVIOUS
<1>2. PICK n : n = [Unused EXCEPT !.alloc = b, !.ready = qt.ready]
  OBVIOUS
<1>3. /\ c \in open /\ ~qt.on
      /\ q' = With(q, c, t, n)
      /\ FinishQueue(c, t) /\ Forget(c, t, Index)
      /\ UNCHANGED <<job, work, run, open, ctl, source, sets, sequence>>
  BY <1>1, <1>2 DEF ReqBufs, With, ctxVars, jobVars
<1>4. /\ Types /\ q \in QueuesType /\ qt \in QueueType
      /\ job \in JobType
      /\ Jobs(job, q) /\ Runs(job, run, q) /\ Owners(run, q) /\ Closed(open, q)
  BY <1>1 DEF Shape, Types, QueuesType
<1>5. job.curr # c /\ c \notin Range(job.queue)
  BY <1>1, <1>3, <1>4 DEF Jobs, Both, Queues
<1>6. /\ \A e \in Executors : run[e].ctx # c
      /\ \A u \in Queues : Gone(run, c, u) = {}
  BY <1>4, <1>5, GoneNone
<1>7. n \in QueueType /\ Places(n, {})
  <2>1. qt.ready \in Seq(Index)
    BY <1>4 DEF QueueType
  <2> QED
    BY <1>2, <2>1, ResetOk
<1>8. PICK P : P = q'
  OBVIOUS
<1>9. /\ P \in QueuesType /\ P[c][t] = n
      /\ \A u \in Queues \ {t} : P[c][u] = q[c][u]
      /\ \A d \in Ctxs \ {c} : P[d] = q[d]
  BY <1>3, <1>4, <1>7, <1>8, OneQueue
<1>10. \A u \in Queues : Places(P[c][u], {})
  BY <1>4, <1>6, <1>7, <1>9 DEF Owners
<1>11. IsInjective(job.queue) /\ Range(job.queue) \subseteq Range(job.queue) \ {c}
  BY <1>4, <1>5 DEF Jobs
<1>12. Jobs(job, P) /\ Runs(job, run, P) /\ Owners(run, P)
  BY <1>4, <1>5, <1>6, <1>9, <1>10, <1>11, Restarted
<1>13. Closed(open, P)
  BY <1>3, <1>4, <1>9 DEF Closed
<1>14. /\ stamp' \in [Ctxs -> [Index -> StampType]]
       /\ asked' \in [Ctxs -> [Index -> Asked]] /\ frames' = frames
  BY <1>3, <1>4, ForgetOk
<1>15. /\ pend' \in [Ctxs -> [Index -> Row \cup {NoRow}]]
       /\ rows' \in Seq(Row)
  <2>1. PICK S : S = IF t = "CAP" THEN Held(q[c][t]) ELSE {}
    OBVIOUS
  <2>2. S \in SUBSET Index /\ BufFinish(c, S)
    BY <1>3, <1>4, <2>1, FinishQueueOk
  <2> QED
    BY <1>4, <2>2, BufFinishOk
<1>16. Types'
  BY <1>3, <1>4, <1>8, <1>9, <1>14, <1>15 DEF Types
<1> QED
  BY <1>3, <1>8, <1>12, <1>13, <1>16 DEF Shape

LEMMA StreamOffShape ==
  ASSUME Orderly, Shape, NEW c \in Ctxs, NEW t \in Queues, StreamOff(c, t)
  PROVE  Shape'
<1>1. PICK n : n = [Unused EXCEPT !.alloc = TRUE, !.ready = << >>]
  OBVIOUS
<1>2. n = [Unused EXCEPT !.alloc = TRUE]
  BY <1>1, UnusedOk DEF QueueType
<1>3. /\ c \in open
      /\ q' = With(q, c, t, n)
      /\ job' = CancelJob(job, c) /\ work' = (work \/ job.curr = c)
      /\ FinishQueue(c, t) /\ Forget(c, t, Index)
      /\ UNCHANGED <<run, open, ctl, sets, sequence>>
  BY <1>2 DEF StreamOff, With
<1>4. /\ Types /\ q \in QueuesType /\ job \in JobType
      /\ Jobs(job, q) /\ Runs(job, run, q) /\ Owners(run, q) /\ Closed(open, q)
  BY DEF Shape, Types
<1>5. \A e \in Executors : run[e].ctx # c
  BY DEF StreamOff, Quiet, Running, Orderly
<1>6. PICK k : k = CancelJob(job, c)
  OBVIOUS
<1>7. /\ k \in JobType /\ IsInjective(k.queue)
      /\ k.curr = IF job.curr = c THEN NoCtx ELSE job.curr
      /\ Range(k.queue) \subseteq Range(job.queue) \ {c}
      /\ \A d \in Ctxs \ {c} : k.flags[d] = job.flags[d]
  BY <1>4, <1>6, CancelOk DEF Jobs
<1>8. n \in QueueType /\ Places(n, {})
  <2>1. << >> \in Seq(Index)
    OBVIOUS
  <2> QED
    BY <1>1, <2>1, ResetOk
<1>9. PICK P : P = q'
  OBVIOUS
<1>10. /\ P \in QueuesType /\ P[c][t] = n
       /\ \A u \in Queues \ {t} : P[c][u] = q[c][u]
       /\ \A d \in Ctxs \ {c} : P[d] = q[d]
  BY <1>3, <1>4, <1>8, <1>9, OneQueue
<1>11. \A u \in Queues : Gone(run, c, u) = {}
  BY <1>5 DEF Gone
<1>12. \A u \in Queues : Places(P[c][u], {})
  BY <1>4, <1>8, <1>10, <1>11 DEF Owners
<1>13. Jobs(k, P) /\ Runs(k, run, P) /\ Owners(run, P)
  BY <1>4, <1>5, <1>7, <1>10, <1>12, Restarted
<1>14. Closed(open, P)
  BY <1>3, <1>4, <1>10 DEF Closed
<1>15. /\ stamp' \in [Ctxs -> [Index -> StampType]]
       /\ asked' \in [Ctxs -> [Index -> Asked]] /\ frames' = frames
  BY <1>3, <1>4, ForgetOk
<1>16. /\ pend' \in [Ctxs -> [Index -> Row \cup {NoRow}]]
       /\ rows' \in Seq(Row)
  <2>1. PICK S : S = IF t = "CAP" THEN Held(q[c][t]) ELSE {}
    OBVIOUS
  <2>2. S \in SUBSET Index /\ BufFinish(c, S)
    BY <1>3, <1>4, <2>1, FinishQueueOk
  <2> QED
    BY <1>4, <2>2, BufFinishOk
<1>17. source' \in [Ctxs -> [id : Backends, started : BOOLEAN]]
  BY <1>4 DEF StreamOff, Types
<1>18. work' \in BOOLEAN
  BY <1>3
<1>19. Types'
  BY <1>3, <1>4, <1>6, <1>7, <1>9, <1>10, <1>15, <1>16, <1>17, <1>18 DEF Types
<1> QED
  BY <1>3, <1>6, <1>9, <1>13, <1>14, <1>19 DEF Shape

LEMMA ReleaseShape ==
  ASSUME Orderly, Shape, NEW c \in Ctxs, Release(c)
  PROVE  Shape'
<1>1. /\ open' = open \ {c}
      /\ q' = [q EXCEPT ![c] = [t \in Queues |-> Unused]]
      /\ job' = CancelJob(job, c) /\ work' = (work \/ job.curr = c)
      /\ FinishQueue(c, "CAP") /\ Forget(c, "OUT", Index)
      /\ source' = [source EXCEPT ![c] = Fixture]
      /\ ctl' = [ctl EXCEPT ![c] = 0]
      /\ UNCHANGED <<run, sets, sequence>>
  BY DEF Release
<1>2. /\ Types /\ q \in QueuesType /\ job \in JobType
      /\ Jobs(job, q) /\ Runs(job, run, q) /\ Owners(run, q) /\ Closed(open, q)
  BY DEF Shape, Types
<1>3. \A e \in Executors : run[e].ctx # c
  BY DEF Release, Quiet, Running, Orderly
<1>4. PICK k : k = CancelJob(job, c)
  OBVIOUS
<1>5. /\ k \in JobType /\ IsInjective(k.queue)
      /\ k.curr = IF job.curr = c THEN NoCtx ELSE job.curr
      /\ Range(k.queue) \subseteq Range(job.queue) \ {c}
      /\ \A d \in Ctxs \ {c} : k.flags[d] = job.flags[d]
  BY <1>2, <1>4, CancelOk DEF Jobs
<1>6. PICK P : P = q'
  OBVIOUS
<1>7. Unused \in QueueType /\ Places(Unused, {})
  BY UnusedOk
<1>8. /\ P \in QueuesType /\ P[c] = [t \in Queues |-> Unused]
      /\ \A d \in Ctxs \ {c} : P[d] = q[d]
  BY <1>1, <1>2, <1>6, <1>7 DEF QueuesType
<1>9. \A u \in Queues : Places(P[c][u], {})
  BY <1>7, <1>8
<1>10. Jobs(k, P) /\ Runs(k, run, P) /\ Owners(run, P)
  BY <1>2, <1>3, <1>5, <1>8, <1>9, Restarted
<1>11. Closed(open', P)
  BY <1>1, <1>2, <1>8 DEF Closed
<1>12. /\ stamp' \in [Ctxs -> [Index -> StampType]]
       /\ asked' \in [Ctxs -> [Index -> Asked]] /\ frames' = frames
  BY <1>1, <1>2, ForgetOk DEF Queues
<1>13. /\ pend' \in [Ctxs -> [Index -> Row \cup {NoRow}]]
       /\ rows' \in Seq(Row)
  <2>1. "CAP" \in Queues
    BY DEF Queues
  <2>2. PICK S : S = Held(q[c]["CAP"])
    OBVIOUS
  <2>3. S \in SUBSET Index /\ BufFinish(c, S)
    BY <1>1, <1>2, <2>1, <2>2, FinishQueueOk
  <2> QED
    BY <1>2, <2>3, BufFinishOk
<1>14. /\ source' \in [Ctxs -> [id : Backends, started : BOOLEAN]]
       /\ ctl' \in [Ctxs -> Ctls] /\ open' \subseteq Ctxs
  BY <1>1, <1>2, M2MAssumption DEF Types, Fixture
<1>15. work' \in BOOLEAN
  BY <1>1
<1>16. Types'
  BY <1>1, <1>2, <1>4, <1>5, <1>6, <1>8, <1>12, <1>13, <1>14, <1>15 DEF Types
<1> QED
  BY <1>1, <1>4, <1>6, <1>10, <1>11, <1>16 DEF Shape

(* A device_run is that of the current job, on a streaming context. *)
LEMMA Active ==
  ASSUME Shape, NEW e \in Executors, run[e].at # "off"
  PROVE  /\ run[e] \in RunType /\ run[e].ctx \in Ctxs /\ run[e].ctx = job.curr
         /\ Both(q[run[e].ctx]) /\ Pair(run[e], q[run[e].ctx])
         /\ \A f \in Executors \ {e} : run[f] = Off
         /\ run[e].at # "give" =>
              \A d \in Ctxs, t \in Queues : Gone(run, d, t) = {}
         /\ run[e].at = "give" =>
              \A d \in Ctxs, t \in Queues :
                Gone(run, d, t) = IF d # run[e].ctx THEN {}
                                  ELSE IF t = "OUT" THEN {run[e].srcOut}
                                  ELSE {run[e].dstOut}
<1>1. Runs(job, run, q) /\ Jobs(job, q) /\ run[e] \in RunType
  BY DEF Shape, Types
<1>2. /\ run[e].ctx \in Ctxs /\ run[e].ctx = job.curr
      /\ Pair(run[e], q[run[e].ctx])
      /\ \A f \in Executors \ {e} : run[f] = Off
  BY <1>1 DEF Runs
<1>3. Both(q[run[e].ctx])
  BY <1>1, <1>2 DEF Jobs
<1>4. \A f \in Executors : run[f].at = "give" => f = e
  BY <1>2, OffType
<1>5. run[e].at # "give" => \A d \in Ctxs, t \in Queues : Gone(run, d, t) = {}
  BY <1>4 DEF Gone
<1>6. run[e].at = "give" =>
        \A d \in Ctxs, t \in Queues :
          Gone(run, d, t) = IF d # run[e].ctx THEN {}
                            ELSE IF t = "OUT" THEN {run[e].srcOut}
                            ELSE {run[e].dstOut}
  BY <1>4 DEF Gone
<1> QED
  BY <1>1, <1>2, <1>3, <1>5, <1>6

(* RunPick takes the heads of both lists, or gives up. *)
LEMMA PickOk ==
  ASSUME Shape, NEW e \in Executors, RunPick(e)
  PROVE  LET c == run[e].ctx IN
         /\ \A f \in Executors \ {e} : run'[f] = run[f]
         /\ run' \in [Executors -> RunType]
         /\ \/ run'[e] = Off
            \/ /\ run'[e].at = "remove" /\ run'[e].ctx = c
               /\ q[c]["OUT"].ready # << >> /\ q[c]["CAP"].ready # << >>
               /\ run'[e].src = Head(q[c]["OUT"].ready)
               /\ run'[e].dst = Head(q[c]["CAP"].ready)
               /\ run'[e].asked = asked[c][run'[e].src]
<1>1. PICK c, r : c = run[e].ctx /\ r = run[e]
  OBVIOUS
<1>2. r.at = "pick" /\ r \in RunType /\ c \in Ctxs
  BY <1>1, Active DEF RunPick
<1>3. PICK bad \in BOOLEAN :
        run' = [run EXCEPT ![e] =
            IF ~Paired(c) THEN Off
            ELSE [r EXCEPT !.at = "remove", !.bad = bad,
                   !.asked = asked[c][Head(Ready(c, "OUT"))],
                   !.src = Head(Ready(c, "OUT")), !.dst = Head(Ready(c, "CAP"))]]
  BY <1>1 DEF RunPick
<1>4. run \in [Executors -> RunType]
  BY DEF Shape, Types
<1>5. CASE ~Paired(c)
  BY <1>3, <1>4, <1>5, OffType
<1>6. CASE Paired(c)
  <2> DEFINE s == Head(Ready(c, "OUT"))
             d == Head(Ready(c, "CAP"))
             a == asked[c][s]
             n == [r EXCEPT !.at = "remove", !.bad = bad, !.asked = a,
                            !.src = s, !.dst = d]
  <2>1. run' = [run EXCEPT ![e] = n]
    BY <1>3, <1>6
  <2>2. Ready(c, "OUT") # << >> /\ Ready(c, "CAP") # << >>
    BY <1>6 DEF Paired, Queues
  <2>3. Ready(c, "OUT") \in Seq(Index) /\ Ready(c, "CAP") \in Seq(Index)
    BY <1>2 DEF Ready, Shape, Types, QueuesType, QueueType, Queues
  <2>4. s \in Index /\ d \in Index
    BY <2>2, <2>3, HeadTail
  <2>5. a \in Asked
    BY <1>2, <2>4 DEF Shape, Types
  <2> HIDE DEF s, d, a
  <2>6. /\ n \in RunType /\ n.at = "remove" /\ n.ctx = r.ctx /\ n.src = s
        /\ n.dst = d /\ n.asked = a
    BY <1>2, <2>4, <2>5 DEF RunType
  <2> HIDE DEF n
  <2>7. /\ run' \in [Executors -> RunType] /\ run'[e] = n
        /\ \A f \in Executors \ {e} : run'[f] = run[f]
    BY <1>4, <2>1, <2>6
  <2>8. /\ s = Head(q[c]["OUT"].ready) /\ d = Head(q[c]["CAP"].ready)
        /\ q[c]["OUT"].ready # << >> /\ q[c]["CAP"].ready # << >>
        /\ a = asked[c][s]
    BY <2>2 DEF Ready, s, d, a
  <2> QED
    BY <1>1, <2>6, <2>7, <2>8
<1> QED
  BY <1>5, <1>6

LEMMA RunPickShape ==
  ASSUME Shape, NEW e \in Executors, RunPick(e)
  PROVE  Shape'
<1>1. PICK c : c = run[e].ctx
  OBVIOUS
<1>2. /\ run[e].at = "pick"
      /\ UNCHANGED <<job, work, open, ctl, source, sets, q, sequence, pend,
                     rows, stamp, frames, asked>>
  BY DEF RunPick, ctxVars, rowVars, stampVars
<1>3. /\ c \in Ctxs /\ c = job.curr
      /\ \A f \in Executors \ {e} : run[f] = Off
  BY <1>1, <1>2, Active
<1>4. /\ \A f \in Executors \ {e} : run'[f] = Off
      /\ run' \in [Executors -> RunType]
      /\ \/ run'[e] = Off
         \/ /\ run'[e].at = "remove" /\ run'[e].ctx = c
            /\ q[c]["OUT"].ready # << >> /\ q[c]["CAP"].ready # << >>
            /\ run'[e].src = Head(q[c]["OUT"].ready)
            /\ run'[e].dst = Head(q[c]["CAP"].ready)
  BY <1>1, <1>3, PickOk
<1>5. run'[e] = Off \/ (run'[e].at = "remove" /\ Pair(run'[e], q[c]))
  BY <1>4 DEF Pair
<1>6. Runs(job, run', q)
  BY <1>3, <1>4, <1>5, OffType DEF Runs
<1>7. Owners(run', q)
  <2>1. \A f \in Executors :
          run'[f] = run[f] \/ (run[f].at # "give" /\ run'[f].at # "give")
    BY <1>2, <1>3, <1>4, OffType
  <2> QED
    BY <2>1, OwnersKept DEF Shape
<1>8. Types'
  BY <1>2, <1>4 DEF Shape, Types
<1> QED
  BY <1>2, <1>6, <1>7, <1>8 DEF Shape

(* RunRemove takes the pair that was picked off both lists. *)
LEMMA RemoveOk ==
  ASSUME Shape, NEW e \in Executors, RunRemove(e)
  PROVE  LET c == run[e].ctx  r == run[e] IN
         /\ \A f \in Executors \ {e} : run'[f] = run[f]
         /\ run' \in [Executors -> RunType]
         /\ run'[e].at = "give" /\ run'[e].ctx = c /\ run'[e].asked = r.asked
         /\ run'[e].src = r.src /\ run'[e].dst = r.dst
         /\ run'[e].srcOut = r.src /\ run'[e].dstOut = r.dst
         /\ r.src \in Index /\ r.dst \in Index
         /\ q' \in QueuesType /\ \A d \in Ctxs \ {c} : q'[d] = q[d]
         /\ \A t \in Queues :
              /\ Places(q'[c][t], {IF t = "OUT" THEN r.src ELSE r.dst})
              /\ q'[c][t].on /\ q'[c][t].alloc = q[c][t].alloc
              /\ q'[c][t].queued = q[c][t].queued
              /\ q'[c][t].done = q[c][t].done
              /\ q'[c][t].owned = q[c][t].owned
              /\ q[c][t].ready \in Seq(Index) /\ q[c][t].ready # << >>
              /\ q'[c][t].ready = Tail(q[c][t].ready)
<1>1. PICK c, r : c = run[e].ctx /\ r = run[e]
  OBVIOUS
<1>2. /\ r.at = "remove"
      /\ q' = [q EXCEPT ![c] = [t \in Queues |-> BufRemove(q[c][t])]]
  BY <1>1 DEF RunRemove
<1>3. /\ r \in RunType /\ c \in Ctxs /\ Both(q[c]) /\ Pair(r, q[c])
      /\ \A t \in Queues : Gone(run, c, t) = {}
  BY <1>1, <1>2, Active
<1>4. /\ q[c]["OUT"].ready # << >> /\ r.src = Head(q[c]["OUT"].ready)
      /\ q[c]["CAP"].ready # << >> /\ r.dst = Head(q[c]["CAP"].ready)
  BY <1>2, <1>3 DEF Pair
<1>5. \A t \in Queues :
        /\ q[c][t] \in QueueType /\ q[c][t].on /\ q[c][t].ready # << >>
        /\ Places(q[c][t], {}) /\ q[c][t].ready \in Seq(Index)
  <2>1. \A t \in Queues : q[c][t] \in QueueType
    BY <1>3 DEF Shape, Types, QueuesType
  <2>2. \A t \in Queues : q[c][t].ready \in Seq(Index)
    BY <2>1 DEF QueueType
  <2>3. \A t \in Queues : q[c][t].on /\ q[c][t].ready # << >>
    BY <1>3, <1>4 DEF Both, Queues
  <2>4. \A t \in Queues : Places(q[c][t], Gone(run, c, t))
    BY <1>3 DEF Shape, Owners
  <2>5. \A t \in Queues : Places(q[c][t], {})
    BY <1>3, <2>4
  <2> QED
    BY <2>1, <2>2, <2>3, <2>5
<1>6. \A t \in Queues :
        LET n == BufRemove(q[c][t]) IN
        /\ n \in QueueType /\ Places(n, {Head(q[c][t].ready)})
        /\ n.on /\ n.alloc = q[c][t].alloc
        /\ n.queued = q[c][t].queued /\ n.done = q[c][t].done
        /\ n.owned = q[c][t].owned
        /\ n.ready = Tail(q[c][t].ready) /\ Head(q[c][t].ready) \in Index
  <2> SUFFICES ASSUME NEW t \in Queues
               PROVE  LET n == BufRemove(q[c][t]) IN
                      /\ n \in QueueType /\ Places(n, {Head(q[c][t].ready)})
                      /\ n.on /\ n.alloc = q[c][t].alloc
                      /\ n.queued = q[c][t].queued /\ n.done = q[c][t].done
                      /\ n.owned = q[c][t].owned
                      /\ n.ready = Tail(q[c][t].ready)
                      /\ Head(q[c][t].ready) \in Index
    OBVIOUS
  <2> QED
    BY <1>5, BufRemoveOk
<1> DEFINE g == [t \in Queues |-> BufRemove(q[c][t])]
<1>7. g \in [Queues -> QueueType] /\ \A t \in Queues : g[t] = BufRemove(q[c][t])
  BY <1>6
<1>8. q' = [q EXCEPT ![c] = g]
  BY <1>2
<1> HIDE DEF g
<1>9. /\ q' \in QueuesType /\ \A d \in Ctxs \ {c} : q'[d] = q[d]
      /\ q'[c] = g
  BY <1>3, <1>7, <1>8 DEF Shape, Types, QueuesType
<1>10. \A t \in Queues :
         Head(q[c][t].ready) = IF t = "OUT" THEN r.src ELSE r.dst
  BY <1>4 DEF Queues
<1>11. \A t \in Queues :
         /\ Places(q'[c][t], {IF t = "OUT" THEN r.src ELSE r.dst})
         /\ q'[c][t].on /\ q'[c][t].alloc = q[c][t].alloc
         /\ q'[c][t].queued = q[c][t].queued
         /\ q'[c][t].done = q[c][t].done
         /\ q'[c][t].owned = q[c][t].owned
         /\ q'[c][t].ready = Tail(q[c][t].ready)
  BY <1>6, <1>7, <1>9, <1>10
<1>12. r.src \in Index /\ r.dst \in Index
  BY <1>4, <1>6 DEF Queues
<1> DEFINE n == [r EXCEPT !.at = "give", !.srcOut = r.src, !.dstOut = r.dst]
<1>13. run' = [run EXCEPT ![e] = n]
  <2>1. Paired(c) /\ Head(Ready(c, "OUT")) = r.src /\ Head(Ready(c, "CAP")) = r.dst
    BY <1>4 DEF Paired, Ready, Queues
  <2> QED
    BY <1>1, <2>1 DEF RunRemove
<1>14. /\ n \in RunType /\ n.at = "give" /\ n.ctx = r.ctx /\ n.asked = r.asked
       /\ n.src = r.src /\ n.dst = r.dst /\ n.srcOut = r.src /\ n.dstOut = r.dst
  BY <1>3, <1>12 DEF RunType
<1> HIDE DEF n
<1>15. /\ run' \in [Executors -> RunType] /\ run'[e] = n
       /\ \A f \in Executors \ {e} : run'[f] = run[f]
  BY <1>13, <1>14 DEF Shape, Types
<1> QED
  BY <1>1, <1>5, <1>9, <1>11, <1>12, <1>14, <1>15

LEMMA RunRemoveShape ==
  ASSUME Shape, NEW e \in Executors, RunRemove(e)
  PROVE  Shape'
<1>1. PICK c, r : c = run[e].ctx /\ r = run[e]
  OBVIOUS
<1>2. /\ r.at = "remove"
      /\ UNCHANGED <<job, work, open, ctl, source, sets, sequence, pend,
                     rows, stamp, frames, asked>>
  BY <1>1 DEF RunRemove, ctxVars, rowVars, stampVars
<1>3. /\ c \in Ctxs /\ c = job.curr /\ Both(q[c])
      /\ \A f \in Executors \ {e} : run[f] = Off
      /\ \A d \in Ctxs, t \in Queues : Gone(run, d, t) = {}
  BY <1>1, <1>2, Active
<1>4. PICK R, P : R = run' /\ P = q'
  OBVIOUS
<1>5. /\ \A f \in Executors \ {e} : R[f] = Off
      /\ R \in [Executors -> RunType]
      /\ R[e].at = "give" /\ R[e].ctx = c
      /\ R[e].src = r.src /\ R[e].dst = r.dst
      /\ R[e].srcOut = r.src /\ R[e].dstOut = r.dst
      /\ r.src \in Index /\ r.dst \in Index
      /\ P \in QueuesType /\ \A d \in Ctxs \ {c} : P[d] = q[d]
      /\ \A t \in Queues :
           /\ Places(P[c][t], {IF t = "OUT" THEN r.src ELSE r.dst})
           /\ P[c][t].on
  BY <1>1, <1>3, <1>4, RemoveOk, ZenonT(40)
<1>6. Jobs(job, P)
  <2>1. \A d \in Ctxs : Both(q[d]) => Both(P[d])
    BY <1>5 DEF Both, Queues
  <2> QED
    BY <2>1, JobsKept DEF Shape, Types, JobType
<1>7. Runs(job, R, P)
  <2>1. Pair(R[e], P[c])
    BY <1>5 DEF Pair
  <2> QED
    BY <1>3, <1>5, <2>1, OffType DEF Runs
<1>8. \A f \in Executors : R[f].at = "give" <=> f = e
  BY <1>5, OffType
<1>9. \A t \in Queues : Gone(R, c, t) = {IF t = "OUT" THEN r.src ELSE r.dst}
  BY <1>5, <1>8 DEF Gone
<1>10. \A d \in Ctxs \ {c}, t \in Queues : Gone(R, d, t) = {}
  BY <1>5, <1>8 DEF Gone
<1>11. Owners(R, P)
  <2>1. \A d \in Ctxs, t \in Queues : Places(q[d][t], Gone(run, d, t))
    BY DEF Owners, Shape
  <2>2. \A d \in Ctxs \ {c}, t \in Queues : Places(P[d][t], Gone(R, d, t))
    BY <1>3, <1>5, <1>10, <2>1
  <2>3. \A t \in Queues : Places(P[c][t], Gone(R, c, t))
    BY <1>5, <1>9
  <2> QED
    BY <2>2, <2>3 DEF Owners
<1>12. Closed(open, P)
  <2>1. c \in open
    <3>1. ~Unused.on
      BY UnusedOk
    <3> QED
      BY <1>3, <3>1 DEF Shape, Closed, Both, Queues
  <2> QED
    BY <1>5, <2>1 DEF Shape, Closed
<1>13. Types'
  BY <1>2, <1>4, <1>5 DEF Shape, Types
<1> QED
  BY <1>2, <1>4, <1>6, <1>7, <1>11, <1>12, <1>13 DEF Shape

(* The buffer of queue t that r took. *)
Taken(r, t) == IF t = "OUT" THEN r.src ELSE r.dst

(* RunGive gives both buffers back, *)
LEMMA GiveOk ==
  ASSUME Shape, NEW e \in Executors, RunGive(e)
  PROVE  LET r == run[e]  c == r.ctx IN
         /\ \A f \in Executors \ {e} : run'[f] = run[f]
         /\ run' \in [Executors -> RunType]
         /\ run'[e].at = "finish" /\ run'[e].ctx = c
         /\ r.src \in Index /\ r.dst \in Index
         /\ q' \in QueuesType /\ \A d \in Ctxs \ {c} : q'[d] = q[d]
         /\ \A t \in Queues :
              /\ Places(q'[c][t], {})
              /\ q'[c][t].on /\ q'[c][t].alloc = q[c][t].alloc
              /\ q'[c][t].queued = q[c][t].queued
              /\ q'[c][t].ready = q[c][t].ready
              /\ q[c][t].done \in Seq(Index)
              /\ q'[c][t].done = Append(q[c][t].done, Taken(r, t))
              /\ q'[c][t].owned = q[c][t].owned \ {Taken(r, t)}
              /\ Taken(r, t) \in Index /\ Taken(r, t) \in q[c][t].owned
              /\ Taken(r, t) \notin Range(q[c][t].done)
<1>1. PICK c, r : c = run[e].ctx /\ r = run[e]
  OBVIOUS
<1>2. r.at = "give"
  BY <1>1 DEF RunGive
<1>3. /\ r \in RunType /\ c \in Ctxs /\ Both(q[c]) /\ Pair(r, q[c])
      /\ \A t \in Queues :
           Gone(run, c, t) = IF t = "OUT" THEN {r.srcOut} ELSE {r.dstOut}
  BY <1>1, <1>2, Active
<1>4. /\ r.srcOut = r.src /\ r.src \in Index
      /\ r.dstOut = r.dst /\ r.dst \in Index
  BY <1>2, <1>3 DEF Pair
<1>5. \A t \in Queues : Taken(r, t) \in Index /\ Gone(run, c, t) = {Taken(r, t)}
  BY <1>3, <1>4 DEF Taken
<1>6. \A t \in Queues :
        /\ q[c][t] \in QueueType /\ q[c][t].on
        /\ Places(q[c][t], {Taken(r, t)}) /\ q[c][t].done \in Seq(Index)
  <2>1. \A t \in Queues : q[c][t] \in QueueType
    BY <1>3 DEF Shape, Types, QueuesType
  <2>2. \A t \in Queues : q[c][t].done \in Seq(Index)
    BY <2>1 DEF QueueType
  <2>3. \A t \in Queues : q[c][t].on
    BY <1>3 DEF Both, Queues
  <2>4. \A t \in Queues : Places(q[c][t], Gone(run, c, t))
    BY <1>3 DEF Shape, Owners
  <2>5. \A t \in Queues : Places(q[c][t], {Taken(r, t)})
    BY <1>5, <2>4
  <2> QED
    BY <2>1, <2>2, <2>3, <2>5
<1> DEFINE n(t) == BufDone(q[c][t], Taken(r, t))
<1>7. \A t \in Queues :
        /\ n(t) \in QueueType /\ Places(n(t), {}) /\ n(t).on
        /\ n(t).alloc = q[c][t].alloc
        /\ n(t).queued = q[c][t].queued
        /\ n(t).done = Append(q[c][t].done, Taken(r, t))
        /\ n(t).owned = q[c][t].owned \ {Taken(r, t)} /\ n(t).ready = q[c][t].ready
        /\ Taken(r, t) \in q[c][t].owned /\ Taken(r, t) \notin Range(q[c][t].done)
  <2> SUFFICES ASSUME NEW t \in Queues
               PROVE  /\ n(t) \in QueueType /\ Places(n(t), {}) /\ n(t).on
                      /\ n(t).alloc = q[c][t].alloc
                      /\ n(t).queued = q[c][t].queued
                      /\ n(t).done = Append(q[c][t].done, Taken(r, t))
                      /\ n(t).owned = q[c][t].owned \ {Taken(r, t)}
                      /\ n(t).ready = q[c][t].ready
                      /\ Taken(r, t) \in q[c][t].owned
                      /\ Taken(r, t) \notin Range(q[c][t].done)
    OBVIOUS
  <2> QED
    BY <1>5, <1>6, BufDoneOk, ZenonT(40)
<1>8. q' = With(With(q, c, "OUT", n("OUT")), c, "CAP", n("CAP"))
  <2>1. /\ n("OUT") = BufDone(q[c]["OUT"], r.srcOut)
        /\ n("CAP") = BufDone(q[c]["CAP"], r.dstOut)
    BY <1>4 DEF Taken
  <2> HIDE DEF n
  <2> QED
    BY <1>1, <2>1 DEF RunGive, With
<1> HIDE DEF n
<1>9. /\ q' \in QueuesType /\ \A d \in Ctxs \ {c} : q'[d] = q[d]
      /\ q'[c]["OUT"] = n("OUT") /\ q'[c]["CAP"] = n("CAP")
  <2>1. /\ q \in QueuesType /\ "OUT" \in Queues /\ "CAP" \in Queues
    BY DEF Shape, Types, Queues
  <2>2. PICK a \in QueueType, b \in QueueType : a = n("OUT") /\ b = n("CAP")
    BY <1>7, <2>1
  <2>3. PICK P : P = With(q, c, "OUT", a)
    OBVIOUS
  <2>4. /\ P \in QueuesType /\ P[c]["OUT"] = a
        /\ \A d \in Ctxs \ {c} : P[d] = q[d]
    BY <1>3, <2>1, <2>3, OneQueue
  <2>5. PICK T : T = With(P, c, "CAP", b)
    OBVIOUS
  <2>6. /\ T \in QueuesType /\ T[c]["CAP"] = b /\ T[c]["OUT"] = P[c]["OUT"]
        /\ \A d \in Ctxs \ {c} : T[d] = P[d]
    <3>1. /\ T \in QueuesType /\ T[c]["CAP"] = b
          /\ \A d \in Ctxs, u \in Queues :
               <<d, u>> # <<c, "CAP">> => T[d][u] = P[d][u]
          /\ \A d \in Ctxs \ {c} : T[d] = P[d]
      <4>1. PICK w \in Queues : w = "CAP"
        BY <2>1
      <4>2. c \in Ctxs /\ P \in QueuesType /\ T = With(P, c, w, b)
        BY <1>3, <2>4, <2>5, <4>1
      <4>3. /\ T \in QueuesType /\ T[c][w] = b
            /\ \A d \in Ctxs, u \in Queues :
                 <<d, u>> # <<c, w>> => T[d][u] = P[d][u]
            /\ \A d \in Ctxs \ {c} : T[d] = P[d]
        BY ONLY <4>2, b \in QueueType, w \in Queues, OneQueue
      <4> QED
        BY <4>1, <4>3
    <3>2. <<c, "OUT">> # <<c, "CAP">>
      OBVIOUS
    <3> QED
      BY <1>3, <2>1, <3>1, <3>2
  <2>7. q' = T
    BY <1>8, <2>2, <2>3, <2>5
  <2> QED
    BY <2>2, <2>4, <2>6, <2>7
<1>10. \A t \in Queues :
         /\ Places(q'[c][t], {}) /\ q'[c][t].on
         /\ q'[c][t].alloc = q[c][t].alloc
         /\ q'[c][t].queued = q[c][t].queued
         /\ q'[c][t].ready = q[c][t].ready
         /\ q'[c][t].done = Append(q[c][t].done, Taken(r, t))
         /\ q'[c][t].owned = q[c][t].owned \ {Taken(r, t)}
         /\ Taken(r, t) \in q[c][t].owned /\ Taken(r, t) \notin Range(q[c][t].done)
  BY <1>7, <1>9, ZenonT(40) DEF Queues
<1> DEFINE m == [Off EXCEPT !.at = "finish", !.ctx = c, !.by = r.by, !.bad = r.bad]
<1>11. run' = [run EXCEPT ![e] = m]
  BY <1>1 DEF RunGive
<1>12. m \in RunType /\ m.at = "finish" /\ m.ctx = c
  <2>1. r.by \in Ctxs \cup {NoCtx} /\ r.bad \in BOOLEAN
    BY <1>3 DEF RunType
  <2> QED
    BY <1>3, <2>1, OffType DEF RunType
<1> HIDE DEF m
<1>13. /\ run' \in [Executors -> RunType] /\ run'[e] = m
       /\ \A f \in Executors \ {e} : run'[f] = run[f]
  BY <1>11, <1>12 DEF Shape, Types
<1> QED
  BY <1>1, <1>4, <1>5, <1>6, <1>9, <1>10, <1>12, <1>13, ZenonT(40)

(* and the row of a job that did not fail becomes pending in the CAPTURE   *)
(* buffer.                                                                 *)
LEMMA GiveRowOk ==
  ASSUME Shape, NEW e \in Executors, RunGive(e)
  PROVE  LET r == run[e] IN
         /\ \/ sequence' = sequence /\ pend' = pend
            \/ /\ sequence' = sequence + 1 /\ Meta(r) \in Row
               /\ \A d \in Ctxs, i \in Index :
                    pend'[d][i] = IF d = r.ctx /\ i = r.dst THEN Meta(r)
                                  ELSE pend[d][i]
         /\ pend' \in [Ctxs -> [Index -> Row \cup {NoRow}]]
<1>1. PICK c, r : c = run[e].ctx /\ r = run[e]
  OBVIOUS
<1>2. r.at = "give"
  BY <1>1 DEF RunGive
<1>3. r \in RunType /\ c \in Ctxs /\ Pair(r, q[c])
  BY <1>1, <1>2, Active
<1>4. r.src \in Index /\ r.dstOut = r.dst /\ r.dst \in Index
  BY <1>2, <1>3 DEF Pair
<1>5. pend \in [Ctxs -> [Index -> Row \cup {NoRow}]]
  BY DEF Shape, Types
<1>6. CASE r.bad
  <2>1. sequence' = sequence /\ pend' = pend
    BY <1>1, <1>6 DEF RunGive
  <2> QED
    BY <1>5, <2>1
<1>7. CASE ~r.bad
  <2> DEFINE g == [pend[c] EXCEPT ![r.dst] = Meta(r)]
  <2>1. sequence' = sequence + 1 /\ pend' = [pend EXCEPT ![c] = g]
    BY <1>1, <1>4, <1>7 DEF RunGive
  <2>2. Meta(r) \in Row
    <3>1. sequence + 1 \in Nat
      BY DEF Shape, Types
    <3>2. r.ctx \in Ctxs /\ r.asked \in Asked /\ stamp[r.ctx][r.src] \in StampType
      BY <1>1, <1>3, <1>4 DEF Shape, Types, RunType
    <3>3. /\ stamp[r.ctx][r.src].ctl \in Ctls
          /\ stamp[r.ctx][r.src].backend \in Backends \cup {"none"}
      BY <3>2 DEF StampType
    <3>4. PICK k : k = sequence + 1
      OBVIOUS
    <3>5. /\ k \in Nat /\ Meta(r) = [seq |-> k, ctx |-> r.ctx, asked |-> r.asked,
              ctl |-> stamp[r.ctx][r.src].ctl,
              backend |-> stamp[r.ctx][r.src].backend]
      BY <3>1, <3>4 DEF Meta
    <3> QED
      BY <3>2, <3>3, <3>5 DEF Row
  <2>3. /\ g \in [Index -> Row \cup {NoRow}]
        /\ \A i \in Index : g[i] = IF i = r.dst THEN Meta(r) ELSE pend[c][i]
    BY <1>3, <1>4, <1>5, <2>2
  <2> HIDE DEF g
  <2>4. /\ pend' \in [Ctxs -> [Index -> Row \cup {NoRow}]]
        /\ pend'[c] = g /\ \A d \in Ctxs \ {c} : pend'[d] = pend[d]
    BY <1>3, <1>5, <2>1, <2>3
  <2>5. \A d \in Ctxs, i \in Index :
          pend'[d][i] = IF d = c /\ i = r.dst THEN Meta(r) ELSE pend[d][i]
    BY <2>3, <2>4
  <2> QED
    BY <1>1, <2>1, <2>2, <2>4, <2>5
<1> QED
  BY <1>6, <1>7

LEMMA RunGiveShape ==
  ASSUME Shape, NEW e \in Executors, RunGive(e)
  PROVE  Shape'
<1>1. PICK c : c = run[e].ctx
  OBVIOUS
<1>2. /\ run[e].at = "give"
      /\ UNCHANGED <<job, work, open, ctl, source, sets, rows, stamp, frames, asked>>
  BY DEF RunGive, ctxVars, stampVars
<1>3. /\ c \in Ctxs /\ c = job.curr /\ Both(q[c])
      /\ \A f \in Executors \ {e} : run[f] = Off
      /\ \A d \in Ctxs \ {c}, t \in Queues : Gone(run, d, t) = {}
  BY <1>1, <1>2, Active
<1>4. PICK R, P : R = run' /\ P = q'
  OBVIOUS
<1>5. /\ \A f \in Executors \ {e} : R[f] = Off
      /\ R \in [Executors -> RunType]
      /\ R[e].at = "finish" /\ R[e].ctx = c
      /\ P \in QueuesType /\ \A d \in Ctxs \ {c} : P[d] = q[d]
      /\ \A t \in Queues : Places(P[c][t], {}) /\ P[c][t].on
  BY <1>1, <1>3, <1>4, GiveOk
<1>6. Jobs(job, P)
  <2>1. \A d \in Ctxs : Both(q[d]) => Both(P[d])
    BY <1>5 DEF Both, Queues
  <2> QED
    BY <2>1, JobsKept DEF Shape, Types, JobType
<1>7. Runs(job, R, P)
  <2>1. Pair(R[e], P[c])
    BY <1>5 DEF Pair
  <2> QED
    BY <1>3, <1>5, <2>1, OffType DEF Runs
<1>8. \A f \in Executors : R[f].at # "give"
  BY <1>5, OffType
<1>9. \A d \in Ctxs, t \in Queues : Gone(R, d, t) = {}
  BY <1>8 DEF Gone
<1>10. Owners(R, P)
  <2>1. \A d \in Ctxs, t \in Queues : Places(q[d][t], Gone(run, d, t))
    BY DEF Owners, Shape
  <2>2. \A d \in Ctxs \ {c}, t \in Queues : Places(P[d][t], Gone(R, d, t))
    BY <1>3, <1>5, <1>9, <2>1
  <2>3. \A t \in Queues : Places(P[c][t], Gone(R, c, t))
    BY <1>3, <1>5, <1>9
  <2> QED
    BY <2>2, <2>3 DEF Owners
<1>11. Closed(open, P)
  <2>1. c \in open
    <3>1. ~Unused.on
      BY UnusedOk
    <3> QED
      BY <1>3, <3>1 DEF Shape, Closed, Both, Queues
  <2> QED
    BY <1>5, <2>1 DEF Shape, Closed
<1>12. /\ pend' \in [Ctxs -> [Index -> Row \cup {NoRow}]]
       /\ sequence' = sequence \/ sequence' = sequence + 1
  BY GiveRowOk
<1>13. sequence' \in Nat
  BY <1>12 DEF Shape, Types
<1>14. Types'
  BY <1>2, <1>4, <1>5, <1>12, <1>13 DEF Shape, Types
<1> QED
  BY <1>2, <1>4, <1>6, <1>7, <1>10, <1>11, <1>14 DEF Shape

LEMMA RunFinishShape ==
  ASSUME Shape, NEW e \in Executors, RunFinish(e)
  PROVE  Shape'
<1>1. PICK c : c = run[e].ctx
  OBVIOUS
<1>2. /\ run[e].at = "finish" /\ run' = [run EXCEPT ![e] = Off]
      /\ UNCHANGED <<open, ctl, source, sets, q, sequence, pend, rows, stamp,
                     frames, asked>>
  BY DEF RunFinish, ctxVars, rowVars, stampVars
<1>3. /\ c \in Ctxs /\ c = job.curr /\ Both(q[c])
      /\ \A f \in Executors \ {e} : run[f] = Off
  BY <1>1, <1>2, Active
<1>4. job' = TryQueue(JobFinish(job, c), c, q[c]) /\ work' = TRUE
  BY <1>1, <1>3 DEF RunFinish
<1>5. PICK j : j = JobFinish(job, c)
  OBVIOUS
<1>6. /\ job \in JobType /\ Jobs(job, q) /\ run \in [Executors -> RunType]
  BY DEF Shape, Types
<1>7. /\ j \in JobType /\ IsInjective(j.queue) /\ j.curr = NoCtx
      /\ Range(j.queue) \subseteq Range(job.queue) /\ c \notin Range(j.queue)
      /\ \A d \in Ctxs \ {c} : j.flags[d] = job.flags[d]
  BY <1>3, <1>5, <1>6, FinishOk DEF Jobs
<1>8. Jobs(j, q)
  <2>1. \A d \in Range(j.queue) : d \in Ctxs \ {c} /\ d \in Range(job.queue)
    BY <1>7, RangeType DEF JobType
  <2> QED
    BY <1>6, <1>7, <2>1, M2MAssumption DEF Jobs
<1>9. job' \in JobType /\ Jobs(job', q)
  BY <1>3, <1>4, <1>5, <1>7, <1>8, TryQueueOk
<1>10. run' \in [Executors -> RunType] /\ \A f \in Executors : run'[f] = Off
  BY <1>2, <1>3, <1>6, OffType
<1>11. Runs(job', run', q)
  BY <1>10, OffType DEF Runs
<1>12. Owners(run', q)
  <2>1. \A f \in Executors :
          run'[f] = run[f] \/ (run[f].at # "give" /\ run'[f].at # "give")
    BY <1>2, <1>3, <1>10, OffType
  <2> QED
    BY <2>1, OwnersKept DEF Shape
<1>13. Types'
  BY <1>2, <1>4, <1>9, <1>10 DEF Shape, Types
<1> QED
  BY <1>2, <1>9, <1>11, <1>12, <1>13 DEF Shape

LEMMA NextShape == Orderly /\ Shape /\ [Next]_vars => Shape'
<1> SUFFICES ASSUME Orderly, Shape, [Next]_vars PROVE Shape'
  OBVIOUS
<1>1. CASE Work
  BY <1>1, WorkShape
<1>2. ASSUME NEW e \in Executors, DeviceRun(e) PROVE Shape'
  BY <1>2, RunPickShape, RunRemoveShape, RunGiveShape, RunFinishShape DEF DeviceRun
<1>3. ASSUME NEW c \in Ctxs,
             \/ Open(c) \/ Release(c) \/ StreamOnFails(c)
             \/ \E v \in Ctls : SetCtrl(c, v)
             \/ \E b \in Backends : SetBackend(c, b)
      PROVE  Shape'
  BY <1>3, OpenShape, ReleaseShape, StreamOnFailsShape, ControlShape
<1>4. ASSUME NEW c \in Ctxs, NEW t \in Queues,
             \/ StreamOn(c, t) \/ StreamOff(c, t) \/ DQBuf(c, t)
             \/ \E b \in BOOLEAN : ReqBufs(c, t, b)
             \/ \E i \in Index : QBuf(c, t, i)
      PROVE  Shape'
  BY <1>4, StreamOnShape, StreamOffShape, DQBufShape, ReqBufsShape, QBufShape
<1>5. CASE UNCHANGED vars
  BY <1>5 DEF vars, Shape, Types
<1> QED
  BY <1>1, <1>2, <1>3, <1>4, <1>5 DEF Next

(* Types, one job at a time, and every buffer of every queue in one place, *)
(* for any number of files: what vpipe_device_run and the ioctl handlers   *)
(* leave behind.                                                           *)
THEOREM ShapeHolds ==
  ASSUME Orderly
  PROVE  Spec => []Shape
<1>1. Orderly /\ Shape /\ [Next]_vars => Shape'
  BY NextShape
<1>2. Shape /\ [Next]_vars => Shape'
  BY <1>1
<1> QED
  BY <1>2, InitShape, PTL DEF Spec

(* On a streaming queue each buffer is in one place: waiting on the ready  *)
(* list or held by the running job while the driver owns it, else on the   *)
(* done list or with the program (vpipe_device_run removes a buffer before *)
(* it gives it back).                                                      *)
THEOREM BufferOwnershipHolds ==
  ASSUME Orderly
  PROVE  Spec => []BufferOwnership
<1>1. Shape => BufferOwnership
  <2>1. \A c \in Ctxs, t \in Queues : Removed(c, t) = Gone(run, c, t)
    BY DEF Removed, Gone
  <2>2. ASSUME Shape PROVE Owners(run, q)
    BY <2>2 DEF Shape
  <2> QED
    BY <2>1, <2>2 DEF Owners, Places, BufferOwnership
<1> QED
  BY <1>1, ShapeHolds, PTL
-----------------------------------------------------------------------------
(* The rows that exist, as a function of rows R and pending rows p. *)

Made(R, p) ==
  Range(R) \cup {p[b[1]][b[2]] : b \in {b \in Ctxs \X Index :
                                          p[b[1]][b[2]] # NoRow}}

LEMMA ProducedMade == Produced = Made(rows, pend) /\ Produced' = Made(rows', pend')
  BY DEF Produced, Made, Pending, PendingRow

LEMMA MadeHas ==
  ASSUME NEW R, NEW p
  PROVE  /\ \A r \in Made(R, p) :
              \/ r \in Range(R)
              \/ \E d \in Ctxs, i \in Index : p[d][i] # NoRow /\ r = p[d][i]
         /\ \A r \in Range(R) : r \in Made(R, p)
         /\ \A d \in Ctxs, i \in Index : p[d][i] # NoRow => p[d][i] \in Made(R, p)
<1>1. \A r \in Range(R) : r \in Made(R, p)
  BY DEF Made
<1>2. ASSUME NEW r \in Made(R, p), r \notin Range(R)
      PROVE  \E d \in Ctxs, i \in Index : p[d][i] # NoRow /\ r = p[d][i]
  <2>1. PICK b \in Ctxs \X Index : p[b[1]][b[2]] # NoRow /\ r = p[b[1]][b[2]]
    BY <1>2 DEF Made
  <2>2. b[1] \in Ctxs /\ b[2] \in Index
    OBVIOUS
  <2> QED
    BY <2>1, <2>2
<1>3. ASSUME NEW d \in Ctxs, NEW i \in Index, p[d][i] # NoRow
      PROVE  p[d][i] \in Made(R, p)
  <2>1. PICK b \in Ctxs \X Index : b = <<d, i>>
    OBVIOUS
  <2>2. b[1] = d /\ b[2] = i
    BY <2>1
  <2>3. p[b[1]][b[2]] # NoRow /\ p[b[1]][b[2]] = p[d][i]
    BY <1>3, <2>2
  <2> QED
    BY <2>3 DEF Made
<1> QED
  BY <1>1, <1>2, <1>3

(* vpipe_buf_finish makes no row and loses none. *)
LEMMA FinishMade ==
  ASSUME Types, NEW c \in Ctxs, NEW S \in SUBSET Index, BufFinish(c, S)
  PROVE  Produced' = Produced
<1>1. /\ rows \in Seq(Row) /\ pend \in [Ctxs -> [Index -> Row \cup {NoRow}]]
  BY DEF Types
<1>2. \A d \in Ctxs, i \in Index :
        pend'[d][i] = IF d = c /\ i \in S THEN NoRow ELSE pend[d][i]
  BY BufFinishOk
<1>3. PICK s \in Seq(Index), z \in Seq(Row) :
        /\ rows' = rows \o z
        /\ Len(z) = Len(s)
        /\ \A k \in 1 .. Len(s) : z[k] = pend[c][s[k]]
        /\ Range(s) = {i \in S : pend[c][i] # NoRow}
  BY BufFinishOk
<1>4. Range(rows') = Range(rows) \cup Range(z)
  BY <1>1, <1>3, RangeConcat
<1>5. \A r \in Range(z) : \E i \in S : pend[c][i] # NoRow /\ r = pend[c][i]
  <2> SUFFICES ASSUME NEW k \in 1 .. Len(z)
               PROVE  \E i \in S : pend[c][i] # NoRow /\ z[k] = pend[c][i]
    BY DEF Range
  <2>1. s[k] \in Range(s) /\ z[k] = pend[c][s[k]]
    BY <1>3 DEF Range
  <2> QED
    BY <1>3, <2>1
<1>6. \A i \in S : pend[c][i] # NoRow => pend[c][i] \in Range(z)
  <2> SUFFICES ASSUME NEW i \in S, pend[c][i] # NoRow
               PROVE  pend[c][i] \in Range(z)
    OBVIOUS
  <2>1. PICK k \in 1 .. Len(s) : s[k] = i
    BY <1>3 DEF Range
  <2>2. z[k] = pend[c][i] /\ k \in DOMAIN z
    BY <1>3, <2>1
  <2> QED
    BY <2>2 DEF Range
<1>7. ASSUME NEW r \in Made(rows, pend) PROVE r \in Made(rows', pend')
  <2>1. CASE r \in Range(rows)
    BY <1>4, <2>1, MadeHas
  <2>2. CASE \E d \in Ctxs, i \in Index : pend[d][i] # NoRow /\ r = pend[d][i]
    <3>1. PICK d \in Ctxs, i \in Index : pend[d][i] # NoRow /\ r = pend[d][i]
      BY <2>2
    <3>2. CASE d = c /\ i \in S
      <4>1. r \in Range(rows')
        BY <1>4, <1>6, <3>1, <3>2
      <4> QED
        BY <4>1, MadeHas
    <3>3. CASE ~(d = c /\ i \in S)
      <4>1. pend'[d][i] = r /\ pend'[d][i] # NoRow
        BY <1>2, <3>1, <3>3
      <4> QED
        BY <4>1, MadeHas
    <3> QED
      BY <3>2, <3>3
  <2> QED
    BY <2>1, <2>2, MadeHas
<1>8. ASSUME NEW r \in Made(rows', pend') PROVE r \in Made(rows, pend)
  <2>1. CASE r \in Range(rows')
    <3>1. CASE r \in Range(rows)
      BY <3>1, MadeHas
    <3>2. CASE r \in Range(z)
      BY <1>5, <3>2, MadeHas
    <3> QED
      BY <1>4, <2>1, <3>1, <3>2
  <2>2. CASE \E d \in Ctxs, i \in Index : pend'[d][i] # NoRow /\ r = pend'[d][i]
    <3>1. PICK d \in Ctxs, i \in Index : pend'[d][i] # NoRow /\ r = pend'[d][i]
      BY <2>2
    <3>2. pend[d][i] # NoRow /\ r = pend[d][i]
      BY <1>2, <3>1
    <3> QED
      BY <3>2, MadeHas
  <2> QED
    BY <2>1, <2>2, MadeHas
<1> QED
  BY <1>7, <1>8, ProducedMade

(* device_run makes at most the row of its frame. *)
LEMMA GiveMade ==
  ASSUME Shape, NEW e \in Executors, RunGive(e)
  PROVE  /\ sequence' = sequence => Produced' = Produced
         /\ \A r \in Produced' : r \in Produced \/ r = Meta(run[e])
<1>1. rows' = rows
  BY DEF RunGive
<1>2. \/ sequence' = sequence /\ pend' = pend
      \/ /\ sequence' = sequence + 1 /\ Meta(run[e]) \in Row
         /\ \A d \in Ctxs, i \in Index :
              pend'[d][i] = IF d = run[e].ctx /\ i = run[e].dst THEN Meta(run[e])
                            ELSE pend[d][i]
  BY GiveRowOk
<1>3. sequence \in Nat
  BY DEF Shape, Types
<1>4. CASE pend' = pend
  BY <1>1, <1>4, ProducedMade
<1>5. CASE /\ sequence' = sequence + 1
           /\ \A d \in Ctxs, i \in Index :
                pend'[d][i] = IF d = run[e].ctx /\ i = run[e].dst
                              THEN Meta(run[e]) ELSE pend[d][i]
  <2>1. sequence' # sequence
    BY <1>3, <1>5
  <2>2. ASSUME NEW r \in Made(rows', pend')
        PROVE  r \in Made(rows, pend) \/ r = Meta(run[e])
    <3>1. CASE r \in Range(rows')
      BY <1>1, <3>1, MadeHas
    <3>2. CASE \E d \in Ctxs, i \in Index : pend'[d][i] # NoRow /\ r = pend'[d][i]
      <4>1. PICK d \in Ctxs, i \in Index : pend'[d][i] # NoRow /\ r = pend'[d][i]
        BY <3>2
      <4>2. CASE d = run[e].ctx /\ i = run[e].dst
        BY <1>5, <4>1, <4>2
      <4>3. CASE ~(d = run[e].ctx /\ i = run[e].dst)
        <5>1. pend[d][i] # NoRow /\ r = pend[d][i]
          BY <1>5, <4>1, <4>3
        <5> QED
          BY <5>1, MadeHas
      <4> QED
        BY <4>2, <4>3
    <3> QED
      BY <3>1, <3>2, MadeHas
  <2> QED
    BY <2>1, <2>2, ProducedMade
<1> QED
  BY <1>2, <1>4, <1>5
-----------------------------------------------------------------------------
(* Stamps is an invariant. *)

(* The pair of a job is owned by the driver. *)
LEMMA TakenOwned ==
  ASSUME Shape, NEW e \in Executors, run[e].at \in {"remove", "give"}
  PROVE  /\ run[e].ctx \in Ctxs
         /\ \A t \in Queues : /\ Taken(run[e], t) \in Index
                              /\ Taken(run[e], t) \in q[run[e].ctx][t].owned
<1>1. PICK c, r : c = run[e].ctx /\ r = run[e]
  OBVIOUS
<1>2. /\ c \in Ctxs /\ Both(q[c]) /\ Pair(r, q[c])
  BY <1>1, Active
<1>3. ASSUME NEW t \in Queues
      PROVE  Taken(r, t) \in Index /\ Taken(r, t) \in q[c][t].owned
  <2>1. /\ q[c][t] \in QueueType /\ q[c][t].on
        /\ Places(q[c][t], Gone(run, c, t))
    BY <1>2 DEF Shape, Types, QueuesType, Owners, Both, Queues
  <2>2. /\ q[c][t].owned = Range(q[c][t].ready) \cup Gone(run, c, t)
        /\ q[c][t].ready \in Seq(Index)
    BY <2>1 DEF Places, QueueType
  <2>3. CASE r.at = "remove"
    <3>1. q[c][t].ready # << >> /\ Taken(r, t) = Head(q[c][t].ready)
      BY <1>2, <2>3 DEF Pair, Taken, Queues
    <3> QED
      BY <2>2, <3>1, HeadTail
  <2>4. CASE r.at = "give"
    <3>1. /\ r.srcOut = r.src /\ r.src \in Index
          /\ r.dstOut = r.dst /\ r.dst \in Index
      BY <1>2, <2>4 DEF Pair
    <3>2. Gone(run, c, t) = {IF t = "OUT" THEN r.srcOut ELSE r.dstOut}
      BY <1>1, <1>2, <2>4, Active
    <3> QED
      BY <2>2, <3>1, <3>2 DEF Taken
  <2> QED
    BY <1>1, <2>3, <2>4
<1> QED
  BY <1>1, <1>2, <1>3

(* The OUTPUT queue n comes of o and stamps nothing. *)
Drained(n, o) ==
  /\ ~n.on => n.queued = << >> \/ (~o.on /\ n.queued = o.queued)
  /\ n.on => o.on /\ Range(n.ready) \subseteq Range(o.ready)

(* What a job picked is what the buffer it looks at says. *)
Picks == \A e \in Executors : run[e].at \in {"remove", "give"} =>
           run[e].asked = asked[run[e].ctx][run[e].src]

(* A step that stamps no buffer. *)
LEMMA StampsKept ==
  ASSUME Shape, Stamps, Picks',
         \A d \in Ctxs, i \in Index :
           \/ stamp'[d][i] = stamp[d][i] /\ asked'[d][i] = asked[d][i]
           \/ stamp'[d][i] = NoStamp /\ asked'[d][i] = NotAsked,
         \A d \in Ctxs : Drained(q'[d]["OUT"], q[d]["OUT"]),
         \A d \in Ctxs : q'[d]["OUT"].on => source'[d].id = source[d].id,
         \A r \in Produced' : r \in Produced
  PROVE  Stamps'
<1>1. \A d \in Ctxs : /\ q[d]["OUT"].ready \in Seq(Index)
                      /\ q[d]["OUT"].queued \in Seq(Index)
  BY DEF Shape, Types, QueuesType, QueueType, Queues
<1>2. \A d \in Ctxs : /\ Range(q[d]["OUT"].ready) \subseteq Index
                      /\ Range(q[d]["OUT"].queued) \subseteq Index
  BY <1>1, RangeType
<1>3. \A d \in Ctxs, i \in Index :
        asked'[d][i].streaming => stamp'[d][i].ctl = asked'[d][i].ctl
  BY DEF Stamps, NotAsked
<1>4. ASSUME NEW d \in Ctxs, ~q'[d]["OUT"].on,
             NEW i \in Range(q'[d]["OUT"].queued)
      PROVE  ~asked'[d][i].streaming
  <2>1. ~q[d]["OUT"].on /\ i \in Range(q[d]["OUT"].queued) /\ i \in Index
    BY <1>2, <1>4, EmptySequence DEF Drained
  <2>2. ~asked[d][i].streaming
    BY <2>1 DEF Stamps
  <2> QED
    BY <2>1, <2>2 DEF NotAsked
<1>5. ProducerPaired'
  <2> SUFFICES ASSUME NEW d \in Ctxs, q'[d]["OUT"].on,
                      NEW i \in Range(q'[d]["OUT"].ready)
               PROVE  stamp'[d][i].backend \in {source'[d].id, "none"}
    BY DEF ProducerPaired
  <2>1. q[d]["OUT"].on /\ i \in Range(q[d]["OUT"].ready) /\ i \in Index
    BY <1>2 DEF Drained
  <2>2. stamp[d][i].backend \in {source[d].id, "none"}
    BY <2>1 DEF Stamps, ProducerPaired
  <2>3. NoStamp.backend = "none" /\ source'[d].id = source[d].id
    BY DEF NoStamp
  <2>4. stamp'[d][i] = stamp[d][i] \/ stamp'[d][i] = NoStamp
    BY <2>1
  <2> QED
    BY <2>2, <2>3, <2>4
<1>6. QueuedControlsUsed'
  BY DEF Stamps, QueuedControlsUsed
<1> QED
  BY <1>3, <1>4, <1>5, <1>6 DEF Stamps, Picks

LEMMA InitStamps == Init => Stamps
<1> SUFFICES ASSUME Init PROVE Stamps
  OBVIOUS
<1>1. /\ \A c \in Ctxs, i \in Index : asked[c][i] = NotAsked /\ pend[c][i] = NoRow
      /\ \A e \in Executors : run[e] = Off
      /\ \A c \in Ctxs : q[c]["OUT"] = Unused
      /\ rows = << >>
  BY DEF Init, Queues
<1>2. Produced = {}
  <2>1. \A r \in Made(rows, pend) : FALSE
    BY <1>1, MadeHas, EmptySequence
  <2> QED
    BY <2>1, ProducedMade
<1>3. \A c \in Ctxs : q[c]["OUT"].queued = << >> /\ ~q[c]["OUT"].on
  BY <1>1, UnusedOk
<1>4. ~NotAsked.streaming
  BY DEF NotAsked
<1> QED
  BY <1>1, <1>2, <1>3, <1>4, OffType, EmptySequence
     DEF Stamps, ProducerPaired, QueuedControlsUsed

(* Steps that leave queues, stamps and rows alone. *)
LEMMA QuietStamps ==
  ASSUME Shape, Stamps, Picks', UNCHANGED <<q, stamp, asked, rows, pend>>,
         \A d \in Ctxs : q[d]["OUT"].on => source'[d].id = source[d].id
  PROVE  Stamps'
<1>1. \A d \in Ctxs : Drained(q'[d]["OUT"], q[d]["OUT"])
  BY DEF Drained
<1>2. Produced' = Produced
  BY ProducedMade
<1> QED
  BY <1>1, <1>2, StampsKept

LEMMA PicksKept ==
  ASSUME Stamps, asked' = asked,
         \A f \in Executors : \/ run'[f] = run[f]
                              \/ run'[f].at \notin {"remove", "give"}
  PROVE  Picks'
  BY DEF Stamps, Picks

LEMMA PicksForget ==
  ASSUME Shape, Stamps, run' = run, NEW c \in Ctxs, NEW t \in Queues, NEW S,
         Forget(c, t, S)
  PROVE  Picks'
<1> SUFFICES ASSUME NEW e \in Executors, run[e].at \in {"remove", "give"}
             PROVE  run[e].asked = asked'[run[e].ctx][run[e].src]
  BY DEF Picks
<1>1. Types /\ run[e].ctx \in Ctxs /\ run[e].src \in Index
  BY TakenOwned DEF Shape, Taken, Queues
<1>2. run[e].asked = asked[run[e].ctx][run[e].src]
  BY DEF Stamps
<1>3. asked'[run[e].ctx][run[e].src] = asked[run[e].ctx][run[e].src]
  BY <1>1, ForgetOk
<1> QED
  BY <1>2, <1>3

LEMMA FileStamps ==
  ASSUME Shape, Stamps, NEW c \in Ctxs,
         \/ Open(c)
         \/ \E v \in Ctls : SetCtrl(c, v)
         \/ \E b \in Backends : SetBackend(c, b)
  PROVE  Stamps'
<1>1. UNCHANGED <<run, q, pend, rows, stamp, asked>>
  BY DEF Open, SetCtrl, SetBackend, jobVars, rowVars, stampVars
<1>2. Picks'
  BY <1>1, PicksKept
<1>3. source \in [Ctxs -> [id : Backends, started : BOOLEAN]]
  BY DEF Shape, Types
<1>4. ~Unused.on
  BY UnusedOk
<1>5. \A d \in Ctxs : q[d]["OUT"].on => source'[d] = source[d]
  <2>1. CASE Open(c)
    <3>1. c \notin open /\ source' = [source EXCEPT ![c] = Fixture]
      BY <2>1 DEF Open
    <3>2. ~q[c]["OUT"].on
      BY <1>4, <3>1 DEF Shape, Closed, Queues
    <3> QED
      BY <1>3, <3>1, <3>2
  <2>2. CASE \E v \in Ctls : SetCtrl(c, v)
    BY <2>2 DEF SetCtrl
  <2>3. CASE \E b \in Backends : SetBackend(c, b)
    <3>1. PICK b \in Backends : SetBackend(c, b)
      BY <2>3
    <3>2. /\ ~q[c]["OUT"].on
          /\ source' = [source EXCEPT ![c] = [id |-> b, started |-> FALSE]]
      BY <3>1 DEF SetBackend, Queues
    <3> QED
      BY <1>3, <3>2
  <2> QED
    BY <2>1, <2>2, <2>3
<1> QED
  BY <1>1, <1>2, <1>5, QuietStamps

LEMMA ScheduleEffect ==
  ASSUME NEW e, NEW c, NEW j, Schedule(e, c, j), run \in [Executors -> RunType],
         NEW f \in Executors
  PROVE  run'[f] = run[f] \/ run'[f].at = "pick"
<1>1. [Off EXCEPT !.at = "pick", !.by = c, !.ctx = TryRun(j).curr].at = "pick"
  BY DEF Off
<1> QED
  BY <1>1 DEF Schedule

LEMMA WorkerStamps ==
  ASSUME Shape, Stamps,
         \/ Work
         \/ \E e \in Executors : RunPick(e) \/ RunFinish(e)
  PROVE  Stamps'
<1>1. UNCHANGED <<q, pend, rows, stamp, asked, source>>
  BY DEF Work, RunPick, RunFinish, ctxVars, rowVars, stampVars
<1>2. run \in [Executors -> RunType]
  BY DEF Shape, Types
<1>3. Picks'
  <2>1. CASE Work
    <3>1. \A f \in Executors : run'[f] = run[f] \/ run'[f].at = "pick"
      BY <1>2, <2>1, ScheduleEffect DEF Work
    <3> QED
      BY <1>1, <3>1, PicksKept
  <2>2. ASSUME NEW e \in Executors, RunPick(e) PROVE Picks'
    <3>1. PICK c : c = run[e].ctx
      OBVIOUS
    <3>2. /\ \A f \in Executors \ {e} : run'[f] = run[f]
          /\ \/ run'[e] = Off
             \/ run'[e].ctx = c /\ run'[e].asked = asked[c][run'[e].src]
      BY <2>2, <3>1, PickOk
    <3>3. run'[e] = Off => run'[e].at \notin {"remove", "give"}
      BY OffType
    <3> QED
      BY <1>1, <3>2, <3>3 DEF Stamps, Picks
  <2>3. ASSUME NEW e \in Executors, RunFinish(e) PROVE Picks'
    <3>1. run' = [run EXCEPT ![e] = Off]
      BY <2>3 DEF RunFinish
    <3>2. \A f \in Executors : run'[f] = run[f] \/ run'[f] = Off
      BY <1>2, <3>1
    <3> QED
      BY <1>1, <3>2, PicksKept, OffType
  <2> QED
    BY <2>1, <2>2, <2>3
<1> QED
  BY <1>1, <1>3, QuietStamps

LEMMA RunRemoveStamps ==
  ASSUME Shape, Stamps, NEW e \in Executors, RunRemove(e)
  PROVE  Stamps'
<1>1. PICK c, r : c = run[e].ctx /\ r = run[e]
  OBVIOUS
<1>2. r.at = "remove" /\ UNCHANGED <<stamp, asked, source, rows, pend>>
  BY <1>1 DEF RunRemove, ctxVars, rowVars, stampVars
<1>3. c \in Ctxs /\ Both(q[c])
  BY <1>1, <1>2, Active
<1>4. /\ \A f \in Executors \ {e} : run'[f] = run[f]
      /\ run'[e].ctx = c /\ run'[e].asked = r.asked /\ run'[e].src = r.src
      /\ \A d \in Ctxs \ {c} : q'[d] = q[d]
      /\ q'[c]["OUT"].on /\ q[c]["OUT"].ready \in Seq(Index)
      /\ q[c]["OUT"].ready # << >>
      /\ q'[c]["OUT"].ready = Tail(q[c]["OUT"].ready)
  BY <1>1, RemoveOk DEF Queues
<1>5. Picks'
  BY <1>1, <1>2, <1>4 DEF Stamps, Picks
<1>6. Range(q'[c]["OUT"].ready) \subseteq Range(q[c]["OUT"].ready)
  BY <1>4, HeadTail
<1>7. \A d \in Ctxs : Drained(q'[d]["OUT"], q[d]["OUT"])
  BY <1>3, <1>4, <1>6 DEF Drained, Both
<1>8. Produced' = Produced
  BY <1>2, ProducedMade
<1> QED
  BY <1>2, <1>5, <1>7, <1>8, StampsKept

LEMMA RunGiveStamps ==
  ASSUME Shape, Stamps, NEW e \in Executors, RunGive(e)
  PROVE  Stamps'
<1>1. PICK c, r : c = run[e].ctx /\ r = run[e]
  OBVIOUS
<1>2. r.at = "give" /\ UNCHANGED <<stamp, asked, source, rows>>
  BY <1>1 DEF RunGive, ctxVars, stampVars
<1>3. c \in Ctxs /\ Both(q[c])
  BY <1>1, <1>2, Active
<1>4. /\ \A f \in Executors \ {e} : run'[f] = run[f]
      /\ run'[e].at = "finish" /\ r.src \in Index
      /\ \A d \in Ctxs \ {c} : q'[d] = q[d]
      /\ q'[c]["OUT"].on /\ q'[c]["OUT"].ready = q[c]["OUT"].ready
  BY <1>1, GiveOk DEF Queues
<1>5. Picks'
  BY <1>2, <1>4, PicksKept
<1>6. \A d \in Ctxs : ~q'[d]["OUT"].on => q'[d] = q[d]
  BY <1>4
<1>7. ProducerPaired'
  BY <1>2, <1>3, <1>4 DEF Stamps, ProducerPaired, Both
<1>8. QueuedControlsUsed'
  <2> SUFFICES ASSUME NEW m \in Produced', m.asked.streaming
               PROVE  m.ctl = m.asked.ctl
    BY DEF QueuedControlsUsed
  <2>1. CASE m \in Produced
    BY <2>1 DEF Stamps, QueuedControlsUsed
  <2>2. CASE m = Meta(r)
    <3>1. m.asked = r.asked /\ m.ctl = stamp[c][r.src].ctl
      BY <1>1, <2>2 DEF Meta
    <3>2. r.asked = asked[c][r.src]
      BY <1>1, <1>2 DEF Stamps
    <3> QED
      BY <1>3, <1>4, <3>1, <3>2 DEF Stamps
  <2> QED
    BY <1>1, <2>1, <2>2, GiveMade
<1> QED
  BY <1>2, <1>5, <1>6, <1>7, <1>8 DEF Stamps, Picks

(* A step that gives buffers of c back to the program. *)
LEMMA ForgetStamps ==
  ASSUME Shape, Stamps, run' = run, NEW c \in Ctxs, NEW t \in Queues, NEW S,
         Forget(c, t, S), NEW T \in SUBSET Index, BufFinish(c, T),
         \A d \in Ctxs : Drained(q'[d]["OUT"], q[d]["OUT"]),
         \A d \in Ctxs : q'[d]["OUT"].on => source'[d].id = source[d].id
  PROVE  Stamps'
<1>1. Types
  BY DEF Shape
<1>2. Picks'
  BY PicksForget
<1>3. \A d \in Ctxs, i \in Index :
        \/ stamp'[d][i] = stamp[d][i] /\ asked'[d][i] = asked[d][i]
        \/ stamp'[d][i] = NoStamp /\ asked'[d][i] = NotAsked
  BY <1>1, ForgetOk
<1>4. Produced' = Produced
  BY <1>1, FinishMade
<1> QED
  BY <1>2, <1>3, <1>4, StampsKept

LEMMA DQBufStamps ==
  ASSUME Shape, Stamps, NEW c \in Ctxs, NEW t \in Queues, DQBuf(c, t)
  PROVE  Stamps'
<1>1. PICK qt : qt = q[c][t]
  OBVIOUS
<1>2. PICK n, i : n = [qt EXCEPT !.done = Tail(@)] /\ i = Head(qt.done)
  OBVIOUS
<1>3. /\ qt.on /\ qt.done # << >> /\ q' = With(q, c, t, n)
      /\ BufFinish(c, IF t = "CAP" THEN {i} ELSE {})
      /\ Forget(c, t, {i}) /\ run' = run /\ source' = source
  BY <1>1, <1>2 DEF DQBuf, With, jobVars, ctxVars
<1>4. q \in QueuesType /\ qt \in QueueType /\ Places(qt, Gone(run, c, t))
  BY <1>1 DEF Shape, Types, QueuesType, Owners
<1>5. n \in QueueType /\ n.on /\ n.ready = qt.ready /\ i \in Index
  BY <1>2, <1>3, <1>4, DequeueOk
<1>6. /\ q'[c][t] = n
      /\ \A d \in Ctxs, u \in Queues : <<d, u>> # <<c, t>> => q'[d][u] = q[d][u]
  BY <1>3, <1>4, <1>5, OneQueue
<1>7. \A d \in Ctxs : Drained(q'[d]["OUT"], q[d]["OUT"])
  <2> SUFFICES ASSUME NEW d \in Ctxs
               PROVE  Drained(q'[d]["OUT"], q[d]["OUT"])
    OBVIOUS
  <2>1. "OUT" \in Queues
    BY DEF Queues
  <2>2. CASE <<d, "OUT">> = <<c, t>>
    BY <1>1, <1>3, <1>5, <1>6, <2>2 DEF Drained
  <2>3. CASE <<d, "OUT">> # <<c, t>>
    BY <1>6, <2>1, <2>3 DEF Drained
  <2> QED
    BY <2>2, <2>3
<1>8. (IF t = "CAP" THEN {i} ELSE {}) \in SUBSET Index
  BY <1>5
<1> QED
  BY <1>3, <1>7, <1>8, ForgetStamps

(* One queue of c is replaced by one that is off and empty. *)
LEMMA ResetStamps ==
  ASSUME Shape, Stamps, run' = run, NEW c \in Ctxs, NEW t \in Queues,
         NEW n \in QueueType, ~n.on, n.queued = << >>, q' = With(q, c, t, n),
         FinishQueue(c, t), Forget(c, t, Index),
         \A d \in Ctxs : source'[d].id = source[d].id
  PROVE  Stamps'
<1>1. q \in QueuesType /\ Types
  BY DEF Shape, Types
<1>2. /\ q'[c][t] = n
      /\ \A d \in Ctxs, u \in Queues : <<d, u>> # <<c, t>> => q'[d][u] = q[d][u]
  BY <1>1, OneQueue
<1>3. \A d \in Ctxs : Drained(q'[d]["OUT"], q[d]["OUT"])
  <2> SUFFICES ASSUME NEW d \in Ctxs
               PROVE  Drained(q'[d]["OUT"], q[d]["OUT"])
    OBVIOUS
  <2>1. "OUT" \in Queues
    BY DEF Queues
  <2>2. CASE <<d, "OUT">> = <<c, t>>
    BY <1>2, <2>2 DEF Drained
  <2>3. CASE <<d, "OUT">> # <<c, t>>
    BY <1>2, <2>1, <2>3 DEF Drained
  <2> QED
    BY <2>2, <2>3
<1>4. PICK S : S = IF t = "CAP" THEN Held(q[c][t]) ELSE {}
  OBVIOUS
<1>5. S \in SUBSET Index /\ BufFinish(c, S)
  BY <1>1, <1>4, FinishQueueOk
<1> QED
  BY <1>3, <1>5, ForgetStamps

LEMMA ReqBufsStamps ==
  ASSUME Shape, Stamps, NEW c \in Ctxs, NEW t \in Queues, NEW b \in BOOLEAN,
         ReqBufs(c, t, b)
  PROVE  Stamps'
<1>1. PICK n : n = [Unused EXCEPT !.alloc = b, !.ready = q[c][t].ready]
  OBVIOUS
<1>2. /\ q' = With(q, c, t, n) /\ FinishQueue(c, t) /\ Forget(c, t, Index)
      /\ run' = run /\ source' = source
  BY <1>1 DEF ReqBufs, With, ctxVars, jobVars
<1>3. q[c][t].ready \in Seq(Index)
  BY DEF Shape, Types, QueuesType, QueueType
<1>4. n \in QueueType /\ ~n.on /\ n.queued = << >>
  BY <1>1, <1>3, ResetOk
<1> QED
  BY <1>2, <1>4, ResetStamps

LEMMA StreamOffStamps ==
  ASSUME Shape, Stamps, NEW c \in Ctxs, NEW t \in Queues, StreamOff(c, t)
  PROVE  Stamps'
<1>1. PICK n : n = [Unused EXCEPT !.alloc = TRUE]
  OBVIOUS
<1>2. /\ q' = With(q, c, t, n) /\ FinishQueue(c, t) /\ Forget(c, t, Index)
      /\ run' = run
  BY <1>1 DEF StreamOff, With
<1>3. n \in QueueType /\ ~n.on /\ n.queued = << >>
  BY <1>1, UnusedOk DEF QueueType
<1>4. \A d \in Ctxs : source'[d].id = source[d].id
  BY DEF StreamOff, Shape, Types
<1> QED
  BY <1>2, <1>3, <1>4, ResetStamps

LEMMA ReleaseStamps ==
  ASSUME Shape, Stamps, NEW c \in Ctxs, Release(c)
  PROVE  Stamps'
<1>1. /\ q' = [q EXCEPT ![c] = [t \in Queues |-> Unused]]
      /\ FinishQueue(c, "CAP") /\ Forget(c, "OUT", Index)
      /\ source' = [source EXCEPT ![c] = Fixture] /\ run' = run
  BY DEF Release
<1>2. Types /\ q \in QueuesType /\ "CAP" \in Queues /\ "OUT" \in Queues
  BY DEF Shape, Types, Queues
<1>3. /\ q'[c]["OUT"] = Unused /\ \A d \in Ctxs \ {c} : q'[d] = q[d]
  BY <1>1, <1>2 DEF QueuesType
<1>4. \A d \in Ctxs : Drained(q'[d]["OUT"], q[d]["OUT"])
  BY <1>3, UnusedOk DEF Drained
<1>5. \A d \in Ctxs : q'[d]["OUT"].on => source'[d].id = source[d].id
  BY <1>1, <1>2, <1>3, UnusedOk DEF Types
<1>6. PICK S : S = Held(q[c]["CAP"])
  OBVIOUS
<1>7. S \in SUBSET Index /\ BufFinish(c, S)
  BY <1>1, <1>2, <1>6, FinishQueueOk
<1> QED
  BY <1>1, <1>2, <1>4, <1>5, <1>7, ForgetStamps

(* The history QBUF writes. *)
LEMMA QBufAsks ==
  ASSUME Shape, NEW c \in Ctxs, NEW t \in Queues, NEW i \in Index, QBuf(c, t, i)
  PROVE  /\ t # "OUT" => asked' = asked /\ frames' = frames
         /\ t = "OUT" =>
              /\ frames' = frames + 1
              /\ asked'[c][i].frame = frames + 1
              /\ asked'[c][i].ctl = ctl[c]
              /\ asked'[c][i].streaming = q[c][t].on
              /\ \A d \in Ctxs, k \in Index :
                   <<d, k>> # <<c, i>> => asked'[d][k] = asked[d][k]
<1>1. CASE t # "OUT"
  BY <1>1 DEF QBuf
<1>2. CASE t = "OUT"
  <2> DEFINE a == [frame |-> frames + 1, ctl |-> ctl[c], streaming |-> q[c][t].on]
             f == [asked[c] EXCEPT ![i] = a]
  <2>1. asked' = [asked EXCEPT ![c] = f] /\ frames' = frames + 1
    BY <1>2 DEF QBuf
  <2>2. asked \in [Ctxs -> [Index -> Asked]]
    BY DEF Shape, Types
  <2>3. a.frame = frames + 1 /\ a.ctl = ctl[c] /\ a.streaming = q[c][t].on
    OBVIOUS
  <2> HIDE DEF a
  <2>4. f[i] = a /\ \A k \in Index \ {i} : f[k] = asked[c][k]
    BY <2>2
  <2> HIDE DEF f
  <2>5. asked'[c] = f /\ \A d \in Ctxs \ {c} : asked'[d] = asked[d]
    BY <2>1, <2>2
  <2> QED
    BY <1>2, <2>1, <2>3, <2>4, <2>5
<1> QED
  BY <1>1, <1>2

LEMMA QBufStamps ==
  ASSUME Shape, Stamps, NEW c \in Ctxs, NEW t \in Queues, NEW i \in Index,
         QBuf(c, t, i)
  PROVE  Stamps'
<1>1. PICK qt : qt = q[c][t]
  OBVIOUS
<1>2. PICK n : n = IF qt.on THEN BufQueue(qt, <<i>>)
                   ELSE [qt EXCEPT !.queued = Append(@, i)]
  OBVIOUS
<1>3. /\ i \notin Held(qt) /\ q' = With(q, c, t, n)
      /\ StampAll(c, t, IF qt.on THEN <<i>> ELSE << >>)
      /\ Schedule("ioctl", c, TryQueue(job, c, q'[c]))
      /\ UNCHANGED <<source, pend, rows>>
  BY <1>1, <1>2 DEF QBuf, With, ctxVars, rowVars
<1>4. /\ Types /\ q \in QueuesType /\ qt \in QueueType
      /\ run \in [Executors -> RunType]
      /\ Places(qt, Gone(run, c, t))
  BY <1>1 DEF Shape, Types, QueuesType, Owners
<1>5. /\ n \in QueueType /\ n.on = qt.on
      /\ n.ready = IF qt.on THEN Append(qt.ready, i) ELSE qt.ready
      /\ Range(n.queued) \cup n.owned = (Range(qt.queued) \cup qt.owned) \cup {i}
  BY <1>2, <1>3, <1>4, QueuedOk, ZenonT(40)
<1>6. /\ q'[c][t] = n
      /\ \A d \in Ctxs, u \in Queues : <<d, u>> # <<c, t>> => q'[d][u] = q[d][u]
  BY <1>3, <1>4, <1>5, OneQueue
<1>7. \A f \in Executors : run'[f] = run[f] \/ run'[f].at = "pick"
  BY <1>3, <1>4, ScheduleEffect
<1>8. Produced' = Produced
  BY <1>3, ProducedMade
<1>9. \A d \in Ctxs, k \in Index :
        stamp'[d][k] = IF d = c /\ t = "OUT" /\ qt.on /\ k = i
                       THEN Snapshot(c) ELSE stamp[d][k]
  <2>1. \A d \in Ctxs, k \in Index :
          stamp'[d][k] = IF d = c /\ t = "OUT"
                              /\ k \in Range(IF qt.on THEN <<i>> ELSE << >>)
                         THEN Snapshot(c) ELSE stamp[d][k]
    BY <1>3, <1>4, StampAllOk
  <2>2. Range(<<i>>) = {i} /\ Range(<< >>) = {}
    BY OneElement, EmptySequence
  <2> QED
    BY <2>1, <2>2
<1>10. CASE t # "OUT"
  <2>1. asked' = asked
    BY <1>10, QBufAsks
  <2>2. \A d \in Ctxs : q'[d]["OUT"] = q[d]["OUT"]
    BY <1>6, <1>10 DEF Queues
  <2>3. Picks'
    BY <1>7, <2>1, PicksKept
  <2>4. \A d \in Ctxs : Drained(q'[d]["OUT"], q[d]["OUT"])
    BY <2>2 DEF Drained
  <2> QED
    BY <1>3, <1>8, <1>9, <1>10, <2>1, <2>3, <2>4, StampsKept
<1>11. CASE t = "OUT"
  <2>1. /\ asked'[c][i].ctl = ctl[c] /\ asked'[c][i].streaming = qt.on
        /\ \A d \in Ctxs, k \in Index :
             <<d, k>> # <<c, i>> => asked'[d][k] = asked[d][k]
    BY <1>1, <1>11, QBufAsks
  <2>2. \A d \in Ctxs \ {c} : q'[d]["OUT"] = q[d]["OUT"]
    BY <1>6 DEF Queues
  <2>3. /\ Snapshot(c).ctl = ctl[c]
        /\ Snapshot(c).backend \in {source[c].id, "none"}
    BY <1>4, SnapshotType
  <2>4. i \notin Range(qt.queued) /\ i \notin qt.owned
    BY <1>3 DEF Held
  <2>5. \A d \in Ctxs : /\ Range(q[d]["OUT"].queued) \subseteq Index
                        /\ Range(q[d]["OUT"].ready) \subseteq Index
    <3>1. \A d \in Ctxs : /\ q[d]["OUT"].queued \in Seq(Index)
                          /\ q[d]["OUT"].ready \in Seq(Index)
      BY <1>4 DEF QueuesType, QueueType, Queues
    <3> QED
      BY <3>1, RangeType
  <2>6. ASSUME NEW d \in Ctxs, NEW k \in Index, asked'[d][k].streaming
        PROVE  stamp'[d][k].ctl = asked'[d][k].ctl
    <3>1. CASE <<d, k>> = <<c, i>>
      BY <1>9, <1>11, <2>1, <2>3, <2>6, <3>1
    <3>2. CASE <<d, k>> # <<c, i>>
      BY <1>9, <2>1, <2>6, <3>2 DEF Stamps
    <3> QED
      BY <3>1, <3>2
  <2>7. ASSUME NEW d \in Ctxs, ~q'[d]["OUT"].on,
               NEW k \in Range(q'[d]["OUT"].queued)
        PROVE  ~asked'[d][k].streaming
    <3>1. CASE d = c
      <4>1. ~qt.on /\ ~n.on /\ k \in Range(n.queued)
        BY <1>5, <1>6, <1>11, <2>7, <3>1
      <4>2. CASE k = i
        BY <2>1, <3>1, <4>1, <4>2
      <4>3. CASE k # i
        <5>1. qt.owned = {}
          BY <1>4, <4>1 DEF Places
        <5>2. k \in Range(qt.queued) /\ k \in Index
          BY <1>1, <1>5, <1>11, <2>5, <4>1, <4>3, <5>1
        <5>3. ~asked[c][k].streaming
          BY <1>1, <1>11, <4>1, <5>2 DEF Stamps
        <5> QED
          BY <2>1, <3>1, <4>3, <5>2, <5>3
      <4> QED
        BY <4>2, <4>3
    <3>2. CASE d # c
      <4>1. ~q[d]["OUT"].on /\ k \in Range(q[d]["OUT"].queued) /\ k \in Index
        BY <2>2, <2>5, <2>7, <3>2
      <4>2. ~asked[d][k].streaming
        BY <4>1 DEF Stamps
      <4> QED
        BY <2>1, <3>2, <4>1, <4>2
    <3> QED
      BY <3>1, <3>2
  <2>8. Picks'
    <3> SUFFICES ASSUME NEW e \in Executors, run'[e].at \in {"remove", "give"}
                 PROVE  run'[e].asked = asked'[run'[e].ctx][run'[e].src]
      BY DEF Picks
    <3>1. run'[e] = run[e]
      BY <1>7
    <3>2. /\ run[e].ctx \in Ctxs /\ run[e].src \in Index
          /\ run[e].src \in q[run[e].ctx]["OUT"].owned
      BY <3>1, TakenOwned DEF Taken, Queues
    <3>3. <<run[e].ctx, run[e].src>> # <<c, i>>
      BY <1>1, <1>11, <2>4, <3>2
    <3>4. run[e].asked = asked[run[e].ctx][run[e].src]
      BY <3>1 DEF Stamps
    <3> QED
      BY <2>1, <3>1, <3>2, <3>3, <3>4
  <2>9. ProducerPaired'
    <3> SUFFICES ASSUME NEW d \in Ctxs, q'[d]["OUT"].on,
                        NEW k \in Range(q'[d]["OUT"].ready)
                 PROVE  stamp'[d][k].backend \in {source[d].id, "none"}
      BY <1>3 DEF ProducerPaired
    <3>1. CASE d = c
      <4>1. qt.on /\ n.ready = Append(qt.ready, i) /\ k \in Range(n.ready)
        BY <1>5, <1>6, <1>11, <3>1
      <4>2. qt.ready \in Seq(Index)
        BY <1>4 DEF QueueType
      <4>3. k \in Range(qt.ready) \cup {i}
        BY <4>1, <4>2, RangeAppend
      <4>4. CASE k = i
        BY <1>9, <1>11, <2>3, <3>1, <4>1, <4>4
      <4>5. CASE k # i
        <5>1. k \in Range(qt.ready) /\ k \in Index
          BY <1>1, <1>11, <2>5, <4>3, <4>5
        <5>2. stamp[c][k].backend \in {source[c].id, "none"}
          BY <1>1, <1>11, <4>1, <5>1 DEF Stamps, ProducerPaired
        <5> QED
          BY <1>9, <3>1, <4>5, <5>1, <5>2
      <4> QED
        BY <4>4, <4>5
    <3>2. CASE d # c
      <4>1. q[d]["OUT"].on /\ k \in Range(q[d]["OUT"].ready) /\ k \in Index
        BY <2>2, <2>5, <3>2
      <4>2. stamp[d][k].backend \in {source[d].id, "none"}
        BY <4>1 DEF Stamps, ProducerPaired
      <4> QED
        BY <1>9, <3>2, <4>1, <4>2
    <3> QED
      BY <3>1, <3>2
  <2>10. QueuedControlsUsed'
    BY <1>8 DEF Stamps, QueuedControlsUsed
  <2> QED
    BY <2>6, <2>7, <2>8, <2>9, <2>10 DEF Stamps, Picks
<1> QED
  BY <1>10, <1>11

(* buf_queue for what waited for STREAMON; n is what becomes of the queue. *)
LEMMA StartStamps ==
  ASSUME Shape, Stamps, asked' = asked, rows' = rows, pend' = pend, Picks',
         NEW c \in Ctxs, ~q[c]["OUT"].on,
         NEW n \in QueueType, q' = With(q, c, "OUT", n),
         StampAll(c, "OUT", q[c]["OUT"].queued),
         n.on => n.ready = q[c]["OUT"].queued,
         ~n.on => n.queued = q[c]["OUT"].queued,
         \A d \in Ctxs : source'[d].id = source[d].id
  PROVE  Stamps'
<1>1. PICK qt : qt = q[c]["OUT"]
  OBVIOUS
<1>2. Types /\ q \in QueuesType /\ "OUT" \in Queues
  BY DEF Shape, Types, Queues
<1>3. /\ q'[c]["OUT"] = n
      /\ \A d \in Ctxs \ {c} : q'[d] = q[d]
  BY <1>2, OneQueue
<1>4. \A d \in Ctxs, k \in Index :
        stamp'[d][k] = IF d = c /\ k \in Range(qt.queued)
                       THEN Snapshot(c) ELSE stamp[d][k]
  BY <1>1, <1>2, StampAllOk
<1>5. \A d \in Ctxs : /\ Range(q[d]["OUT"].queued) \subseteq Index
                      /\ Range(q[d]["OUT"].ready) \subseteq Index
  <2>1. \A d \in Ctxs : /\ q[d]["OUT"].queued \in Seq(Index)
                        /\ q[d]["OUT"].ready \in Seq(Index)
    BY <1>2 DEF QueuesType, QueueType
  <2> QED
    BY <2>1, RangeType
<1>6. Snapshot(c).backend \in {source[c].id, "none"}
  BY <1>2, SnapshotType
<1>7. \A k \in Range(qt.queued) : ~asked[c][k].streaming
  BY <1>1 DEF Stamps
<1>8. \A d \in Ctxs, k \in Index :
        asked[d][k].streaming => stamp'[d][k].ctl = asked[d][k].ctl
  BY <1>4, <1>7 DEF Stamps
<1>9. ASSUME NEW d \in Ctxs, ~q'[d]["OUT"].on
      PROVE  \A k \in Range(q'[d]["OUT"].queued) : ~asked[d][k].streaming
  <2>1. CASE d = c
    BY <1>1, <1>3, <1>7, <1>9, <2>1
  <2>2. CASE d # c
    BY <1>3, <1>9, <2>2 DEF Stamps
  <2> QED
    BY <2>1, <2>2
<1>10. ProducerPaired'
  <2> SUFFICES ASSUME NEW d \in Ctxs, q'[d]["OUT"].on,
                      NEW k \in Range(q'[d]["OUT"].ready)
               PROVE  stamp'[d][k].backend \in {source[d].id, "none"}
    BY DEF ProducerPaired
  <2>1. CASE d = c
    <3>1. k \in Range(qt.queued) /\ k \in Index
      BY <1>1, <1>3, <1>5, <2>1
    <3> QED
      BY <1>4, <1>6, <2>1, <3>1
  <2>2. CASE d # c
    <3>1. q[d]["OUT"].on /\ k \in Range(q[d]["OUT"].ready) /\ k \in Index
      BY <1>3, <1>5, <2>2
    <3>2. stamp[d][k].backend \in {source[d].id, "none"}
      BY <3>1 DEF Stamps, ProducerPaired
    <3> QED
      BY <1>4, <2>2, <3>1, <3>2
  <2> QED
    BY <2>1, <2>2
<1>11. QueuedControlsUsed'
  <2>1. Produced' = Produced
    BY ProducedMade
  <2> QED
    BY <2>1 DEF Stamps, QueuedControlsUsed
<1> QED
  BY <1>8, <1>9, <1>10, <1>11 DEF Stamps, Picks

LEMMA StreamOnStamps ==
  ASSUME Orderly, Shape, Stamps, NEW c \in Ctxs, NEW t \in Queues, StreamOn(c, t)
  PROVE  Stamps'
<1>1. PICK qt : qt = q[c][t]
  OBVIOUS
<1>2. PICK n :
        n = [BufQueue(qt, qt.queued) EXCEPT !.queued = << >>, !.on = TRUE]
  OBVIOUS
<1>3. /\ ~qt.on /\ qt.ready = << >> /\ q' = With(q, c, t, n)
      /\ StampAll(c, t, qt.queued)
      /\ Schedule("ioctl", c, TryQueue(job, c, q'[c]))
      /\ UNCHANGED <<pend, rows, asked>>
  BY <1>1, <1>2 DEF StreamOn, With, rowVars, Orderly
<1>4. /\ q \in QueuesType /\ qt \in QueueType /\ Jobs(job, q) /\ Types
      /\ Runs(job, run, q) /\ Places(qt, Gone(run, c, t))
      /\ run \in [Executors -> RunType]
  BY <1>1 DEF Shape, Types, QueuesType, Owners
<1>5. Gone(run, c, t) = {}
  <2>1. job.curr # c
    BY <1>1, <1>3, <1>4 DEF Jobs, Both, Queues
  <2> QED
    BY <1>4, <2>1, GoneNone
<1>6. n \in QueueType /\ n.on /\ n.ready = qt.queued
  BY <1>2, <1>3, <1>4, <1>5, StartOk
<1>7. \A d \in Ctxs : source'[d].id = source[d].id
  BY <1>4 DEF StreamOn, Types
<1>8. \A f \in Executors : run'[f] = run[f] \/ run'[f].at = "pick"
  BY <1>3, <1>4, ScheduleEffect
<1>9. Picks'
  BY <1>3, <1>8, PicksKept
<1>10. CASE t = "OUT"
  BY <1>1, <1>3, <1>6, <1>7, <1>9, <1>10, StartStamps
<1>11. CASE t # "OUT"
  <2>1. \A d \in Ctxs : q'[d]["OUT"] = q[d]["OUT"]
    <3>1. \A d \in Ctxs, u \in Queues :
            <<d, u>> # <<c, t>> => q'[d][u] = q[d][u]
      BY <1>3, <1>4, <1>6, OneQueue
    <3> QED
      BY <1>11, <3>1 DEF Queues
  <2>2. \A d \in Ctxs : Drained(q'[d]["OUT"], q[d]["OUT"])
    BY <2>1 DEF Drained
  <2>3. \A d \in Ctxs, i \in Index : stamp'[d][i] = stamp[d][i]
    BY <1>3, <1>4, <1>11, StampAllOk
  <2>4. Produced' = Produced
    BY <1>3, ProducedMade
  <2> QED
    BY <1>3, <1>7, <1>9, <2>2, <2>3, <2>4, StampsKept
<1> QED
  BY <1>10, <1>11

LEMMA StreamOnFailsStamps ==
  ASSUME Shape, Stamps, NEW c \in Ctxs, StreamOnFails(c)
  PROVE  Stamps'
<1>1. PICK n : n = [q[c]["OUT"] EXCEPT !.ready = @ \o q[c]["OUT"].queued]
  OBVIOUS
<1>2. /\ ~q[c]["OUT"].on /\ q' = With(q, c, "OUT", n)
      /\ StampAll(c, "OUT", q[c]["OUT"].queued)
      /\ UNCHANGED <<run, source, pend, rows, asked>>
  BY <1>1 DEF StreamOnFails, With, ctxVars, rowVars, jobVars
<1>3. /\ q[c]["OUT"] \in QueueType
      /\ Places(q[c]["OUT"], Gone(run, c, "OUT"))
  BY DEF Shape, Types, QueuesType, Owners, Queues
<1>4. n \in QueueType /\ ~n.on /\ n.queued = q[c]["OUT"].queued
  BY <1>1, <1>2, <1>3, StartFailsOk
<1>5. Picks'
  BY <1>2, PicksKept
<1> QED
  BY <1>2, <1>4, <1>5, StartStamps

LEMMA NextStamps == Orderly /\ Shape /\ Stamps /\ [Next]_vars => Stamps'
<1> SUFFICES ASSUME Orderly, Shape, Stamps, [Next]_vars PROVE Stamps'
  OBVIOUS
<1>1. CASE Work
  BY <1>1, WorkerStamps
<1>2. ASSUME NEW e \in Executors, DeviceRun(e) PROVE Stamps'
  BY <1>2, WorkerStamps, RunRemoveStamps, RunGiveStamps DEF DeviceRun
<1>3. ASSUME NEW c \in Ctxs,
             \/ Open(c) \/ Release(c) \/ StreamOnFails(c)
             \/ \E v \in Ctls : SetCtrl(c, v)
             \/ \E b \in Backends : SetBackend(c, b)
      PROVE  Stamps'
  BY <1>3, FileStamps, ReleaseStamps, StreamOnFailsStamps
<1>4. ASSUME NEW c \in Ctxs, NEW t \in Queues,
             \/ StreamOn(c, t) \/ StreamOff(c, t) \/ DQBuf(c, t)
             \/ \E b \in BOOLEAN : ReqBufs(c, t, b)
             \/ \E i \in Index : QBuf(c, t, i)
      PROVE  Stamps'
  BY <1>4, StreamOnStamps, StreamOffStamps, DQBufStamps, ReqBufsStamps, QBufStamps
<1>5. CASE UNCHANGED vars
  <2>1. UNCHANGED <<q, stamp, asked, rows, pend, run, source>>
    BY <1>5 DEF vars
  <2>2. Picks'
    BY <2>1, PicksKept
  <2> QED
    BY <2>1, <2>2, QuietStamps
<1> QED
  BY <1>1, <1>2, <1>3, <1>4, <1>5 DEF Next

(* The stamps of a buffer and what a job picked agree with what was true   *)
(* at the QBUF, for any number of files (vpipe_buf_queue, device_run).     *)
THEOREM StampsHold ==
  ASSUME Orderly
  PROVE  Spec => []Stamps
<1>1. Orderly /\ Shape /\ Stamps /\ [Next]_vars => Stamps'
  BY NextStamps
<1>2. Shape /\ Stamps /\ [Next]_vars => Stamps'
  BY <1>1
<1> QED
  BY <1>2, InitStamps, ShapeHolds, PTL DEF Spec

(* A frame queued on a streaming queue is processed with the controls of   *)
(* its QBUF, whatever S_CTRL did while it waited (vpipe_buf_queue).        *)
THEOREM QueuedControlsUsedHolds ==
  ASSUME Orderly
  PROVE  Spec => []QueuedControlsUsed
<1>1. Stamps => QueuedControlsUsed
  BY DEF Stamps
<1> QED
  BY <1>1, StampsHold, PTL

(* A buffer waiting for its job carries the backend the context still has, *)
(* or none (vpipe_default_ioctl refuses to switch while a queue streams).  *)
THEOREM ProducerPairedHolds ==
  ASSUME Orderly
  PROVE  Spec => []ProducerPaired
<1>1. Stamps => ProducerPaired
  BY DEF Stamps
<1> QED
  BY <1>1, StampsHold, PTL

(* The pair device_run processed is the pair it gives back, and there is   *)
(* one: nobody empties or reorders the ready lists while it computes.      *)
THEOREM PairStableHolds ==
  ASSUME Orderly
  PROVE  Spec => []PairStable
<1>1. ASSUME Shape, Stamps PROVE PairStable
  <2> SUFFICES ASSUME NEW e \in Executors
               PROVE  /\ run[e].at # "oops"
                      /\ run[e].at = "give" =>
                           /\ run[e].srcOut = run[e].src
                           /\ run[e].dstOut = run[e].dst
                           /\ asked[run[e].ctx][run[e].srcOut] = run[e].asked
    BY DEF PairStable
  <2>1. run[e].at # "oops"
    BY <1>1 DEF Shape, Types, RunType
  <2>2. ASSUME run[e].at = "give"
        PROVE  /\ run[e].srcOut = run[e].src /\ run[e].dstOut = run[e].dst
               /\ asked[run[e].ctx][run[e].srcOut] = run[e].asked
    <3>1. run[e].srcOut = run[e].src /\ run[e].dstOut = run[e].dst
      BY <1>1, <2>2 DEF Shape, Runs, Pair
    <3>2. run[e].asked = asked[run[e].ctx][run[e].src]
      BY <1>1, <2>2 DEF Stamps
    <3> QED
      BY <3>1, <3>2
  <2> QED
    BY <2>1, <2>2
<1>2. Shape /\ Stamps => PairStable
  BY <1>1
<1> QED
  BY <1>2, ShapeHolds, StampsHold, PTL
-----------------------------------------------------------------------------
(* Once is an invariant. *)

LEMMA WaitsIndex ==
  ASSUME Shape, NEW c \in Ctxs
  PROVE  Waits(c) \subseteq Index
<1>1. q[c]["OUT"] \in QueueType
  BY DEF Shape, Types, QueuesType, Queues
<1>2. q[c]["OUT"].queued \in Seq(Index) /\ q[c]["OUT"].owned \subseteq Index
  BY <1>1 DEF QueueType
<1> QED
  BY <1>2, RangeType DEF Waits

(* A step that neither queues nor processes a frame. *)
LEMMA OnceKept ==
  ASSUME Once, frames' = frames,
         \A c \in Ctxs : Waits(c)' \subseteq Waits(c),
         \A c \in Ctxs : \A i \in Waits(c)' : asked'[c][i] = asked[c][i],
         \A r \in Produced' : r \in Produced
  PROVE  Once'
<1>1. \A c \in Ctxs : \A i \in Waits(c)' : asked'[c][i].frame \in 1 .. frames'
  BY DEF Once
<1>2. \A c, d \in Ctxs : \A i \in Waits(c)', j \in Waits(d)' :
        asked'[c][i].frame = asked'[d][j].frame => c = d /\ i = j
  <2> SUFFICES ASSUME NEW c \in Ctxs, NEW d \in Ctxs, NEW i \in Waits(c)',
                      NEW j \in Waits(d)',
                      asked'[c][i].frame = asked'[d][j].frame
               PROVE  c = d /\ i = j
    OBVIOUS
  <2>1. /\ i \in Waits(c) /\ j \in Waits(d)
        /\ asked[c][i].frame = asked[d][j].frame
    OBVIOUS
  <2> QED
    BY <2>1 DEF Once
<1>3. \A r \in Produced' : r.asked.frame \in 1 .. frames'
  BY DEF Once
<1>4. \A r \in Produced' : \A c \in Ctxs : \A i \in Waits(c)' :
        r.asked.frame # asked'[c][i].frame
  BY DEF Once
<1>5. \A r, s \in Produced' : r.asked.frame = s.asked.frame => r = s
  BY DEF Once
<1> QED
  BY <1>1, <1>2, <1>3, <1>4, <1>5 DEF Once

LEMMA InitOnce == Init => Once
<1> SUFFICES ASSUME Init PROVE Once
  OBVIOUS
<1>1. /\ \A c \in Ctxs, i \in Index : pend[c][i] = NoRow
      /\ \A c \in Ctxs : q[c]["OUT"] = Unused
      /\ rows = << >>
  BY DEF Init, Queues
<1>2. Produced = {}
  <2>1. \A r \in Made(rows, pend) : FALSE
    BY <1>1, MadeHas, EmptySequence
  <2> QED
    BY <2>1, ProducedMade
<1>3. \A c \in Ctxs : Waits(c) = {}
  BY <1>1, UnusedOk, EmptySequence DEF Waits
<1> QED
  BY <1>2, <1>3 DEF Once

(* Steps that leave the OUTPUT queues and the rows alone. *)
LEMMA QuietOnce ==
  ASSUME Once, UNCHANGED <<frames, asked, rows, pend>>,
         \A d \in Ctxs : q'[d]["OUT"].queued = q[d]["OUT"].queued,
         \A d \in Ctxs : q'[d]["OUT"].owned \subseteq q[d]["OUT"].owned
  PROVE  Once'
<1>1. \A c \in Ctxs : Waits(c)' \subseteq Waits(c)
  BY DEF Waits
<1>2. Produced' = Produced
  BY ProducedMade
<1> QED
  BY <1>1, <1>2, OnceKept

LEMMA PlainOnce ==
  ASSUME Shape, Once,
         \/ Work
         \/ \E e \in Executors : RunPick(e) \/ RunRemove(e) \/ RunFinish(e)
         \/ \E c \in Ctxs : \/ Open(c)
                            \/ \E v \in Ctls : SetCtrl(c, v)
                            \/ \E b \in Backends : SetBackend(c, b)
  PROVE  Once'
<1>1. CASE \E e \in Executors : RunRemove(e)
  <2>1. PICK e \in Executors : RunRemove(e)
    BY <1>1
  <2>2. PICK c : c = run[e].ctx
    OBVIOUS
  <2>3. UNCHANGED <<frames, asked, rows, pend>>
    BY <2>1 DEF RunRemove, rowVars, stampVars
  <2>4. /\ \A d \in Ctxs \ {c} : q'[d] = q[d]
        /\ q'[c]["OUT"].queued = q[c]["OUT"].queued
        /\ q'[c]["OUT"].owned = q[c]["OUT"].owned
    BY <2>1, <2>2, RemoveOk DEF Queues
  <2> QED
    BY <2>3, <2>4, QuietOnce
<1>2. CASE ~(\E e \in Executors : RunRemove(e))
  <2>1. UNCHANGED <<q, frames, asked, rows, pend>>
    BY <1>2 DEF Work, RunPick, RunFinish, Open, SetCtrl, SetBackend, rowVars,
                stampVars
  <2> QED
    BY <2>1, QuietOnce
<1> QED
  BY <1>1, <1>2

(* Steps that start the OUTPUT queue, or fail to. *)
LEMMA StreamOnOnce ==
  ASSUME Orderly, Shape, Once, NEW c \in Ctxs,
         StreamOnFails(c) \/ \E t \in Queues : StreamOn(c, t)
  PROVE  Once'
<1>1. UNCHANGED <<frames, asked, rows, pend>>
  BY DEF StreamOn, StreamOnFails, rowVars
<1>2. Produced' = Produced
  BY <1>1, ProducedMade
<1>3. q \in QueuesType /\ "OUT" \in Queues
  BY DEF Shape, Types, Queues
<1>4. \A d \in Ctxs : Waits(d)' \subseteq Waits(d)
  <2>1. CASE StreamOnFails(c)
    <3>1. PICK n : n = [q[c]["OUT"] EXCEPT !.ready = @ \o q[c]["OUT"].queued]
      OBVIOUS
    <3>2. ~q[c]["OUT"].on /\ q' = With(q, c, "OUT", n)
      BY <2>1, <3>1 DEF StreamOnFails, With
    <3>3. /\ q[c]["OUT"] \in QueueType
          /\ Places(q[c]["OUT"], Gone(run, c, "OUT"))
      BY DEF Shape, Types, QueuesType, Owners, Queues
    <3>4. /\ n \in QueueType /\ n.queued = q[c]["OUT"].queued
          /\ n.owned = q[c]["OUT"].owned
      BY <3>1, <3>2, <3>3, StartFailsOk
    <3>5. q'[c]["OUT"] = n /\ \A d \in Ctxs \ {c} : q'[d] = q[d]
      BY <1>3, <3>2, <3>4, OneQueue
    <3> QED
      BY <3>4, <3>5 DEF Waits
  <2>2. ASSUME NEW t \in Queues, StreamOn(c, t)
        PROVE  \A d \in Ctxs : Waits(d)' \subseteq Waits(d)
    <3>1. PICK qt : qt = q[c][t]
      OBVIOUS
    <3>2. PICK n :
            n = [BufQueue(qt, qt.queued) EXCEPT !.queued = << >>, !.on = TRUE]
      OBVIOUS
    <3>3. /\ ~qt.on /\ qt.ready = << >> /\ q' = With(q, c, t, n)
      BY <2>2, <3>1, <3>2 DEF StreamOn, With, Orderly
    <3>4. /\ qt \in QueueType /\ Jobs(job, q) /\ Runs(job, run, q)
          /\ Places(qt, Gone(run, c, t))
      BY <3>1 DEF Shape, Types, QueuesType, Owners
    <3>5. Gone(run, c, t) = {}
      <4>1. job.curr # c
        BY <3>1, <3>3, <3>4 DEF Jobs, Both, Queues
      <4> QED
        BY <3>4, <4>1, GoneNone
    <3>6. n \in QueueType /\ n.queued = << >> /\ n.owned = Range(qt.queued)
      BY <3>2, <3>3, <3>4, <3>5, StartOk
    <3>7. /\ q'[c][t] = n
          /\ \A d \in Ctxs, u \in Queues :
               <<d, u>> # <<c, t>> => q'[d][u] = q[d][u]
      BY <1>3, <3>3, <3>6, OneQueue
    <3> SUFFICES ASSUME NEW d \in Ctxs PROVE Waits(d)' \subseteq Waits(d)
      OBVIOUS
    <3>8. CASE <<d, "OUT">> = <<c, t>>
      BY <3>1, <3>6, <3>7, <3>8, EmptySequence DEF Waits
    <3>9. CASE <<d, "OUT">> # <<c, t>>
      <4>1. q'[d]["OUT"] = q[d]["OUT"]
        BY <1>3, <3>7, <3>9
      <4> QED
        BY <4>1 DEF Waits
    <3> QED
      BY <3>8, <3>9
  <2> QED
    BY <2>1, <2>2
<1> QED
  BY <1>1, <1>2, <1>4, OnceKept

(* Steps that give buffers of c back to the program. *)
LEMMA ForgetOnce ==
  ASSUME Shape, Once, NEW c \in Ctxs, NEW t \in Queues, NEW S,
         Forget(c, t, S), NEW T \in SUBSET Index, BufFinish(c, T),
         \A d \in Ctxs : Waits(d)' \subseteq Waits(d),
         t = "OUT" => Waits(c)' \cap S = {}
  PROVE  Once'
<1>1. Types
  BY DEF Shape
<1>2. /\ frames' = frames
      /\ \A d \in Ctxs, i \in Index :
           asked'[d][i] = asked[d][i] \/ (d = c /\ t = "OUT" /\ i \in S)
  BY <1>1, ForgetOk
<1>3. \A d \in Ctxs : \A i \in Waits(d)' : asked'[d][i] = asked[d][i]
  <2> SUFFICES ASSUME NEW d \in Ctxs, NEW i \in Waits(d)'
               PROVE  asked'[d][i] = asked[d][i]
    OBVIOUS
  <2>1. i \in Index
    BY WaitsIndex
  <2> QED
    BY <1>2, <2>1
<1>4. Produced' = Produced
  BY <1>1, FinishMade
<1> QED
  BY <1>2, <1>3, <1>4, OnceKept

LEMMA DQBufOnce ==
  ASSUME Shape, Once, NEW c \in Ctxs, NEW t \in Queues, DQBuf(c, t)
  PROVE  Once'
<1>1. PICK qt : qt = q[c][t]
  OBVIOUS
<1>2. PICK n, i : n = [qt EXCEPT !.done = Tail(@)] /\ i = Head(qt.done)
  OBVIOUS
<1>3. /\ qt.on /\ qt.done # << >> /\ q' = With(q, c, t, n)
      /\ BufFinish(c, IF t = "CAP" THEN {i} ELSE {})
      /\ Forget(c, t, {i})
  BY <1>1, <1>2 DEF DQBuf, With
<1>4. q \in QueuesType /\ qt \in QueueType /\ Places(qt, Gone(run, c, t))
  BY <1>1 DEF Shape, Types, QueuesType, Owners
<1>5. /\ n \in QueueType /\ n.queued = qt.queued /\ n.owned = qt.owned
      /\ i \in Index /\ i \notin qt.owned
  BY <1>2, <1>3, <1>4, DequeueOk
<1>6. qt.queued = << >>
  BY <1>3, <1>4 DEF Places
<1>7. /\ q'[c][t] = n
      /\ \A d \in Ctxs, u \in Queues : <<d, u>> # <<c, t>> => q'[d][u] = q[d][u]
  BY <1>3, <1>4, <1>5, OneQueue
<1>8. \A d \in Ctxs : Waits(d)' \subseteq Waits(d)
  <2> SUFFICES ASSUME NEW d \in Ctxs PROVE Waits(d)' \subseteq Waits(d)
    OBVIOUS
  <2>1. CASE <<d, "OUT">> = <<c, t>>
    BY <1>1, <1>5, <1>7, <2>1 DEF Waits
  <2>2. CASE <<d, "OUT">> # <<c, t>>
    <3>1. q'[d]["OUT"] = q[d]["OUT"]
      BY <1>7, <2>2 DEF Queues
    <3> QED
      BY <3>1 DEF Waits
  <2> QED
    BY <2>1, <2>2
<1>9. t = "OUT" => Waits(c)' \cap {i} = {}
  BY <1>5, <1>6, <1>7, EmptySequence DEF Waits
<1>10. (IF t = "CAP" THEN {i} ELSE {}) \in SUBSET Index
  BY <1>5
<1> QED
  BY <1>3, <1>8, <1>9, <1>10, ForgetOnce

LEMMA ResetOnce ==
  ASSUME Shape, Once, NEW c \in Ctxs, NEW t \in Queues,
         NEW n \in QueueType, n.queued = << >>, n.owned = {},
         q' = With(q, c, t, n), FinishQueue(c, t), Forget(c, t, Index)
  PROVE  Once'
<1>1. q \in QueuesType /\ Types
  BY DEF Shape, Types
<1>2. /\ q'[c][t] = n
      /\ \A d \in Ctxs, u \in Queues : <<d, u>> # <<c, t>> => q'[d][u] = q[d][u]
  BY <1>1, OneQueue
<1>3. \A d \in Ctxs : Waits(d)' \subseteq Waits(d)
  <2> SUFFICES ASSUME NEW d \in Ctxs PROVE Waits(d)' \subseteq Waits(d)
    OBVIOUS
  <2>1. CASE <<d, "OUT">> = <<c, t>>
    BY <1>2, <2>1, EmptySequence DEF Waits
  <2>2. CASE <<d, "OUT">> # <<c, t>>
    <3>1. q'[d]["OUT"] = q[d]["OUT"]
      BY <1>2, <2>2 DEF Queues
    <3> QED
      BY <3>1 DEF Waits
  <2> QED
    BY <2>1, <2>2
<1>4. t = "OUT" => Waits(c)' \cap Index = {}
  BY <1>2, EmptySequence DEF Waits
<1>5. PICK S : S = IF t = "CAP" THEN Held(q[c][t]) ELSE {}
  OBVIOUS
<1>6. S \in SUBSET Index /\ BufFinish(c, S)
  BY <1>1, <1>5, FinishQueueOk
<1> QED
  BY <1>3, <1>4, <1>6, ForgetOnce

LEMMA ReqBufsOnce ==
  ASSUME Shape, Once, NEW c \in Ctxs, NEW t \in Queues, NEW b \in BOOLEAN,
         ReqBufs(c, t, b)
  PROVE  Once'
<1>1. PICK n : n = [Unused EXCEPT !.alloc = b, !.ready = q[c][t].ready]
  OBVIOUS
<1>2. q' = With(q, c, t, n) /\ FinishQueue(c, t) /\ Forget(c, t, Index)
  BY <1>1 DEF ReqBufs, With
<1>3. q[c][t].ready \in Seq(Index)
  BY DEF Shape, Types, QueuesType, QueueType
<1>4. n \in QueueType /\ n.queued = << >> /\ n.owned = {}
  BY <1>1, <1>3, ResetOk
<1> QED
  BY <1>2, <1>4, ResetOnce

LEMMA StreamOffOnce ==
  ASSUME Shape, Once, NEW c \in Ctxs, NEW t \in Queues, StreamOff(c, t)
  PROVE  Once'
<1>1. PICK n : n = [Unused EXCEPT !.alloc = TRUE]
  OBVIOUS
<1>2. q' = With(q, c, t, n) /\ FinishQueue(c, t) /\ Forget(c, t, Index)
  BY <1>1 DEF StreamOff, With
<1>3. n \in QueueType /\ n.queued = << >> /\ n.owned = {}
  BY <1>1, UnusedOk DEF QueueType
<1> QED
  BY <1>2, <1>3, ResetOnce

LEMMA ReleaseOnce ==
  ASSUME Shape, Once, NEW c \in Ctxs, Release(c)
  PROVE  Once'
<1>1. /\ q' = [q EXCEPT ![c] = [t \in Queues |-> Unused]]
      /\ FinishQueue(c, "CAP") /\ Forget(c, "OUT", Index)
  BY DEF Release
<1>2. Types /\ q \in QueuesType /\ "CAP" \in Queues /\ "OUT" \in Queues
  BY DEF Shape, Types, Queues
<1>3. /\ q'[c]["OUT"] = Unused /\ \A d \in Ctxs \ {c} : q'[d] = q[d]
  BY <1>1, <1>2 DEF QueuesType
<1>4. Waits(c)' = {} /\ \A d \in Ctxs \ {c} : Waits(d)' = Waits(d)
  BY <1>3, UnusedOk, EmptySequence DEF Waits
<1>5. PICK S : S = Held(q[c]["CAP"])
  OBVIOUS
<1>6. S \in SUBSET Index /\ BufFinish(c, S)
  BY <1>1, <1>2, <1>5, FinishQueueOk
<1> QED
  BY <1>1, <1>2, <1>4, <1>6, ForgetOnce

(* QBUF gives the frame a new name. *)
LEMMA QBufOnce ==
  ASSUME Shape, Once, NEW c \in Ctxs, NEW t \in Queues, NEW i \in Index,
         QBuf(c, t, i)
  PROVE  Once'
<1>1. PICK qt : qt = q[c][t]
  OBVIOUS
<1>2. PICK n : n = IF qt.on THEN BufQueue(qt, <<i>>)
                   ELSE [qt EXCEPT !.queued = Append(@, i)]
  OBVIOUS
<1>3. /\ i \notin Held(qt) /\ q' = With(q, c, t, n)
      /\ UNCHANGED <<pend, rows>>
  BY <1>1, <1>2 DEF QBuf, With, rowVars
<1>4. /\ q \in QueuesType /\ qt \in QueueType /\ Places(qt, Gone(run, c, t))
      /\ frames \in Nat
  <2>1. frames \in 0 .. MaxFrames
    BY DEF Shape, Types
  <2>2. frames \in Nat
    BY <2>1, M2MAssumption
  <2> QED
    BY <1>1, <2>2 DEF Shape, Types, QueuesType, Owners
<1>5. /\ n \in QueueType
      /\ Range(n.queued) \cup n.owned = (Range(qt.queued) \cup qt.owned) \cup {i}
  BY <1>2, <1>3, <1>4, QueuedOk, ZenonT(40)
<1>6. /\ q'[c][t] = n
      /\ \A d \in Ctxs, u \in Queues : <<d, u>> # <<c, t>> => q'[d][u] = q[d][u]
  BY <1>3, <1>4, <1>5, OneQueue
<1>7. Produced' = Produced
  BY <1>3, ProducedMade
<1>8. CASE t # "OUT"
  <2>1. asked' = asked /\ frames' = frames
    BY <1>8, QBufAsks
  <2>2. \A d \in Ctxs : q'[d]["OUT"] = q[d]["OUT"]
    BY <1>6, <1>8 DEF Queues
  <2> QED
    BY <1>3, <2>1, <2>2, QuietOnce
<1>9. CASE t = "OUT"
  <2>1. /\ frames' = frames + 1 /\ asked'[c][i].frame = frames + 1
        /\ \A d \in Ctxs, k \in Index :
             <<d, k>> # <<c, i>> => asked'[d][k] = asked[d][k]
    BY <1>9, QBufAsks
  <2>2. /\ Waits(c)' = Waits(c) \cup {i} /\ i \notin Waits(c)
        /\ \A d \in Ctxs \ {c} : Waits(d)' = Waits(d)
    <3>1. \A d \in Ctxs \ {c} : q'[d]["OUT"] = q[d]["OUT"]
      BY <1>6 DEF Queues
    <3> QED
      BY <1>1, <1>3, <1>5, <1>6, <1>9, <3>1 DEF Waits, Held
  <2>3. \A d \in Ctxs : \A k \in Waits(d) :
          /\ asked'[d][k] = asked[d][k] /\ asked[d][k].frame \in 1 .. frames
    <3> SUFFICES ASSUME NEW d \in Ctxs, NEW k \in Waits(d)
                 PROVE  /\ asked'[d][k] = asked[d][k]
                        /\ asked[d][k].frame \in 1 .. frames
      OBVIOUS
    <3>1. k \in Index /\ <<d, k>> # <<c, i>>
      BY <2>2, WaitsIndex
    <3> QED
      BY <2>1, <3>1 DEF Once
  <2>4. \A x \in 1 .. frames : x # frames + 1 /\ x \in 1 .. frames + 1
    BY <1>4
  <2>5. frames + 1 \in 1 .. frames + 1
    BY <1>4
  <2>6. \A d \in Ctxs : \A k \in Waits(d)' :
          \/ k \in Waits(d) /\ asked'[d][k] = asked[d][k]
                            /\ asked[d][k].frame \in 1 .. frames
          \/ d = c /\ k = i /\ asked'[d][k].frame = frames + 1
    BY <2>1, <2>2, <2>3
  <2>7. \A d \in Ctxs : \A k \in Waits(d)' : asked'[d][k].frame \in 1 .. frames'
    BY <2>1, <2>4, <2>5, <2>6
  <2>8. \A d, b \in Ctxs : \A k \in Waits(d)', j \in Waits(b)' :
          asked'[d][k].frame = asked'[b][j].frame => d = b /\ k = j
    <3> SUFFICES ASSUME NEW d \in Ctxs, NEW b \in Ctxs, NEW k \in Waits(d)',
                        NEW j \in Waits(b)',
                        asked'[d][k].frame = asked'[b][j].frame
                 PROVE  d = b /\ k = j
      OBVIOUS
    <3>1. CASE k \in Waits(d) /\ j \in Waits(b)
      <4>1. asked[d][k].frame = asked[b][j].frame
        BY <2>3, <3>1
      <4> QED
        BY <3>1, <4>1 DEF Once
    <3>2. CASE ~(k \in Waits(d) /\ j \in Waits(b))
      BY <2>4, <2>6, <3>2
    <3> QED
      BY <3>1, <3>2
  <2>9. \A r \in Produced' : r.asked.frame \in 1 .. frames
    BY <1>7 DEF Once
  <2>10. \A r \in Produced' : r.asked.frame \in 1 .. frames'
    BY <2>1, <2>4, <2>9
  <2>11. \A r \in Produced' : \A d \in Ctxs : \A k \in Waits(d)' :
           r.asked.frame # asked'[d][k].frame
    <3> SUFFICES ASSUME NEW r \in Produced', NEW d \in Ctxs, NEW k \in Waits(d)'
                 PROVE  r.asked.frame # asked'[d][k].frame
      OBVIOUS
    <3>1. CASE k \in Waits(d)
      BY <1>7, <2>3, <3>1 DEF Once
    <3>2. CASE k \notin Waits(d)
      BY <2>4, <2>6, <2>9, <3>2
    <3> QED
      BY <3>1, <3>2
  <2>12. \A r, s \in Produced' : r.asked.frame = s.asked.frame => r = s
    BY <1>7 DEF Once
  <2> QED
    BY <2>7, <2>8, <2>10, <2>11, <2>12 DEF Once
<1> QED
  BY <1>8, <1>9

(* device_run makes a row of a frame that no longer waits. *)
LEMMA RunGiveOnce ==
  ASSUME Shape, Stamps, Once, NEW e \in Executors, RunGive(e)
  PROVE  Once'
<1>1. PICK c, r : c = run[e].ctx /\ r = run[e]
  OBVIOUS
<1>2. r.at = "give" /\ UNCHANGED <<frames, asked, rows>>
  BY <1>1 DEF RunGive, stampVars
<1>3. c \in Ctxs /\ Both(q[c])
  BY <1>1, <1>2, Active
<1>4. /\ \A d \in Ctxs \ {c} : q'[d] = q[d]
      /\ q'[c]["OUT"].queued = q[c]["OUT"].queued
      /\ q'[c]["OUT"].owned = q[c]["OUT"].owned \ {r.src}
      /\ r.src \in q[c]["OUT"].owned
  BY <1>1, GiveOk DEF Taken, Queues
<1>5. q[c]["OUT"].queued = << >>
  BY <1>3 DEF Shape, Owners, Places, Both, Queues
<1>6. /\ r.src \in Waits(c) /\ r.src \notin Waits(c)'
      /\ \A d \in Ctxs : Waits(d)' \subseteq Waits(d)
  BY <1>4, <1>5, EmptySequence DEF Waits
<1>7. PICK m : m = Meta(r)
  OBVIOUS
<1>8. m.asked = asked[c][r.src]
  <2>1. m.asked = r.asked
    BY <1>7 DEF Meta
  <2>2. r.asked = asked[c][r.src]
    BY <1>1, <1>2 DEF Stamps
  <2> QED
    BY <2>1, <2>2
<1>9. \A x \in Produced' : x \in Produced \/ x = m
  BY <1>1, <1>7, GiveMade
<1>10. /\ m.asked.frame \in 1 .. frames
       /\ \A d \in Ctxs : \A k \in Waits(d) :
            m.asked.frame = asked[d][k].frame => d = c /\ k = r.src
       /\ \A x \in Produced : x.asked.frame # m.asked.frame
  BY <1>3, <1>6, <1>8 DEF Once
<1>11. \A d \in Ctxs : \A k \in Waits(d)' : asked'[d][k].frame \in 1 .. frames'
  BY <1>2, <1>6 DEF Once
<1>12. \A d, b \in Ctxs : \A k \in Waits(d)', j \in Waits(b)' :
         asked'[d][k].frame = asked'[b][j].frame => d = b /\ k = j
  <2> SUFFICES ASSUME NEW d \in Ctxs, NEW b \in Ctxs, NEW k \in Waits(d)',
                      NEW j \in Waits(b)',
                      asked[d][k].frame = asked[b][j].frame
               PROVE  d = b /\ k = j
    BY <1>2
  <2>1. k \in Waits(d) /\ j \in Waits(b)
    BY <1>6
  <2> QED
    BY <2>1 DEF Once
<1>13. \A x \in Produced' : x.asked.frame \in 1 .. frames'
  BY <1>2, <1>9, <1>10 DEF Once
<1>14. \A x \in Produced' : \A d \in Ctxs : \A k \in Waits(d)' :
         x.asked.frame # asked'[d][k].frame
  <2> SUFFICES ASSUME NEW x \in Produced', NEW d \in Ctxs, NEW k \in Waits(d)'
               PROVE  x.asked.frame # asked[d][k].frame
    BY <1>2
  <2>1. k \in Waits(d) /\ ~(d = c /\ k = r.src)
    BY <1>6
  <2>2. CASE x \in Produced
    BY <2>1, <2>2 DEF Once
  <2>3. CASE x = m
    BY <1>10, <2>1, <2>3
  <2> QED
    BY <1>9, <2>2, <2>3
<1>15. \A x, y \in Produced' : x.asked.frame = y.asked.frame => x = y
  BY <1>9, <1>10 DEF Once
<1> QED
  BY <1>11, <1>12, <1>13, <1>14, <1>15 DEF Once

LEMMA NextOnce == Orderly /\ Shape /\ Stamps /\ Once /\ [Next]_vars => Once'
<1> SUFFICES ASSUME Orderly, Shape, Stamps, Once, [Next]_vars PROVE Once'
  OBVIOUS
<1>1. CASE Work
  BY <1>1, PlainOnce
<1>2. ASSUME NEW e \in Executors, DeviceRun(e) PROVE Once'
  BY <1>2, PlainOnce, RunGiveOnce DEF DeviceRun
<1>3. ASSUME NEW c \in Ctxs,
             \/ Open(c) \/ Release(c) \/ StreamOnFails(c)
             \/ \E v \in Ctls : SetCtrl(c, v)
             \/ \E b \in Backends : SetBackend(c, b)
      PROVE  Once'
  BY <1>3, PlainOnce, ReleaseOnce, StreamOnOnce
<1>4. ASSUME NEW c \in Ctxs, NEW t \in Queues,
             \/ StreamOn(c, t) \/ StreamOff(c, t) \/ DQBuf(c, t)
             \/ \E b \in BOOLEAN : ReqBufs(c, t, b)
             \/ \E i \in Index : QBuf(c, t, i)
      PROVE  Once'
  BY <1>4, StreamOnOnce, StreamOffOnce, DQBufOnce, ReqBufsOnce, QBufOnce
<1>5. CASE UNCHANGED vars
  <2>1. UNCHANGED <<q, frames, asked, rows, pend>>
    BY <1>5 DEF vars
  <2> QED
    BY <2>1, QuietOnce
<1> QED
  BY <1>1, <1>2, <1>3, <1>4, <1>5 DEF Next

(* No frame is processed twice, and none of a file comes out in a row of   *)
(* another frame (vpipe_device_run).                                       *)
THEOREM OnceHolds ==
  ASSUME Orderly
  PROVE  Spec => []Once
<1>1. Orderly /\ Shape /\ Stamps /\ Once /\ [Next]_vars => Once'
  BY NextOnce
<1>2. Shape /\ Stamps /\ Once /\ [Next]_vars => Once'
  BY <1>1
<1> QED
  BY <1>2, InitOnce, ShapeHolds, StampsHold, PTL DEF Spec
-----------------------------------------------------------------------------
(* Kept and Numbered are invariants. *)

LEMMA InitNumbered == Init => Kept /\ Numbered
<1> SUFFICES ASSUME Init PROVE Kept /\ Numbered
  OBVIOUS
<1>1. /\ \A c \in Ctxs, i \in Index : pend[c][i] = NoRow
      /\ rows = << >> /\ sequence = 0
  BY DEF Init
<1>2. Produced = {}
  <2>1. \A r \in Made(rows, pend) : FALSE
    BY <1>1, MadeHas, EmptySequence
  <2> QED
    BY <2>1, ProducedMade
<1>3. 1 .. sequence = {}
  BY <1>1
<1>4. DOMAIN rows = {}
  BY <1>1
<1> QED
  BY <1>1, <1>2, <1>3, <1>4 DEF Kept, Numbered

(* Steps that leave the rows alone and keep what is done. *)
LEMMA QuietNumbered ==
  ASSUME Kept, Numbered, UNCHANGED <<sequence, rows, pend>>,
         \A d \in Ctxs :
           Range(q[d]["CAP"].done) \subseteq Range(q'[d]["CAP"].done)
  PROVE  Kept' /\ Numbered'
<1>1. Kept'
  BY DEF Kept
<1>2. Produced' = Produced
  BY ProducedMade
<1> QED
  BY <1>1, <1>2 DEF Numbered

(* vpipe_buf_finish keeps every number on its one row. *)
LEMMA FinishNumbered ==
  ASSUME Types, Numbered, NEW c \in Ctxs, NEW S \in SUBSET Index,
         BufFinish(c, S), sequence' = sequence
  PROVE  Numbered'
<1>1. rows \in Seq(Row) /\ pend \in [Ctxs -> [Index -> Row \cup {NoRow}]]
  BY DEF Types
<1>2. \A d \in Ctxs, i \in Index :
        pend'[d][i] = IF d = c /\ i \in S THEN NoRow ELSE pend[d][i]
  BY BufFinishOk
<1>3. PICK s \in Seq(Index), z \in Seq(Row) :
        /\ rows' = rows \o z
        /\ Len(z) = Len(s)
        /\ \A k \in 1 .. Len(s) : z[k] = pend[c][s[k]]
        /\ IsInjective(s)
        /\ Range(s) = {i \in S : pend[c][i] # NoRow}
  BY BufFinishOk
<1>4. Produced' = Produced
  BY FinishMade
<1>5. \A j \in 1 .. Len(s) : s[j] \in S /\ s[j] \in Index /\ pend[c][s[j]] # NoRow
  <2>1. \A j \in 1 .. Len(s) : s[j] \in Range(s) /\ s[j] \in Index
    BY DEF Range
  <2> QED
    BY <1>3, <2>1
<1>6. ASSUME NEW k \in DOMAIN rows'
      PROVE  \/ k \in DOMAIN rows /\ rows'[k] = rows[k]
             \/ \E j \in 1 .. Len(s) :
                  k = Len(rows) + j /\ rows'[k] = pend[c][s[j]]
  <2>1. /\ Len(rows) \in Nat /\ Len(z) \in Nat
        /\ DOMAIN (rows \o z) = 1 .. Len(rows) + Len(z)
        /\ DOMAIN rows = 1 .. Len(rows)
        /\ \A n \in 1 .. Len(rows) : (rows \o z)[n] = rows[n]
        /\ \A n \in 1 .. Len(z) : (rows \o z)[Len(rows) + n] = z[n]
    BY <1>1
  <2>2. k \in 1 .. Len(rows) + Len(z)
    BY <1>3, <1>6, <2>1
  <2>3. CASE k <= Len(rows)
    <3>1. k \in 1 .. Len(rows)
      BY <2>1, <2>2, <2>3
    <3> QED
      BY <1>3, <2>1, <3>1
  <2>4. CASE k > Len(rows)
    <3>1. PICK j \in 1 .. Len(z) : k = Len(rows) + j
      <4>1. k - Len(rows) \in 1 .. Len(z) /\ k = Len(rows) + (k - Len(rows))
        BY <2>1, <2>2, <2>4
      <4> QED
        BY <4>1
    <3>2. rows'[k] = z[j] /\ j \in 1 .. Len(s)
      BY <1>3, <2>1, <3>1
    <3>3. rows'[k] = pend[c][s[j]]
      BY <1>3, <3>2
    <3> QED
      BY <3>1, <3>2, <3>3
  <2> QED
    BY <2>1, <2>2, <2>3, <2>4
<1>7. ASSUME NEW k \in DOMAIN rows', NEW l \in DOMAIN rows',
             rows'[k].seq = rows'[l].seq
      PROVE  k = l
  <2>1. CASE k \in DOMAIN rows /\ rows'[k] = rows[k]
    <3>1. CASE l \in DOMAIN rows /\ rows'[l] = rows[l]
      BY <1>7, <2>1, <3>1 DEF Numbered
    <3>2. CASE \E j \in 1 .. Len(s) : rows'[l] = pend[c][s[j]]
      BY <1>5, <1>7, <2>1, <3>2 DEF Numbered
    <3> QED
      BY <1>6, <3>1, <3>2
  <2>2. CASE \E j \in 1 .. Len(s) : k = Len(rows) + j /\ rows'[k] = pend[c][s[j]]
    <3>1. PICK j \in 1 .. Len(s) : k = Len(rows) + j /\ rows'[k] = pend[c][s[j]]
      BY <2>2
    <3>2. CASE l \in DOMAIN rows /\ rows'[l] = rows[l]
      BY <1>5, <1>7, <3>1, <3>2 DEF Numbered
    <3>3. CASE \E i \in 1 .. Len(s) :
                 l = Len(rows) + i /\ rows'[l] = pend[c][s[i]]
      <4>1. PICK i \in 1 .. Len(s) : l = Len(rows) + i /\ rows'[l] = pend[c][s[i]]
        BY <3>3
      <4>2. s[j] = s[i]
        BY <1>5, <1>7, <3>1, <4>1 DEF Numbered
      <4>3. IsInjective(s) /\ j \in DOMAIN s /\ i \in DOMAIN s
        BY <1>3
      <4>4. j = i
        BY <4>2, <4>3 DEF IsInjective
      <4> QED
        BY <3>1, <4>1, <4>4
    <3> QED
      BY <1>6, <3>2, <3>3
  <2> QED
    BY <1>6, <2>1, <2>2
<1>8. \A d, b \in Ctxs, i, j \in Index :
        pend'[d][i] # NoRow /\ pend'[b][j] # NoRow
          /\ pend'[d][i].seq = pend'[b][j].seq => d = b /\ i = j
  BY <1>2 DEF Numbered
<1>9. ASSUME NEW k \in DOMAIN rows', NEW d \in Ctxs, NEW i \in Index,
             pend'[d][i] # NoRow
      PROVE  rows'[k].seq # pend'[d][i].seq
  <2>1. pend'[d][i] = pend[d][i] /\ ~(d = c /\ i \in S)
    BY <1>2, <1>9
  <2>2. CASE k \in DOMAIN rows /\ rows'[k] = rows[k]
    BY <1>9, <2>1, <2>2 DEF Numbered
  <2>3. CASE \E j \in 1 .. Len(s) : rows'[k] = pend[c][s[j]]
    BY <1>5, <1>9, <2>1, <2>3 DEF Numbered
  <2> QED
    BY <1>6, <2>2, <2>3
<1>10. /\ \A r \in Produced' : r.seq \in 1 .. sequence'
       /\ \A n \in 1 .. sequence' : \E r \in Produced' : r.seq = n
  BY <1>4 DEF Numbered
<1> QED
  BY <1>7, <1>8, <1>9, <1>10 DEF Numbered

LEMMA DQBufNumbered ==
  ASSUME Shape, Kept, Numbered, NEW c \in Ctxs, NEW t \in Queues, DQBuf(c, t)
  PROVE  Kept' /\ Numbered'
<1>1. PICK qt : qt = q[c][t]
  OBVIOUS
<1>2. PICK n, i : n = [qt EXCEPT !.done = Tail(@)] /\ i = Head(qt.done)
  OBVIOUS
<1>3. /\ qt.on /\ qt.done # << >> /\ q' = With(q, c, t, n)
      /\ BufFinish(c, IF t = "CAP" THEN {i} ELSE {})
      /\ sequence' = sequence
  BY <1>1, <1>2 DEF DQBuf, With
<1>4. /\ Types /\ q \in QueuesType /\ qt \in QueueType
      /\ Places(qt, Gone(run, c, t))
  BY <1>1 DEF Shape, Types, QueuesType, Owners
<1>5. n \in QueueType /\ i \in Index /\ Range(n.done) = Range(qt.done) \ {i}
  BY <1>2, <1>3, <1>4, DequeueOk
<1>6. /\ q'[c][t] = n
      /\ \A d \in Ctxs, u \in Queues : <<d, u>> # <<c, t>> => q'[d][u] = q[d][u]
  BY <1>3, <1>4, <1>5, OneQueue
<1>7. PICK S : S = IF t = "CAP" THEN {i} ELSE {}
  OBVIOUS
<1>8. S \in SUBSET Index /\ BufFinish(c, S)
  BY <1>3, <1>5, <1>7
<1>9. Numbered'
  BY <1>3, <1>4, <1>8, FinishNumbered
<1>10. \A d \in Ctxs, k \in Index :
         pend'[d][k] = IF d = c /\ k \in S THEN NoRow ELSE pend[d][k]
  BY <1>4, <1>8, BufFinishOk
<1>11. Kept'
  <2> SUFFICES ASSUME NEW d \in Ctxs, NEW k \in Index, pend'[d][k] # NoRow
               PROVE  k \in Range(q'[d]["CAP"].done)
    BY DEF Kept
  <2>1. pend[d][k] # NoRow /\ ~(d = c /\ k \in S)
    BY <1>10
  <2>2. k \in Range(q[d]["CAP"].done)
    BY <2>1 DEF Kept
  <2>3. CASE <<d, "CAP">> = <<c, t>>
    BY <1>1, <1>5, <1>6, <1>7, <2>1, <2>2, <2>3
  <2>4. CASE <<d, "CAP">> # <<c, t>>
    BY <1>6, <2>2, <2>4 DEF Queues
  <2> QED
    BY <2>3, <2>4
<1> QED
  BY <1>9, <1>11

(* One queue of c is replaced; its buffers are finished first. *)
LEMMA ResetNumbered ==
  ASSUME Shape, Kept, Numbered, NEW c \in Ctxs, NEW t \in Queues,
         NEW n \in QueueType, q' = With(q, c, t, n), FinishQueue(c, t),
         sequence' = sequence
  PROVE  Kept' /\ Numbered'
<1>1. q \in QueuesType /\ Types
  BY DEF Shape, Types
<1>2. \A d \in Ctxs, u \in Queues : <<d, u>> # <<c, t>> => q'[d][u] = q[d][u]
  BY <1>1, OneQueue
<1>3. PICK S : S = IF t = "CAP" THEN Held(q[c][t]) ELSE {}
  OBVIOUS
<1>4. S \in SUBSET Index /\ BufFinish(c, S)
  BY <1>1, <1>3, FinishQueueOk
<1>5. Numbered'
  BY <1>1, <1>4, FinishNumbered
<1>6. \A d \in Ctxs, k \in Index :
        pend'[d][k] = IF d = c /\ k \in S THEN NoRow ELSE pend[d][k]
  BY <1>1, <1>4, BufFinishOk
<1>7. Kept'
  <2> SUFFICES ASSUME NEW d \in Ctxs, NEW k \in Index, pend'[d][k] # NoRow
               PROVE  k \in Range(q'[d]["CAP"].done)
    BY DEF Kept
  <2>1. pend[d][k] # NoRow /\ ~(d = c /\ k \in S)
    BY <1>6
  <2>2. k \in Range(q[d]["CAP"].done)
    BY <2>1 DEF Kept
  <2>3. <<d, "CAP">> # <<c, t>>
    BY <1>3, <2>1, <2>2 DEF Held
  <2> QED
    BY <1>2, <2>2, <2>3 DEF Queues
<1> QED
  BY <1>5, <1>7

LEMMA ReqBufsNumbered ==
  ASSUME Shape, Kept, Numbered, NEW c \in Ctxs, NEW t \in Queues,
         NEW b \in BOOLEAN, ReqBufs(c, t, b)
  PROVE  Kept' /\ Numbered'
<1>1. PICK n : n = [Unused EXCEPT !.alloc = b, !.ready = q[c][t].ready]
  OBVIOUS
<1>2. q' = With(q, c, t, n) /\ FinishQueue(c, t) /\ sequence' = sequence
  BY <1>1 DEF ReqBufs, With
<1>3. q[c][t].ready \in Seq(Index)
  BY DEF Shape, Types, QueuesType, QueueType
<1>4. n \in QueueType
  BY <1>1, <1>3, ResetOk
<1> QED
  BY <1>2, <1>4, ResetNumbered

LEMMA StreamOffNumbered ==
  ASSUME Shape, Kept, Numbered, NEW c \in Ctxs, NEW t \in Queues, StreamOff(c, t)
  PROVE  Kept' /\ Numbered'
<1>1. PICK n : n = [Unused EXCEPT !.alloc = TRUE]
  OBVIOUS
<1>2. q' = With(q, c, t, n) /\ FinishQueue(c, t) /\ sequence' = sequence
  BY <1>1 DEF StreamOff, With
<1>3. n \in QueueType
  BY <1>1, UnusedOk DEF QueueType
<1> QED
  BY <1>2, <1>3, ResetNumbered

LEMMA ReleaseNumbered ==
  ASSUME Shape, Kept, Numbered, NEW c \in Ctxs, Release(c)
  PROVE  Kept' /\ Numbered'
<1>1. /\ q' = [q EXCEPT ![c] = [t \in Queues |-> Unused]]
      /\ FinishQueue(c, "CAP") /\ sequence' = sequence
  BY DEF Release
<1>2. Types /\ q \in QueuesType /\ "CAP" \in Queues
  BY DEF Shape, Types, Queues
<1>3. \A d \in Ctxs \ {c} : q'[d] = q[d]
  BY <1>1, <1>2 DEF QueuesType
<1>4. PICK S : S = Held(q[c]["CAP"])
  OBVIOUS
<1>5. S \in SUBSET Index /\ BufFinish(c, S)
  BY <1>1, <1>2, <1>4, FinishQueueOk
<1>6. Numbered'
  BY <1>1, <1>2, <1>5, FinishNumbered
<1>7. \A d \in Ctxs, k \in Index :
        pend'[d][k] = IF d = c /\ k \in S THEN NoRow ELSE pend[d][k]
  BY <1>2, <1>5, BufFinishOk
<1>8. Kept'
  <2> SUFFICES ASSUME NEW d \in Ctxs, NEW k \in Index, pend'[d][k] # NoRow
               PROVE  k \in Range(q'[d]["CAP"].done)
    BY DEF Kept
  <2>1. pend[d][k] # NoRow /\ ~(d = c /\ k \in S)
    BY <1>7
  <2>2. k \in Range(q[d]["CAP"].done)
    BY <2>1 DEF Kept
  <2>3. d # c
    BY <1>4, <2>1, <2>2 DEF Held
  <2> QED
    BY <1>3, <2>2, <2>3
<1> QED
  BY <1>6, <1>8

(* device_run gives the next number to a new row, in a buffer that has     *)
(* none.                                                                   *)
LEMMA RunGiveNumbered ==
  ASSUME Shape, Kept, Numbered, NEW e \in Executors, RunGive(e)
  PROVE  Kept' /\ Numbered'
<1>1. PICK c, r : c = run[e].ctx /\ r = run[e]
  OBVIOUS
<1>2. r.at = "give" /\ rows' = rows
  BY <1>1 DEF RunGive
<1>3. c \in Ctxs
  BY <1>1, <1>2, Active
<1>4. /\ \A d \in Ctxs \ {c} : q'[d] = q[d]
      /\ q[c]["CAP"].done \in Seq(Index)
      /\ q'[c]["CAP"].done = Append(q[c]["CAP"].done, r.dst)
      /\ r.dst \in Index /\ r.dst \notin Range(q[c]["CAP"].done)
  BY <1>1, GiveOk DEF Taken, Queues
<1>5. Range(q'[c]["CAP"].done) = Range(q[c]["CAP"].done) \cup {r.dst}
  BY <1>4, RangeAppend
<1>6. \A d \in Ctxs : Range(q[d]["CAP"].done) \subseteq Range(q'[d]["CAP"].done)
  BY <1>4, <1>5
<1>7. CASE sequence' = sequence /\ pend' = pend
  BY <1>2, <1>6, <1>7, QuietNumbered
<1>8. CASE /\ sequence' = sequence + 1 /\ Meta(r) \in Row
           /\ \A d \in Ctxs, i \in Index :
                pend'[d][i] = IF d = c /\ i = r.dst THEN Meta(r) ELSE pend[d][i]
  <2>1. PICK m \in Row : m = Meta(r)
    BY <1>8
  <2>2. m.seq = sequence + 1 /\ m # NoRow
    BY <2>1, M2MAssumption DEF Meta
  <2>3. pend[c][r.dst] = NoRow
    BY <1>3, <1>4 DEF Kept
  <2>4. /\ pend'[c][r.dst] = m
        /\ \A d \in Ctxs, i \in Index :
             <<d, i>> # <<c, r.dst>> => pend'[d][i] = pend[d][i]
    BY <1>3, <1>4, <1>8, <2>1
  <2>5. Kept'
    <3> SUFFICES ASSUME NEW d \in Ctxs, NEW i \in Index, pend'[d][i] # NoRow
                 PROVE  i \in Range(q'[d]["CAP"].done)
      BY DEF Kept
    <3>1. CASE <<d, i>> = <<c, r.dst>>
      BY <1>5, <3>1
    <3>2. CASE <<d, i>> # <<c, r.dst>>
      BY <1>6, <2>4, <3>2 DEF Kept
    <3> QED
      BY <3>1, <3>2
  <2>6. sequence \in Nat
    BY DEF Shape, Types
  <2>7. \A x \in 1 .. sequence : x # sequence + 1 /\ x \in 1 .. sequence + 1
    BY <2>6
  <2>8. \A x \in Produced' : x \in Produced \/ x = m
    BY <1>1, <2>1, GiveMade
  <2>9. m \in Produced' /\ \A x \in Produced : x \in Produced'
    <3>1. m \in Made(rows', pend')
      BY <1>3, <1>4, <2>2, <2>4, MadeHas
    <3>2. ASSUME NEW x \in Made(rows, pend) PROVE x \in Made(rows', pend')
      <4>1. CASE x \in Range(rows)
        BY <1>2, <4>1, MadeHas
      <4>2. CASE \E d \in Ctxs, i \in Index : pend[d][i] # NoRow /\ x = pend[d][i]
        <5>1. PICK d \in Ctxs, i \in Index : pend[d][i] # NoRow /\ x = pend[d][i]
          BY <4>2
        <5>2. <<d, i>> # <<c, r.dst>>
          BY <2>3, <5>1
        <5>3. pend'[d][i] # NoRow /\ x = pend'[d][i]
          BY <2>4, <5>1, <5>2
        <5> QED
          BY <5>3, MadeHas
      <4> QED
        BY <4>1, <4>2, MadeHas
    <3> QED
      BY <3>1, <3>2, ProducedMade
  <2>10. \A x \in Produced : x.seq \in 1 .. sequence
    BY DEF Numbered
  <2>11. \A x \in Produced' : x.seq \in 1 .. sequence'
    <3>1. sequence + 1 \in 1 .. sequence + 1
      BY <2>6
    <3> QED
      BY <1>8, <2>2, <2>7, <2>8, <2>10, <3>1
  <2>12. ASSUME NEW n \in 1 .. sequence' PROVE \E x \in Produced' : x.seq = n
    <3>1. n \in 1 .. sequence \/ n = sequence + 1
      BY <1>8, <2>6, <2>12
    <3>2. CASE n \in 1 .. sequence
      <4>1. PICK x \in Produced : x.seq = n
        BY <3>2 DEF Numbered
      <4> QED
        BY <2>9, <4>1
    <3>3. CASE n = sequence + 1
      BY <2>2, <2>9, <3>3
    <3> QED
      BY <3>1, <3>2, <3>3
  <2>13. /\ \A d \in Ctxs, i \in Index :
              pend[d][i] # NoRow => pend[d][i].seq # sequence + 1
         /\ \A k \in DOMAIN rows : rows[k].seq # sequence + 1
    <3>1. \A d \in Ctxs, i \in Index : pend[d][i] # NoRow => pend[d][i] \in Produced
      BY MadeHas, ProducedMade
    <3>2. \A k \in DOMAIN rows : rows[k] \in Range(rows)
      BY DEF Range
    <3>3. \A k \in DOMAIN rows : rows[k] \in Produced
      BY <3>2, MadeHas, ProducedMade
    <3> QED
      BY <2>7, <2>10, <3>1, <3>3
  <2>14. \A k, l \in DOMAIN rows' : rows'[k].seq = rows'[l].seq => k = l
    BY <1>2 DEF Numbered
  <2>15. ASSUME NEW d \in Ctxs, NEW b \in Ctxs, NEW i \in Index, NEW j \in Index,
                pend'[d][i] # NoRow, pend'[b][j] # NoRow,
                pend'[d][i].seq = pend'[b][j].seq
         PROVE  d = b /\ i = j
    <3>1. CASE <<d, i>> = <<c, r.dst>>
      BY <2>2, <2>4, <2>13, <2>15, <3>1
    <3>2. CASE <<b, j>> = <<c, r.dst>>
      BY <2>2, <2>4, <2>13, <2>15, <3>2
    <3>3. CASE <<d, i>> # <<c, r.dst>> /\ <<b, j>> # <<c, r.dst>>
      <4>1. pend'[d][i] = pend[d][i] /\ pend'[b][j] = pend[b][j]
        BY <2>4, <3>3
      <4> QED
        BY <2>15, <4>1 DEF Numbered
    <3> QED
      BY <3>1, <3>2, <3>3
  <2>16. ASSUME NEW k \in DOMAIN rows, NEW d \in Ctxs, NEW i \in Index,
                pend'[d][i] # NoRow
         PROVE  rows[k].seq # pend'[d][i].seq
    <3>1. CASE <<d, i>> = <<c, r.dst>>
      BY <2>2, <2>4, <2>13, <3>1
    <3>2. CASE <<d, i>> # <<c, r.dst>>
      <4>1. pend'[d][i] = pend[d][i]
        BY <2>4, <3>2
      <4> QED
        BY <2>16, <4>1 DEF Numbered
    <3> QED
      BY <3>1, <3>2
  <2>17. Numbered'
    BY <1>2, <2>11, <2>12, <2>14, <2>15, <2>16 DEF Numbered
  <2> QED
    BY <2>5, <2>17
<1> QED
  BY <1>1, <1>7, <1>8, GiveRowOk

(* Every other step. *)
LEMMA PlainNumbered ==
  ASSUME Orderly, Shape, Kept, Numbered,
         \/ Work
         \/ \E e \in Executors : RunPick(e) \/ RunRemove(e) \/ RunFinish(e)
         \/ \E c \in Ctxs : \/ Open(c) \/ StreamOnFails(c)
                            \/ \E v \in Ctls : SetCtrl(c, v)
                            \/ \E b \in Backends : SetBackend(c, b)
                            \/ \E t \in Queues :
                                 \/ StreamOn(c, t)
                                 \/ \E i \in Index : QBuf(c, t, i)
  PROVE  Kept' /\ Numbered'
<1>1. UNCHANGED <<sequence, rows, pend>>
  <2>1. CASE Work \/ \E e \in Executors : RunFinish(e)
    BY <2>1 DEF Work, RunFinish, rowVars
  <2>2. ASSUME NEW e \in Executors, RunPick(e) PROVE UNCHANGED rowVars
    BY <2>2 DEF RunPick
  <2>3. ASSUME NEW e \in Executors, RunRemove(e) PROVE UNCHANGED rowVars
    BY <2>3 DEF RunRemove
  <2>4. ASSUME NEW c \in Ctxs,
               \/ Open(c) \/ StreamOnFails(c)
               \/ \E v \in Ctls : SetCtrl(c, v)
               \/ \E b \in Backends : SetBackend(c, b)
        PROVE  UNCHANGED rowVars
    BY <2>4 DEF Open, StreamOnFails, SetCtrl, SetBackend
  <2>5. ASSUME NEW c \in Ctxs, NEW t \in Queues,
               StreamOn(c, t) \/ \E i \in Index : QBuf(c, t, i)
        PROVE  UNCHANGED rowVars
    BY <2>5 DEF StreamOn, QBuf
  <2> QED
    BY <2>1, <2>2, <2>3, <2>4, <2>5 DEF rowVars
<1>2. q \in QueuesType /\ "CAP" \in Queues /\ "OUT" \in Queues
  BY DEF Shape, Types, Queues
<1>3. SUFFICES ASSUME NEW d \in Ctxs PROVE q'[d]["CAP"].done = q[d]["CAP"].done
  BY <1>1, QuietNumbered
<1>4. ASSUME NEW e \in Executors, RunRemove(e)
      PROVE  q'[d]["CAP"].done = q[d]["CAP"].done
  <2>1. PICK c : c = run[e].ctx
    OBVIOUS
  <2>2. /\ \A b \in Ctxs \ {c} : q'[b] = q[b]
        /\ q'[c]["CAP"].done = q[c]["CAP"].done
    BY <1>2, <1>4, <2>1, RemoveOk
  <2> QED
    BY <2>2
<1>5. ASSUME NEW c \in Ctxs, StreamOnFails(c)
      PROVE  q'[d]["CAP"].done = q[d]["CAP"].done
  <2>1. PICK n : n = [q[c]["OUT"] EXCEPT !.ready = @ \o q[c]["OUT"].queued]
    OBVIOUS
  <2>2. ~q[c]["OUT"].on /\ q' = With(q, c, "OUT", n)
    BY <1>5, <2>1 DEF StreamOnFails, With
  <2>3. q[c]["OUT"] \in QueueType /\ Places(q[c]["OUT"], Gone(run, c, "OUT"))
    BY DEF Shape, Types, QueuesType, Owners, Queues
  <2>4. n \in QueueType
    BY <2>1, <2>2, <2>3, StartFailsOk
  <2>5. \A b \in Ctxs, u \in Queues :
          <<b, u>> # <<c, "OUT">> => q'[b][u] = q[b][u]
    BY ONLY c \in Ctxs, <1>2, <2>2, <2>4, OneQueue
  <2> QED
    BY <1>2, <2>5
<1>6. ASSUME NEW c \in Ctxs, NEW t \in Queues, StreamOn(c, t)
      PROVE  q'[d]["CAP"].done = q[d]["CAP"].done
  <2>1. PICK qt : qt = q[c][t]
    OBVIOUS
  <2>2. PICK n :
          n = [BufQueue(qt, qt.queued) EXCEPT !.queued = << >>, !.on = TRUE]
    OBVIOUS
  <2>3. ~qt.on /\ qt.ready = << >> /\ q' = With(q, c, t, n)
    BY <1>6, <2>1, <2>2 DEF StreamOn, With, Orderly
  <2>4. /\ qt \in QueueType /\ Jobs(job, q) /\ Runs(job, run, q)
        /\ Places(qt, Gone(run, c, t))
    BY <2>1 DEF Shape, Types, QueuesType, Owners
  <2>5. job.curr # c
    BY <2>1, <2>3, <2>4 DEF Jobs, Both, Queues
  <2>6. Gone(run, c, t) = {}
    BY <2>4, <2>5, GoneNone
  <2>7. n \in QueueType /\ n.done = << >>
    BY <2>2, <2>3, <2>4, <2>6, StartOk
  <2>8. qt.done = << >>
    BY <2>3, <2>4 DEF Places
  <2>9. /\ q'[c][t] = n
        /\ \A b \in Ctxs, u \in Queues : <<b, u>> # <<c, t>> => q'[b][u] = q[b][u]
    BY ONLY c \in Ctxs, t \in Queues, <1>2, <2>3, <2>7, OneQueue
  <2>10. CASE <<d, "CAP">> = <<c, t>>
    BY <2>1, <2>7, <2>8, <2>9, <2>10
  <2>11. CASE <<d, "CAP">> # <<c, t>>
    BY <1>2, <2>9, <2>11
  <2> QED
    BY <2>10, <2>11
<1>7. ASSUME NEW c \in Ctxs, NEW t \in Queues, NEW i \in Index, QBuf(c, t, i)
      PROVE  q'[d]["CAP"].done = q[d]["CAP"].done
  <2>1. PICK qt : qt = q[c][t]
    OBVIOUS
  <2>2. PICK n : n = IF qt.on THEN BufQueue(qt, <<i>>)
                     ELSE [qt EXCEPT !.queued = Append(@, i)]
    OBVIOUS
  <2>3. i \notin Held(qt) /\ q' = With(q, c, t, n)
    BY <1>7, <2>1, <2>2 DEF QBuf, With
  <2>4. qt \in QueueType /\ Places(qt, Gone(run, c, t))
    BY <2>1 DEF Shape, Types, QueuesType, Owners
  <2>5. n \in QueueType /\ n.done = qt.done
    BY <2>2, <2>3, <2>4, QueuedOk
  <2>6. /\ q'[c][t] = n
        /\ \A b \in Ctxs, u \in Queues : <<b, u>> # <<c, t>> => q'[b][u] = q[b][u]
    BY <1>2, <2>3, <2>5, OneQueue
  <2>7. CASE <<d, "CAP">> = <<c, t>>
    BY <2>1, <2>5, <2>6, <2>7
  <2>8. CASE <<d, "CAP">> # <<c, t>>
    BY <1>2, <2>6, <2>8
  <2> QED
    BY <2>7, <2>8
<1>8. CASE UNCHANGED q
  BY <1>8
<1> QED
  BY <1>4, <1>5, <1>6, <1>7, <1>8
     DEF Work, RunPick, RunFinish, Open, SetCtrl, SetBackend

LEMMA NextNumbered ==
  Orderly /\ Shape /\ Kept /\ Numbered /\ [Next]_vars => Kept' /\ Numbered'
<1> SUFFICES ASSUME Orderly, Shape, Kept, Numbered, [Next]_vars
             PROVE  Kept' /\ Numbered'
  OBVIOUS
<1>1. CASE Work
  BY <1>1, PlainNumbered
<1>2. ASSUME NEW e \in Executors, DeviceRun(e) PROVE Kept' /\ Numbered'
  BY <1>2, PlainNumbered, RunGiveNumbered DEF DeviceRun
<1>3. ASSUME NEW c \in Ctxs,
             \/ Open(c) \/ Release(c) \/ StreamOnFails(c)
             \/ \E v \in Ctls : SetCtrl(c, v)
             \/ \E b \in Backends : SetBackend(c, b)
      PROVE  Kept' /\ Numbered'
  BY <1>3, PlainNumbered, ReleaseNumbered
<1>4. ASSUME NEW c \in Ctxs, NEW t \in Queues,
             \/ StreamOn(c, t) \/ StreamOff(c, t) \/ DQBuf(c, t)
             \/ \E b \in BOOLEAN : ReqBufs(c, t, b)
             \/ \E i \in Index : QBuf(c, t, i)
      PROVE  Kept' /\ Numbered'
  BY <1>4, PlainNumbered, StreamOffNumbered, DQBufNumbered, ReqBufsNumbered
<1>5. CASE UNCHANGED vars
  <2>1. UNCHANGED <<q, sequence, rows, pend>>
    BY <1>5 DEF vars
  <2> QED
    BY <2>1, QuietNumbered
<1> QED
  BY <1>1, <1>2, <1>3, <1>4, <1>5 DEF Next

(* Every number device_run gave out is that of one row, and a row waits    *)
(* only where the program can fetch it (vpipe_buf_finish).                 *)
THEOREM NumberedHolds ==
  ASSUME Orderly
  PROVE  Spec => [](Kept /\ Numbered)
<1>1. Orderly /\ Shape /\ Kept /\ Numbered /\ [Next]_vars => Kept' /\ Numbered'
  BY NextNumbered
<1>2. Shape /\ Kept /\ Numbered /\ [Next]_vars => Kept' /\ Numbered'
  BY <1>1
<1> QED
  BY <1>2, InitNumbered, ShapeHolds, PTL DEF Spec

LEMMA CountRows ==
  ASSUME Shape, Numbered, NEW n \in 1 .. sequence
  PROVE  Cardinality({k \in DOMAIN rows : rows[k].seq = n})
         + Cardinality({b \in Pending : PendingRow(b).seq = n}) = 1
<1> DEFINE A == {k \in DOMAIN rows : rows[k].seq = n}
           B == {b \in Pending : PendingRow(b).seq = n}
<1>1. PICK r \in Produced : r.seq = n
  BY DEF Numbered
<1>2. \/ r \in Range(rows)
      \/ \E d \in Ctxs, i \in Index : pend[d][i] # NoRow /\ r = pend[d][i]
  BY <1>1, ProducedMade, MadeHas
<1>3. CASE r \in Range(rows)
  <2>1. PICK k \in DOMAIN rows : r = rows[k]
    BY <1>3 DEF Range
  <2>2. A = {k}
    BY <1>1, <2>1 DEF Numbered
  <2>3. B = {}
    BY <1>1, <2>1 DEF Numbered, Pending, PendingRow
  <2>4. Cardinality(A) = 1 /\ Cardinality(B) = 0
    BY <2>2, <2>3, FS_Singleton, FS_EmptySet
  <2> QED
    BY <2>4
<1>4. ASSUME NEW d \in Ctxs, NEW i \in Index, pend[d][i] # NoRow, r = pend[d][i]
      PROVE  Cardinality(A) + Cardinality(B) = 1
  <2>1. A = {}
    BY <1>1, <1>4 DEF Numbered
  <2>2. <<d, i>> \in B
    BY <1>1, <1>4 DEF Pending, PendingRow
  <2>3. ASSUME NEW b \in B PROVE b = <<d, i>>
    <3>1. /\ b[1] \in Ctxs /\ b[2] \in Index /\ b = <<b[1], b[2]>>
          /\ pend[b[1]][b[2]] # NoRow /\ pend[b[1]][b[2]].seq = n
      BY DEF Pending, PendingRow
    <3>2. b[1] = d /\ b[2] = i
      BY <1>1, <1>4, <3>1 DEF Numbered
    <3> QED
      BY <3>1, <3>2
  <2>4. B = {<<d, i>>}
    BY <2>2, <2>3
  <2>5. Cardinality(A) = 0 /\ Cardinality(B) = 1
    BY <2>1, <2>4, FS_Singleton, FS_EmptySet
  <2> QED
    BY <2>5
<1> QED
  BY <1>2, <1>3, <1>4

(* Each frame device_run processed has one row: published once, or pending *)
(* in one CAPTURE buffer the program can still dequeue; STREAMOFF, REQBUFS *)
(* and close neither lose a row nor publish it twice (vpipe_buf_finish).   *)
THEOREM OneRowPerFrameHolds ==
  ASSUME Orderly
  PROVE  Spec => []OneRowPerFrame
<1>1. Shape /\ Kept /\ Numbered => OneRowPerFrame
  <2> SUFFICES ASSUME Shape, Kept, Numbered PROVE OneRowPerFrame
    OBVIOUS
  <2>1. \A b \in Pending : b[2] \in Range(q[b[1]]["CAP"].done)
    BY DEF Pending, Kept
  <2> QED
    BY <2>1, CountRows DEF OneRowPerFrame
<1> QED
  BY <1>1, ShapeHolds, NumberedHolds, PTL
-----------------------------------------------------------------------------
(* TypeOK. *)

(* Numbers are given to frames that were queued, and to each frame once. *)
LEMMA SequenceBound ==
  ASSUME Shape, Once, Numbered
  PROVE  sequence <= frames
<1>1. sequence \in Nat /\ frames \in Nat
  BY M2MAssumption DEF Shape, Types
<1>2. PICK g : g = [n \in 1 .. sequence |-> CHOOSE r \in Produced : r.seq = n]
  OBVIOUS
<1>3. \A n \in 1 .. sequence : g[n] \in Produced /\ g[n].seq = n
  BY <1>2 DEF Numbered
<1>4. PICK f : f = [n \in 1 .. sequence |-> g[n].asked.frame]
  OBVIOUS
<1>5. f \in [1 .. sequence -> 1 .. frames]
  BY <1>3, <1>4 DEF Once
<1>6. \A m, n \in 1 .. sequence : f[m] = f[n] => m = n
  BY <1>3, <1>4 DEF Once
<1>7. f \in Injection(1 .. sequence, 1 .. frames)
  BY <1>5, <1>6 DEF Injection, IsInjective
<1>8. IsFiniteSet(1 .. frames) /\ Cardinality(1 .. frames) = frames
  BY <1>1, FS_Interval
<1>9. Cardinality(1 .. sequence) = sequence
  BY <1>1, FS_Interval
<1>10. Cardinality(1 .. sequence) <= Cardinality(1 .. frames)
  BY <1>7, <1>8, FS_Injection
<1> QED
  BY <1>8, <1>9, <1>10

LEMMA RowsInRange ==
  ASSUME Shape, Once, Numbered, NEW r \in Produced, r \in Row
  PROVE  r \in RowSet
<1>1. sequence <= frames
  BY SequenceBound
<1>2. sequence \in Nat /\ frames \in Nat /\ frames <= MaxFrames /\ MaxFrames \in Nat
  BY M2MAssumption DEF Shape, Types
<1>3. PICK n, a : n = r.seq /\ a = r.asked
  OBVIOUS
<1>4. n \in 1 .. sequence /\ a.frame \in 1 .. frames
  BY <1>3 DEF Numbered, Once
<1>5. PICK m : m = a.frame
  OBVIOUS
<1>6. n \in 1 .. MaxFrames /\ m \in 1 .. MaxFrames
  BY <1>1, <1>2, <1>4, <1>5
<1>7. a \in Asked
  BY <1>3 DEF Row
<1>8. a \in [frame : 1 .. MaxFrames, ctl : Ctls, streaming : BOOLEAN]
  <2>1. PICK S : S = 1 .. MaxFrames
    OBVIOUS
  <2>2. a \in [frame : S, ctl : Ctls, streaming : BOOLEAN]
    BY ONLY <1>5, <1>6, <1>7, <2>1 DEF Asked
  <2> QED
    BY <2>1, <2>2
<1>9. PICK S, T : /\ S = 1 .. MaxFrames
                  /\ T = [frame : 1 .. MaxFrames, ctl : Ctls, streaming : BOOLEAN]
  OBVIOUS
<1>10. r \in [seq : S, ctx : Ctxs, ctl : Ctls, backend : Backends \cup {"none"},
              asked : T]
  BY ONLY r \in Row, <1>3, <1>6, <1>8, <1>9 DEF Row
<1> QED
  BY <1>9, <1>10 DEF RowSet

(* The node's records have their shapes; a row's number is that of a frame *)
(* that was queued and never 0, which vpipe_buf_finish takes for "no row". *)
THEOREM TypeCorrect ==
  ASSUME Orderly
  PROVE  Spec => []TypeOK
<1>1. Shape /\ Once /\ Numbered => TypeOK
  <2> SUFFICES ASSUME Shape, Once, Numbered PROVE TypeOK
    OBVIOUS
  <2>1. /\ Types /\ MaxFrames \in Nat /\ sequence <= frames
    BY SequenceBound, M2MAssumption DEF Shape
  <2>2. sequence \in 0 .. MaxFrames /\ frames \in 0 .. MaxFrames
    BY <2>1 DEF Types
  <2>3. sets \in 0 .. MaxSets
    BY <2>1 DEF Types
  <2>4. /\ job.curr \in Ctxs \cup {NoCtx} /\ job.queue \in Seq(Ctxs)
        /\ \A c \in Ctxs : job.flags[c] \subseteq {"QUEUED", "RUNNING"}
    BY <2>1 DEF Types, JobType
  <2>5. \A e \in Executors :
          run[e].at \in {"off", "pick", "remove", "give", "finish", "oops"}
    BY <2>1 DEF Types, RunType
  <2>6. \A c \in Ctxs, t \in Queues :
          /\ q[c][t].queued \in Seq(Index) /\ q[c][t].ready \in Seq(Index)
          /\ q[c][t].done \in Seq(Index) /\ q[c][t].owned \subseteq Index
    BY <2>1 DEF Types, QueuesType, QueueType
  <2>7. ASSUME NEW n \in DOMAIN rows PROVE rows[n] \in RowSet
    <3>1. rows[n] \in Row /\ rows[n] \in Range(rows)
      BY <2>1 DEF Types, Range
    <3>2. rows[n] \in Produced
      BY <3>1, ProducedMade, MadeHas
    <3> QED
      BY <3>1, <3>2, RowsInRange
  <2>8. ASSUME NEW c \in Ctxs, NEW i \in Index
        PROVE  pend[c][i] \in RowSet \cup {NoRow}
    <3>1. pend[c][i] # NoRow => pend[c][i] \in Row
      BY <2>1 DEF Types
    <3>2. pend[c][i] # NoRow => pend[c][i] \in Produced
      BY ProducedMade, MadeHas
    <3> QED
      BY <3>1, <3>2, RowsInRange
  <2>9. pend \in [Ctxs -> [Index -> RowSet \cup {NoRow}]]
    <3>1. pend \in [Ctxs -> [Index -> Row \cup {NoRow}]]
      BY <2>1 DEF Types
    <3>2. PICK S : S = RowSet \cup {NoRow}
      OBVIOUS
    <3>3. pend \in [Ctxs -> [Index -> S]]
      BY <2>8, <3>1, <3>2
    <3> QED
      BY <3>2, <3>3
  <2>10. /\ work \in BOOLEAN /\ open \subseteq Ctxs /\ ctl \in [Ctxs -> Ctls]
         /\ source \in [Ctxs -> [id : Backends, started : BOOLEAN]]
         /\ stamp \in [Ctxs -> [Index -> [ctl : Ctls,
                                          backend : Backends \cup {"none"}]]]
    BY <2>1 DEF Types, StampType
  <2> QED
    BY <2>2, <2>3, <2>4, <2>5, <2>6, <2>7, <2>9, <2>10 DEF TypeOK
<1> QED
  BY <1>1, ShapeHolds, OnceHolds, NumberedHolds, PTL
=============================================================================
