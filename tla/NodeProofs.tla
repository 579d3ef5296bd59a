----------------------------- MODULE NodeProofs -----------------------------
(***************************************************************************)
(* M2M implements Node: for every open file, and under the conditions of   *)
(* M2MProofs, each step of M2M is a step of the file's contract or leaves  *)
(* what the file shows unchanged.                                          *)
(***************************************************************************)
EXTENDS M2MProofs

(* What a file shows, as functions of the state it is computed from.  A    *)
(* row pending in a buffer is of the buffer's own context.                 *)
Line(qt, gone) == IF qt.on THEN SetToSeq(gone) \o qt.ready ELSE qt.queued
Shown(w, f) == [k \in DOMAIN w |-> [idx |-> w[k], frame |-> f[w[k]]]]
AskedFrames(a) == [i \in Index |-> a[i].frame]
KeptFrames(p) == [i \in Index |-> IF p[i] = NoRow THEN 0 ELSE p[i].asked.frame]
(* M grows to N by the frames fs, in the next places. *)
Grows(M, N, fs) ==
  \E at \in DOMAIN N :
    /\ \A n \in DOMAIN M : n < at
    /\ N = [n \in DOMAIN M \cup at .. at + Len(fs) - 1 |->
              IF n < at THEN M[n] ELSE fs[n - at + 1]]
(* The elements of s have places in d. *)
Located(s, d) ==
  \E p \in [1 .. Len(s) -> 1 .. Len(d)] :
    /\ \A a \in 1 .. Len(s) : d[p[a]] = s[a]
    /\ \A k \in 1 .. Len(d) :
         d[k] \in Range(s) => \E a \in 1 .. Len(s) : p[a] = k
Mine(R, c) == [n \in {k \in DOMAIN R : R[k].ctx = c} |-> R[n].asked.frame]

OwnRows ==
  \A c \in Ctxs, i \in Index : pend[c][i] # NoRow => pend[c][i].ctx = c
-----------------------------------------------------------------------------
LEMMA NoneRemoved == SetToSeq({}) = << >>
<1>1. Cardinality({}) = 0
  BY FS_EmptySet
<1>2. << >> \in [1 .. 0 -> {}] /\ IsInjective(<< >>)
  BY DEF IsInjective
<1>3. \A f \in [1 .. 0 -> {}] : f = << >>
  OBVIOUS
<1> QED
  BY <1>1, <1>2, <1>3 DEF SetToSeq

LEMMA OneRemoved ==
  ASSUME NEW x
  PROVE  SetToSeq({x}) = <<x>>
<1>1. Cardinality({x}) = 1
  BY FS_Singleton
<1>2. <<x>> \in [1 .. 1 -> {x}] /\ IsInjective(<<x>>)
  BY DEF IsInjective
<1>3. \A f \in [1 .. 1 -> {x}] : f = <<x>>
  OBVIOUS
<1> QED
  BY <1>1, <1>2, <1>3 DEF SetToSeq

LEMMA SameSequence ==
  ASSUME NEW S, NEW s \in Seq(S), NEW T, NEW t \in Seq(T), Len(s) = Len(t),
         \A k \in 1 .. Len(s) : s[k] = t[k]
  PROVE  s = t
  OBVIOUS

LEMMA ShownType ==
  ASSUME NEW w \in Seq(Index), NEW f \in [Index -> Nat]
  PROVE  /\ Shown(w, f) \in Seq([idx : Index, frame : Nat])
         /\ Len(Shown(w, f)) = Len(w)
         /\ DOMAIN Shown(w, f) = 1 .. Len(w)
         /\ \A k \in 1 .. Len(w) :
              /\ Shown(w, f)[k] = [idx |-> w[k], frame |-> f[w[k]]]
              /\ w[k] \in Index /\ f[w[k]] \in Nat
<1>1. \A k \in 1 .. Len(w) : w[k] \in Index /\ f[w[k]] \in Nat
  OBVIOUS
<1>2. Shown(w, f) \in [1 .. Len(w) -> [idx : Index, frame : Nat]]
  BY <1>1 DEF Shown
<1> QED
  BY <1>1, <1>2 DEF Shown

LEMMA ShownKept ==
  ASSUME NEW w \in Seq(Index), NEW f, NEW g,
         \A i \in Range(w) : f[i] = g[i]
  PROVE  Shown(w, f) = Shown(w, g)
<1>1. \A k \in DOMAIN w : f[w[k]] = g[w[k]]
  BY DEF Range
<1> QED
  BY <1>1 DEF Shown

LEMMA ShownAppend ==
  ASSUME NEW w \in Seq(Index), NEW f \in [Index -> Nat], NEW g \in [Index -> Nat],
         \A i \in Range(w) : f[i] = g[i], NEW j \in Index
  PROVE  Shown(Append(w, j), g) = Append(Shown(w, f), [idx |-> j, frame |-> g[j]])
<1>1. PICK v : v = Append(w, j)
  OBVIOUS
<1>2. /\ v \in Seq(Index) /\ Len(v) = Len(w) + 1 /\ v[Len(w) + 1] = j
      /\ Len(w) \in Nat /\ \A k \in 1 .. Len(w) : v[k] = w[k]
  BY <1>1
<1>3. PICK s : s = Shown(w, f)
  OBVIOUS
<1>4. /\ s \in Seq([idx : Index, frame : Nat]) /\ Len(s) = Len(w)
      /\ \A k \in 1 .. Len(w) : s[k] = [idx |-> w[k], frame |-> f[w[k]]]
  BY <1>3, ShownType
<1>5. PICK x : x = [idx |-> j, frame |-> g[j]]
  OBVIOUS
<1>6. x \in [idx : Index, frame : Nat]
  BY <1>5
<1>7. PICK u : u = Append(s, x)
  OBVIOUS
<1>8. /\ u \in Seq([idx : Index, frame : Nat]) /\ Len(u) = Len(w) + 1
      /\ u[Len(w) + 1] = x /\ \A k \in 1 .. Len(w) : u[k] = s[k]
  BY ONLY <1>4, <1>6, <1>7, <1>2
<1>9. PICK z : z = Shown(v, g)
  OBVIOUS
<1>10. /\ z \in Seq([idx : Index, frame : Nat]) /\ Len(z) = Len(w) + 1
       /\ \A k \in 1 .. Len(w) + 1 : z[k] = [idx |-> v[k], frame |-> g[v[k]]]
  <2>1. v \in Seq(Index) /\ g \in [Index -> Nat]
    BY <1>2
  <2>2. /\ z \in Seq([idx : Index, frame : Nat]) /\ Len(z) = Len(v)
        /\ \A k \in 1 .. Len(v) : z[k] = [idx |-> v[k], frame |-> g[v[k]]]
    BY ONLY <1>9, <2>1, ShownType
  <2> QED
    BY ONLY <1>2, <2>2
<1>11. \A k \in 1 .. Len(w) : w[k] \in Range(w)
  BY DEF Range
<1>12. \A k \in 1 .. Len(w) + 1 : z[k] = u[k]
  <2> SUFFICES ASSUME NEW k \in 1 .. Len(w) + 1 PROVE z[k] = u[k]
    OBVIOUS
  <2>1. CASE k = Len(w) + 1
    BY <1>2, <1>5, <1>8, <1>10, <2>1
  <2>2. CASE k # Len(w) + 1
    <3>1. k \in 1 .. Len(w)
      BY <1>2, <2>2
    <3>2. z[k] = [idx |-> w[k], frame |-> f[w[k]]]
      BY <1>2, <1>10, <1>11, <3>1
    <3> QED
      BY <1>4, <1>8, <3>1, <3>2
  <2> QED
    BY <2>1, <2>2
<1>13. z = u
  BY <1>8, <1>10, <1>12
<1> QED
  BY <1>1, <1>3, <1>5, <1>7, <1>9, <1>13

LEMMA ShownTail ==
  ASSUME NEW w \in Seq(Index), NEW f \in [Index -> Nat], w # << >>
  PROVE  /\ Shown(w, f) # << >> /\ Tail(Shown(w, f)) = Shown(Tail(w), f)
         /\ Head(Shown(w, f)).idx = Head(w)
         /\ Head(Shown(w, f)).frame = f[Head(w)]
<1>1. PICK v : v = Tail(w)
  OBVIOUS
<1>2. /\ v \in Seq(Index) /\ Len(v) = Len(w) - 1 /\ Head(w) = w[1]
      /\ Len(w) \in Nat /\ Len(w) >= 1
      /\ \A k \in 1 .. Len(w) - 1 : v[k] = w[k + 1]
  BY <1>1
<1>3. PICK s : s = Shown(w, f)
  OBVIOUS
<1>4. /\ s \in Seq([idx : Index, frame : Nat]) /\ Len(s) = Len(w)
      /\ \A k \in 1 .. Len(w) : s[k] = [idx |-> w[k], frame |-> f[w[k]]]
  BY <1>3, ShownType
<1>5. PICK u : u = Tail(s)
  OBVIOUS
<1>6. /\ u \in Seq([idx : Index, frame : Nat]) /\ Len(u) = Len(w) - 1
      /\ \A k \in 1 .. Len(w) - 1 : u[k] = s[k + 1]
      /\ s # << >> /\ Head(s) = s[1]
  BY ONLY <1>2, <1>4, <1>5
<1>7. PICK z : z = Shown(v, f)
  OBVIOUS
<1>8. /\ z \in Seq([idx : Index, frame : Nat]) /\ Len(z) = Len(w) - 1
      /\ \A k \in 1 .. Len(w) - 1 : z[k] = [idx |-> v[k], frame |-> f[v[k]]]
  BY <1>2, <1>7, ShownType
<1>9. \A k \in 1 .. Len(w) - 1 : k + 1 \in 1 .. Len(w)
  BY <1>2
<1>10. \A k \in 1 .. Len(w) - 1 : z[k] = u[k]
  BY <1>2, <1>4, <1>6, <1>8, <1>9, ZenonT(40)
<1>11. z = u
  <2>1. Len(z) = Len(u) /\ \A k \in 1 .. Len(z) : z[k] = u[k]
    BY <1>6, <1>8, <1>10
  <2>2. PICK S : S = [idx : Index, frame : Nat]
    OBVIOUS
  <2>3. z \in Seq(S) /\ u \in Seq(S)
    BY <1>6, <1>8, <2>2
  <2> QED
    BY ONLY <2>1, <2>3, SameSequence
<1>12. 1 \in 1 .. Len(w) /\ Head(s) = s[1] /\ Head(w) = w[1]
  BY <1>2, <1>6
<1>13. Head(s) = [idx |-> Head(w), frame |-> f[Head(w)]]
  BY ONLY <1>4, <1>12
<1> QED
  BY <1>1, <1>3, <1>5, <1>6, <1>7, <1>11, <1>13

(* The rows of a context in a longer stream. *)
LEMMA MineOther ==
  ASSUME NEW R \in Seq(Row), NEW z \in Seq(Row), NEW c,
         \A k \in 1 .. Len(z) : z[k].ctx # c
  PROVE  Mine(R \o z, c) = Mine(R, c)
<1>1. PICK T : T = R \o z
  OBVIOUS
<1>2. /\ T \in Seq(Row) /\ Len(R) \in Nat /\ Len(z) \in Nat
      /\ DOMAIN T = 1 .. Len(R) + Len(z) /\ DOMAIN R = 1 .. Len(R)
      /\ \A k \in 1 .. Len(R) : T[k] = R[k]
      /\ \A k \in 1 .. Len(z) : T[Len(R) + k] = z[k]
  BY <1>1
<1>3. \A n \in 1 .. Len(R) + Len(z) : T[n].ctx = c => n \in 1 .. Len(R)
  <2> SUFFICES ASSUME NEW n \in 1 .. Len(R) + Len(z), n \notin 1 .. Len(R)
               PROVE  T[n].ctx # c
    OBVIOUS
  <2>1. n - Len(R) \in 1 .. Len(z) /\ n = Len(R) + (n - Len(R))
    BY <1>2
  <2> QED
    BY <1>2, <2>1
<1>4. {k \in DOMAIN T : T[k].ctx = c} = {k \in DOMAIN R : R[k].ctx = c}
  <2>1. \A k \in DOMAIN R : k \in DOMAIN T /\ T[k] = R[k]
    BY <1>2
  <2>2. \A k \in DOMAIN T : T[k].ctx = c => k \in DOMAIN R
    BY <1>2, <1>3
  <2> QED
    BY <2>1, <2>2
<1>5. \A k \in DOMAIN R : T[k] = R[k]
  BY <1>2
<1> QED
  BY <1>1, <1>4, <1>5 DEF Mine

LEMMA MinePublished ==
  ASSUME NEW R \in Seq(Row), NEW z \in Seq(Row), NEW c, z # << >>,
         \A k \in 1 .. Len(z) : z[k].ctx = c,
         NEW fs \in Seq(Nat), Len(fs) = Len(z),
         \A k \in 1 .. Len(z) : fs[k] = z[k].asked.frame
  PROVE  Grows(Mine(R, c), Mine(R \o z, c), fs)
<1>1. PICK T, at : T = R \o z /\ at = Len(R) + 1
  OBVIOUS
<1>2. /\ T \in Seq(Row) /\ Len(R) \in Nat /\ Len(z) \in Nat /\ Len(z) >= 1
      /\ DOMAIN T = 1 .. Len(R) + Len(z) /\ DOMAIN R = 1 .. Len(R)
      /\ \A k \in 1 .. Len(R) : T[k] = R[k]
      /\ \A k \in 1 .. Len(z) : T[Len(R) + k] = z[k]
  BY <1>1
<1>3. PICK M, N : M = Mine(R, c) /\ N = Mine(T, c)
  OBVIOUS
<1>4. /\ DOMAIN M = {k \in 1 .. Len(R) : R[k].ctx = c}
      /\ \A n \in DOMAIN M : M[n] = R[n].asked.frame
      /\ DOMAIN N = {k \in 1 .. Len(R) + Len(z) : T[k].ctx = c}
      /\ \A n \in DOMAIN N : N[n] = T[n].asked.frame
  BY <1>2, <1>3 DEF Mine
<1>5. \A n \in at .. at + Len(z) - 1 :
        /\ n - at + 1 \in 1 .. Len(z) /\ n = Len(R) + (n - at + 1)
        /\ n \in 1 .. Len(R) + Len(z) /\ ~(n < at)
  BY <1>1, <1>2
<1>6. \A n \in at .. at + Len(z) - 1 :
        n \in DOMAIN N /\ N[n] = fs[n - at + 1]
  <2> SUFFICES ASSUME NEW n \in at .. at + Len(z) - 1
               PROVE  n \in DOMAIN N /\ N[n] = fs[n - at + 1]
    OBVIOUS
  <2>1. T[n] = z[n - at + 1]
    BY <1>2, <1>5
  <2> QED
    BY <1>4, <1>5, <2>1
<1>7. \A n \in 1 .. Len(R) : n \in 1 .. Len(R) + Len(z) /\ n < at
  BY <1>1, <1>2
<1>8. \A n \in DOMAIN M : n \in DOMAIN N /\ N[n] = M[n] /\ n < at
  BY <1>2, <1>4, <1>7
<1>9. \A n \in DOMAIN N : n \in DOMAIN M \/ n \in at .. at + Len(z) - 1
  <2> SUFFICES ASSUME NEW n \in DOMAIN N, n \notin at .. at + Len(z) - 1
               PROVE  n \in DOMAIN M
    OBVIOUS
  <2>1. n \in 1 .. Len(R)
    BY <1>1, <1>2, <1>4
  <2> QED
    BY <1>2, <1>4, <2>1
<1>10. DOMAIN N = DOMAIN M \cup at .. at + Len(z) - 1
  BY <1>6, <1>8, <1>9
<1>11. N = [n \in DOMAIN N |-> N[n]]
  BY <1>3 DEF Mine
<1>12. \A n \in DOMAIN N : N[n] = IF n < at THEN M[n] ELSE fs[n - at + 1]
  BY <1>5, <1>6, <1>8, <1>9
<1>13. N = [n \in DOMAIN M \cup at .. at + Len(z) - 1 |->
              IF n < at THEN M[n] ELSE fs[n - at + 1]]
  BY <1>10, <1>11, <1>12
<1>14. at \in DOMAIN N
  <2>1. at \in at .. at + Len(z) - 1
    BY <1>1, <1>2
  <2> QED
    BY <1>6, <2>1
<1>15. Grows(M, N, fs)
  BY <1>8, <1>13, <1>14 DEF Grows
<1> QED
  BY <1>1, <1>3, <1>15
-----------------------------------------------------------------------------
(* What a file shows, and what of it survives a step. *)

LEMMA GoneType ==
  ASSUME NEW j, NEW R \in [Executors -> RunType], NEW Q, Runs(j, R, Q),
         NEW c \in Ctxs, NEW t \in Queues
  PROVE  /\ SetToSeq(Gone(R, c, t)) \in Seq(Index)
         /\ Range(SetToSeq(Gone(R, c, t))) = Gone(R, c, t)
<1>1. CASE Gone(R, c, t) = {}
  BY <1>1, NoneRemoved, EmptySequence
<1>2. CASE Gone(R, c, t) # {}
  <2>1. PICK e \in Executors : R[e].ctx = c /\ R[e].at = "give"
    BY <1>2 DEF Gone
  <2>2. \A f \in Executors : f # e => R[f].at # "give"
    BY <2>1 DEF Runs
  <2>3. PICK x : x = IF t = "OUT" THEN R[e].srcOut ELSE R[e].dstOut
    OBVIOUS
  <2>4. Gone(R, c, t) = {x}
    BY <2>1, <2>2, <2>3 DEF Gone
  <2>5. x \in Index
    BY <2>1, <2>3 DEF Runs, Pair
  <2>6. SetToSeq({x}) = <<x>> /\ <<x>> \in Seq(Index) /\ Range(<<x>>) = {x}
    BY <2>5, OneRemoved, OneElement
  <2> QED
    BY <2>4, <2>6
<1> QED
  BY <1>1, <1>2

LEMMA LineType ==
  ASSUME NEW j, NEW R \in [Executors -> RunType], NEW Q \in QueuesType,
         Runs(j, R, Q), NEW c \in Ctxs, NEW t \in Queues
  PROVE  /\ Line(Q[c][t], Gone(R, c, t)) \in Seq(Index)
         /\ Range(Line(Q[c][t], Gone(R, c, t))) =
              IF Q[c][t].on THEN Range(Q[c][t].ready) \cup Gone(R, c, t)
              ELSE Range(Q[c][t].queued)
<1>1. PICK s : s = SetToSeq(Gone(R, c, t))
  OBVIOUS
<1>2. s \in Seq(Index) /\ Range(s) = Gone(R, c, t)
  BY <1>1, GoneType
<1>3. Q[c][t].ready \in Seq(Index) /\ Q[c][t].queued \in Seq(Index)
  BY DEF QueuesType, QueueType
<1>4. PICK w \in Seq(Index) : w = Q[c][t].ready
  BY <1>3
<1>5. s \o w \in Seq(Index) /\ Range(s \o w) = Range(s) \cup Range(w)
  BY ONLY <1>2, w \in Seq(Index), RangeConcat
<1> QED
  BY <1>1, <1>2, <1>3, <1>4, <1>5 DEF Line

LEMMA FramesType ==
  ASSUME Types, NEW c \in Ctxs
  PROVE  AskedFrames(asked[c]) \in [Index -> Nat] /\ KeptFrames(pend[c]) \in [Index -> Nat]
<1>1. \A i \in Index : asked[c][i].frame \in Nat
  BY DEF Types, Asked
<1>2. \A i \in Index : pend[c][i] \in Row \/ pend[c][i] = NoRow
  BY DEF Types
<1>3. \A i \in Index : pend[c][i] # NoRow => pend[c][i].asked.frame \in Nat
  BY <1>2 DEF Row, Asked
<1> QED
  BY <1>1, <1>3 DEF AskedFrames, KeptFrames

LEMMA FramesTypeNext ==
  ASSUME Types', NEW c \in Ctxs
  PROVE  /\ AskedFrames(asked'[c]) \in [Index -> Nat]
         /\ KeptFrames(pend'[c]) \in [Index -> Nat]
<1>1. \A i \in Index : asked'[c][i].frame \in Nat
  BY DEF Types, Asked
<1>2. \A i \in Index : pend'[c][i] \in Row \/ pend'[c][i] = NoRow
  BY DEF Types
<1>3. \A i \in Index : pend'[c][i] # NoRow => pend'[c][i].asked.frame \in Nat
  BY <1>2 DEF Row, Asked
<1> QED
  BY <1>1, <1>3 DEF AskedFrames, KeptFrames

LEMMA ShownIs ==
  ASSUME NEW w \in Seq(Index), NEW a, NEW p
  PROVE  /\ [k \in DOMAIN w |-> [idx |-> w[k], frame |-> a[w[k]].frame]]
              = Shown(w, AskedFrames(a))
         /\ [k \in DOMAIN w |->
               [idx |-> w[k], frame |-> IF p[w[k]] = NoRow THEN 0
                                        ELSE p[w[k]].asked.frame]]
              = Shown(w, KeptFrames(p))
<1>1. \A k \in DOMAIN w : w[k] \in Index
  OBVIOUS
<1>2. \A k \in DOMAIN w :
        /\ AskedFrames(a)[w[k]] = a[w[k]].frame
        /\ KeptFrames(p)[w[k]] = IF p[w[k]] = NoRow THEN 0 ELSE p[w[k]].asked.frame
  BY <1>1 DEF AskedFrames, KeptFrames
<1> QED
  BY <1>2 DEF Shown

LEMMA Views ==
  ASSUME Shape, NEW c \in Ctxs
  PROVE  /\ Streaming(c) = {t \in Queues : q[c][t].on}
         /\ \A t \in Queues : /\ Waiting(c, t) = Line(q[c][t], Gone(run, c, t))
                              /\ Waiting(c, t) \in Seq(Index)
                              /\ q[c][t].done \in Seq(Index)
                              /\ Range(Waiting(c, t)) =
                                   IF q[c][t].on
                                   THEN Range(q[c][t].ready) \cup Gone(run, c, t)
                                   ELSE Range(q[c][t].queued)
         /\ OutShown(c) = Shown(Waiting(c, "OUT"), AskedFrames(asked[c]))
         /\ CapShown(c) = Shown(q[c]["CAP"].done, KeptFrames(pend[c]))
         /\ AskedFrames(asked[c]) \in [Index -> Nat]
         /\ KeptFrames(pend[c]) \in [Index -> Nat]
         /\ RowsFor(c) = Mine(rows, c)
<1>1. /\ run \in [Executors -> RunType] /\ q \in QueuesType /\ Types
      /\ Runs(job, run, q)
  BY DEF Shape, Types
<1>2. \A t \in Queues : Waiting(c, t) = Line(q[c][t], Gone(run, c, t))
  BY DEF Waiting, Line, Removed, Gone, Ready
<1>3. \A t \in Queues :
        /\ Line(q[c][t], Gone(run, c, t)) \in Seq(Index)
        /\ Range(Line(q[c][t], Gone(run, c, t))) =
              IF q[c][t].on THEN Range(q[c][t].ready) \cup Gone(run, c, t)
              ELSE Range(q[c][t].queued)
  BY <1>1, LineType
<1>4. \A t \in Queues : q[c][t].done \in Seq(Index)
  BY <1>1 DEF QueuesType, QueueType
<1>5. "OUT" \in Queues /\ "CAP" \in Queues
  BY DEF Queues
<1>6. PICK w \in Seq(Index), d \in Seq(Index) :
        w = Waiting(c, "OUT") /\ d = q[c]["CAP"].done
  BY <1>2, <1>3, <1>4, <1>5
<1>7. OutShown(c) = Shown(w, AskedFrames(asked[c]))
  BY <1>6, ShownIs DEF OutShown
<1>8. CapShown(c) = Shown(d, KeptFrames(pend[c]))
  BY <1>6, ShownIs DEF CapShown, FrameIn
<1> QED
  BY <1>1, <1>2, <1>3, <1>4, <1>6, <1>7, <1>8, FramesType
     DEF Streaming, RowsFor, Mine

LEMMA ViewsNext ==
  ASSUME Shape', NEW c \in Ctxs
  PROVE  /\ Streaming(c)' = {t \in Queues : q'[c][t].on}
         /\ \A t \in Queues : /\ Waiting(c, t)' = Line(q'[c][t], Gone(run', c, t))
                              /\ Waiting(c, t)' \in Seq(Index)
                              /\ q'[c][t].done \in Seq(Index)
         /\ OutShown(c)' = Shown(Waiting(c, "OUT")', AskedFrames(asked'[c]))
         /\ CapShown(c)' = Shown(q'[c]["CAP"].done, KeptFrames(pend'[c]))
         /\ AskedFrames(asked'[c]) \in [Index -> Nat]
         /\ KeptFrames(pend'[c]) \in [Index -> Nat]
         /\ RowsFor(c)' = Mine(rows', c)
<1>1. /\ run' \in [Executors -> RunType] /\ q' \in QueuesType /\ Types'
      /\ Runs(job', run', q')
  BY DEF Shape, Types
<1>2. \A t \in Queues : Waiting(c, t)' = Line(q'[c][t], Gone(run', c, t))
  BY DEF Waiting, Line, Removed, Gone, Ready
<1>3. \A t \in Queues : Line(q'[c][t], Gone(run', c, t)) \in Seq(Index)
  BY <1>1, LineType
<1>4. \A t \in Queues : q'[c][t].done \in Seq(Index)
  BY <1>1 DEF QueuesType, QueueType
<1>5. "OUT" \in Queues /\ "CAP" \in Queues
  BY DEF Queues
<1>6. PICK w \in Seq(Index), d \in Seq(Index) :
        w = Waiting(c, "OUT")' /\ d = q'[c]["CAP"].done
  BY <1>2, <1>3, <1>4, <1>5
<1>7. OutShown(c)' = Shown(w, AskedFrames(asked'[c]))
  BY <1>6, ShownIs DEF OutShown
<1>8. CapShown(c)' = Shown(d, KeptFrames(pend'[c]))
  BY <1>6, ShownIs DEF CapShown, FrameIn
<1> QED
  BY <1>1, <1>2, <1>3, <1>4, <1>6, <1>7, <1>8, FramesTypeNext
     DEF Streaming, RowsFor, Mine
-----------------------------------------------------------------------------
(* The steps of the contract, in terms of what the file shows. *)
Step(c) == File(c)!Next
Stutter(c) ==
  UNCHANGED <<Streaming(c), OutShown(c), Waiting(c, "CAP"), q[c]["OUT"].done,
              CapShown(c), RowsFor(c)>>

LEMMA Boxed ==
  ASSUME NEW c \in Ctxs, Step(c) \/ Stutter(c)
  PROVE  [File(c)!Next]_(File(c)!nodeVars)
  BY DEF Step, Stutter, File!nodeVars

LEMMA StepQueueOutput ==
  ASSUME Shape, NEW c \in Ctxs, NEW i \in Index, NEW f \in 1 .. MaxFrames,
         i \notin Range(Waiting(c, "OUT")), i \notin Range(q[c]["OUT"].done),
         OutShown(c)' = Append(OutShown(c), [idx |-> i, frame |-> f]),
         UNCHANGED <<Streaming(c), Waiting(c, "CAP"), q[c]["OUT"].done,
                     CapShown(c), RowsFor(c)>>
  PROVE  Step(c)
<1>1. PICK w : w = Waiting(c, "OUT")
  OBVIOUS
<1>2. PICK g : g = AskedFrames(asked[c])
  OBVIOUS
<1>3. w \in Seq(Index) /\ g \in [Index -> Nat] /\ OutShown(c) = Shown(w, g)
  BY <1>1, <1>2, Views DEF Queues
<1>4. \A k \in DOMAIN OutShown(c) : k \in DOMAIN w /\ OutShown(c)[k].idx = w[k]
  BY <1>3 DEF Shown
<1>5. i \notin {OutShown(c)[k].idx : k \in DOMAIN OutShown(c)}
  BY <1>1, <1>4 DEF Range
<1>6. i \notin File(c)!OutHeld
  BY <1>5 DEF File!OutHeld, File!Of, File!Indices, Range
<1> QED
  BY <1>6 DEF Step, File!Next, File!QueueOutput

LEMMA StepQueueCapture ==
  ASSUME Shape, NEW c \in Ctxs, NEW i \in Index,
         i \notin Range(Waiting(c, "CAP")), i \notin Range(q[c]["CAP"].done),
         Waiting(c, "CAP")' = Append(Waiting(c, "CAP"), i),
         UNCHANGED <<Streaming(c), OutShown(c), q[c]["OUT"].done,
                     CapShown(c), RowsFor(c)>>
  PROVE  Step(c)
<1>1. PICK w, d : w = Waiting(c, "CAP") /\ d = q[c]["CAP"].done
  OBVIOUS
<1>2. PICK g : g = KeptFrames(pend[c])
  OBVIOUS
<1>3. /\ w \in Seq(Index) /\ g \in [Index -> Nat] /\ CapShown(c) = Shown(d, g)
      /\ d \in Seq(Index)
  BY <1>1, <1>2, Views DEF Queues
<1>4. \A k \in DOMAIN CapShown(c) : k \in DOMAIN d /\ CapShown(c)[k].idx = d[k]
  BY <1>3 DEF Shown
<1>5. i \notin {CapShown(c)[k].idx : k \in DOMAIN CapShown(c)}
  BY <1>1, <1>4 DEF Range
<1>6. i \notin File(c)!CapHeld
  BY <1>5 DEF File!CapHeld, File!Of, File!Indices, Range
<1>7. /\ <<i>> \in [1 .. 1 -> Index \ File(c)!CapHeld]
      /\ \A a, b \in 1 .. 1 : <<i>>[a] = <<i>>[b] => a = b
  BY <1>6
<1>8. 1 \in 1 .. Cardinality(Index)
  <2>1. IsFiniteSet(Index) /\ Cardinality(Index) \in Nat
    BY M2MAssumption, FS_CardinalityType
  <2>2. Cardinality(Index) # 0
    BY <2>1, FS_EmptySet
  <2> QED
    BY <2>1, <2>2
<1>9. Waiting(c, "CAP")' = Waiting(c, "CAP") \o <<i>>
  BY <1>1, <1>3
<1>10. File(c)!Cardinality(Index) = Cardinality(Index)
  BY DEF File!Cardinality, Cardinality
<1>11. File(c)!QueueCapture
  BY <1>7, <1>8, <1>9, <1>10 DEF File!QueueCapture
<1> QED
  BY <1>11 DEF Step, File!Next

LEMMA StepStart ==
  ASSUME NEW c \in Ctxs, NEW t \in Queues,
         Streaming(c)' = Streaming(c) \cup {t},
         UNCHANGED <<OutShown(c), Waiting(c, "CAP"), q[c]["OUT"].done,
                     CapShown(c), RowsFor(c)>>
  PROVE  Step(c)
  BY DEF Step, File!Next, File!Start, Queues

LEMMA StepJob ==
  ASSUME NEW c \in Ctxs, Streaming(c) = Queues, OutShown(c) # << >>,
         Waiting(c, "CAP") # << >>,
         OutShown(c)' = Tail(OutShown(c)),
         q'[c]["OUT"].done = Append(q[c]["OUT"].done, Head(OutShown(c)).idx),
         Waiting(c, "CAP")' = Tail(Waiting(c, "CAP")),
         NEW f \in {Head(OutShown(c)).frame, 0},
         CapShown(c)' = Append(CapShown(c),
                               [idx |-> Head(Waiting(c, "CAP")), frame |-> f]),
         UNCHANGED <<Streaming(c), RowsFor(c)>>
  PROVE  Step(c)
  BY DEF Step, File!Next, File!Job, Queues

LEMMA StepDequeueOutput ==
  ASSUME NEW c \in Ctxs, "OUT" \in Streaming(c), q[c]["OUT"].done # << >>,
         q'[c]["OUT"].done = Tail(q[c]["OUT"].done),
         UNCHANGED <<Streaming(c), OutShown(c), Waiting(c, "CAP"), CapShown(c),
                     RowsFor(c)>>
  PROVE  Step(c)
  BY DEF Step, File!Next, File!DequeueOutput

LEMMA StepDequeueCapture ==
  ASSUME NEW c \in Ctxs, "CAP" \in Streaming(c), CapShown(c) # << >>,
         CapShown(c)' = Tail(CapShown(c)),
         File(c)!Publish(IF Head(CapShown(c)).frame = 0 THEN << >>
                         ELSE <<Head(CapShown(c)).frame>>),
         UNCHANGED <<Streaming(c), OutShown(c), Waiting(c, "CAP"),
                     q[c]["OUT"].done>>
  PROVE  Step(c)
  BY DEF Step, File!Next, File!DequeueCapture

LEMMA StepStopOutput ==
  ASSUME NEW c \in Ctxs, Streaming(c)' = Streaming(c) \ {"OUT"},
         OutShown(c)' = << >>, q'[c]["OUT"].done = << >>,
         UNCHANGED <<Waiting(c, "CAP"), CapShown(c), RowsFor(c)>>
  PROVE  Step(c)
  BY DEF Step, File!Next, File!StopOutput

LEMMA StepStopCapture ==
  ASSUME NEW c \in Ctxs, Streaming(c)' = Streaming(c) \ {"CAP"},
         Waiting(c, "CAP")' = << >>, CapShown(c)' = << >>, File(c)!PublishAll,
         UNCHANGED <<OutShown(c), q[c]["OUT"].done>>
  PROVE  Step(c)
  BY DEF Step, File!Next, File!StopCapture

LEMMA StepClose ==
  ASSUME NEW c \in Ctxs, Streaming(c)' = {}, OutShown(c)' = << >>,
         q'[c]["OUT"].done = << >>, Waiting(c, "CAP")' = << >>,
         CapShown(c)' = << >>, File(c)!PublishAll
  PROVE  Step(c)
  BY DEF Step, File!Next, File!Close
-----------------------------------------------------------------------------
(* What a step leaves of a file. *)

LEMMA OutShownKept ==
  ASSUME Shape, Shape', NEW c \in Ctxs,
         Waiting(c, "OUT")' = Waiting(c, "OUT"),
         \A i \in Range(Waiting(c, "OUT")) : asked'[c][i] = asked[c][i]
  PROVE  OutShown(c)' = OutShown(c)
<1>1. PICK w, f, g : /\ w = Waiting(c, "OUT") /\ f = AskedFrames(asked[c])
                     /\ g = AskedFrames(asked'[c])
  OBVIOUS
<1>2. /\ w \in Seq(Index) /\ OutShown(c) = Shown(w, f)
      /\ OutShown(c)' = Shown(w, g)
  BY <1>1, Views, ViewsNext DEF Queues
<1>3. \A i \in Range(w) : i \in Index
  BY <1>2, RangeType
<1>4. \A i \in Range(w) : f[i] = g[i]
  BY <1>1, <1>3 DEF AskedFrames
<1>5. Shown(w, f) = Shown(w, g)
  BY ONLY <1>2, <1>4, ShownKept
<1> QED
  BY <1>2, <1>5

LEMMA CapShownKept ==
  ASSUME Shape, Shape', NEW c \in Ctxs,
         q'[c]["CAP"].done = q[c]["CAP"].done,
         \A i \in Range(q[c]["CAP"].done) : pend'[c][i] = pend[c][i]
  PROVE  CapShown(c)' = CapShown(c)
<1>1. PICK w, f, g : /\ w = q[c]["CAP"].done /\ f = KeptFrames(pend[c])
                     /\ g = KeptFrames(pend'[c])
  OBVIOUS
<1>2. /\ w \in Seq(Index) /\ CapShown(c) = Shown(w, f)
      /\ CapShown(c)' = Shown(w, g)
  BY <1>1, Views, ViewsNext DEF Queues
<1>3. \A i \in Range(w) : i \in Index
  BY <1>2, RangeType
<1>4. \A i \in Range(w) : f[i] = g[i]
  BY <1>1, <1>3 DEF KeptFrames
<1>5. Shown(w, f) = Shown(w, g)
  BY ONLY <1>2, <1>4, ShownKept
<1> QED
  BY <1>2, <1>5

LEMMA WaitingOn ==
  ASSUME NEW c \in Ctxs, NEW t \in Queues
  PROVE  /\ q[c][t].on =>
              Waiting(c, t) = SetToSeq(Gone(run, c, t)) \o q[c][t].ready
         /\ q'[c][t].on =>
              Waiting(c, t)' = SetToSeq(Gone(run', c, t)) \o q'[c][t].ready
         /\ ~q[c][t].on => Waiting(c, t) = q[c][t].queued
         /\ ~q'[c][t].on => Waiting(c, t)' = q'[c][t].queued
  BY DEF Waiting, Removed, Gone, Ready

(* A queue that keeps its lists shows the same buffers. *)
LEMMA WaitingKept ==
  ASSUME Shape, Shape', NEW c \in Ctxs, NEW t \in Queues,
         q'[c][t].on = q[c][t].on, q'[c][t].queued = q[c][t].queued,
         q[c][t].on => /\ q'[c][t].ready = q[c][t].ready
                       /\ Gone(run', c, t) = Gone(run, c, t)
  PROVE  Waiting(c, t)' = Waiting(c, t)
<1>1. /\ Waiting(c, t) = Line(q[c][t], Gone(run, c, t))
      /\ Waiting(c, t)' = Line(q'[c][t], Gone(run', c, t))
  BY Views, ViewsNext
<1> QED
  BY <1>1 DEF Line

(* Steps that change nothing that the file shows. *)
LEMMA Unseen ==
  ASSUME Shape, Shape', NEW c \in Ctxs,
         \A t \in Queues : /\ Waiting(c, t)' = Waiting(c, t)
                           /\ q'[c][t].on = q[c][t].on
                           /\ q'[c][t].done = q[c][t].done,
         \A i \in Range(Waiting(c, "OUT")) : asked'[c][i] = asked[c][i],
         \A i \in Range(q[c]["CAP"].done) : pend'[c][i] = pend[c][i],
         Mine(rows', c) = Mine(rows, c)
  PROVE  Stutter(c)
<1>1. "OUT" \in Queues /\ "CAP" \in Queues
  BY DEF Queues
<1>2. Streaming(c)' = Streaming(c)
  BY DEF Streaming
<1>3. OutShown(c)' = OutShown(c)
  BY <1>1, OutShownKept
<1>4. CapShown(c)' = CapShown(c)
  BY <1>1, CapShownKept
<1>5. RowsFor(c)' = RowsFor(c)
  BY Views, ViewsNext
<1> QED
  BY <1>1, <1>2, <1>3, <1>4, <1>5 DEF Stutter

LEMMA UnseenAlone ==
  ASSUME Shape, Shape', NEW c \in Ctxs, q'[c] = q[c], asked'[c] = asked[c],
         pend'[c] = pend[c], Mine(rows', c) = Mine(rows, c),
         \A t \in Queues : Gone(run', c, t) = Gone(run, c, t)
  PROVE  Stutter(c)
<1>1. \A t \in Queues : Waiting(c, t)' = Waiting(c, t)
  BY WaitingKept
<1> QED
  BY <1>1, Unseen

(* The rows that another file publishes are not this file's. *)
LEMMA OthersRows ==
  ASSUME Shape, OwnRows, NEW c \in Ctxs, NEW S \in SUBSET Index, BufFinish(c, S)
  PROVE  /\ \A d \in Ctxs \ {c} : Mine(rows', d) = Mine(rows, d)
         /\ S = {} => rows' = rows
         /\ \A d \in Ctxs \ {c} : pend'[d] = pend[d]
<1>1. PICK s \in Seq(Index), z \in Seq(Row) :
        /\ rows' = rows \o z
        /\ Len(z) = Len(s)
        /\ \A k \in 1 .. Len(s) : z[k] = pend[c][s[k]]
        /\ Range(s) = {i \in S : pend[c][i] # NoRow}
  BY BufFinishOk DEF Shape
<1>2. \A k \in 1 .. Len(s) : s[k] \in Range(s)
  BY DEF Range
<1>3. \A k \in 1 .. Len(z) : z[k].ctx = c
  BY <1>1, <1>2 DEF OwnRows
<1>4. rows \in Seq(Row) /\ pend \in [Ctxs -> [Index -> Row \cup {NoRow}]]
  BY DEF Shape, Types
<1>5. ASSUME NEW d \in Ctxs \ {c} PROVE Mine(rows', d) = Mine(rows, d)
  <2>1. \A k \in 1 .. Len(z) : z[k].ctx # d
    BY <1>3
  <2>2. Mine(rows \o z, d) = Mine(rows, d)
    BY <1>4, <2>1, MineOther
  <2> QED
    BY <1>1, <2>2
<1>6. ASSUME S = {} PROVE rows' = rows
  <2>1. s = << >>
    BY <1>1, <1>6, RangeType
  <2>2. z = << >>
    BY <1>1, <2>1
  <2> QED
    BY <1>1, <1>4, <2>2
<1>7. \A d \in Ctxs \ {c} : pend'[d] = pend[d]
  BY <1>4 DEF BufFinish
<1> QED
  BY <1>5, <1>6, <1>7

LEMMA ForgetOthers ==
  ASSUME Types, NEW c \in Ctxs, NEW t \in Queues, NEW S, Forget(c, t, S)
  PROVE  /\ \A d \in Ctxs \ {c} : asked'[d] = asked[d]
         /\ t = "CAP" => asked' = asked
<1>1. asked \in [Ctxs -> [Index -> Asked]]
  BY DEF Types
<1>2. \A d \in Ctxs \ {c} : asked'[d] = asked[d]
  BY <1>1 DEF Forget
<1>3. ASSUME t = "CAP" PROVE asked' = asked
  <2>1. asked' \in [Ctxs -> [Index -> Asked]]
    BY ForgetOk
  <2>2. \A d \in Ctxs, i \in Index : asked'[d][i] = asked[d][i]
    BY <1>3, ForgetOk
  <2>3. \A d \in Ctxs : asked'[d] = asked[d]
    BY <1>1, <2>1, <2>2
  <2> QED
    BY <1>1, <2>1, <2>3
<1> QED
  BY <1>2, <1>3
-----------------------------------------------------------------------------
(* Every step is, for each file, a step of its contract or unseen. *)
Follows == \A d \in Ctxs : Step(d) \/ Stutter(d)

LEMMA SameRuns ==
  ASSUME \A f \in Executors :
           run'[f] = run[f] \/ (run[f].at # "give" /\ run'[f].at # "give")
  PROVE  \A d \in Ctxs, t \in Queues : Gone(run', d, t) = Gone(run, d, t)
  BY GoneKept

LEMMA ScheduleRuns ==
  ASSUME Shape, NEW e \in Executors, run[e].at = "off", NEW c, NEW j,
         Schedule(e, c, j)
  PROVE  \A d \in Ctxs, t \in Queues : Gone(run', d, t) = Gone(run, d, t)
<1>1. run \in [Executors -> RunType]
  BY DEF Shape, Types
<1>2. \A f \in Executors : run'[f] = run[f] \/ run'[f].at = "pick"
  BY <1>1, ScheduleEffect
<1>3. \A f \in Executors \ {e} : run'[f] = run[f]
  BY <1>1 DEF Schedule
<1> QED
  BY <1>2, <1>3, SameRuns

LEMMA QuietFollows ==
  ASSUME Shape, Shape', NEW c \in Ctxs, UNCHANGED <<q, pend, rows, asked>>,
         \A d \in Ctxs, t \in Queues : Gone(run', d, t) = Gone(run, d, t)
  PROVE  Stutter(c)
  BY UnseenAlone

LEMMA FileFollows ==
  ASSUME Shape, Shape', NEW c \in Ctxs,
         \/ Open(c)
         \/ \E v \in Ctls : SetCtrl(c, v)
         \/ \E b \in Backends : SetBackend(c, b)
  PROVE  Follows
<1>1. UNCHANGED <<run, q, pend, rows, asked>>
  BY DEF Open, SetCtrl, SetBackend, jobVars, rowVars, stampVars
<1>2. \A d \in Ctxs, t \in Queues : Gone(run', d, t) = Gone(run, d, t)
  BY <1>1
<1> QED
  BY <1>1, <1>2, QuietFollows DEF Follows

LEMMA WorkerFollows ==
  ASSUME Shape, Shape',
         \/ Work
         \/ \E e \in Executors : RunPick(e) \/ RunFinish(e)
  PROVE  Follows
<1>1. UNCHANGED <<q, pend, rows, asked>>
  BY DEF Work, RunPick, RunFinish, rowVars, stampVars
<1>2. run \in [Executors -> RunType]
  BY DEF Shape, Types
<1>3. \A d \in Ctxs, t \in Queues : Gone(run', d, t) = Gone(run, d, t)
  <2>1. CASE Work
    <3>1. run["worker"].at = "off" /\ Schedule("worker", NoCtx, job)
          /\ "worker" \in Executors
      BY <2>1 DEF Work, Executors
    <3> QED
      BY <3>1, ScheduleRuns
  <2>2. ASSUME NEW e \in Executors, RunPick(e)
        PROVE  \A d \in Ctxs, t \in Queues : Gone(run', d, t) = Gone(run, d, t)
    <3>1. run[e].at = "pick"
      BY <2>2 DEF RunPick
    <3>2. /\ \A f \in Executors \ {e} : run'[f] = run[f]
          /\ run'[e] = Off \/ run'[e].at = "remove"
      BY <2>2, PickOk
    <3> QED
      BY <3>1, <3>2, OffType, SameRuns
  <2>3. ASSUME NEW e \in Executors, RunFinish(e)
        PROVE  \A d \in Ctxs, t \in Queues : Gone(run', d, t) = Gone(run, d, t)
    <3>1. run[e].at = "finish" /\ run' = [run EXCEPT ![e] = Off]
      BY <2>3 DEF RunFinish
    <3> QED
      BY <1>2, <3>1, OffType, SameRuns
  <2> QED
    BY <2>1, <2>2, <2>3
<1> QED
  BY <1>1, <1>3, QuietFollows DEF Follows

(* A buffer is removed from the head of its list, where it still shows. *)
LEMMA RunRemoveFollows ==
  ASSUME Shape, Shape', NEW e \in Executors, RunRemove(e)
  PROVE  Follows
<1>1. PICK c, r : c = run[e].ctx /\ r = run[e]
  OBVIOUS
<1>2. r.at = "remove" /\ UNCHANGED <<pend, rows, asked>>
  BY <1>1 DEF RunRemove, rowVars, stampVars
<1>3. /\ c \in Ctxs /\ Both(q[c]) /\ Pair(r, q[c])
      /\ \A f \in Executors \ {e} : run[f] = Off
      /\ \A d \in Ctxs, t \in Queues : Gone(run, d, t) = {}
  BY <1>1, <1>2, Active
<1>4. /\ \A f \in Executors \ {e} : run'[f] = run[f]
      /\ run'[e].at = "give" /\ run'[e].ctx = c
      /\ run'[e].srcOut = r.src /\ run'[e].dstOut = r.dst
      /\ \A d \in Ctxs \ {c} : q'[d] = q[d]
      /\ \A t \in Queues :
           /\ q'[c][t].on /\ q'[c][t].done = q[c][t].done
           /\ q[c][t].ready \in Seq(Index) /\ q[c][t].ready # << >>
           /\ q'[c][t].ready = Tail(q[c][t].ready)
  BY <1>1, RemoveOk
<1>5. \A f \in Executors : run'[f].at = "give" <=> f = e
  BY <1>3, <1>4, OffType
<1>6. \A t \in Queues : Gone(run', c, t) = {Taken(r, t)}
  BY <1>4, <1>5 DEF Gone, Taken
<1>7. \A d \in Ctxs \ {c}, t \in Queues : Gone(run', d, t) = {}
  BY <1>4, <1>5 DEF Gone
<1>8. ASSUME NEW d \in Ctxs \ {c} PROVE Stutter(d)
  BY <1>2, <1>3, <1>4, <1>7, <1>8, UnseenAlone
<1>9. \A t \in Queues : q[c][t].on /\ Taken(r, t) = Head(q[c][t].ready)
  BY <1>2, <1>3 DEF Both, Pair, Taken, Queues
<1>10. ASSUME NEW t \in Queues
       PROVE  Waiting(c, t)' = Waiting(c, t)
  <2>1. PICK w, x : w \in Seq(Index) /\ w = q[c][t].ready /\ x = Head(w)
    BY <1>4
  <2>2. <<x>> \o Tail(w) = << >> \o w
    BY <1>4, <2>1
  <2>3. Gone(run, c, t) = {} /\ Gone(run', c, t) = {x} /\ q'[c][t].ready = Tail(w)
    BY <1>3, <1>4, <1>6, <1>9, <2>1
  <2>4. Waiting(c, t) = SetToSeq({}) \o w
    BY <1>3, <1>9, <2>1, <2>3, WaitingOn
  <2>5. Waiting(c, t)' = SetToSeq({x}) \o Tail(w)
    <3>1. c \in Ctxs /\ q'[c][t].on
      BY <1>3, <1>4
    <3>2. Waiting(c, t)' = SetToSeq(Gone(run', c, t)) \o q'[c][t].ready
      BY ONLY t \in Queues, <3>1, WaitingOn
    <3> QED
      BY ONLY <2>3, <3>2
  <2> QED
    BY <2>2, <2>4, <2>5, NoneRemoved, OneRemoved
<1>11. \A t \in Queues : q'[c][t].on = q[c][t].on
  <2>1. \A t \in Queues : q[c][t].on \in BOOLEAN /\ q'[c][t].on \in BOOLEAN
    BY <1>3 DEF Shape, Types, QueuesType, QueueType
  <2> QED
    BY <1>4, <1>9, <2>1
<1>12. Stutter(c)
  BY <1>2, <1>3, <1>4, <1>10, <1>11, Unseen
<1> QED
  BY <1>8, <1>12 DEF Follows

LEMMA ConcatAppend ==
  ASSUME NEW S, NEW s \in Seq(S), NEW w \in Seq(S), NEW x \in S
  PROVE  s \o Append(w, x) = Append(s \o w, x)
  OBVIOUS

(* What is not held by a queue is not waiting on it either. *)
LEMMA WaitingHeld ==
  ASSUME Shape, NEW c \in Ctxs, NEW t \in Queues
  PROVE  /\ Range(Waiting(c, t)) \subseteq Held(q[c][t])
         /\ Range(Waiting(c, t)) =
              IF q[c][t].on THEN q[c][t].owned ELSE Range(q[c][t].queued)
<1>1. Range(Waiting(c, t)) = IF q[c][t].on
                             THEN Range(q[c][t].ready) \cup Gone(run, c, t)
                             ELSE Range(q[c][t].queued)
  BY Views
<1>2. Places(q[c][t], Gone(run, c, t))
  BY DEF Shape, Owners
<1> QED
  BY <1>1, <1>2 DEF Places, Held

LEMMA QBufWaiting ==
  ASSUME Shape, Shape', NEW c \in Ctxs, NEW t \in Queues, NEW i \in Index,
         QBuf(c, t, i)
  PROVE  /\ Waiting(c, t)' = Append(Waiting(c, t), i)
         /\ \A u \in Queues : /\ q'[c][u].on = q[c][u].on
                              /\ q'[c][u].done = q[c][u].done
                              /\ u # t => Waiting(c, u)' = Waiting(c, u)
         /\ \A d \in Ctxs \ {c} : q'[d] = q[d]
         /\ \A d \in Ctxs, u \in Queues : Gone(run', d, u) = Gone(run, d, u)
<1>1. PICK qt : qt = q[c][t]
  OBVIOUS
<1>2. PICK n : n = IF qt.on THEN BufQueue(qt, <<i>>)
                   ELSE [qt EXCEPT !.queued = Append(@, i)]
  OBVIOUS
<1>3. /\ DevLock /\ i \notin Held(qt) /\ q' = With(q, c, t, n)
      /\ Schedule("ioctl", c, TryQueue(job, c, q'[c]))
  BY <1>1, <1>2 DEF QBuf, With
<1>4. /\ q \in QueuesType /\ qt \in QueueType /\ Places(qt, Gone(run, c, t))
  BY <1>1 DEF Shape, Types, QueuesType, Owners
<1>5. /\ n \in QueueType /\ n.on = qt.on /\ n.done = qt.done
      /\ n.ready = IF qt.on THEN Append(qt.ready, i) ELSE qt.ready
  BY <1>2, <1>3, <1>4, QueuedOk
<1>6. PICK P : P = q'
  OBVIOUS
<1>7. /\ P[c][t] = n
      /\ \A d \in Ctxs, u \in Queues : <<d, u>> # <<c, t>> => P[d][u] = q[d][u]
      /\ \A d \in Ctxs \ {c} : P[d] = q[d]
  BY <1>3, <1>4, <1>5, <1>6, OneQueue
<1>8. \A u \in Queues \ {t} : q'[c][u] = q[c][u]
  BY <1>6, <1>7
<1>9. \A d \in Ctxs, u \in Queues : Gone(run', d, u) = Gone(run, d, u)
  <2>1. "ioctl" \in Executors /\ run["ioctl"].at = "off"
    BY <1>3 DEF DevLock, Executors
  <2> QED
    BY <1>3, <2>1, ScheduleRuns
<1>10. \A u \in Queues : q'[c][u].on = q[c][u].on /\ q'[c][u].done = q[c][u].done
  BY <1>1, <1>5, <1>6, <1>7, <1>8
<1>11. \A u \in Queues : u # t => Waiting(c, u)' = Waiting(c, u)
  BY <1>8, <1>9, WaitingKept
<1>12. Waiting(c, t)' = Append(Waiting(c, t), i)
  <2>1. CASE qt.on
    <3>1. PICK s, w : s = SetToSeq(Gone(run, c, t)) /\ w = qt.ready
      OBVIOUS
    <3>2. s \in Seq(Index) /\ w \in Seq(Index)
      BY <1>4, <3>1, GoneType DEF Shape, Types, QueueType
    <3>3. Waiting(c, t) = s \o w
      BY <1>1, <2>1, <3>1, WaitingOn
    <3>4. q'[c][t].on /\ q'[c][t].ready = Append(w, i)
      BY <1>5, <1>6, <1>7, <2>1, <3>1
    <3>5. Waiting(c, t)' = SetToSeq(Gone(run', c, t)) \o q'[c][t].ready
      BY ONLY c \in Ctxs, t \in Queues, <3>4, WaitingOn
    <3>6. s \o Append(w, i) = Append(s \o w, i)
      BY ONLY <3>2, i \in Index, ConcatAppend
    <3> QED
      BY <1>9, <3>1, <3>3, <3>4, <3>5, <3>6
  <2>2. CASE ~qt.on
    <3>1. n.queued = Append(qt.queued, i)
      BY <1>2, <1>4, <2>2 DEF QueueType
    <3>2. ~q'[c][t].on /\ q'[c][t].queued = Append(qt.queued, i)
      BY <1>5, <1>6, <1>7, <2>2, <3>1
    <3>3. Waiting(c, t)' = q'[c][t].queued
      BY ONLY c \in Ctxs, t \in Queues, <3>2, WaitingOn
    <3>4. Waiting(c, t) = qt.queued
      BY <1>1, <2>2, WaitingOn
    <3> QED
      BY <3>2, <3>3, <3>4
  <2> QED
    BY <2>1, <2>2
<1> QED
  BY <1>6, <1>7, <1>9, <1>10, <1>11, <1>12

LEMMA QBufFollows ==
  ASSUME Shape, Shape', NEW c \in Ctxs, NEW t \in Queues, NEW i \in Index,
         QBuf(c, t, i)
  PROVE  Follows
<1>1. i \notin Held(q[c][t]) /\ UNCHANGED <<pend, rows>>
  BY DEF QBuf, rowVars
<1>2. /\ Waiting(c, t)' = Append(Waiting(c, t), i)
      /\ \A u \in Queues : /\ q'[c][u].on = q[c][u].on
                           /\ q'[c][u].done = q[c][u].done
                           /\ u # t => Waiting(c, u)' = Waiting(c, u)
      /\ \A d \in Ctxs \ {c} : q'[d] = q[d]
      /\ \A d \in Ctxs, u \in Queues : Gone(run', d, u) = Gone(run, d, u)
  BY QBufWaiting
<1>3. asked \in [Ctxs -> [Index -> Asked]] /\ frames \in 0 .. MaxFrames
  BY DEF Shape, Types
<1>4. \A d \in Ctxs \ {c} : asked'[d] = asked[d]
  BY <1>3 DEF QBuf
<1>5. \A d \in Ctxs \ {c} : Stutter(d)
  BY <1>1, <1>2, <1>4, UnseenAlone
<1>6. /\ i \notin Range(Waiting(c, t)) /\ i \notin Range(q[c][t].done)
  BY <1>1, WaitingHeld DEF Held
<1>7. Streaming(c)' = Streaming(c) /\ RowsFor(c)' = RowsFor(c)
  BY <1>1, <1>2 DEF Streaming, RowsFor
<1>8. CapShown(c)' = CapShown(c)
  BY <1>1, <1>2, CapShownKept DEF Queues
<1>9. CASE t = "OUT"
  <2>1. PICK w, v, f, g : /\ w = Waiting(c, "OUT") /\ f = AskedFrames(asked[c])
                          /\ v = Waiting(c, "OUT")' /\ g = AskedFrames(asked'[c])
    OBVIOUS
  <2>2. /\ w \in Seq(Index) /\ OutShown(c) = Shown(w, f) /\ f \in [Index -> Nat]
        /\ OutShown(c)' = Shown(v, g) /\ g \in [Index -> Nat]
        /\ v = Append(w, i)
    BY <1>2, <1>9, <2>1, Views, ViewsNext DEF Queues
  <2>3. /\ asked'[c][i].frame = frames + 1
        /\ \A k \in Index \ {i} : asked'[c][k] = asked[c][k]
    BY <1>9, QBufAsks
  <2>4. \A k \in Range(w) : k \in Index /\ k # i
    BY <1>6, <1>9, <2>1, <2>2, RangeType
  <2>5. g[i] = frames + 1 /\ \A k \in Range(w) : f[k] = g[k]
    BY <2>1, <2>3, <2>4 DEF AskedFrames
  <2>6. Shown(v, g) = Append(Shown(w, f), [idx |-> i, frame |-> g[i]])
    BY ONLY <2>2, <2>5, i \in Index, ShownAppend
  <2>7. frames + 1 \in 1 .. MaxFrames
    <3>1. frames < MaxFrames
      BY <1>9 DEF QBuf
    <3> QED
      BY <1>3, <3>1, M2MAssumption
  <2>8. PICK m : m = frames + 1
    OBVIOUS
  <2>9. OutShown(c)' = Append(OutShown(c), [idx |-> i, frame |-> m])
    BY <2>2, <2>5, <2>6, <2>8
  <2>10. /\ Waiting(c, "CAP")' = Waiting(c, "CAP")
         /\ q'[c]["OUT"].done = q[c]["OUT"].done
    BY <1>2, <1>9 DEF Queues
  <2>11. Step(c)
    BY <1>6, <1>7, <1>8, <1>9, <2>7, <2>8, <2>9, <2>10, StepQueueOutput
  <2> QED
    BY <1>5, <2>11 DEF Follows
<1>10. CASE t = "CAP"
  <2>1. asked' = asked
    BY <1>10 DEF QBuf
  <2>2. Waiting(c, "OUT")' = Waiting(c, "OUT") /\ q'[c]["OUT"].done = q[c]["OUT"].done
    BY <1>2, <1>10 DEF Queues
  <2>3. OutShown(c)' = OutShown(c)
    BY <2>1, <2>2, OutShownKept
  <2>4. Step(c)
    BY <1>2, <1>6, <1>7, <1>8, <1>10, <2>2, <2>3, StepQueueCapture
  <2> QED
    BY <1>5, <2>4 DEF Follows
<1> QED
  BY <1>9, <1>10 DEF Queues

LEMMA StreamOnFollows ==
  ASSUME Orderly, Shape, Shape', NEW c \in Ctxs, NEW t \in Queues, StreamOn(c, t)
  PROVE  Follows
<1>1. PICK qt : qt = q[c][t]
  OBVIOUS
<1>2. PICK n :
        n = [BufQueue(qt, qt.queued) EXCEPT !.queued = << >>, !.on = TRUE]
  OBVIOUS
<1>3. /\ DevLock /\ ~qt.on /\ qt.ready = << >> /\ q' = With(q, c, t, n)
      /\ Schedule("ioctl", c, TryQueue(job, c, q'[c]))
      /\ UNCHANGED <<pend, rows, asked>>
  BY <1>1, <1>2 DEF StreamOn, With, rowVars, Orderly
<1>4. /\ q \in QueuesType /\ qt \in QueueType /\ qt.queued \in Seq(Index)
      /\ Jobs(job, q) /\ Runs(job, run, q) /\ Places(qt, Gone(run, c, t))
  BY <1>1 DEF Shape, Types, QueuesType, QueueType, Owners
<1>5. Gone(run, c, t) = {}
  <2>1. job.curr # c
    BY <1>1, <1>3, <1>4 DEF Jobs, Both, Queues
  <2> QED
    BY <1>4, <2>1, GoneNone
<1>6. n \in QueueType /\ n.on /\ n.ready = qt.queued /\ n.done = qt.done
  <2>1. qt.done = << >>
    BY <1>3, <1>4 DEF Places
  <2>2. n \in QueueType /\ n.on /\ n.ready = qt.queued /\ n.done = << >>
    BY <1>2, <1>3, <1>4, <1>5, StartOk
  <2> QED
    BY <2>1, <2>2
<1>7. PICK P : P = q'
  OBVIOUS
<1>8. /\ P[c][t] = n
      /\ \A d \in Ctxs, u \in Queues : <<d, u>> # <<c, t>> => P[d][u] = q[d][u]
      /\ \A d \in Ctxs \ {c} : P[d] = q[d]
  BY <1>3, <1>4, <1>6, <1>7, OneQueue
<1>9. \A u \in Queues \ {t} : q'[c][u] = q[c][u]
  BY <1>7, <1>8
<1>10. \A d \in Ctxs, u \in Queues : Gone(run', d, u) = Gone(run, d, u)
  <2>1. "ioctl" \in Executors /\ run["ioctl"].at = "off"
    BY <1>3 DEF DevLock, Executors
  <2> QED
    BY <1>3, <2>1, ScheduleRuns
<1>11. \A d \in Ctxs \ {c} : Stutter(d)
  BY <1>3, <1>7, <1>8, <1>10, UnseenAlone
<1>12. Waiting(c, t)' = Waiting(c, t)
  <2>1. Waiting(c, t) = qt.queued
    BY <1>1, <1>3, WaitingOn
  <2>2. q'[c][t].on /\ q'[c][t].ready = qt.queued
    BY <1>6, <1>7, <1>8
  <2>3. Waiting(c, t)' = SetToSeq(Gone(run', c, t)) \o q'[c][t].ready
    BY ONLY c \in Ctxs, t \in Queues, <2>2, WaitingOn
  <2>4. << >> \o qt.queued = qt.queued
    BY <1>4
  <2> QED
    BY <1>5, <1>10, <2>1, <2>2, <2>3, <2>4, NoneRemoved
<1>13. \A u \in Queues : Waiting(c, u)' = Waiting(c, u)
  BY <1>9, <1>10, <1>12, WaitingKept
<1>14. \A u \in Queues : q'[c][u].done = q[c][u].done
  BY <1>1, <1>6, <1>7, <1>8, <1>9
<1>15. OutShown(c)' = OutShown(c)
  BY <1>3, <1>13, OutShownKept DEF Queues
<1>16. CapShown(c)' = CapShown(c)
  BY <1>3, <1>14, CapShownKept DEF Queues
<1>17. RowsFor(c)' = RowsFor(c)
  BY <1>3 DEF RowsFor
<1>18. Streaming(c)' = Streaming(c) \cup {t}
  <2>1. q'[c][t].on
    BY <1>6, <1>7, <1>8
  <2> QED
    BY <1>9, <2>1 DEF Streaming
<1>19. /\ Waiting(c, "CAP")' = Waiting(c, "CAP")
       /\ q'[c]["OUT"].done = q[c]["OUT"].done
  BY <1>13, <1>14 DEF Queues
<1>20. Step(c)
  BY <1>15, <1>16, <1>17, <1>18, <1>19, StepStart
<1> QED
  BY <1>11, <1>20 DEF Follows

LEMMA StreamOnFailsFollows ==
  ASSUME Shape, Shape', NEW c \in Ctxs, StreamOnFails(c)
  PROVE  Follows
<1>1. PICK qt : qt = q[c]["OUT"]
  OBVIOUS
<1>2. PICK n : n = [qt EXCEPT !.ready = @ \o qt.queued]
  OBVIOUS
<1>3. /\ ~qt.on /\ "OUT" \in Queues /\ q' = With(q, c, "OUT", n)
      /\ UNCHANGED <<run, pend, rows, asked>>
  BY <1>1, <1>2 DEF StreamOnFails, With, rowVars, jobVars, Queues
<1>4. /\ q \in QueuesType /\ qt \in QueueType
      /\ Places(qt, Gone(run, c, "OUT"))
  BY <1>1, <1>3 DEF Shape, Types, QueuesType, Owners
<1>5. n \in QueueType
  BY <1>2, <1>3, <1>4, StartFailsOk
<1>6. n.on = qt.on /\ n.queued = qt.queued /\ n.done = qt.done
  BY <1>2, <1>4 DEF QueueType
<1>7. PICK P, u : P = q' /\ u = "OUT" /\ u \in Queues
  BY <1>3
<1>8. P = With(q, c, u, n)
  BY <1>3, <1>7
<1>9. /\ P[c][u] = n
      /\ \A d \in Ctxs, v \in Queues : <<d, v>> # <<c, u>> => P[d][v] = q[d][v]
      /\ \A d \in Ctxs \ {c} : P[d] = q[d]
  BY ONLY <1>4, <1>5, <1>7, <1>8, c \in Ctxs, OneQueue
<1>10. \A v \in Queues : /\ q'[c][v].on = q[c][v].on
                         /\ q'[c][v].queued = q[c][v].queued
                         /\ q'[c][v].done = q[c][v].done
                         /\ q[c][v].on => q'[c][v].ready = q[c][v].ready
  BY <1>1, <1>3, <1>6, <1>7, <1>9
<1>11. \A v \in Queues : Waiting(c, v)' = Waiting(c, v)
  BY <1>3, <1>10, WaitingKept
<1>12. Stutter(c)
  BY <1>3, <1>10, <1>11, Unseen
<1>13. \A d \in Ctxs \ {c} : Stutter(d)
  BY <1>3, <1>7, <1>9, UnseenAlone
<1> QED
  BY <1>12, <1>13 DEF Follows

(* A job happens: both buffers leave the heads of the waiting lines. *)
LEMMA RunGiveFollows ==
  ASSUME Shape, Shape', Stamps, Kept, NEW e \in Executors, RunGive(e)
  PROVE  Follows
<1>1. PICK c, r : c = run[e].ctx /\ r = run[e]
  OBVIOUS
<1>2. r.at = "give" /\ UNCHANGED <<rows, asked>>
  BY <1>1 DEF RunGive, stampVars
<1>3. /\ c \in Ctxs /\ Both(q[c]) /\ Pair(r, q[c])
      /\ \A f \in Executors \ {e} : run[f] = Off
      /\ \A d \in Ctxs, t \in Queues :
           Gone(run, d, t) = IF d # c THEN {}
                             ELSE IF t = "OUT" THEN {r.srcOut} ELSE {r.dstOut}
  BY <1>1, <1>2, Active
<1>4. /\ \A f \in Executors \ {e} : run'[f] = run[f]
      /\ run'[e].at = "finish" /\ r.src \in Index /\ r.dst \in Index
      /\ \A d \in Ctxs \ {c} : q'[d] = q[d]
      /\ \A t \in Queues :
           /\ q'[c][t].on /\ q'[c][t].ready = q[c][t].ready
           /\ q[c][t].done \in Seq(Index)
           /\ q'[c][t].done = Append(q[c][t].done, Taken(r, t))
           /\ Taken(r, t) \notin Range(q[c][t].done)
  BY <1>1, GiveOk
<1>5. \A d \in Ctxs, t \in Queues : Gone(run', d, t) = {}
  <2>1. \A f \in Executors : run'[f].at # "give"
    BY <1>3, <1>4, OffType
  <2> QED
    BY <2>1 DEF Gone
<1>6. /\ \A t \in Queues : Gone(run, c, t) = {Taken(r, t)}
      /\ \A d \in Ctxs \ {c}, t \in Queues : Gone(run, d, t) = {}
  BY <1>2, <1>3 DEF Pair, Taken
<1>7. /\ \A d \in Ctxs \ {c} : pend'[d] = pend[d]
      /\ \A i \in Index \ {r.dst} : pend'[c][i] = pend[c][i]
      /\ \/ pend'[c][r.dst] = pend[c][r.dst]
         \/ pend'[c][r.dst] = Meta(r) /\ Meta(r) \in Row
  <2>1. /\ pend \in [Ctxs -> [Index -> Row \cup {NoRow}]]
        /\ pend' \in [Ctxs -> [Index -> Row \cup {NoRow}]]
    BY DEF Shape, Types
  <2>2. \/ pend' = pend
        \/ /\ Meta(r) \in Row
           /\ \A d \in Ctxs, i \in Index :
                pend'[d][i] = IF d = c /\ i = r.dst THEN Meta(r) ELSE pend[d][i]
    BY <1>1, GiveRowOk
  <2>3. \A d \in Ctxs \ {c}, i \in Index : pend'[d][i] = pend[d][i]
    BY <2>2
  <2>4. \A d \in Ctxs \ {c} : pend'[d] = pend[d]
    BY <2>1, <2>3
  <2> QED
    BY <1>3, <1>4, <2>2, <2>4
<1>8. \A d \in Ctxs \ {c} : Stutter(d)
  BY <1>2, <1>4, <1>5, <1>6, <1>7, UnseenAlone
<1>9. ASSUME NEW t \in Queues
      PROVE  /\ Waiting(c, t) = <<Taken(r, t)>> \o q[c][t].ready
             /\ Waiting(c, t) # << >> /\ Head(Waiting(c, t)) = Taken(r, t)
             /\ Waiting(c, t)' = Tail(Waiting(c, t))
  <2>1. PICK x, w : x = Taken(r, t) /\ w = q[c][t].ready
    OBVIOUS
  <2>2. x \in Index /\ w \in Seq(Index) /\ q[c][t].on
    BY <1>3, <1>4, <2>1, SMTT(30)
       DEF Taken, Shape, Types, QueuesType, QueueType, Both, Queues
  <2>3. Waiting(c, t) = <<x>> \o w
    <3>1. Waiting(c, t) = SetToSeq(Gone(run, c, t)) \o q[c][t].ready
      BY ONLY <1>3, <2>2, t \in Queues, WaitingOn
    <3>2. Gone(run, c, t) = {x}
      BY <1>6, <2>1
    <3> QED
      BY ONLY <2>1, <3>1, <3>2, OneRemoved
  <2>4. Waiting(c, t)' = << >> \o w
    <3>1. c \in Ctxs /\ q'[c][t].on
      BY <1>3, <1>4
    <3>2. Waiting(c, t)' = SetToSeq(Gone(run', c, t)) \o q'[c][t].ready
      BY ONLY t \in Queues, <3>1, WaitingOn
    <3> QED
      BY <1>3, <1>4, <1>5, <2>1, <3>2, NoneRemoved
  <2>5. /\ << >> \o w = w /\ Tail(<<x>> \o w) = w
        /\ <<x>> \o w # << >> /\ Head(<<x>> \o w) = x
    BY ONLY <2>2
  <2> QED
    BY <2>1, <2>3, <2>4, <2>5
<1>10. PICK w, f : w = Waiting(c, "OUT") /\ f = AskedFrames(asked[c])
  OBVIOUS
<1>11. /\ w \in Seq(Index) /\ f \in [Index -> Nat] /\ OutShown(c) = Shown(w, f)
       /\ w # << >> /\ Head(w) = r.src /\ Waiting(c, "OUT")' = Tail(w)
       /\ f[r.src] = asked[c][r.src].frame
  BY <1>3, <1>4, <1>9, <1>10, Views DEF Queues, Taken, AskedFrames
<1>12. /\ OutShown(c) # << >> /\ Tail(OutShown(c)) = Shown(Tail(w), f)
       /\ Head(OutShown(c)).idx = r.src /\ Head(OutShown(c)).frame = f[r.src]
  BY <1>11, ShownTail
<1>13. OutShown(c)' = Tail(OutShown(c))
  <2>1. OutShown(c)' = Shown(Waiting(c, "OUT")', AskedFrames(asked'[c]))
    BY <1>3, ViewsNext
  <2> QED
    BY <1>2, <1>10, <1>11, <1>12, <2>1
<1>14. PICK d, g, h : /\ d = q[c]["CAP"].done /\ g = KeptFrames(pend[c])
                      /\ h = KeptFrames(pend'[c])
  OBVIOUS
<1>15. /\ d \in Seq(Index) /\ g \in [Index -> Nat] /\ h \in [Index -> Nat]
       /\ CapShown(c) = Shown(d, g) /\ CapShown(c)' = Shown(Append(d, r.dst), h)
  <2>1. q'[c]["CAP"].done = Append(d, r.dst) /\ "CAP" \in Queues
    BY <1>4, <1>14 DEF Queues, Taken
  <2> QED
    BY <1>3, <1>14, <2>1, Views, ViewsNext
<1>16. r.dst \notin Range(d)
  BY <1>4, <1>14 DEF Taken, Queues
<1>17. \A i \in Range(d) : g[i] = h[i]
  <2>1. \A i \in Range(d) : i \in Index \ {r.dst}
    BY <1>15, <1>16, RangeType
  <2> QED
    BY <1>7, <1>14, <2>1 DEF KeptFrames
<1>18. Shown(Append(d, r.dst), h) =
         Append(Shown(d, g), [idx |-> r.dst, frame |-> h[r.dst]])
  BY <1>4, <1>15, <1>17, ShownAppend
<1>19. h[r.dst] \in {asked[c][r.src].frame, 0}
  <2>1. h[r.dst] = IF pend'[c][r.dst] = NoRow THEN 0 ELSE pend'[c][r.dst].asked.frame
    BY <1>4, <1>14 DEF KeptFrames
  <2>2. pend[c][r.dst] = NoRow
    BY <1>3, <1>4, <1>14, <1>16 DEF Kept
  <2>3. Meta(r).asked = asked[c][r.src]
    BY <1>1, <1>2 DEF Meta, Stamps
  <2> QED
    BY <1>7, <2>1, <2>2, <2>3
<1>20. /\ Waiting(c, "CAP") # << >> /\ Head(Waiting(c, "CAP")) = r.dst
       /\ Waiting(c, "CAP")' = Tail(Waiting(c, "CAP"))
  BY <1>9 DEF Queues, Taken
<1>21. Streaming(c) = Queues /\ Streaming(c)' = Streaming(c)
  <2>1. \A t \in Queues : q[c][t].on /\ q'[c][t].on
    BY <1>3, <1>4 DEF Both, Queues
  <2> QED
    BY <2>1 DEF Streaming
<1>22. RowsFor(c)' = RowsFor(c)
  BY <1>2 DEF RowsFor
<1>23. q'[c]["OUT"].done = Append(q[c]["OUT"].done, Head(OutShown(c)).idx)
  BY <1>4, <1>12 DEF Queues, Taken
<1>24. PICK k : k = h[r.dst]
  OBVIOUS
<1>25. /\ k \in {Head(OutShown(c)).frame, 0}
       /\ CapShown(c)' = Append(CapShown(c),
                                [idx |-> Head(Waiting(c, "CAP")), frame |-> k])
  BY <1>11, <1>12, <1>15, <1>18, <1>19, <1>20, <1>24
<1>26. Step(c)
  BY ONLY <1>3, <1>12, <1>13, <1>20, <1>21, <1>22, <1>23, <1>25, StepJob
<1> QED
  BY <1>8, <1>26 DEF Follows
-----------------------------------------------------------------------------
(* Rows that go out are published as the contract says. *)

LEMMA Publishes ==
  ASSUME Shape, Shape', NEW c \in Ctxs, NEW z \in Seq(Row), rows' = rows \o z,
         \A k \in 1 .. Len(z) : z[k].ctx = c,
         NEW fs \in Seq(Nat), Len(fs) = Len(z),
         \A k \in 1 .. Len(z) : fs[k] = z[k].asked.frame
  PROVE  File(c)!Publish(fs)
<1>1. rows \in Seq(Row)
  BY DEF Shape, Types
<1>2. RowsFor(c) = Mine(rows, c) /\ RowsFor(c)' = Mine(rows \o z, c)
  BY Views, ViewsNext
<1>3. CASE z = << >>
  <2>1. fs = << >> /\ rows' = rows
    BY <1>1, <1>3
  <2>2. RowsFor(c)' = RowsFor(c)
    BY <2>1 DEF RowsFor
  <2> QED
    BY <2>1, <2>2 DEF File!Publish
<1>4. CASE z # << >>
  <2>1. Grows(RowsFor(c), RowsFor(c)', fs)
    BY <1>1, <1>2, <1>4, MinePublished
  <2> QED
    BY <2>1 DEF File!Publish, Grows
<1> QED
  BY <1>3, <1>4

(* The done list of a queue, and the rows pending in its buffers. *)
LEMMA DoneOnce ==
  ASSUME Shape, NEW c \in Ctxs, NEW t \in Queues
  PROVE  q[c][t].done \in Seq(Index) /\ IsInjective(q[c][t].done)
<1>1. q[c][t].done \in Seq(Index) /\ Places(q[c][t], Gone(run, c, t))
  BY DEF Shape, Types, QueuesType, QueueType, Owners
<1> QED
  BY <1>1, EmptySequence DEF Places

LEMMA PendingFrame ==
  ASSUME Shape, Once, NEW c \in Ctxs, NEW i \in Index
  PROVE  /\ KeptFrames(pend[c])[i] = 0 <=> pend[c][i] = NoRow
         /\ pend[c][i] # NoRow =>
              /\ pend[c][i] \in Row
              /\ KeptFrames(pend[c])[i] = pend[c][i].asked.frame
<1>1. pend[c][i] \in Row \cup {NoRow} /\ frames \in Nat
  BY M2MAssumption DEF Shape, Types
<1>2. KeptFrames(pend[c])[i] = IF pend[c][i] = NoRow THEN 0
                               ELSE pend[c][i].asked.frame
  BY DEF KeptFrames
<1>3. ASSUME pend[c][i] # NoRow PROVE pend[c][i].asked.frame # 0
  <2>1. PICK b : b = <<c, i>>
    OBVIOUS
  <2>2. b \in Pending /\ PendingRow(b) = pend[c][i]
    BY <1>3, <2>1 DEF Pending, PendingRow
  <2>3. pend[c][i] \in Produced
    BY <2>2 DEF Produced
  <2>4. pend[c][i].asked.frame \in 1 .. frames
    BY <2>3 DEF Once
  <2> QED
    BY <1>1, <2>4
<1> QED
  BY <1>1, <1>2, <1>3

LEMMA Shorter ==
  ASSUME NEW n \in Nat, NEW m \in Nat, NEW s \in [1 .. n -> 1 .. m],
         IsInjective(s)
  PROVE  n <= m
<1>1. s \in Injection(1 .. n, 1 .. m)
  BY DEF Injection
<1>2. IsFiniteSet(1 .. m) /\ Cardinality(1 .. m) = m /\ Cardinality(1 .. n) = n
  BY FS_Interval
<1>3. Cardinality(1 .. n) <= Cardinality(1 .. m)
  BY <1>1, <1>2, FS_Injection
<1> QED
  BY <1>2, <1>3

(* Where in d the elements of s are. *)
LEMMA Positions ==
  ASSUME NEW S, NEW d \in Seq(S), NEW s \in Seq(S), IsInjective(d),
         IsInjective(s), Range(s) \subseteq Range(d)
  PROVE  /\ Len(s) \in 0 .. Len(d)
         /\ Located(s, d)
<1>1. /\ DOMAIN d = 1 .. Len(d) /\ DOMAIN s = 1 .. Len(s)
      /\ Len(d) \in Nat /\ Len(s) \in Nat
  OBVIOUS
<1>2. PICK m, n : m = Len(d) /\ n = Len(s)
  OBVIOUS
<1> DEFINE p == [a \in 1 .. n |-> CHOOSE k \in 1 .. m : d[k] = s[a]]
<1>3. \A a \in 1 .. n : \E k \in 1 .. m : d[k] = s[a]
  BY <1>1, <1>2 DEF Range
<1>4. p \in [1 .. n -> 1 .. m] /\ \A a \in 1 .. n : d[p[a]] = s[a]
  BY <1>3
<1> HIDE DEF p
<1>5. IsInjective(p)
  <2>1. DOMAIN p = 1 .. n
    BY <1>4
  <2>2. ASSUME NEW a \in 1 .. n, NEW e \in 1 .. n, p[a] = p[e] PROVE a = e
    <3>1. s[a] = s[e] /\ a \in DOMAIN s /\ e \in DOMAIN s
      BY <1>1, <1>2, <1>4, <2>2
    <3> QED
      BY <3>1 DEF IsInjective
  <2> QED
    BY <2>1, <2>2 DEF IsInjective
<1>6. n <= m
  BY ONLY <1>1, <1>2, <1>4, <1>5, Shorter
<1>7. ASSUME NEW k \in 1 .. m, d[k] \in Range(s)
      PROVE  \E a \in 1 .. n : p[a] = k
  <2>1. PICK a \in 1 .. n : s[a] = d[k]
    BY <1>1, <1>2, <1>7 DEF Range
  <2>2. d[p[a]] = d[k] /\ p[a] \in DOMAIN d /\ k \in DOMAIN d
    BY <1>1, <1>2, <1>4, <2>1
  <2>3. p[a] = k
    BY <2>2 DEF IsInjective
  <2> QED
    BY <2>3
<1>8. n \in 0 .. m
  BY <1>1, <1>2, <1>6
<1> QED
  BY <1>2, <1>4, <1>7, <1>8 DEF Located

(* A queue that is stopped publishes what it holds, by index. *)
LEMMA PublishesAll ==
  ASSUME Shape, Shape', Once, Kept, OwnRows, NEW c \in Ctxs,
         NEW S \in SUBSET Index, Range(q[c]["CAP"].done) \subseteq S,
         BufFinish(c, S)
  PROVE  File(c)!PublishAll
<1>1. PICK s \in Seq(Index), z \in Seq(Row) :
        /\ rows' = rows \o z
        /\ Len(z) = Len(s)
        /\ \A k \in 1 .. Len(s) : z[k] = pend[c][s[k]]
        /\ IsInjective(s)
        /\ \A k, n \in 1 .. Len(s) : k < n => s[k] < s[n]
        /\ Range(s) = {i \in S : pend[c][i] # NoRow}
  BY BufFinishOk DEF Shape
<1>2. PICK n, d, g, b : /\ n = Len(s) /\ d = q[c]["CAP"].done
                        /\ g = KeptFrames(pend[c]) /\ b = CapShown(c)
  OBVIOUS
<1>3. /\ d \in Seq(Index) /\ IsInjective(d) /\ b = Shown(d, g)
      /\ g \in [Index -> Nat]
  BY <1>2, Views, DoneOnce DEF Queues
<1>4. /\ Len(b) = Len(d) /\ DOMAIN b = 1 .. Len(d)
      /\ \A k \in 1 .. Len(d) :
           b[k] = [idx |-> d[k], frame |-> g[d[k]]] /\ d[k] \in Index
  BY ONLY <1>3, ShownType
<1>5. \A k \in 1 .. Len(d) : /\ b[k].idx = d[k] /\ b[k].frame = g[d[k]]
                             /\ d[k] \in Index
  BY ONLY <1>4
<1>6. \A i \in Index : /\ g[i] = 0 <=> pend[c][i] = NoRow
                       /\ pend[c][i] # NoRow => /\ pend[c][i] \in Row
                                                /\ g[i] = pend[c][i].asked.frame
  BY <1>2, PendingFrame
<1>7. \A i \in Range(s) : i \in Index /\ pend[c][i] # NoRow /\ i \in Range(d)
  BY <1>1, <1>2 DEF Kept
<1>8. \A a \in 1 .. n : s[a] \in Range(s)
  BY <1>2 DEF Range
<1>9. \A a \in 1 .. n : z[a].ctx = c /\ z[a].asked.frame = g[s[a]]
  <2>1. \A a \in 1 .. n : z[a] = pend[c][s[a]]
    BY <1>1, <1>2
  <2> QED
    BY <1>6, <1>7, <1>8, <2>1 DEF OwnRows
<1>10. n \in 0 .. Len(d) /\ n \in Nat
  <2>1. Range(s) \subseteq Range(d)
    BY <1>7
  <2> QED
    BY <1>1, <1>2, <1>3, <2>1, Positions
<1>11. PICK p \in [1 .. n -> 1 .. Len(d)] :
         /\ \A a \in 1 .. n : d[p[a]] = s[a]
         /\ \A k \in 1 .. Len(d) :
              d[k] \in Range(s) => \E a \in 1 .. n : p[a] = k
  <2>1. Range(s) \subseteq Range(d)
    BY <1>7
  <2>2. Located(s, d)
    BY <1>1, <1>3, <2>1, Positions
  <2> QED
    BY ONLY <1>2, <2>2, SMTT(30) DEF Located
<1>12. \A a \in 1 .. n : p[a] \in 1 .. Len(d) /\ d[p[a]] = s[a]
  BY ONLY <1>11
<1>13. \A a \in 1 .. n : b[p[a]].idx = s[a] /\ b[p[a]].frame = g[s[a]]
  BY ONLY <1>5, <1>12
<1>14. \A a \in 1 .. n : s[a] \in Index /\ g[s[a]] # 0 /\ g[s[a]] \in Nat
  BY <1>3, <1>6, <1>7, <1>8
<1>15. p \in [1 .. n -> File(c)!Good]
  <2>1. \A a \in 1 .. n : p[a] \in DOMAIN b /\ b[p[a]].frame # 0
    BY ONLY <1>4, <1>12, <1>13, <1>14
  <2>2. \A a \in 1 .. n : p[a] \in File(c)!Good
    BY <1>2, <2>1 DEF File!Good
  <2> QED
    BY <2>2, <1>11
<1>16. \A k \in File(c)!Good : \E a \in 1 .. n : p[a] = k
  <2> SUFFICES ASSUME NEW k \in 1 .. Len(d), b[k].frame # 0
               PROVE  \E a \in 1 .. n : p[a] = k
    BY <1>2, <1>4 DEF File!Good
  <2>1. pend[c][d[k]] # NoRow /\ d[k] \in Index
    BY <1>5, <1>6
  <2>2. d[k] \in Range(d)
    BY <1>3 DEF Range
  <2>3. d[k] \in Range(s)
    BY <1>1, <1>2, <2>1, <2>2
  <2> QED
    BY <1>11, <2>3
<1>17. \A a, e \in 1 .. n : a < e => b[p[a]].idx < b[p[e]].idx
  BY ONLY <1>1, <1>2, <1>13
<1> DEFINE fs == [a \in 1 .. n |-> b[p[a]].frame]
<1>18. fs \in [1 .. n -> Nat] /\ \A a \in 1 .. n : fs[a] = g[s[a]]
  BY <1>13, <1>14
<1>19. n \in 0 .. Len(b)
  BY <1>4, <1>10
<1> HIDE DEF fs
<1>21. fs \in Seq(Nat) /\ Len(fs) = n
  BY ONLY <1>10, <1>18
<1>22. /\ Len(fs) = Len(z) /\ \A k \in 1 .. Len(z) : fs[k] = z[k].asked.frame
       /\ \A k \in 1 .. Len(z) : z[k].ctx = c
  BY <1>1, <1>2, <1>9, <1>18, <1>21
<1>23. File(c)!Publish(fs)
  BY <1>1, <1>21, <1>22, Publishes
<1> QED
  BY <1>2, <1>15, <1>16, <1>17, <1>19, <1>23 DEF File!PublishAll, fs

LEMMA SingleElement ==
  ASSUME NEW S, NEW s \in Seq(S), IsInjective(s), NEW x, Range(s) = {x}
  PROVE  Len(s) = 1 /\ s[1] = x
<1>1. DOMAIN s = 1 .. Len(s) /\ Len(s) \in Nat
  OBVIOUS
<1>2. \A k \in 1 .. Len(s) : s[k] = x
  BY <1>1 DEF Range
<1>3. \E k \in 1 .. Len(s) : s[k] = x
  BY <1>1 DEF Range
<1>4. 1 \in 1 .. Len(s)
  BY <1>1, <1>3
<1>5. \A k \in 1 .. Len(s) : k = 1
  BY <1>1, <1>2, <1>4 DEF IsInjective
<1>6. Len(s) \in 1 .. Len(s)
  BY <1>1, <1>4
<1> QED
  BY <1>2, <1>4, <1>5, <1>6

(* A CAPTURE buffer that is dequeued publishes its row, if it has one. *)
LEMMA PublishesOne ==
  ASSUME Shape, Shape', Once, OwnRows, NEW c \in Ctxs, NEW i \in Index,
         BufFinish(c, {i})
  PROVE  File(c)!Publish(IF KeptFrames(pend[c])[i] = 0 THEN << >>
                         ELSE <<KeptFrames(pend[c])[i]>>)
<1>0. PICK S : S = {i}
  OBVIOUS
<1>1. PICK s \in Seq(Index), z \in Seq(Row) :
        /\ rows' = rows \o z
        /\ Len(z) = Len(s)
        /\ \A k \in 1 .. Len(s) : z[k] = pend[c][s[k]]
        /\ IsInjective(s)
        /\ Range(s) = {j \in S : pend[c][j] # NoRow}
  <2>1. S \in SUBSET Index /\ BufFinish(c, S) /\ Types
    BY <1>0 DEF Shape
  <2> QED
    BY <2>1, BufFinishOk
<1>2. PICK f : f = KeptFrames(pend[c])[i]
  OBVIOUS
<1>3. /\ f = 0 <=> pend[c][i] = NoRow
      /\ pend[c][i] # NoRow => pend[c][i] \in Row /\ f = pend[c][i].asked.frame
  BY <1>2, PendingFrame
<1>4. f \in Nat
  BY <1>2, FramesType DEF Shape
<1>5. CASE f = 0
  <2>1. Range(s) = {}
    BY <1>0, <1>1, <1>3, <1>5
  <2>2. s = << >>
    BY <2>1, RangeType
  <2>3. z = << >> /\ << >> \in Seq(Nat)
    BY <1>1, <2>2
  <2>4. PICK fs \in Seq(Nat) : fs = << >>
    BY <2>3
  <2>5. /\ \A k \in 1 .. Len(z) : z[k].ctx = c
        /\ Len(fs) = Len(z)
        /\ \A k \in 1 .. Len(z) : fs[k] = z[k].asked.frame
    BY ONLY <2>3, <2>4
  <2>6. File(c)!Publish(fs)
    BY <1>1, <2>5, Publishes
  <2> QED
    BY <1>2, <1>5, <2>4, <2>6
<1>6. CASE f # 0
  <2>1. Range(s) = {i}
    BY <1>0, <1>1, <1>3, <1>6
  <2>2. Len(s) = 1 /\ s[1] = i
    BY <1>1, <2>1, SingleElement
  <2>3. Len(z) = 1 /\ z[1] = pend[c][i]
    BY <1>1, <2>2
  <2>4. z[1].ctx = c /\ z[1].asked.frame = f
    BY <1>3, <1>6, <2>3 DEF OwnRows
  <2>5. PICK fs \in Seq(Nat) : fs = <<f>>
    <3>1. <<f>> \in Seq(Nat)
      BY ONLY <1>4
    <3> QED
      BY ONLY <3>1, Zenon
  <2>6. Len(fs) = 1 /\ fs[1] = f
    BY ONLY <2>5
  <2>7. \A k \in 1 .. 1 : k = 1
    OBVIOUS
  <2>8. /\ \A k \in 1 .. Len(z) : z[k].ctx = c
        /\ Len(fs) = Len(z)
        /\ \A k \in 1 .. Len(z) : fs[k] = z[k].asked.frame
    BY ONLY <2>3, <2>4, <2>6, <2>7
  <2>9. File(c)!Publish(fs)
    BY <1>1, <2>8, Publishes
  <2> QED
    BY <1>2, <1>6, <2>5, <2>9
<1> QED
  BY <1>5, <1>6

LEMMA DQBufFollows ==
  ASSUME Shape, Shape', Once, OwnRows, NEW c \in Ctxs, NEW t \in Queues,
         DQBuf(c, t)
  PROVE  Follows
<1>1. PICK qt : qt = q[c][t]
  OBVIOUS
<1>2. PICK n, i, S : /\ n = [qt EXCEPT !.done = Tail(@)] /\ i = Head(qt.done)
                     /\ S = IF t = "CAP" THEN {i} ELSE {}
  OBVIOUS
<1>3. /\ qt.on /\ qt.done # << >> /\ q' = With(q, c, t, n)
      /\ BufFinish(c, S) /\ Forget(c, t, {i}) /\ UNCHANGED run
  BY <1>1, <1>2 DEF DQBuf, With, jobVars
<1>4. /\ q \in QueuesType /\ qt \in QueueType /\ Types
      /\ Places(qt, Gone(run, c, t))
  BY <1>1 DEF Shape, Types, QueuesType, Owners
<1>5. /\ n \in QueueType /\ n.queued = qt.queued /\ n.done = Tail(qt.done)
      /\ n.ready = qt.ready /\ i \in Index /\ i \notin qt.owned
  BY <1>2, <1>3, <1>4, DequeueOk
<1>6. n.on = qt.on
  BY <1>2, <1>4 DEF QueueType
<1>7. PICK P : P = q'
  OBVIOUS
<1>8. /\ P[c][t] = n
      /\ \A d \in Ctxs, u \in Queues : <<d, u>> # <<c, t>> => P[d][u] = q[d][u]
      /\ \A d \in Ctxs \ {c} : P[d] = q[d]
  BY <1>3, <1>4, <1>5, <1>7, OneQueue
<1>9. \A u \in Queues \ {t} : q'[c][u] = q[c][u]
  BY <1>7, <1>8
<1>10. S \in SUBSET Index
  BY <1>2, <1>5
<1>11. /\ \A d \in Ctxs \ {c} : Mine(rows', d) = Mine(rows, d)
       /\ \A d \in Ctxs \ {c} : pend'[d] = pend[d]
       /\ S = {} => rows' = rows
  BY <1>3, <1>10, OthersRows
<1>12. \A d \in Ctxs \ {c} : asked'[d] = asked[d]
  BY <1>3, <1>4, ForgetOthers
<1>13. \A d \in Ctxs \ {c} : Stutter(d)
  BY <1>3, <1>7, <1>8, <1>11, <1>12, UnseenAlone
<1>14. \A u \in Queues : /\ q'[c][u].on = q[c][u].on
                         /\ q'[c][u].queued = q[c][u].queued
                         /\ q'[c][u].ready = q[c][u].ready
  BY <1>1, <1>5, <1>6, <1>7, <1>8, <1>9
<1>15. \A u \in Queues : Waiting(c, u)' = Waiting(c, u)
  BY <1>3, <1>14, WaitingKept
<1>16. Streaming(c)' = Streaming(c) /\ t \in Streaming(c)
  BY <1>1, <1>3, <1>14 DEF Streaming
<1>17. \A k \in Index : pend'[c][k] = IF k \in S THEN NoRow ELSE pend[c][k]
  BY <1>3, <1>4, <1>10, BufFinishOk
<1>18. CASE t = "OUT"
  <2>1. S = {} /\ rows' = rows
    BY <1>2, <1>11, <1>18
  <2>2. \A k \in Range(Waiting(c, "OUT")) : k \in Index /\ k # i
    <3>1. Range(Waiting(c, "OUT")) = qt.owned
      BY <1>1, <1>3, <1>18, WaitingHeld
    <3> QED
      BY <1>4, <1>5, <3>1 DEF QueueType
  <2>3. \A k \in Range(Waiting(c, "OUT")) : asked'[c][k] = asked[c][k]
    BY <1>3, <1>4, <2>2, ForgetOk
  <2>4. OutShown(c)' = OutShown(c)
    BY <1>15, <2>3, OutShownKept DEF Queues
  <2>5. q'[c]["CAP"] = q[c]["CAP"] /\ "CAP" \in Queues
    BY <1>9, <1>18 DEF Queues
  <2>6. \A k \in Range(q[c]["CAP"].done) : pend'[c][k] = pend[c][k]
    <3>1. Range(q[c]["CAP"].done) \subseteq Index
      BY <2>5, DoneOnce, RangeType
    <3> QED
      BY <1>17, <2>1, <3>1
  <2>7. CapShown(c)' = CapShown(c)
    BY <2>5, <2>6, CapShownKept
  <2>8. RowsFor(c)' = RowsFor(c)
    BY <2>1 DEF RowsFor
  <2>9. Waiting(c, "CAP")' = Waiting(c, "CAP")
    BY <1>15, <2>5
  <2>10. /\ "OUT" \in Streaming(c) /\ q[c]["OUT"].done # << >>
         /\ q'[c]["OUT"].done = Tail(q[c]["OUT"].done)
    BY <1>1, <1>3, <1>5, <1>7, <1>8, <1>16, <1>18
  <2>11. Step(c)
    BY <1>16, <2>4, <2>7, <2>8, <2>9, <2>10, StepDequeueOutput
  <2> QED
    BY <1>13, <2>11 DEF Follows
<1>19. CASE t = "CAP"
  <2>1. S = {i} /\ asked' = asked
    BY <1>2, <1>3, <1>4, <1>19, ForgetOthers
  <2>2. OutShown(c)' = OutShown(c)
    BY <1>15, <2>1, OutShownKept DEF Queues
  <2>3. q'[c]["OUT"] = q[c]["OUT"] /\ Waiting(c, "CAP")' = Waiting(c, "CAP")
    BY <1>9, <1>15, <1>19 DEF Queues
  <2>4. PICK d, g, h : /\ d = q[c]["CAP"].done /\ g = KeptFrames(pend[c])
                       /\ h = KeptFrames(pend'[c])
    OBVIOUS
  <2>5. /\ d \in Seq(Index) /\ IsInjective(d) /\ d # << >> /\ i = Head(d)
        /\ q'[c]["CAP"].done = Tail(d)
    BY <1>1, <1>2, <1>3, <1>5, <1>7, <1>8, <1>19, <2>4, DoneOnce
  <2>6. /\ CapShown(c) = Shown(d, g) /\ CapShown(c)' = Shown(Tail(d), h)
        /\ g \in [Index -> Nat]
    BY <2>4, <2>5, Views, ViewsNext
  <2>7. Tail(d) \in Seq(Index) /\ i \notin Range(Tail(d))
    BY <2>5, HeadTail
  <2>8. \A k \in Range(Tail(d)) : h[k] = g[k]
    <3>1. \A k \in Range(Tail(d)) : k \in Index /\ k # i
      BY <2>7, RangeType
    <3> QED
      BY <1>17, <2>1, <2>4, <3>1 DEF KeptFrames
  <2>9. Shown(Tail(d), h) = Shown(Tail(d), g)
    BY <2>7, <2>8, ShownKept
  <2>10. /\ CapShown(c) # << >> /\ CapShown(c)' = Tail(CapShown(c))
         /\ Head(CapShown(c)).frame = g[i]
    BY <2>5, <2>6, <2>9, ShownTail
  <2>11. File(c)!Publish(IF g[i] = 0 THEN << >> ELSE <<g[i]>>)
    BY <1>3, <1>5, <2>1, <2>4, PublishesOne
  <2>12. "CAP" \in Streaming(c)
    BY <1>16, <1>19
  <2>13. Step(c)
    BY <1>16, <2>2, <2>3, <2>10, <2>11, <2>12, StepDequeueCapture
  <2> QED
    BY <1>13, <2>13 DEF Follows
<1> QED
  BY <1>18, <1>19 DEF Queues

LEMMA ShownNothing == \A f : Shown(<< >>, f) = << >>
  BY DEF Shown

(* REQBUFS and STREAMOFF empty a queue. *)
LEMMA ResetFollows ==
  ASSUME Shape, Shape', Once, Kept, OwnRows, NEW c \in Ctxs, NEW t \in Queues,
         NEW n \in QueueType, ~n.on, n.queued = << >>, n.done = << >>,
         q' = With(q, c, t, n), run' = run, FinishQueue(c, t),
         Forget(c, t, Index)
  PROVE  Follows
<1>1. Types /\ q \in QueuesType
  BY DEF Shape, Types
<1>2. PICK S : S = IF t = "CAP" THEN Held(q[c][t]) ELSE {}
  OBVIOUS
<1>3. S \in SUBSET Index /\ BufFinish(c, S)
  BY <1>1, <1>2, FinishQueueOk
<1>4. PICK P : P = q'
  OBVIOUS
<1>5. /\ P[c][t] = n
      /\ \A d \in Ctxs, u \in Queues : <<d, u>> # <<c, t>> => P[d][u] = q[d][u]
      /\ \A d \in Ctxs \ {c} : P[d] = q[d]
  BY <1>1, <1>4, OneQueue
<1>6. \A u \in Queues \ {t} : q'[c][u] = q[c][u]
  BY <1>4, <1>5
<1>7. /\ \A d \in Ctxs \ {c} : Mine(rows', d) = Mine(rows, d)
      /\ \A d \in Ctxs \ {c} : pend'[d] = pend[d]
      /\ S = {} => rows' = rows
  BY <1>3, OthersRows
<1>8. \A d \in Ctxs \ {c} : asked'[d] = asked[d]
  BY <1>1, ForgetOthers
<1>9. \A d \in Ctxs \ {c} : Stutter(d)
  BY <1>4, <1>5, <1>7, <1>8, UnseenAlone
<1>10. \A u \in Queues \ {t} : Waiting(c, u)' = Waiting(c, u)
  BY <1>6, WaitingKept
<1>11. ~q'[c][t].on /\ q'[c][t].queued = << >> /\ q'[c][t].done = << >>
  BY <1>4, <1>5
<1>12. Waiting(c, t)' = << >>
  <2>1. Waiting(c, t)' = q'[c][t].queued
    BY ONLY c \in Ctxs, t \in Queues, <1>11, WaitingOn
  <2> QED
    BY <1>11, <2>1
<1>13. Streaming(c)' = Streaming(c) \ {t}
  BY <1>6, <1>11 DEF Streaming
<1>14. CASE t = "OUT"
  <2>1. S = {} /\ rows' = rows
    BY <1>2, <1>7, <1>14
  <2>2. OutShown(c)' = << >>
    <3>1. OutShown(c)' = Shown(Waiting(c, "OUT")', AskedFrames(asked'[c]))
      BY ViewsNext
    <3> QED
      BY <1>12, <1>14, <3>1, ShownNothing
  <2>3. q'[c]["CAP"] = q[c]["CAP"] /\ "CAP" \in Queues \ {t}
    BY <1>6, <1>14 DEF Queues
  <2>4. \A k \in Range(q[c]["CAP"].done) : pend'[c][k] = pend[c][k]
    <3>1. Range(q[c]["CAP"].done) \subseteq Index
      BY <2>3, DoneOnce, RangeType
    <3> QED
      BY <1>1, <1>3, <2>1, <3>1, BufFinishOk
  <2>5. CapShown(c)' = CapShown(c)
    BY <2>3, <2>4, CapShownKept
  <2>6. RowsFor(c)' = RowsFor(c)
    BY <2>1 DEF RowsFor
  <2>7. Waiting(c, "CAP")' = Waiting(c, "CAP")
    BY <1>10, <2>3
  <2>8. Step(c)
    BY <1>11, <1>13, <1>14, <2>2, <2>5, <2>6, <2>7, StepStopOutput
  <2> QED
    BY <1>9, <2>8 DEF Follows
<1>15. CASE t = "CAP"
  <2>1. asked' = asked
    BY <1>1, <1>15, ForgetOthers
  <2>2. q'[c]["OUT"] = q[c]["OUT"] /\ "OUT" \in Queues \ {t}
    BY <1>6, <1>15 DEF Queues
  <2>3. OutShown(c)' = OutShown(c)
    BY <1>10, <2>1, <2>2, OutShownKept
  <2>4. CapShown(c)' = << >>
    <3>1. CapShown(c)' = Shown(q'[c]["CAP"].done, KeptFrames(pend'[c]))
      BY ViewsNext
    <3> QED
      BY <1>11, <1>15, <3>1, ShownNothing
  <2>5. Range(q[c]["CAP"].done) \subseteq S
    BY <1>2, <1>15 DEF Held
  <2>6. File(c)!PublishAll
    BY <1>3, <2>5, PublishesAll
  <2>7. Waiting(c, "CAP")' = << >>
    BY <1>12, <1>15
  <2>8. Step(c)
    BY <1>13, <1>15, <2>2, <2>3, <2>4, <2>6, <2>7, StepStopCapture
  <2> QED
    BY <1>9, <2>8 DEF Follows
<1> QED
  BY <1>14, <1>15 DEF Queues

LEMMA ReqBufsFollows ==
  ASSUME Shape, Shape', Once, Kept, OwnRows, NEW c \in Ctxs, NEW t \in Queues,
         NEW b \in BOOLEAN, ReqBufs(c, t, b)
  PROVE  Follows
<1>1. PICK n : n = [Unused EXCEPT !.alloc = b, !.ready = q[c][t].ready]
  OBVIOUS
<1>2. /\ q' = With(q, c, t, n) /\ FinishQueue(c, t) /\ Forget(c, t, Index)
      /\ run' = run
  BY <1>1 DEF ReqBufs, With, jobVars
<1>3. q[c][t].ready \in Seq(Index)
  BY DEF Shape, Types, QueuesType, QueueType
<1>4. n \in QueueType /\ ~n.on /\ n.queued = << >> /\ n.done = << >>
  BY <1>1, <1>3, ResetOk
<1> QED
  BY <1>2, <1>4, ResetFollows

LEMMA StreamOffFollows ==
  ASSUME Shape, Shape', Once, Kept, OwnRows, NEW c \in Ctxs, NEW t \in Queues,
         StreamOff(c, t)
  PROVE  Follows
<1>1. PICK n : n = [Unused EXCEPT !.alloc = TRUE, !.ready = << >>]
  OBVIOUS
<1>2. n = [Unused EXCEPT !.alloc = TRUE]
  BY <1>1, UnusedOk DEF QueueType
<1>3. /\ q' = With(q, c, t, n) /\ FinishQueue(c, t) /\ Forget(c, t, Index)
      /\ run' = run
  BY <1>2 DEF StreamOff, With
<1>4. n \in QueueType /\ ~n.on /\ n.queued = << >> /\ n.done = << >>
  <2>1. << >> \in Seq(Index)
    OBVIOUS
  <2> QED
    BY <1>1, <2>1, ResetOk
<1> QED
  BY <1>3, <1>4, ResetFollows

LEMMA ReleaseFollows ==
  ASSUME Shape, Shape', Once, Kept, OwnRows, NEW c \in Ctxs, Release(c)
  PROVE  Follows
<1>1. /\ q' = [q EXCEPT ![c] = [t \in Queues |-> Unused]]
      /\ FinishQueue(c, "CAP") /\ Forget(c, "OUT", Index) /\ run' = run
  BY DEF Release
<1>2. Types /\ q \in QueuesType /\ "OUT" \in Queues /\ "CAP" \in Queues
  BY DEF Shape, Types, Queues
<1>3. PICK S : S = Held(q[c]["CAP"])
  OBVIOUS
<1>4. S \in SUBSET Index /\ BufFinish(c, S)
  BY <1>1, <1>2, <1>3, FinishQueueOk
<1>5. /\ q'[c] = [t \in Queues |-> Unused] /\ \A d \in Ctxs \ {c} : q'[d] = q[d]
  BY <1>1, <1>2 DEF QueuesType
<1>6. /\ \A d \in Ctxs \ {c} : Mine(rows', d) = Mine(rows, d)
      /\ \A d \in Ctxs \ {c} : pend'[d] = pend[d]
  BY <1>4, OthersRows
<1>7. \A d \in Ctxs \ {c} : asked'[d] = asked[d]
  BY <1>1, <1>2, ForgetOthers
<1>8. \A d \in Ctxs \ {c} : Stutter(d)
  BY <1>1, <1>5, <1>6, <1>7, UnseenAlone
<1>9. \A t \in Queues : /\ ~q'[c][t].on /\ q'[c][t].queued = << >>
                        /\ q'[c][t].done = << >>
  BY <1>5 DEF Unused
<1>10. \A t \in Queues : Waiting(c, t)' = << >>
  BY <1>9, WaitingOn
<1>11. Streaming(c)' = {}
  BY <1>9 DEF Streaming
<1>12. OutShown(c)' = << >> /\ CapShown(c)' = << >>
  <2>1. /\ OutShown(c)' = Shown(Waiting(c, "OUT")', AskedFrames(asked'[c]))
        /\ CapShown(c)' = Shown(q'[c]["CAP"].done, KeptFrames(pend'[c]))
    BY ViewsNext
  <2> QED
    BY <1>2, <1>9, <1>10, <2>1, ShownNothing
<1>13. File(c)!PublishAll
  <2>1. Range(q[c]["CAP"].done) \subseteq S
    BY <1>3 DEF Held
  <2> QED
    BY <1>4, <2>1, PublishesAll
<1>14. Step(c)
  BY <1>2, <1>9, <1>10, <1>11, <1>12, <1>13, StepClose
<1> QED
  BY <1>8, <1>14 DEF Follows
-----------------------------------------------------------------------------
(* A row is pending in a buffer of its own context. *)

LEMMA OwnRowsFinish ==
  ASSUME Shape, OwnRows, NEW c \in Ctxs, NEW S \in SUBSET Index, BufFinish(c, S)
  PROVE  OwnRows'
<1>1. \A d \in Ctxs, i \in Index :
        pend'[d][i] = IF d = c /\ i \in S THEN NoRow ELSE pend[d][i]
  BY BufFinishOk DEF Shape
<1> QED
  BY <1>1 DEF OwnRows

LEMMA NextOwnRows == Shape /\ OwnRows /\ [Next]_vars => OwnRows'
<1> SUFFICES ASSUME Shape, OwnRows, [Next]_vars PROVE OwnRows'
  OBVIOUS
<1>1. CASE pend' = pend
  BY <1>1 DEF OwnRows
<1>2. ASSUME NEW e \in Executors, RunGive(e) PROVE OwnRows'
  <2>1. PICK r : r = run[e]
    OBVIOUS
  <2>2. \/ pend' = pend
        \/ \A d \in Ctxs, i \in Index :
             pend'[d][i] = IF d = r.ctx /\ i = r.dst THEN Meta(r) ELSE pend[d][i]
    BY <1>2, <2>1, GiveRowOk
  <2>3. Meta(r).ctx = r.ctx
    BY DEF Meta
  <2> QED
    BY <2>2, <2>3 DEF OwnRows
<1>3. ASSUME NEW c \in Ctxs, NEW t \in Queues,
             \/ DQBuf(c, t) \/ StreamOff(c, t)
             \/ \E b \in BOOLEAN : ReqBufs(c, t, b)
      PROVE  OwnRows'
  <2>1. CASE DQBuf(c, t)
    <3>1. PICK i, S : i = Head(q[c][t].done) /\ S = IF t = "CAP" THEN {i} ELSE {}
      OBVIOUS
    <3>2. BufFinish(c, S) /\ q[c][t].done # << >>
      BY <2>1, <3>1 DEF DQBuf
    <3>3. S \in SUBSET Index
      BY <3>1, <3>2, DoneOnce, HeadTail
    <3> QED
      BY <3>2, <3>3, OwnRowsFinish
  <2>2. CASE FinishQueue(c, t)
    <3>1. PICK S : S = IF t = "CAP" THEN Held(q[c][t]) ELSE {}
      OBVIOUS
    <3>2. S \in SUBSET Index /\ BufFinish(c, S)
      BY <2>2, <3>1, FinishQueueOk DEF Shape
    <3> QED
      BY <3>2, OwnRowsFinish
  <2> QED
    BY <1>3, <2>1, <2>2 DEF StreamOff, ReqBufs
<1>4. ASSUME NEW c \in Ctxs, Release(c) PROVE OwnRows'
  <2>1. "CAP" \in Queues /\ FinishQueue(c, "CAP")
    BY <1>4 DEF Release, Queues
  <2>2. PICK S : S = Held(q[c]["CAP"])
    OBVIOUS
  <2>3. S \in SUBSET Index /\ BufFinish(c, S)
    BY <2>1, <2>2, FinishQueueOk DEF Shape
  <2> QED
    BY <2>3, OwnRowsFinish
<1>5. CASE Work \/ \E e \in Executors : RunPick(e) \/ RunRemove(e) \/ RunFinish(e)
  <2>1. pend' = pend
    BY <1>5 DEF Work, RunPick, RunRemove, RunFinish, rowVars
  <2> QED
    BY <1>1, <2>1
<1>6. ASSUME NEW c \in Ctxs,
             \/ Open(c) \/ StreamOnFails(c)
             \/ \E v \in Ctls : SetCtrl(c, v)
             \/ \E b \in Backends : SetBackend(c, b)
             \/ \E t \in Queues : \/ StreamOn(c, t)
                                  \/ \E i \in Index : QBuf(c, t, i)
      PROVE  OwnRows'
  <2>1. pend' = pend
    BY <1>6 DEF Open, StreamOnFails, SetCtrl, SetBackend, StreamOn, QBuf, rowVars
  <2> QED
    BY <1>1, <2>1
<1>7. CASE UNCHANGED vars
  BY <1>1, <1>7 DEF vars
<1> QED
  BY <1>2, <1>3, <1>4, <1>5, <1>6, <1>7 DEF Next, DeviceRun
-----------------------------------------------------------------------------
LEMMA InitOwnRows == Init => OwnRows
  BY DEF Init, OwnRows

(* A row kept in a buffer is a row of the file that owns the buffer        *)
(* (vpipe_device_run fills the buffer's context's slot).                   *)
THEOREM OwnRowsHold ==
  ASSUME Orderly
  PROVE  Spec => []OwnRows
<1>1. Shape /\ OwnRows /\ [Next]_vars => OwnRows'
  BY NextOwnRows
<1> QED
  BY <1>1, InitOwnRows, ShapeHolds, PTL DEF Spec

LEMMA InitFile ==
  ASSUME Init, NEW c \in Ctxs
  PROVE  File(c)!Init
<1>1. Shape
  BY InitShape
<1>2. /\ ~q[c]["OUT"].on /\ q[c]["OUT"].queued = << >> /\ q[c]["OUT"].done = << >>
      /\ ~q[c]["CAP"].on /\ q[c]["CAP"].queued = << >> /\ q[c]["CAP"].done = << >>
  BY DEF Init, Unused, Queues
<1>3. Waiting(c, "OUT") = << >> /\ Waiting(c, "CAP") = << >>
  BY <1>2 DEF Waiting
<1>4. Streaming(c) = {}
  BY <1>2 DEF Streaming, Queues
<1>5. OutShown(c) = << >> /\ CapShown(c) = << >>
  BY <1>2, <1>3 DEF OutShown, CapShown
<1>6. DOMAIN RowsFor(c) = {}
  BY DEF Init, RowsFor
<1> QED
  BY <1>2, <1>3, <1>4, <1>5, <1>6 DEF File!Init

LEMMA NextFollows ==
  ASSUME Orderly, Shape, Shape', Stamps, Once, Kept, OwnRows, [Next]_vars
  PROVE  Follows
<1>1. CASE Work
  BY <1>1, WorkerFollows
<1>2. ASSUME NEW e \in Executors, DeviceRun(e) PROVE Follows
  BY <1>2, WorkerFollows, RunRemoveFollows, RunGiveFollows DEF DeviceRun
<1>3. ASSUME NEW c \in Ctxs,
             \/ Open(c) \/ Release(c) \/ StreamOnFails(c)
             \/ \E v \in Ctls : SetCtrl(c, v)
             \/ \E b \in Backends : SetBackend(c, b)
      PROVE  Follows
  BY <1>3, FileFollows, ReleaseFollows, StreamOnFailsFollows
<1>4. ASSUME NEW c \in Ctxs, NEW t \in Queues,
             \/ StreamOn(c, t) \/ StreamOff(c, t) \/ DQBuf(c, t)
             \/ \E b \in BOOLEAN : ReqBufs(c, t, b)
             \/ \E i \in Index : QBuf(c, t, i)
      PROVE  Follows
  BY <1>4, StreamOnFollows, StreamOffFollows, DQBufFollows, ReqBufsFollows,
     QBufFollows
<1>5. CASE UNCHANGED vars
  <2>1. UNCHANGED <<q, pend, rows, asked>> /\ run' = run
    BY <1>5 DEF vars
  <2>2. \A d \in Ctxs, t \in Queues : Gone(run', d, t) = Gone(run, d, t)
    BY <2>1
  <2> QED
    BY <2>1, <2>2, QuietFollows DEF Follows
<1> QED
  BY <1>1, <1>2, <1>3, <1>4, <1>5 DEF Next

(* Every open file of the video node keeps the contract Node states, for   *)
(* any number of files and buffers: what QBUF, DQBUF, STREAMON,            *)
(* STREAMOFF, REQBUFS, close and vpipe_device_run do, interleaved in any   *)
(* way, is to each file a sequence of steps of its own two FIFO queues.    *)
THEOREM RefinesNode ==
  ASSUME Orderly
  PROVE  Spec => ImplementsNode
<1> DEFINE Contract == \A c \in Ctxs : [File(c)!Next]_(File(c)!nodeVars)
<1>1. Init => \A c \in Ctxs : File(c)!Init
  BY InitFile
<1>2. Shape /\ Shape' /\ Stamps /\ Once /\ Kept /\ OwnRows /\ [Next]_vars => Contract
  BY NextFollows, Boxed DEF Follows
<1> HIDE DEF Contract
<1>3. Shape /\ Stamps /\ Once /\ (Kept /\ Numbered) /\ OwnRows /\ [Next]_vars
        /\ Shape' => [Contract]_vars
  BY <1>2
<1>4. Spec => [][Contract]_vars
  BY <1>3, ShapeHolds, StampsHold, OnceHolds, NumberedHolds, OwnRowsHold, PTL
     DEF Spec
<1> QED
  BY <1>1, <1>4, PTL DEF Spec, ImplementsNode, Contract
=============================================================================
