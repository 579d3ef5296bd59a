-------------------------- MODULE ToolsNodeProofs --------------------------
(***************************************************************************)
(* The node that the tools are run against keeps the contract of Node:     *)
(* every step of Tools is a step of the contract or leaves what the node   *)
(* shows unchanged.                                                        *)
(***************************************************************************)
EXTENDS ToolsProofs

(* A queue seen through a function of its entries. *)
Mapped(q, f) == [k \in DOMAIN q |-> f[q[k]]]
Maps(f, S, T) == f \in [S -> T]

LEMMA MappedType ==
  ASSUME NEW S, NEW T, NEW f, Maps(f, S, T), NEW q \in Seq(S)
  PROVE  /\ Mapped(q, f) \in Seq(T) /\ Len(Mapped(q, f)) = Len(q)
         /\ DOMAIN Mapped(q, f) = 1 .. Len(q)
         /\ \A k \in 1 .. Len(q) : Mapped(q, f)[k] = f[q[k]]
<1>1. \A k \in 1 .. Len(q) : q[k] \in S /\ f[q[k]] \in T
  BY DEF Maps
<1>2. Mapped(q, f) \in [1 .. Len(q) -> T]
  BY <1>1 DEF Mapped
<1> QED
  BY <1>1, <1>2 DEF Mapped

LEMMA MappedAppend ==
  ASSUME NEW S, NEW T, NEW f, Maps(f, S, T), NEW q \in Seq(S), NEW x \in S
  PROVE  Mapped(Append(q, x), f) = Append(Mapped(q, f), f[x])
<1>1. PICK v, m, u, y, z :
        /\ v = Append(q, x) /\ m = Mapped(q, f) /\ y = f[x] /\ u = Append(m, y)
        /\ z = Mapped(v, f)
  OBVIOUS
<1>2. /\ v \in Seq(S) /\ Len(v) = Len(q) + 1 /\ v[Len(q) + 1] = x
      /\ Len(q) \in Nat /\ \A k \in 1 .. Len(q) : v[k] = q[k]
  BY <1>1
<1>3. m \in Seq(T) /\ Len(m) = Len(q) /\ \A k \in 1 .. Len(q) : m[k] = f[q[k]]
  <2>1. /\ Mapped(q, f) \in Seq(T) /\ Len(Mapped(q, f)) = Len(q)
        /\ \A k \in 1 .. Len(q) : Mapped(q, f)[k] = f[q[k]]
    <3>1. \A k \in 1 .. Len(q) : q[k] \in S /\ f[q[k]] \in T
      BY DEF Maps
    <3>2. Mapped(q, f) \in [1 .. Len(q) -> T]
      BY <3>1 DEF Mapped
    <3> QED
      BY <3>1, <3>2 DEF Mapped
  <2> QED
    BY ONLY <1>1, <2>1, Zenon
<1>4. y \in T
  BY <1>1 DEF Maps
<1>5. /\ u \in Seq(T) /\ Len(u) = Len(q) + 1 /\ u[Len(q) + 1] = y
      /\ \A k \in 1 .. Len(q) : u[k] = m[k]
  BY ONLY <1>1, <1>2, <1>3, <1>4
<1>6. /\ z \in Seq(T) /\ Len(z) = Len(q) + 1
      /\ \A k \in 1 .. Len(q) + 1 : z[k] = f[v[k]]
  <2>1. /\ z \in Seq(T) /\ Len(z) = Len(v)
        /\ \A k \in 1 .. Len(v) : z[k] = f[v[k]]
    <3>1. /\ Mapped(v, f) \in Seq(T) /\ Len(Mapped(v, f)) = Len(v)
          /\ \A k \in 1 .. Len(v) : Mapped(v, f)[k] = f[v[k]]
      <4>1. \A k \in 1 .. Len(v) : v[k] \in S /\ f[v[k]] \in T
        BY <1>2 DEF Maps
      <4>2. Mapped(v, f) \in [1 .. Len(v) -> T]
        BY <1>2, <4>1 DEF Mapped
      <4> QED
        BY <1>2, <4>1, <4>2 DEF Mapped
    <3> QED
      BY ONLY <1>1, <3>1, Zenon
  <2> QED
    BY ONLY <1>2, <2>1
<1>7. \A k \in 1 .. Len(q) + 1 : z[k] = u[k]
  <2> SUFFICES ASSUME NEW k \in 1 .. Len(q) + 1 PROVE z[k] = u[k]
    OBVIOUS
  <2>1. CASE k = Len(q) + 1
    BY <1>1, <1>2, <1>5, <1>6, <2>1
  <2>2. CASE k # Len(q) + 1
    <3>1. k \in 1 .. Len(q)
      BY <1>2, <2>2
    <3> QED
      BY <1>2, <1>3, <1>5, <1>6, <3>1
  <2> QED
    BY <2>1, <2>2
<1>8. z = u
  BY ONLY <1>2, <1>5, <1>6, <1>7
<1> QED
  BY <1>1, <1>8

LEMMA MappedTail ==
  ASSUME NEW S, NEW T, NEW f, Maps(f, S, T), NEW q \in Seq(S), q # << >>
  PROVE  /\ Mapped(q, f) # << >> /\ Mapped(Tail(q), f) = Tail(Mapped(q, f))
         /\ Head(Mapped(q, f)) = f[Head(q)]
<1>1. PICK v, m, u, z :
        /\ v = Tail(q) /\ m = Mapped(q, f) /\ u = Tail(m) /\ z = Mapped(v, f)
  OBVIOUS
<1>2. /\ v \in Seq(S) /\ Len(v) = Len(q) - 1 /\ Head(q) = q[1]
      /\ Len(q) \in Nat /\ Len(q) >= 1
      /\ \A k \in 1 .. Len(q) - 1 : v[k] = q[k + 1]
  BY <1>1
<1>3. m \in Seq(T) /\ Len(m) = Len(q) /\ \A k \in 1 .. Len(q) : m[k] = f[q[k]]
  <2>1. /\ Mapped(q, f) \in Seq(T) /\ Len(Mapped(q, f)) = Len(q)
        /\ \A k \in 1 .. Len(q) : Mapped(q, f)[k] = f[q[k]]
    <3>1. \A k \in 1 .. Len(q) : q[k] \in S /\ f[q[k]] \in T
      BY DEF Maps
    <3>2. Mapped(q, f) \in [1 .. Len(q) -> T]
      BY <3>1 DEF Mapped
    <3> QED
      BY <3>1, <3>2 DEF Mapped
  <2> QED
    BY ONLY <1>1, <2>1, Zenon
<1>4. /\ u \in Seq(T) /\ Len(u) = Len(q) - 1 /\ m # << >> /\ Head(m) = m[1]
      /\ \A k \in 1 .. Len(q) - 1 : u[k] = m[k + 1]
  BY ONLY <1>1, <1>2, <1>3
<1>5. /\ z \in Seq(T) /\ Len(z) = Len(q) - 1
      /\ \A k \in 1 .. Len(q) - 1 : z[k] = f[v[k]]
  <2>1. /\ z \in Seq(T) /\ Len(z) = Len(v)
        /\ \A k \in 1 .. Len(v) : z[k] = f[v[k]]
    <3>1. /\ Mapped(v, f) \in Seq(T) /\ Len(Mapped(v, f)) = Len(v)
          /\ \A k \in 1 .. Len(v) : Mapped(v, f)[k] = f[v[k]]
      <4>1. \A k \in 1 .. Len(v) : v[k] \in S /\ f[v[k]] \in T
        BY <1>2 DEF Maps
      <4>2. Mapped(v, f) \in [1 .. Len(v) -> T]
        BY <1>2, <4>1 DEF Mapped
      <4> QED
        BY <1>2, <4>1, <4>2 DEF Mapped
    <3> QED
      BY ONLY <1>1, <3>1, Zenon
  <2> QED
    BY ONLY <1>2, <2>1
<1>6. \A k \in 1 .. Len(q) - 1 : z[k] = u[k]
  <2> SUFFICES ASSUME NEW k \in 1 .. Len(q) - 1 PROVE z[k] = u[k]
    OBVIOUS
  <2>1. k + 1 \in 1 .. Len(q)
    BY <1>2
  <2> QED
    BY <1>2, <1>3, <1>4, <1>5, <2>1
<1>7. z = u
  BY ONLY <1>2, <1>4, <1>5, <1>6
<1>8. Head(m) = f[Head(q)]
  BY <1>2, <1>3, <1>4
<1> QED
  BY <1>1, <1>4, <1>7, <1>8

LEMMA MappedEmpty == \A f : Mapped(<< >>, f) = << >>
  BY DEF Mapped
-----------------------------------------------------------------------------
(* What the node shows, through functions of the entries of its queues. *)
Entries == [idx : Idx, frame : FrameIds \cup {NoId}]
OutEntry == [b \in InType |-> [idx |-> b.idx, frame |-> b.id]]
DoneIdx == [b \in [idx : Idx] |-> b.idx]
CapEntry == [b \in DoneType |->
               [idx |-> b.idx, frame |-> IF b.err THEN NoId ELSE b.id]]

LEMMA EntryTypes ==
  /\ Maps(OutEntry, InType, Entries) /\ Maps(DoneIdx, [idx : Idx], Idx)
  /\ Maps(CapEntry, DoneType, Entries) /\ NoId \notin FrameIds
<1>1. \A b \in InType : [idx |-> b.idx, frame |-> b.id] \in Entries
  BY DEF InType, Entries
<1>2. \A b \in DoneType :
        [idx |-> b.idx, frame |-> IF b.err THEN NoId ELSE b.id] \in Entries
  BY DEF DoneType, Entries
<1>3. NoId \notin FrameIds
  BY DEF NoId, FrameIds
<1>4. OutEntry \in [InType -> Entries]
  BY <1>1 DEF OutEntry
<1>5. CapEntry \in [DoneType -> Entries]
  BY <1>2 DEF CapEntry
<1>6. DoneIdx \in [[idx : Idx] -> Idx]
  BY DEF DoneIdx
<1> QED
  BY <1>3, <1>4, <1>5, <1>6 DEF Maps

LEMMA Queued ==
  ASSUME NEW n \in NodeType
  PROVE  /\ n.outQ \in Seq(InType) /\ n.capQ \in Seq(Idx)
         /\ n.outDone \in Seq([idx : Idx]) /\ n.capDone \in Seq(DoneType)
         /\ n.on \subseteq Queues
  BY DEF NodeType

LEMMA Shown ==
  ASSUME node \in NodeType
  PROVE  /\ OutShown = Mapped(node.outQ, OutEntry)
         /\ OutDoneShown = Mapped(node.outDone, DoneIdx)
         /\ CapShown = Mapped(node.capDone, CapEntry)
<1>1. /\ \A k \in DOMAIN node.outQ : node.outQ[k] \in InType
      /\ \A k \in DOMAIN node.outDone : node.outDone[k] \in [idx : Idx]
      /\ \A k \in DOMAIN node.capDone : node.capDone[k] \in DoneType
  BY Queued, SeqFacts
<1>2. \A k \in DOMAIN node.outQ :
        OutEntry[node.outQ[k]] = [idx |-> node.outQ[k].idx, frame |-> node.outQ[k].id]
  BY <1>1 DEF OutEntry
<1>3. \A k \in DOMAIN node.outDone : DoneIdx[node.outDone[k]] = node.outDone[k].idx
  BY <1>1 DEF DoneIdx
<1>4. \A k \in DOMAIN node.capDone :
        CapEntry[node.capDone[k]] =
          [idx |-> node.capDone[k].idx,
           frame |-> IF node.capDone[k].err THEN NoId ELSE node.capDone[k].id]
  BY <1>1 DEF CapEntry
<1> QED
  BY <1>2, <1>3, <1>4 DEF OutShown, OutDoneShown, CapShown, Mapped

LEMMA ShownNext ==
  ASSUME node' \in NodeType
  PROVE  /\ OutShown' = Mapped(node'.outQ, OutEntry)
         /\ OutDoneShown' = Mapped(node'.outDone, DoneIdx)
         /\ CapShown' = Mapped(node'.capDone, CapEntry)
<1>1. /\ \A k \in DOMAIN node'.outQ : node'.outQ[k] \in InType
      /\ \A k \in DOMAIN node'.outDone : node'.outDone[k] \in [idx : Idx]
      /\ \A k \in DOMAIN node'.capDone : node'.capDone[k] \in DoneType
  BY Queued, SeqFacts
<1>2. \A k \in DOMAIN node'.outQ :
        OutEntry[node'.outQ[k]] =
          [idx |-> node'.outQ[k].idx, frame |-> node'.outQ[k].id]
  BY <1>1 DEF OutEntry
<1>3. \A k \in DOMAIN node'.outDone : DoneIdx[node'.outDone[k]] = node'.outDone[k].idx
  BY <1>1 DEF DoneIdx
<1>4. \A k \in DOMAIN node'.capDone :
        CapEntry[node'.capDone[k]] =
          [idx |-> node'.capDone[k].idx,
           frame |-> IF node'.capDone[k].err THEN NoId ELSE node'.capDone[k].id]
  BY <1>1 DEF CapEntry
<1> QED
  BY <1>2, <1>3, <1>4 DEF OutShown, OutDoneShown, CapShown, Mapped
-----------------------------------------------------------------------------
(* The steps of the contract, in terms of what the node shows. *)
Step == Device!Next
Stutter ==
  UNCHANGED <<node.on, OutShown, node.capQ, OutDoneShown, CapShown, RowsShown>>

LEMMA Boxed ==
  ASSUME Step \/ Stutter
  PROVE  [Device!Next]_(Device!nodeVars)
  BY DEF Step, Stutter, Device!nodeVars

LEMMA StepQueueOutput ==
  ASSUME node \in NodeType, NEW i \in Idx, MineOut(i), NEW f \in FrameIds,
         OutShown' = Append(OutShown, [idx |-> i, frame |-> f]),
         UNCHANGED <<node.on, node.capQ, OutDoneShown, CapShown, RowsShown>>
  PROVE  Step
<1>1. /\ \A k \in DOMAIN node.outQ : node.outQ[k].idx # i
      /\ \A k \in DOMAIN node.outDone : node.outDone[k].idx # i
  BY DEF MineOut, Held
<1>2. \A k \in DOMAIN OutShown : OutShown[k].idx # i
  BY <1>1 DEF OutShown
<1>3. \A k \in DOMAIN OutDoneShown : OutDoneShown[k] # i
  BY <1>1 DEF OutDoneShown
<1>4. i \notin Device!OutHeld
  BY <1>2, <1>3 DEF Device!OutHeld, Device!Of, Device!Indices
<1> QED
  BY <1>4 DEF Step, Device!Next, Device!QueueOutput, FrameIds

LEMMA StepQueueCapture ==
  ASSUME node \in NodeType, NEW n \in 1 .. N, NEW is \in [1 .. n -> Idx],
         \A a \in 1 .. n : MineCap(is[a]),
         \A a, b \in 1 .. n : is[a] = is[b] => a = b,
         node'.capQ = node.capQ \o is,
         UNCHANGED <<node.on, OutShown, OutDoneShown, CapShown, RowsShown>>
  PROVE  Step
<1>1. ASSUME NEW a \in 1 .. n PROVE is[a] \in Idx \ Device!CapHeld
  <2>1. /\ is[a] \notin {node.capQ[k] : k \in DOMAIN node.capQ}
        /\ \A k \in DOMAIN node.capDone : node.capDone[k].idx # is[a]
    BY DEF MineCap
  <2>2. \A k \in DOMAIN CapShown : CapShown[k].idx # is[a]
    BY <2>1 DEF CapShown
  <2> QED
    BY <2>1, <2>2 DEF Device!CapHeld, Device!Of, Device!Indices
<1>2. is \in [1 .. n -> Idx \ Device!CapHeld]
  BY <1>1
<1>3. Cardinality(Idx) = N
  <2>1. 0 \in Int /\ N - 1 \in Int /\ 0 <= N - 1 + 1
    BY Constants
  <2>2. Cardinality(0 .. N - 1) = (N - 1) - 0 + 1
    BY <2>1, Constants, FS_Interval
  <2> QED
    BY <2>2, Constants DEF Idx
<1>4. Device!Cardinality(Idx) = Cardinality(Idx)
  BY DEF Device!Cardinality, Cardinality
<1>5. n \in 1 .. Device!Cardinality(Idx)
  BY <1>3, <1>4
<1>6. Device!QueueCapture
  BY <1>2, <1>5 DEF Device!QueueCapture
<1> QED
  BY <1>6 DEF Step, Device!Next

LEMMA StepStart ==
  ASSUME NEW t \in Queues, node'.on = node.on \cup {t},
         UNCHANGED <<OutShown, node.capQ, OutDoneShown, CapShown, RowsShown>>
  PROVE  Step
  BY DEF Step, Device!Next, Device!Start, Queues

LEMMA StepJob ==
  ASSUME node.on = {"OUT", "CAP"}, OutShown # << >>, node.capQ # << >>,
         OutShown' = Tail(OutShown),
         OutDoneShown' = Append(OutDoneShown, Head(OutShown).idx),
         node'.capQ = Tail(node.capQ),
         NEW f \in {Head(OutShown).frame, NoId},
         CapShown' = Append(CapShown, [idx |-> Head(node.capQ), frame |-> f]),
         UNCHANGED <<node.on, RowsShown>>
  PROVE  Step
  BY DEF Step, Device!Next, Device!Job

LEMMA StepDequeueOutput ==
  ASSUME "OUT" \in node.on, OutDoneShown # << >>, OutDoneShown' = Tail(OutDoneShown),
         UNCHANGED <<node.on, OutShown, node.capQ, CapShown, RowsShown>>
  PROVE  Step
  BY DEF Step, Device!Next, Device!DequeueOutput

LEMMA StepDequeueCapture ==
  ASSUME "CAP" \in node.on, CapShown # << >>, CapShown' = Tail(CapShown),
         Device!Publish(IF Head(CapShown).frame = NoId THEN << >>
                        ELSE <<Head(CapShown).frame>>),
         UNCHANGED <<node.on, OutShown, node.capQ, OutDoneShown>>
  PROVE  Step
  BY DEF Step, Device!Next, Device!DequeueCapture

LEMMA StepStopOutput ==
  ASSUME node'.on = node.on \ {"OUT"}, OutShown' = << >>, OutDoneShown' = << >>,
         UNCHANGED <<node.capQ, CapShown, RowsShown>>
  PROVE  Step
  BY DEF Step, Device!Next, Device!StopOutput

LEMMA StepStopCapture ==
  ASSUME node'.on = node.on \ {"CAP"}, node'.capQ = << >>, CapShown' = << >>,
         Device!PublishAll, UNCHANGED <<OutShown, OutDoneShown>>
  PROVE  Step
  BY DEF Step, Device!Next, Device!StopCapture

LEMMA StepClose ==
  ASSUME node'.on = {}, OutShown' = << >>, OutDoneShown' = << >>, node'.capQ = << >>,
         CapShown' = << >>, Device!PublishAll
  PROVE  Step
  BY DEF Step, Device!Next, Device!Close
-----------------------------------------------------------------------------
(* The rows. *)

LEMMA RowsKept ==
  ASSUME log' = log
  PROVE  RowsShown' = RowsShown
  BY DEF RowsShown, OwnRows

(* Another context's row is not shown. *)
LEMMA RowsForeign ==
  ASSUME log \in Seq(Rows), log' = Append(log, NoRow)
  PROVE  RowsShown' = RowsShown
<1>1. /\ Len(log) \in Nat /\ DOMAIN log = 1 .. Len(log)
      /\ DOMAIN log' = 1 .. Len(log) + 1 /\ log'[Len(log) + 1] = NoRow
      /\ \A k \in 1 .. Len(log) : log'[k] = log[k]
  BY Constants
<1>2. ~NoRow.own
  BY DEF NoRow
<1>3. OwnRows' = OwnRows
  BY <1>1, <1>2 DEF OwnRows
<1>4. \A k \in OwnRows : log'[k] = log[k]
  BY <1>1 DEF OwnRows
<1> QED
  BY <1>3, <1>4 DEF RowsShown

LEMMA EmptySeq ==
  ASSUME NEW S, NEW q \in Seq(S), Len(q) = 0
  PROVE  q = << >>
  OBVIOUS

(* Rows of the program are shown in the next places. *)
LEMMA Publishes ==
  ASSUME log \in Seq(Rows), NEW z \in Seq(Rows), log' = log \o z,
         \A k \in 1 .. Len(z) : z[k].own,
         NEW fs \in Seq(FrameIds), Len(fs) = Len(z),
         \A k \in 1 .. Len(z) : fs[k] = z[k].id
  PROVE  Device!Publish(fs)
<1>1. PICK L, m : L = Len(log) /\ m = Len(z) /\ L \in Nat /\ m \in Nat
  <2>1. Len(log) \in Nat
    OBVIOUS
  <2>2. Len(z) \in Nat
    OBVIOUS
  <2> QED
    BY ONLY <2>1, <2>2, Zenon
<1>2. /\ DOMAIN log = 1 .. L /\ DOMAIN log' = 1 .. L + m
      /\ \A k \in 1 .. L : log'[k] = log[k]
      /\ \A k \in L + 1 .. L + m : log'[k] = z[k - L]
  <2>1. PICK y : y = log \o z
    OBVIOUS
  <2>2. /\ DOMAIN y = 1 .. L + m /\ \A k \in 1 .. L : y[k] = log[k]
        /\ \A k \in L + 1 .. L + m : y[k] = z[k - L]
    BY <1>1, <2>1
  <2>3. DOMAIN log = 1 .. L
    BY <1>1
  <2> QED
    BY <2>1, <2>2, <2>3
<1>3. CASE m = 0
  <2>1. fs = << >> /\ log' = log
    <3>1. z = << >>
      <4>1. Len(z) = 0
        BY <1>1, <1>3
      <4> QED
        BY <4>1, EmptySeq
    <3>2. log \o << >> = log
      BY ONLY log \in Seq(Rows)
    <3>3. fs = << >>
      <4>1. Len(fs) = 0
        BY <1>1, <1>3
      <4> QED
        BY <4>1, EmptySeq
    <3> QED
      BY <3>1, <3>2, <3>3
  <2> QED
    BY <2>1, RowsKept DEF Device!Publish
<1>4. CASE m # 0
  <2>1. PICK R, Q, at : R = RowsShown /\ Q = RowsShown' /\ at = L + 1
    OBVIOUS
  <2>2. DOMAIN R = {k \in 1 .. L : log[k].own} /\ \A k \in DOMAIN R : R[k] = log[k].id
    BY <1>2, <2>1 DEF RowsShown, OwnRows
  <2>3. /\ DOMAIN Q = {k \in 1 .. L + m : log'[k].own}
        /\ Q = [k \in DOMAIN Q |-> log'[k].id]
    BY <1>2, <2>1 DEF RowsShown, OwnRows
  <2>4. \A k \in L + 1 .. L + m : k - L \in 1 .. m
    BY <1>1
  <2>5. \A k \in L + 1 .. L + m : log'[k].own /\ log'[k].id = fs[k - at + 1]
    <3>1. \A k \in L + 1 .. L + m : k - at + 1 = k - L
      BY <1>1, <2>1
    <3> QED
      BY <1>1, <1>2, <2>4, <3>1
  <2>6. DOMAIN Q = DOMAIN R \cup at .. at + Len(fs) - 1
    <3>1. at + Len(fs) - 1 = L + m
      BY <1>1, <2>1
    <3>2. \A k \in 1 .. L + m : k \in 1 .. L \/ k \in L + 1 .. L + m
      BY <1>1
    <3> QED
      BY <1>1, <1>2, <2>1, <2>2, <2>3, <2>5, <3>1, <3>2
  <2>7. \A k \in DOMAIN R : k < at
    BY <1>1, <2>1, <2>2
  <2>8. \A k \in DOMAIN Q : Q[k] = IF k < at THEN R[k] ELSE fs[k - at + 1]
    <3> SUFFICES ASSUME NEW k \in DOMAIN Q
                 PROVE  Q[k] = IF k < at THEN R[k] ELSE fs[k - at + 1]
      OBVIOUS
    <3>1. Q[k] = log'[k].id /\ k \in 1 .. L + m
      BY <2>3
    <3>2. CASE k < at
      <4>1. k \in 1 .. L /\ k \in DOMAIN R
        BY <1>1, <1>2, <2>1, <2>2, <2>3, <3>1, <3>2
      <4> QED
        BY <1>2, <2>2, <3>1, <3>2, <4>1
    <3>3. CASE ~(k < at)
      <4>1. k \in L + 1 .. L + m
        BY <1>1, <2>1, <3>1, <3>3
      <4> QED
        BY <2>5, <3>1, <3>3, <4>1
    <3> QED
      BY <3>2, <3>3
  <2>9. Q = [n \in DOMAIN R \cup at .. at + Len(fs) - 1 |->
               IF n < at THEN R[n] ELSE fs[n - at + 1]]
    BY <2>3, <2>6, <2>8
  <2>10. at \in DOMAIN Q
    BY <1>1, <1>4, <2>1, <2>6
  <2> QED
    BY <2>1, <2>7, <2>9, <2>10 DEF Device!Publish
<1> QED
  BY <1>3, <1>4

(* The order in which buffers at places S are finished. *)
Order(s, n, S) ==
  /\ s \in [1 .. n -> WithRow(S)]
  /\ \A a, b \in 1 .. n : a < b => node.capDone[s[a]].idx < node.capDone[s[b]].idx

(* Finished buffers publish their frames, ordered by their index. *)
LEMMA FinishPublishes ==
  ASSUME log \in Seq(Rows), node \in NodeType, NEW S, S \subseteq DOMAIN node.capDone,
         Finish(S)
  PROVE  \E s : LET n == Cardinality(WithRow(S)) IN
           /\ n \in 0 .. Len(node.capDone) /\ IsFiniteSet(WithRow(S)) /\ Order(s, n, S)
           /\ Device!Publish([a \in 1 .. n |-> node.capDone[s[a]].id])
<1>1. PICK s \in ByIndex(WithRow(S)) :
        log' = log \o [a \in DOMAIN s |->
                         [own |-> TRUE, id |-> node.capDone[s[a]].id,
                          dropped |-> node.capDone[s[a]].dropped]]
  BY DEF Finish
<1>2. PICK n : n = Cardinality(WithRow(S))
  OBVIOUS
<1>3. Order(s, n, S) /\ s \in [1 .. n -> WithRow(S)] /\ WithRow(S) \subseteq S
  BY <1>2 DEF ByIndex, WithRow, Order
<1>4. PICK L : L = Len(node.capDone) /\ L \in Nat /\ DOMAIN node.capDone = 1 .. L
               /\ \A k \in 1 .. L : node.capDone[k] \in DoneType
  <2>1. node.capDone \in Seq(DoneType)
    BY DEF NodeType
  <2> QED
    BY <2>1, SeqFacts
<1>5. IsFiniteSet(WithRow(S)) /\ n \in Nat /\ n <= L
  <2>1. IsFiniteSet(1 .. L) /\ Cardinality(1 .. L) = L
    <3>1. 1 \in Int /\ L \in Int
      BY <1>4
    <3>2. /\ IsFiniteSet(1 .. L)
          /\ Cardinality(1 .. L) = IF 1 > L THEN 0 ELSE L - 1 + 1
      BY <3>1, FS_Interval
    <3> QED
      BY <1>4, <3>2
  <2>2. WithRow(S) \in SUBSET (1 .. L)
    BY <1>3, <1>4
  <2>3. IsFiniteSet(WithRow(S)) /\ Cardinality(WithRow(S)) <= L
    BY <2>1, <2>2, FS_Subset
  <2>4. Cardinality(WithRow(S)) \in Nat
    BY <2>3, FS_CardinalityType
  <2> QED
    BY <1>2, <2>3, <2>4
<1>6. PICK z, fs :
        /\ z = [a \in 1 .. n |-> [own |-> TRUE, id |-> node.capDone[s[a]].id,
                                  dropped |-> node.capDone[s[a]].dropped]]
        /\ fs = [a \in 1 .. n |-> node.capDone[s[a]].id]
  OBVIOUS
<1>7. \A a \in 1 .. n : node.capDone[s[a]] \in DoneType
  BY <1>3, <1>4
<1>8. \A a \in 1 .. n : z[a] \in Rows /\ fs[a] \in FrameIds /\ z[a].own
                        /\ fs[a] = z[a].id
  <2>1. \A b \in DoneType : b.id \in FrameIds /\
          [own |-> TRUE, id |-> b.id, dropped |-> b.dropped] \in Rows
    BY FrameIdsAreIds DEF DoneType, Rows
  <2> QED
    BY <1>6, <1>7, <2>1, Zenon
<1>9. z \in Seq(Rows) /\ Len(z) = n
  BY <1>5, <1>6, <1>8
<1>10. fs \in Seq(FrameIds) /\ Len(fs) = n
  BY <1>5, <1>6, <1>8
<1>11. log' = log \o z
  BY <1>1, <1>3, <1>6
<1>12. Device!Publish(fs)
  BY <1>8, <1>9, <1>10, <1>11, Publishes
<1>13. n \in 0 .. Len(node.capDone)
  BY <1>4, <1>5
<1> QED
  BY <1>2, <1>3, <1>5, <1>6, <1>12, <1>13

(* What CapShown shows of a buffer. *)
LEMMA CapShownAt ==
  ASSUME node \in NodeType, NEW k \in DOMAIN node.capDone
  PROVE  /\ k \in DOMAIN CapShown /\ CapShown[k].idx = node.capDone[k].idx
         /\ CapShown[k].frame =
              IF node.capDone[k].err THEN NoId ELSE node.capDone[k].id
         /\ (CapShown[k].frame # NoId) <=> ~node.capDone[k].err
<1>1. node.capDone[k] \in DoneType
  BY Queued, SeqFacts
<1>2. node.capDone[k].id # NoId
  BY <1>1, EntryTypes DEF DoneType
<1> QED
  BY <1>2 DEF CapShown

(* A dequeued buffer. *)
LEMMA PublishesOne ==
  ASSUME log \in Seq(Rows), node \in NodeType, node.capDone # << >>, Finish({1})
  PROVE  Device!Publish(IF CapShown[1].frame = NoId THEN << >>
                        ELSE <<CapShown[1].frame>>)
<1>1. 1 \in DOMAIN node.capDone
  BY Queued
<1>2. PICK s, n : /\ n = Cardinality(WithRow({1})) /\ Order(s, n, {1})
                  /\ Device!Publish([a \in 1 .. n |-> node.capDone[s[a]].id])
  <2>1. {1} \subseteq DOMAIN node.capDone
    BY <1>1
  <2> QED
    BY <2>1, FinishPublishes
<1>3. CASE node.capDone[1].err
  <2>1. WithRow({1}) = {}
    BY <1>3 DEF WithRow
  <2>2. n = 0
    BY <1>2, <2>1, FS_EmptySet
  <2>3. [a \in 1 .. n |-> node.capDone[s[a]].id] = << >>
    BY <2>2
  <2>4. CapShown[1].frame = NoId
    BY <1>1, <1>3, CapShownAt
  <2> QED
    BY <1>2, <2>3, <2>4
<1>4. CASE ~node.capDone[1].err
  <2>1. WithRow({1}) = {1}
    BY <1>4 DEF WithRow
  <2>2. n = 1
    BY <1>2, <2>1, FS_Singleton
  <2>3. s[1] = 1
    BY <1>2, <2>1, <2>2 DEF Order
  <2>4. [a \in 1 .. n |-> node.capDone[s[a]].id] = <<node.capDone[1].id>>
    BY <2>2, <2>3
  <2>5. CapShown[1].frame = node.capDone[1].id /\ CapShown[1].frame # NoId
    BY <1>1, <1>4, CapShownAt
  <2> QED
    BY <1>2, <2>4, <2>5
<1> QED
  BY <1>3, <1>4

(* A queue that is stopped. *)
LEMMA PublishesAll ==
  ASSUME log \in Seq(Rows), node \in NodeType, Finish(DOMAIN node.capDone)
  PROVE  Device!PublishAll
<1>1. PICK S, W, C : S = DOMAIN node.capDone /\ W = WithRow(S) /\ C = CapShown
  OBVIOUS
<1>2. PICK s, n :
        /\ n = Cardinality(W) /\ n \in 0 .. Len(node.capDone) /\ IsFiniteSet(W)
        /\ Order(s, n, S) /\ Device!Publish([a \in 1 .. n |-> node.capDone[s[a]].id])
  BY <1>1, FinishPublishes
<1>3. DOMAIN C = S /\ Len(C) = Len(node.capDone)
  <2>1. C = Mapped(node.capDone, CapEntry) /\ node.capDone \in Seq(DoneType)
    BY <1>1, Shown, Queued
  <2>2. Maps(CapEntry, DoneType, Entries)
    BY EntryTypes
  <2>3. /\ Len(Mapped(node.capDone, CapEntry)) = Len(node.capDone)
        /\ DOMAIN Mapped(node.capDone, CapEntry) = 1 .. Len(node.capDone)
    BY ONLY <2>1, <2>2, MappedType
  <2> QED
    BY <1>1, <2>1, <2>3
<1>4. Device!Good = W
  <2>1. \A k \in S : (C[k].frame # NoId) <=> ~node.capDone[k].err
    BY <1>1, CapShownAt
  <2> QED
    BY <1>1, <1>3, <2>1 DEF Device!Good, WithRow
<1>5. \A k \in W : k \in S /\ C[k].idx = node.capDone[k].idx
                   /\ C[k].frame = node.capDone[k].id /\ node.capDone[k].idx \in Nat
  <2> SUFFICES ASSUME NEW k \in W
               PROVE  /\ k \in S /\ C[k].idx = node.capDone[k].idx
                      /\ C[k].frame = node.capDone[k].id /\ node.capDone[k].idx \in Nat
    OBVIOUS
  <2>1. k \in S /\ ~node.capDone[k].err
    BY <1>1 DEF WithRow
  <2>2. node.capDone[k] \in DoneType
    BY <1>1, <2>1, Queued, SeqFacts
  <2>3. node.capDone[k].idx \in Nat
    BY <2>2, Constants DEF DoneType, Idx
  <2> QED
    BY <1>1, <2>1, <2>3, CapShownAt
<1>6. /\ s \in [1 .. n -> W]
      /\ \A a, b \in 1 .. n : a < b => node.capDone[s[a]].idx < node.capDone[s[b]].idx
  BY <1>1, <1>2 DEF Order
<1>7. \A k \in W : \E a \in 1 .. n : s[a] = k
  <2>1. \A a, b \in 1 .. n : s[a] = s[b] => a = b
    <3> SUFFICES ASSUME NEW a \in 1 .. n, NEW b \in 1 .. n, s[a] = s[b], a # b
                 PROVE  FALSE
      OBVIOUS
    <3>1. a < b \/ b < a
      OBVIOUS
    <3>2. node.capDone[s[a]].idx < node.capDone[s[a]].idx
      BY <1>6, <3>1
    <3>3. node.capDone[s[a]].idx \in Nat
      BY <1>5, <1>6
    <3> QED
      BY <3>2, <3>3
  <2>2. s \in Injection(1 .. n, W)
    BY <1>6, <2>1 DEF Injection, IsInjective
  <2>3. Cardinality(1 .. n) = n
    <3>1. n \in Nat
      BY <1>2
    <3>2. 1 \in Int /\ n \in Int
      BY <3>1
    <3>3. Cardinality(1 .. n) = IF 1 > n THEN 0 ELSE n - 1 + 1
      BY <3>2, FS_Interval
    <3> QED
      BY <3>1, <3>3
  <2>4. s \in Surjection(1 .. n, W)
    BY <1>2, <2>2, <2>3, FS_Injection
  <2> QED
    BY <2>4 DEF Surjection
<1>8. \A a, b \in 1 .. n : a < b => C[s[a]].idx < C[s[b]].idx
  BY <1>5, <1>6
<1>9. [a \in 1 .. n |-> node.capDone[s[a]].id] = [a \in 1 .. n |-> C[s[a]].frame]
  BY <1>5, <1>6
<1>10. Device!Publish([a \in 1 .. n |-> CapShown[s[a]].frame])
  BY <1>1, <1>2, <1>9
<1>11. /\ n \in 0 .. Len(CapShown) /\ s \in [1 .. n -> Device!Good]
       /\ \A k \in Device!Good : \E a \in 1 .. n : s[a] = k
       /\ \A a, b \in 1 .. n : a < b => CapShown[s[a]].idx < CapShown[s[b]].idx
  BY <1>1, <1>2, <1>3, <1>4, <1>6, <1>7, <1>8
<1> QED
  BY ONLY <1>10, <1>11 DEF Device!PublishAll
-----------------------------------------------------------------------------
(* Until a program has opened the node, nothing is queued on it.  OpenNode *)
(* then changes nothing that the contract is about.                        *)
Idle(n) == /\ n.on = {} /\ n.outQ = << >> /\ n.capQ = << >> /\ n.outDone = << >>
           /\ n.capDone = << >>
WillOpen ==
  /\ me.runs # << >> /\ Phase = "setup"
  /\ \E j \in me.pc[2] .. Len(Prog.setup) : Prog.setup[j] = "open"
Untouched == WillOpen => Idle(node)

(* Calls before the node is opened are of the camera. *)
LEMMA OpenAhead ==
  ASSUME Inv, NEW c, At(c), NEW s, Advance(s), WillOpen'
  PROVE  c = "openViv" /\ WillOpen
<1>1. me \in MeType /\ me.runs # << >> /\ me.pc[2] \in Nat
  BY MeFields DEF Inv, Types, At, Exited
<1>2. PICK x, y : me' = [me EXCEPT !.sent = x, !.i = y,
                   !.pc = IF me.pc[2] = Len(Body) THEN Enter(me.sent + s, y)
                          ELSE <<Phase, me.pc[2] + 1>>]
  BY DEF Advance
<1>3. me'.runs = me.runs /\ me'.pc = IF me.pc[2] = Len(Body) THEN Enter(me.sent + s, y)
                                     ELSE <<Phase, me.pc[2] + 1>>
  BY <1>1, <1>2 DEF MeType
<1>4. Enter(me.sent + s, y)[1] # "setup"
  BY DEF Enter
<1>5. me'.pc[1] = "setup"
  BY DEF WillOpen, Phase
<1>6. Phase = "setup" /\ me'.pc[2] = me.pc[2] + 1
  BY <1>3, <1>4, <1>5
<1>7. PICK k, t : k = me.pc[2] /\ t = Prog.setup
  OBVIOUS
<1>8. Prog' = Prog
  BY <1>3 DEF Prog
<1>9. PICK j \in k + 1 .. Len(t) : t[j] = "open"
  BY <1>6, <1>7, <1>8 DEF WillOpen
<1>10. SetupPlan(t) /\ k \in Nat /\ k >= 1 /\ t[k] = c
  <2>1. Plan(Prog) /\ Placed(me, Prog)
    BY <1>1, Planned DEF Inv, Place, Types
  <2> QED
    BY <1>1, <1>6, <1>7, <2>1 DEF Plan, Placed, At, Body
<1>11. Len(t) \in Nat
  BY <1>10 DEF SetupPlan, List
<1>12. k \in 1 .. Len(t) /\ j \in 1 .. Len(t) /\ k < j /\ j \in k .. Len(t)
  BY <1>9, <1>10, <1>11
<1>13. t[k] = "openViv"
  BY <1>9, <1>10, <1>12 DEF SetupPlan
<1> QED
  BY <1>1, <1>6, <1>7, <1>9, <1>10, <1>12, <1>13 DEF WillOpen

(* What the program's calls do to its place. *)
Passes == \E c, s : c # "openViv" /\ At(c) /\ Advance(s)
LEMMA Passing ==
  ASSUME Program, ~OpenViv, ~Close, ~CloseViv
  PROVE  Passes \/ (\E w : GiveUp(w)) \/ Dies
<1>1. CASE \/ OpenNode \/ Plain \/ SetFormat \/ FillHeap \/ OpenMeta \/ Export
           \/ SubmitNone \/ SetSequence
  BY <1>1 DEF OpenNode, Plain, SetFormat, FillHeap, OpenMeta, Export, SubmitNone,
     SetSequence, Call, Passes
<1>2. CASE RequestBuffers \/ QueueCaptures \/ StreamOn \/ Submit
  BY <1>2 DEF RequestBuffers, QueueCaptures, StreamOn, Submit, Call, Passes
<1>3. CASE DequeueCapture \/ DequeueOutput \/ ReadMeta \/ WriteRow \/ RequeueCapture
  BY <1>3 DEF DequeueCapture, DequeueOutput, ReadMeta, WriteRow, RequeueCapture, Call,
     Passes
<1>4. CASE RequestViv \/ MapSlots \/ QueueSlots \/ RequeueViv
  BY <1>4 DEF RequestViv, MapSlots, QueueSlots, RequeueViv, Call, Passes
<1>5. CASE \/ StreamOnViv \/ DequeueViv \/ StopOutput \/ StopCapture
           \/ StopViv \/ CloseMeta
  BY <1>5 DEF StreamOnViv, DequeueViv, StopOutput, StopCapture, StopViv, CloseMeta,
     Call, Passes
<1>6. CASE Verify \/ Remap \/ Refused \/ Crashes
  BY <1>6 DEF Verify, Remap, Refused, Crashes, Call, Passes
<1> QED
  BY <1>1, <1>2, <1>3, <1>4, <1>5, <1>6 DEF Program

LEMMA GaveUp ==
  ASSUME Inv, NEW w, GiveUp(w)
  PROVE  ~WillOpen'
<1>1. me \in MeType
  BY DEF Inv, Types
<1>2. me'.pc = <<"cleanup", 1>>
  BY <1>1 DEF GiveUp, MeType
<1> QED
  BY <1>2 DEF WillOpen, Phase

LEMMA Died ==
  ASSUME Inv, Dies
  PROVE  ~WillOpen'
<1>1. CASE me.runs = << >>
  <2>1. me'.runs = << >>
    BY <1>1 DEF Dies, Inv, Types, MeType
  <2> QED
    BY <2>1 DEF WillOpen
<1>2. CASE me.runs # << >>
  <2>1. me'.pc[1] = "cleanup"
    BY <1>2, DiesOk DEF Inv, Types
  <2> QED
    BY <2>1 DEF WillOpen, Phase
<1> QED
  BY <1>1, <1>2

LEMMA UntouchedNext ==
  ASSUME Inv, Untouched, [Next]_vars
  PROVE  Untouched'
<1>1. CASE Program /\ ~OpenViv /\ ~Close /\ ~CloseViv
  <2>1. Passes \/ (\E w : GiveUp(w)) \/ Dies
    BY <1>1, Passing
  <2>2. Passes => ~WillOpen'
    BY OpenAhead DEF Passes
  <2> QED
    BY <2>1, <2>2, GaveUp, Died DEF Untouched
<1>2. CASE OpenViv
  <2>1. At("openViv") /\ Advance(0) /\ node' = node
    BY <1>2 DEF OpenViv, Call
  <2>2. WillOpen' => WillOpen
    BY <2>1, OpenAhead
  <2> QED
    BY <2>1, <2>2 DEF Untouched
<1>3. CASE Close
  <2>1. node' = ClosedNode
    BY <1>3 DEF Close
  <2>2. Idle(node')
    BY <2>1 DEF Idle, ClosedNode
  <2> QED
    BY <2>2 DEF Untouched
<1>4. CASE CloseViv
  <2>1. At("closeViv") /\ "closeViv" \in Closes /\ NextRun
    BY <1>4 DEF CloseViv, Closes
  <2>2. /\ me.runs # << >> /\ Prog.cleanup[me.pc[2]] = "closeViv" /\ me \in MeType
        /\ me.pc[2] \in 1 .. Len(Prog.cleanup)
    BY <2>1, CloseCall DEF Inv, Types
  <2>3. me'.runs = << >> \/ Head(me.runs) = "runOne"
    BY <2>1, <2>2, NextRunOk
  <2>4. Head(me.runs) # "runOne"
    BY <2>2, RunnerNeverClosesViv DEF Prog
  <2> QED
    BY <2>3, <2>4 DEF Untouched, WillOpen
<1>5. CASE RunJob
  <2>1. me' = me /\ node.on # {}
    BY <1>5 DEF RunJob
  <2>2. ~WillOpen
    BY <2>1 DEF Untouched, Idle
  <2> QED
    BY <2>1, <2>2 DEF Untouched, WillOpen, Phase, Prog
<1>6. CASE Fails \/ Killed
  BY <1>6, GaveUp, Died DEF Fails, Killed, Untouched
<1>7. CASE DrainFails
  <2>1. me'.runs = << >>
    BY <1>7 DEF DrainFails, Inv, Types, MeType
  <2> QED
    BY <2>1 DEF Untouched, WillOpen
<1>8. CASE \/ VividFill \/ VividSkip \/ PublishForeign \/ DrainOpen \/ DrainRead
           \/ UNCHANGED vars
  <2>1. me' = me /\ node' = node
    BY <1>8 DEF VividFill, VividSkip, PublishForeign, DrainOpen, DrainRead, vars
  <2> QED
    BY <2>1 DEF Untouched, WillOpen, Phase, Prog
<1> QED
  BY <1>1, <1>2, <1>3, <1>4, <1>5, <1>6, <1>7, <1>8 DEF Next

LEMMA UntouchedHolds == Spec => []Untouched
<1>1. Init => Untouched
  BY DEF Init, Untouched, Idle, ClosedNode
<1> QED
  BY <1>1, InvHolds, UntouchedNext, PTL DEF Spec
-----------------------------------------------------------------------------
(* The steps of Tools. *)

SameShown ==
  /\ node'.on = node.on /\ node'.outQ = node.outQ /\ node'.capQ = node.capQ
  /\ node'.outDone = node.outDone /\ node'.capDone = node.capDone

LEMMA Quiet ==
  ASSUME SameShown, log' = log
  PROVE  Stutter
  BY RowsKept DEF SameShown, Stutter, OutShown, OutDoneShown, CapShown

LEMMA QuietOthers ==
  ASSUME node' = node, log' = log
  PROVE  Stutter
  BY Quiet DEF SameShown

(* Steps that the node does not see. *)
LEMMA QuietCalls ==
  ASSUME \/ Plain \/ FillHeap \/ OpenMeta \/ Export \/ SubmitNone \/ ReadMeta
         \/ WriteRow \/ Verify \/ OpenViv \/ RequestViv \/ MapSlots \/ QueueSlots
         \/ RequeueViv \/ StreamOnViv \/ DequeueViv \/ Remap \/ StopViv \/ CloseMeta
         \/ CloseViv \/ Refused \/ Crashes \/ Fails \/ Killed \/ VividFill
         \/ VividSkip \/ DrainOpen \/ DrainFails \/ DrainRead \/ UNCHANGED vars
  PROVE  Stutter
<1>1. CASE \/ Plain \/ FillHeap \/ OpenMeta \/ Export \/ SubmitNone \/ ReadMeta
           \/ WriteRow \/ Verify \/ OpenViv \/ RequestViv
  <2>1. node' = node /\ log' = log
    BY <1>1 DEF Plain, FillHeap, OpenMeta, Export, SubmitNone, ReadMeta, WriteRow,
       Verify, OpenViv, RequestViv, metaVars
  <2> QED
    BY <2>1, QuietOthers
<1>2. CASE \/ MapSlots \/ QueueSlots \/ RequeueViv \/ StreamOnViv \/ DequeueViv
           \/ Remap \/ StopViv \/ CloseMeta \/ CloseViv
  <2>1. node' = node /\ log' = log
    BY <1>2 DEF MapSlots, QueueSlots, RequeueViv, QueueViv, StreamOnViv, DequeueViv,
       Remap, StopViv, CloseMeta, CloseViv, metaVars
  <2> QED
    BY <2>1, QuietOthers
<1>3. CASE \/ Refused \/ Crashes \/ Fails \/ Killed \/ VividFill \/ VividSkip
           \/ DrainOpen \/ DrainFails \/ DrainRead \/ UNCHANGED vars
  <2>1. node' = node /\ log' = log
    BY <1>3 DEF Refused, Crashes, Fails, Killed, Dies, VividFill, VividSkip,
       DrainOpen, DrainFails, DrainRead, vars, metaVars
  <2> QED
    BY <2>1, QuietOthers
<1> QED
  BY <1>1, <1>2, <1>3

(* Formats, buffers and the sequence control. *)
LEMMA QuietSettings ==
  ASSUME Inv, SetFormat \/ RequestBuffers \/ SetSequence
  PROVE  Stutter
<1>1. node \in NodeType
  BY Kept
<1>2. log' = log
  BY DEF SetFormat, RequestBuffers, SetSequence, metaVars
<1>3. SameShown
  <2>1. CASE SetFormat \/ SetSequence
    BY <1>1, <2>1 DEF SetFormat, SetSequence, NodeType, SameShown
  <2>2. CASE RequestBuffers
    <3>1. \/ \E x : node' = [node EXCEPT !.n.OUT = x, !.plane.OUT = node.size]
          \/ \E x : node' = [node EXCEPT !.n.CAP = x, !.plane.CAP = node.size]
      BY <2>2 DEF RequestBuffers
    <3> QED
      BY <1>1, <3>1 DEF NodeType, SameShown
  <2> QED
    BY <2>1, <2>2
<1> QED
  BY <1>2, <1>3, Quiet

LEMMA QuietOpen ==
  ASSUME Inv, Untouched, OpenNode
  PROVE  Stutter
<1>1. /\ At("open") /\ node' = [ClosedNode EXCEPT !.open = TRUE] /\ log' = log
      /\ "open" \in Prepares
  BY DEF OpenNode, Call, metaVars, Prepares, Formats
<1>2. /\ Phase = "setup" /\ me.runs # << >> /\ Prog.setup[me.pc[2]] = "open"
      /\ me.pc[2] \in 1 .. Len(Prog.setup)
  BY <1>1, SetupCall
<1>3. me.pc[2] \in me.pc[2] .. Len(Prog.setup)
  BY <1>2
<1>4. Idle(node)
  BY <1>2, <1>3 DEF Untouched, WillOpen
<1>5. SameShown
  BY <1>1, <1>4 DEF Idle, ClosedNode, SameShown
<1> QED
  BY <1>1, <1>5, Quiet

LEMMA QuietForeign ==
  ASSUME Inv, PublishForeign
  PROVE  Stutter
<1>1. node' = node /\ log' = Append(log, NoRow) /\ log \in Seq(Rows)
  BY DEF PublishForeign, Inv, Types, MetaTypes
<1>2. RowsShown' = RowsShown
  BY <1>1, RowsForeign
<1> QED
  BY <1>1, <1>2 DEF Stutter, OutShown, OutDoneShown, CapShown

LEMMA SubmitStep ==
  ASSUME Inv, Inv', Submit
  PROVE  Step
<1>1. PICK no, b :
        /\ no = IF Prog.depth > 0 THEN me.sent ELSE me.i
        /\ b = [idx |-> OutIndex, id |-> Id(no), seq |-> node.seq,
                cell |-> <<Prog.mem, OutIndex>>, dropped |-> Drops(no)]
        /\ node' = [node EXCEPT !.outQ = Append(@, b)]
  BY Zenon DEF Submit
<1>2. /\ Call("submit") /\ At("submit") /\ Submits /\ log' = log
  BY DEF Submit, Call, metaVars
<1>3. /\ Plan(Prog) /\ me.i \in Nat /\ me.sent \in Nat /\ Len(me.runs) \in 1 .. 2
      /\ Prog.depth \in Nat /\ Prog.frames \in Nat /\ Prog.frames <= Frames
      /\ Prog.depth = 0 => me.i < Frames
  BY <1>2, SubmitCall
<1>4. no \in 0 .. Frames - 1
  BY <1>1, <1>2, <1>3, Constants DEF Submits
<1>5. Id(no) \in FrameIds
  BY <1>3, <1>4 DEF Id, FrameIds
<1>6. OutIndex \in Idx /\ MineOut(OutIndex)
  BY <1>2, OutIndexOk
<1>7. node \in NodeType /\ node' \in NodeType
  BY DEF Inv, Types
<1>8. b \in InType
  <2>1. Drops(no) \in BOOLEAN
    BY Zenon DEF Drops
  <2>2. <<Prog.mem, OutIndex>> \in Cells /\ node.seq \in Pixels
    BY <1>3, <1>6, <1>7 DEF Cells, Plan, NodeType
  <2> QED
    BY <1>1, <1>5, <1>6, <2>1, <2>2 DEF InType
<1>9. OutShown' = Append(OutShown, [idx |-> OutIndex, frame |-> Id(no)])
  <2>1. /\ OutShown' = Mapped(node'.outQ, OutEntry)
        /\ OutShown = Mapped(node.outQ, OutEntry)
    BY <1>7, Shown, ShownNext
  <2>2. node'.outQ = Append(node.outQ, b) /\ node.outQ \in Seq(InType)
    BY <1>1, <1>7 DEF NodeType
  <2>3. Mapped(Append(node.outQ, b), OutEntry) =
          Append(Mapped(node.outQ, OutEntry), OutEntry[b])
    BY ONLY <1>8, <2>2, EntryTypes, MappedAppend
  <2>4. OutEntry[b] = [idx |-> OutIndex, frame |-> Id(no)]
    BY <1>1, <1>8 DEF OutEntry
  <2> QED
    BY <2>1, <2>2, <2>3, <2>4
<1>10. UNCHANGED <<node.on, node.capQ, OutDoneShown, CapShown, RowsShown>>
  <2>1. /\ node'.on = node.on /\ node'.capQ = node.capQ
        /\ node'.outDone = node.outDone /\ node'.capDone = node.capDone
    BY <1>1, <1>7 DEF NodeType
  <2> QED
    BY <1>2, <2>1, RowsKept DEF OutDoneShown, CapShown
<1> QED
  BY <1>5, <1>6, <1>7, <1>9, <1>10, StepQueueOutput

(* QBUF of CAPTURE buffers, one or all of them. *)
LEMMA QueueCaptureStep ==
  ASSUME Inv, NEW n \in 1 .. N, NEW is \in [1 .. n -> Idx],
         \A a \in 1 .. n : MineCap(is[a]),
         \A a, b \in 1 .. n : is[a] = is[b] => a = b,
         node' = [node EXCEPT !.capQ = @ \o is], log' = log
  PROVE  Step
<1>1. node \in NodeType
  BY Kept
<1>2. /\ node'.capQ = node.capQ \o is /\ node'.on = node.on /\ node'.outQ = node.outQ
      /\ node'.outDone = node.outDone /\ node'.capDone = node.capDone
  BY <1>1 DEF NodeType
<1>3. UNCHANGED <<node.on, OutShown, OutDoneShown, CapShown, RowsShown>>
  BY <1>2, RowsKept DEF OutShown, OutDoneShown, CapShown
<1> QED
  BY <1>1, <1>2, <1>3, StepQueueCapture

LEMMA OneCapture ==
  ASSUME Inv, NEW i \in Idx, MineCap(i), node' = [node EXCEPT !.capQ = Append(@, i)],
         log' = log
  PROVE  Step
<1>1. PICK is : is = <<i>>
  OBVIOUS
<1>2. is \in [1 .. 1 -> Idx] /\ is[1] = i
  <2>1. <<i>> \in Seq(Idx) /\ Len(<<i>>) = 1 /\ <<i>>[1] = i
    OBVIOUS
  <2> QED
    BY <1>1, <2>1
<1>3. 1 \in 1 .. N
  BY Constants
<1>4. node.capQ \in Seq(Idx)
  BY Kept, Queued
<1>5. Append(node.capQ, i) = node.capQ \o is
  BY <1>1, <1>4
<1>6. node' = [node EXCEPT !.capQ = @ \o is]
  BY <1>5
<1>7. \A a \in 1 .. 1 : MineCap(is[a])
  BY <1>2
<1>8. \A a, b \in 1 .. 1 : is[a] = is[b] => a = b
  OBVIOUS
<1> QED
  BY <1>2, <1>3, <1>6, <1>7, <1>8, QueueCaptureStep

LEMMA QueueCapturesStep ==
  ASSUME Inv, QueueCaptures \/ RequeueCapture
  PROVE  Step
<1>1. log' = log
  BY DEF QueueCaptures, RequeueCapture, metaVars
<1>2. CASE Call("qCaps") /\ node' = [node EXCEPT !.capQ = @ \o [k \in 1 .. N |-> k - 1]]
  <2>1. PICK is : is = [k \in 1 .. N |-> k - 1]
    OBVIOUS
  <2>2. \A i \in Idx : MineCap(i)
    BY <1>2 DEF Call, Accepts
  <2>3. \A k \in 1 .. N : is[k] = k - 1 /\ k - 1 \in Idx
    BY <2>1, Constants DEF Idx
  <2>4. N \in 1 .. N /\ is \in [1 .. N -> Idx]
    BY <2>1, <2>3, Constants
  <2>5. \A a, b \in 1 .. N : is[a] = is[b] => a = b
    BY <2>3, Constants
  <2>6. \A a \in 1 .. N : MineCap(is[a])
    BY <2>2, <2>3
  <2>7. node' = [node EXCEPT !.capQ = @ \o is]
    BY <1>2, <2>1
  <2> QED
    BY <1>1, <2>4, <2>5, <2>6, <2>7, QueueCaptureStep
<1>3. CASE Call("qCap0") /\ node' = [node EXCEPT !.capQ = Append(@, 0)]
  <2>1. MineCap(0) /\ 0 \in Idx
    BY <1>3, Constants DEF Call, Accepts
  <2> QED
    BY <1>1, <1>3, <2>1, OneCapture
<1>4. CASE RequeueCapture
  <2>1. PICK i : i = cur.cap.idx
    OBVIOUS
  <2>2. MineCap(i) /\ node' = [node EXCEPT !.capQ = Append(@, i)]
    BY <1>4, <2>1 DEF RequeueCapture, Call, Accepts
  <2>3. i \in Idx
    BY <2>1, Kept DEF ProgTypes, CurType, CapType
  <2> QED
    BY <1>1, <2>2, <2>3, OneCapture
<1> QED
  BY <1>2, <1>3, <1>4 DEF QueueCaptures

LEMMA StreamOnStep ==
  ASSUME Inv, StreamOn
  PROVE  Step
<1>1. PICK t \in Queues : node' = [node EXCEPT !.on = @ \cup {t}]
  BY DEF StreamOn, Queues
<1>2. log' = log /\ node \in NodeType
  BY Kept DEF StreamOn, metaVars
<1>3. /\ node'.on = node.on \cup {t} /\ node'.outQ = node.outQ /\ node'.capQ = node.capQ
      /\ node'.outDone = node.outDone /\ node'.capDone = node.capDone
  BY <1>1, <1>2 DEF NodeType
<1>4. UNCHANGED <<OutShown, node.capQ, OutDoneShown, CapShown, RowsShown>>
  BY <1>2, <1>3, RowsKept DEF OutShown, OutDoneShown, CapShown
<1> QED
  BY <1>3, <1>4, StepStart

LEMMA RunJobStep ==
  ASSUME Inv, Inv', RunJob
  PROVE  Step
<1>1. PICK in, err, a, b :
        /\ in = Head(node.outQ) /\ err \in BOOLEAN /\ a = [idx |-> in.idx]
        /\ b = [idx |-> Head(node.capQ), id |-> in.id, seq |-> in.seq,
                dropped |-> in.dropped, err |-> err,
                pixels |-> IF err THEN Blank ELSE mem[in.cell]]
        /\ node' = [node EXCEPT !.outQ = Tail(@), !.capQ = Tail(@),
                      !.outDone = Append(@, a), !.capDone = Append(@, b)]
  <2>1. PICK in, err :
          /\ in = Head(node.outQ) /\ err \in BOOLEAN
          /\ node' = [node EXCEPT !.outQ = Tail(@), !.capQ = Tail(@),
               !.outDone = Append(@, [idx |-> in.idx]),
               !.capDone = Append(@, [idx |-> Head(node.capQ), id |-> in.id,
                             seq |-> in.seq, dropped |-> in.dropped, err |-> err,
                             pixels |-> IF err THEN Blank ELSE mem[in.cell]])]
    BY Zenon DEF RunJob
  <2> QED
    BY ONLY <2>1, Zenon
<1>2. /\ node.on = {"OUT", "CAP"} /\ node.outQ # << >> /\ node.capQ # << >>
      /\ log' = log
  BY DEF RunJob
<1>3. node \in NodeType /\ node' \in NodeType /\ mem \in [Cells -> Pixels]
  BY DEF Inv, Types
<1>4. /\ node.outQ \in Seq(InType) /\ node.capQ \in Seq(Idx)
      /\ node.outDone \in Seq([idx : Idx]) /\ node.capDone \in Seq(DoneType)
  BY <1>3, Queued
<1>5. in \in InType /\ Head(node.capQ) \in Idx
  BY <1>1, <1>2, <1>4, SeqFacts
<1>6. a \in [idx : Idx] /\ b \in DoneType
  <2>1. /\ in.idx \in Idx /\ in.id \in FrameIds /\ in.seq \in Pixels
        /\ in.cell \in Cells /\ in.dropped \in BOOLEAN
    BY <1>5 DEF InType
  <2>2. PICK px : px = IF err THEN Blank ELSE mem[in.cell]
    OBVIOUS
  <2>3. px \in Pixels
    <3>1. mem[in.cell] \in Pixels /\ Blank \in Pixels
      BY <1>3, <2>1, Constants
    <3> QED
      BY <2>2, <3>1, Zenon
  <2>4. b = [idx |-> Head(node.capQ), id |-> in.id, seq |-> in.seq,
             dropped |-> in.dropped, err |-> err, pixels |-> px]
    BY <1>1, <2>2
  <2> QED
    BY <1>1, <1>5, <2>1, <2>3, <2>4 DEF DoneType
<1>7. /\ node'.outQ = Tail(node.outQ) /\ node'.capQ = Tail(node.capQ)
      /\ node'.outDone = Append(node.outDone, a) /\ node'.on = node.on
      /\ node'.capDone = Append(node.capDone, b)
  BY <1>1, <1>3 DEF NodeType
<1>8. /\ OutShown # << >> /\ OutShown' = Tail(OutShown)
      /\ Head(OutShown) = [idx |-> in.idx, frame |-> in.id]
  <2>1. /\ Mapped(node.outQ, OutEntry) # << >>
        /\ Mapped(Tail(node.outQ), OutEntry) = Tail(Mapped(node.outQ, OutEntry))
        /\ Head(Mapped(node.outQ, OutEntry)) = OutEntry[Head(node.outQ)]
    BY ONLY <1>2, <1>4, EntryTypes, MappedTail
  <2>2. /\ OutShown = Mapped(node.outQ, OutEntry)
        /\ OutShown' = Mapped(node'.outQ, OutEntry)
    BY <1>3, Shown, ShownNext
  <2>3. OutEntry[in] = [idx |-> in.idx, frame |-> in.id]
    BY <1>5 DEF OutEntry
  <2> QED
    BY <1>1, <1>7, <2>1, <2>2, <2>3
<1>9. OutDoneShown' = Append(OutDoneShown, in.idx)
  <2>1. Mapped(Append(node.outDone, a), DoneIdx) =
          Append(Mapped(node.outDone, DoneIdx), DoneIdx[a])
    <3>1. PICK T : T = [idx : Idx]
      OBVIOUS
    <3>2. node.outDone \in Seq(T) /\ a \in T /\ Maps(DoneIdx, T, Idx)
      BY <1>4, <1>6, <3>1, EntryTypes
    <3> QED
      BY ONLY <3>2, MappedAppend
  <2>2. /\ OutDoneShown = Mapped(node.outDone, DoneIdx)
        /\ OutDoneShown' = Mapped(node'.outDone, DoneIdx)
    BY <1>3, Shown, ShownNext
  <2>3. DoneIdx[a] = in.idx
    BY <1>1, <1>6 DEF DoneIdx
  <2> QED
    BY <1>7, <2>1, <2>2, <2>3
<1>10. PICK f : f = IF err THEN NoId ELSE in.id
  OBVIOUS
<1>11. CapShown' = Append(CapShown, [idx |-> Head(node.capQ), frame |-> f])
  <2>1. Mapped(Append(node.capDone, b), CapEntry) =
          Append(Mapped(node.capDone, CapEntry), CapEntry[b])
    BY ONLY <1>4, <1>6, EntryTypes, MappedAppend
  <2>2. /\ CapShown = Mapped(node.capDone, CapEntry)
        /\ CapShown' = Mapped(node'.capDone, CapEntry)
    BY <1>3, Shown, ShownNext
  <2>3. CapEntry[b] = [idx |-> Head(node.capQ), frame |-> f]
    <3>1. CapEntry[b] = [idx |-> b.idx, frame |-> IF b.err THEN NoId ELSE b.id]
      BY <1>6 DEF CapEntry
    <3>2. b.idx = Head(node.capQ) /\ b.id = in.id /\ b.err = err
      BY <1>1
    <3> QED
      BY <1>10, <3>1, <3>2, Zenon
  <2> QED
    BY <1>7, <2>1, <2>2, <2>3
<1>12. f \in {Head(OutShown).frame, NoId} /\ Head(OutShown).idx = in.idx
  BY <1>8, <1>10
<1>13. RowsShown' = RowsShown
  BY <1>2, RowsKept
<1> QED
  BY <1>2, <1>7, <1>8, <1>9, <1>11, <1>12, <1>13, StepJob

LEMMA DequeueOutputStep ==
  ASSUME Inv, Inv', DequeueOutput
  PROVE  Step
<1>1. /\ "OUT" \in node.on /\ node.outDone # << >> /\ log' = log
      /\ node' = [node EXCEPT !.outDone = Tail(@)]
  BY DEF DequeueOutput, Call, Accepts, metaVars
<1>2. node \in NodeType /\ node' \in NodeType
  BY DEF Inv, Types
<1>3. /\ node'.outDone = Tail(node.outDone) /\ node'.on = node.on
      /\ node'.outQ = node.outQ /\ node'.capQ = node.capQ
      /\ node'.capDone = node.capDone
  BY <1>1, <1>2 DEF NodeType
<1>4. OutDoneShown # << >> /\ OutDoneShown' = Tail(OutDoneShown)
  <2>1. PICK T : T = [idx : Idx]
    OBVIOUS
  <2>2. node.outDone \in Seq(T) /\ Maps(DoneIdx, T, Idx)
    BY <1>2, <2>1, Queued, EntryTypes
  <2>3. /\ Mapped(node.outDone, DoneIdx) # << >>
        /\ Mapped(Tail(node.outDone), DoneIdx) = Tail(Mapped(node.outDone, DoneIdx))
    BY ONLY <1>1, <2>2, MappedTail
  <2>4. /\ OutDoneShown = Mapped(node.outDone, DoneIdx)
        /\ OutDoneShown' = Mapped(node'.outDone, DoneIdx)
    BY <1>2, Shown, ShownNext
  <2> QED
    BY <1>3, <2>3, <2>4
<1>5. UNCHANGED <<node.on, OutShown, node.capQ, CapShown, RowsShown>>
  BY <1>1, <1>3, RowsKept DEF OutShown, CapShown
<1> QED
  BY <1>1, <1>4, <1>5, StepDequeueOutput

LEMMA DequeueCaptureStep ==
  ASSUME Inv, Inv', DequeueCapture
  PROVE  Step
<1>1. /\ "CAP" \in node.on /\ node.capDone # << >> /\ Finish({1})
      /\ node' = [node EXCEPT !.capDone = Tail(@)]
  BY DEF DequeueCapture, Call, Accepts
<1>2. node \in NodeType /\ node' \in NodeType /\ log \in Seq(Rows)
  BY DEF Inv, Types, MetaTypes
<1>3. /\ node'.capDone = Tail(node.capDone) /\ node'.on = node.on
      /\ node'.outQ = node.outQ /\ node'.capQ = node.capQ
      /\ node'.outDone = node.outDone
  BY <1>1, <1>2 DEF NodeType
<1>4. /\ CapShown # << >> /\ CapShown' = Tail(CapShown)
      /\ Head(CapShown) = CapShown[1]
  <2>1. node.capDone \in Seq(DoneType)
    BY <1>2, Queued
  <2>2. /\ Mapped(node.capDone, CapEntry) # << >>
        /\ Mapped(Tail(node.capDone), CapEntry) = Tail(Mapped(node.capDone, CapEntry))
    BY ONLY <1>1, <2>1, EntryTypes, MappedTail
  <2>3. Mapped(node.capDone, CapEntry) \in Seq(Entries)
    BY ONLY <2>1, EntryTypes, MappedType
  <2>4. /\ CapShown = Mapped(node.capDone, CapEntry)
        /\ CapShown' = Mapped(node'.capDone, CapEntry)
    BY <1>2, Shown, ShownNext
  <2>5. ASSUME NEW q \in Seq(Entries), q # << >> PROVE Head(q) = q[1]
    BY <2>5
  <2>6. Head(Mapped(node.capDone, CapEntry)) = Mapped(node.capDone, CapEntry)[1]
    BY ONLY <2>2, <2>3, <2>5
  <2> QED
    BY <1>3, <2>2, <2>4, <2>6
<1>5. Device!Publish(IF Head(CapShown).frame = NoId THEN << >>
                     ELSE <<Head(CapShown).frame>>)
  BY <1>1, <1>2, <1>4, PublishesOne
<1>6. UNCHANGED <<node.on, OutShown, node.capQ, OutDoneShown>>
  BY <1>3 DEF OutShown, OutDoneShown
<1> QED
  BY <1>1, <1>4, <1>5, <1>6, StepDequeueCapture

LEMMA StopOutputStep ==
  ASSUME Inv, StopOutput
  PROVE  Step
<1>1. /\ log' = log /\ node \in NodeType
      /\ node' = [node EXCEPT !.on = @ \ {"OUT"}, !.outQ = << >>, !.outDone = << >>]
  BY Kept DEF StopOutput, metaVars
<1>2. /\ node'.on = node.on \ {"OUT"} /\ node'.outQ = << >> /\ node'.outDone = << >>
      /\ node'.capQ = node.capQ /\ node'.capDone = node.capDone
  BY <1>1 DEF NodeType
<1>3. OutShown' = << >> /\ OutDoneShown' = << >>
  BY <1>2 DEF OutShown, OutDoneShown
<1>4. UNCHANGED <<node.capQ, CapShown, RowsShown>>
  BY <1>1, <1>2, RowsKept DEF CapShown
<1> QED
  BY <1>2, <1>3, <1>4, StepStopOutput

LEMMA StopCaptureStep ==
  ASSUME Inv, StopCapture
  PROVE  Step
<1>1. /\ Finish(DOMAIN node.capDone) /\ node \in NodeType /\ log \in Seq(Rows)
      /\ node' = [node EXCEPT !.on = @ \ {"CAP"}, !.capQ = << >>, !.capDone = << >>]
  BY Kept DEF StopCapture, MetaTypes
<1>2. /\ node'.on = node.on \ {"CAP"} /\ node'.capQ = << >> /\ node'.capDone = << >>
      /\ node'.outQ = node.outQ /\ node'.outDone = node.outDone
  BY <1>1 DEF NodeType
<1>3. CapShown' = << >>
  BY <1>2 DEF CapShown
<1>4. UNCHANGED <<OutShown, OutDoneShown>>
  BY <1>2 DEF OutShown, OutDoneShown
<1>5. Device!PublishAll
  BY <1>1, PublishesAll
<1> QED
  BY <1>2, <1>3, <1>4, <1>5, StepStopCapture

LEMMA CloseStep ==
  ASSUME Inv, Close
  PROVE  Step
<1>1. /\ Finish(DOMAIN node.capDone) /\ node \in NodeType /\ log \in Seq(Rows)
      /\ node' = ClosedNode
  BY Kept DEF Close, MetaTypes
<1>2. /\ node'.on = {} /\ node'.capQ = << >> /\ node'.capDone = << >>
      /\ node'.outQ = << >> /\ node'.outDone = << >>
  BY <1>1 DEF ClosedNode
<1>3. OutShown' = << >> /\ OutDoneShown' = << >> /\ CapShown' = << >>
  BY <1>2 DEF OutShown, OutDoneShown, CapShown
<1>4. Device!PublishAll
  BY <1>1, PublishesAll
<1> QED
  BY <1>2, <1>3, <1>4, StepClose

LEMMA Refines ==
  ASSUME Inv, Inv', Untouched, [Next]_vars
  PROVE  [Device!Next]_(Device!nodeVars)
<1>1. CASE Program
  BY <1>1, QuietOpen, QuietCalls, QuietSettings, QueueCapturesStep, StreamOnStep,
     SubmitStep, DequeueCaptureStep, DequeueOutputStep, StopOutputStep,
     StopCaptureStep, CloseStep, Boxed DEF Program
<1>2. CASE Next /\ ~Program
  BY <1>2, QuietCalls, QuietForeign, RunJobStep, Boxed DEF Next
<1>3. CASE UNCHANGED vars
  BY <1>3, QuietCalls, Boxed
<1> QED
  BY <1>1, <1>2, <1>3

(* The node that the tools are run against is one that M2M was shown to    *)
(* be: for every number of buffers and of frames, whichever calls and jobs *)
(* fail and whoever else publishes rows, every step of every program is a  *)
(* step of the contract of Node or leaves what the node shows unchanged.   *)
THEOREM UsesNodeHolds == Spec => UsesNode
<1>1. Init => Device!Init
  <2> SUFFICES ASSUME Init PROVE Device!Init
    OBVIOUS
  <2>1. node = ClosedNode /\ log = << >>
    BY DEF Init
  <2>2. /\ node.on = {} /\ node.outQ = << >> /\ node.capQ = << >>
        /\ node.outDone = << >> /\ node.capDone = << >>
    BY <2>1 DEF ClosedNode
  <2>3. OutShown = << >> /\ OutDoneShown = << >> /\ CapShown = << >>
    BY <2>2 DEF OutShown, OutDoneShown, CapShown
  <2>4. DOMAIN RowsShown = {}
    BY <2>1 DEF RowsShown, OwnRows
  <2> QED
    BY <2>2, <2>3, <2>4 DEF Device!Init
<1>2. Inv /\ Inv' /\ Untouched /\ [Next]_vars => [Device!Next]_(Device!nodeVars)
  BY Refines
<1> QED
  BY <1>1, <1>2, InvHolds, UntouchedHolds, PTL DEF Spec, UsesNode, Device!Spec
=============================================================================
