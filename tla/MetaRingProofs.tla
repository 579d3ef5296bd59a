--------------------------- MODULE MetaRingProofs ---------------------------
(***************************************************************************)
(* Proofs about MetaRing, for every ring size, every set of publishers,    *)
(* threads and files, and every bound on the number of rows.               *)
(***************************************************************************)
EXTENDS MetaRing, Integers, TLAPS

USE RingAssumption, ActorAssumption

-----------------------------------------------------------------------------
(* Arithmetic of the ring. *)

(* A slot index is an index of the ring array. *)
LEMMA SlotInRing ==
  ASSUME NEW i \in Nat
  PROVE  Slot(i) \in 0 .. RingSize - 1
  BY DEF Slot

(* Two positions less than a ring apart never share a slot: this is what   *)
(* keeps vpipe_meta_publish from overwriting a row still in the window.    *)
LEMMA SlotsDiffer ==
  ASSUME NEW i \in Nat, NEW j \in Nat, i < j, j < i + RingSize
  PROVE  Slot(i) # Slot(j)
<1> DEFINE qi == i \div RingSize
           qj == j \div RingSize
<1>1. /\ qi \in Int /\ qj \in Int
      /\ i % RingSize \in Int /\ j % RingSize \in Int
      /\ i = RingSize * qi + (i % RingSize)
      /\ j = RingSize * qj + (j % RingSize)
  OBVIOUS
<1>2. SUFFICES ASSUME i % RingSize = j % RingSize
               PROVE  FALSE
  BY DEF Slot
<1> HIDE DEF qi, qj
<1>3. j - i = RingSize * qj - RingSize * qi
  BY <1>1, <1>2
<1>4. RingSize * qj - RingSize * qi = RingSize * (qj - qi)
  BY <1>1
<1>5. CASE qj - qi <= 0
  <2>1. RingSize * (qj - qi) <= 0
    BY <1>5, <1>1
  <2> QED
    BY <2>1, <1>3, <1>4, <1>1
<1>6. CASE qj - qi >= 1
  <2>1. RingSize * (qj - qi) >= RingSize
    BY <1>6, <1>1
  <2> QED
    BY <2>1, <1>3, <1>4, <1>1
<1> QED
  BY <1>5, <1>6, <1>1

(* The window only moves forward. *)
LEMMA OldestFacts ==
  ASSUME NEW h \in Nat
  PROVE  /\ Oldest(h) \in Nat
         /\ Oldest(h) <= h
         /\ Oldest(h) <= Oldest(h + 1)
         /\ h > 0 => Oldest(h) < h
         /\ h < Oldest(h) + RingSize + 1
  BY DEF Oldest

-----------------------------------------------------------------------------
(* Every state has the shape the C declarations give it.  CopyToUser reads *)
(* entry[t].at, so the type invariant is inductive only together with      *)
(* EntryTaken; that part is proved first, from TypeOK.                     *)

(* The local copy of a ring slot has the shape of an entry. *)
LEMMA EntryAtIsCopy ==
  ASSUME TypeOK, NEW at \in Nat, NEW o \in BOOLEAN
  PROVE  EntryAt(at, o) \in Copies
<1>1. ring[Slot(at)] \in Entries
  BY SlotInRing DEF TypeOK
<1> QED
  BY <1>1 DEF EntryAt, Entries, Copies

(* The caught-up cursor is a position, and the entry copied there is one.  *)
LEMMA CatchUpTyped ==
  ASSUME TypeOK, NEW f \in Files
  PROVE  /\ CatchUp(f) \in Nat
         /\ Overrun(f) \in BOOLEAN
         /\ EntryAt(CatchUp(f), Overrun(f)) \in Copies
<1>1. CatchUp(f) \in Nat
  BY OldestFacts DEF TypeOK, CatchUp
<1>2. Overrun(f) \in BOOLEAN
  BY DEF Overrun
<1> QED
  BY <1>1, <1>2, EntryAtIsCopy

(* copy_to_user stays reachable only with an entry.                        *)
LEMMA EntryTakenStep ==
  ASSUME TypeOK, EntryTaken, [Next]_vars
  PROVE  EntryTaken'
<1> USE DEF TypeOK, EntryTaken, devVars, ringVars, fileVars, readerVars
<1>1. CASE UNCHANGED <<pc, entry>>
  BY <1>1
<1>2. ASSUME NEW t \in Threads, NEW l \in {"idle", "wait", "lock", "load",
                                          "store", "stats"},
             Goto(t, l), \A u \in Threads \ {t} : entry'[u] = entry[u]
      PROVE  EntryTaken'
  BY <1>2 DEF Goto
<1>3. ASSUME NEW t \in Threads, Return(t)
      PROVE  EntryTaken'
  BY <1>3, <1>2 DEF Return
<1>4. ASSUME NEW t \in Threads, ReadLocked(t)
      PROVE  EntryTaken'
  <2>1. CASE Return(t)
    BY <2>1, <1>3
  <2>2. CASE ~Return(t)
    <3> DEFINE e == EntryAt(CatchUp(FileOf[t]), Overrun(FileOf[t]))
    <3>1. e \in Copies
      BY CatchUpTyped
    <3> HIDE DEF e
    <3>2. pc' = [pc EXCEPT ![t] = "copy"] /\ entry' = [entry EXCEPT ![t] = e]
      BY <1>4, <2>2 DEF ReadLocked, Goto, e
    <3> QED
      BY <3>1, <3>2
  <2> QED
    BY <2>1, <2>2
<1>5. ASSUME NEW t \in Threads,
             \/ ReadBegin(t) \/ ReadWait(t) \/ CopyToUser(t) \/ TailLoad(t)
             \/ StatsPublished(t)
      PROVE  EntryTaken'
  BY <1>5, <1>1, <1>2
     DEF ReadBegin, ReadWait, CopyToUser, TailLoad, StatsPublished
<1>6. ASSUME NEW t \in Threads,
             \/ ReadInterrupted(t) \/ CopyFault(t) \/ TailStore(t)
             \/ StatsDropped(t)
      PROVE  EntryTaken'
  BY <1>6, <1>3 DEF ReadInterrupted, CopyFault, TailStore, StatsDropped
<1>7. CASE VpipeInitDone \/ MetaExitDying \/ MetaExitWake \/ VpipeExit
  BY <1>7, <1>1 DEF VpipeInitDone, MetaExitDying, MetaExitWake, VpipeExit
<1>8. ASSUME NEW p \in Publishers,
             \/ \E row \in RowsAt[Len(log)] : PublishReserve(p, row)
             \/ PublishFill(p) \/ PublishUnlock(p) \/ PublishWake(p)
      PROVE  EntryTaken'
  BY <1>8, <1>1 DEF PublishReserve, PublishFill, PublishUnlock, PublishWake
<1>9. ASSUME NEW f \in Files, MetaOpen(f) \/ MetaRelease(f)
      PROVE  EntryTaken'
  BY <1>9, <1>1 DEF MetaOpen, MetaRelease
<1>10. CASE UNCHANGED vars
  BY <1>10, <1>1 DEF vars
<1> QED
  BY <1>4, <1>5, <1>6, <1>7, <1>8, <1>9, <1>10
     DEF Next, Publishing, Reading

(* Every step of vpipe-meta.c keeps the types. *)
LEMMA TypeStep ==
  ASSUME TypeOK, EntryTaken, [Next]_vars
  PROVE  TypeOK'
<1> USE DEF TypeOK, devVars, ringVars, fileVars, readerVars
<1>1. CASE VpipeInitDone
  BY <1>1 DEF VpipeInitDone
<1>2. CASE MetaExitDying
  BY <1>2 DEF MetaExitDying
<1>3. CASE MetaExitWake
  BY <1>3 DEF MetaExitWake
<1>4. CASE VpipeExit
  BY <1>4 DEF VpipeExit
<1>5. ASSUME NEW p \in Publishers, NEW row \in RowsAt[Len(log)],
             PublishReserve(p, row)
      PROVE  TypeOK'
  <2>1. row \in Rows
    BY <1>5 DEF PublishReserve
  <2> QED
    BY <1>5, <2>1 DEF PublishReserve
<1>6. ASSUME NEW p \in Publishers, PublishFill(p)
      PROVE  TypeOK'
  <2>1. [row |-> src[p], version |-> Version] \in Entries
    BY DEF Entries
  <2>2. ring' \in [0 .. RingSize - 1 -> Entries]
    BY <1>6, <2>1 DEF PublishFill
  <2> QED
    BY <1>6, <2>2 DEF PublishFill
<1>7. ASSUME NEW p \in Publishers, PublishUnlock(p)
      PROVE  TypeOK'
  BY <1>7 DEF PublishUnlock
<1>8. ASSUME NEW p \in Publishers, PublishWake(p)
      PROVE  TypeOK'
  BY <1>8 DEF PublishWake
<1>9. ASSUME NEW f \in Files, MetaOpen(f)
      PROVE  TypeOK'
  BY <1>9 DEF MetaOpen
<1>10. ASSUME NEW f \in Files, MetaRelease(f)
       PROVE  TypeOK'
  BY <1>10 DEF MetaRelease
<1>11. ASSUME NEW t \in Threads, ReadBegin(t)
       PROVE  TypeOK'
  BY <1>11 DEF ReadBegin, Goto
<1>12. ASSUME NEW t \in Threads, ReadInterrupted(t)
       PROVE  TypeOK'
  BY <1>12 DEF ReadInterrupted, Return, Goto
<1>13. ASSUME NEW t \in Threads, ReadWait(t)
       PROVE  TypeOK'
  BY <1>13, ZenonT(40) DEF ReadWait, Goto
<1>14. ASSUME NEW t \in Threads, ReadLocked(t)
       PROVE  TypeOK'
  <2> DEFINE f == FileOf[t]
             at == CatchUp(f)
             e == EntryAt(at, Overrun(f))
  <2>1. at \in Nat /\ e \in Copies
    BY CatchUpTyped
  <2>2. CASE Return(t) /\ UNCHANGED tail
    BY <1>14, <2>2 DEF ReadLocked, Return, Goto
  <2> HIDE DEF at, e
  <2>3. CASE /\ tail' = [tail EXCEPT ![f] = at]
             /\ entry' = [entry EXCEPT ![t] = e]
             /\ Goto(t, "copy")
             /\ UNCHANGED <<blocking, reg>>
    BY <1>14, <2>1, <2>3 DEF ReadLocked, Goto
  <2> QED
    BY <1>14, <2>2, <2>3 DEF ReadLocked, at, e
<1>15. ASSUME NEW t \in Threads, CopyFault(t)
       PROVE  TypeOK'
  BY <1>15 DEF CopyFault, Return, Goto
<1>16. ASSUME NEW t \in Threads, CopyToUser(t)
       PROVE  TypeOK'
  <2>1. entry[t] \in Copies /\ entry[t].at + 1 \in Nat
    BY <1>16 DEF CopyToUser, EntryTaken, Copies
  <2> QED
    BY <1>16, <2>1 DEF CopyToUser, Goto
<1>17. ASSUME NEW t \in Threads, TailLoad(t)
       PROVE  TypeOK'
  BY <1>17 DEF TailLoad, Goto
<1>18. ASSUME NEW t \in Threads, TailStore(t)
       PROVE  TypeOK'
  BY <1>18 DEF TailStore, Return, Goto
<1>19. ASSUME NEW t \in Threads, StatsPublished(t)
       PROVE  TypeOK'
  BY <1>19 DEF StatsPublished, Goto
<1>20. ASSUME NEW t \in Threads, StatsDropped(t)
       PROVE  TypeOK'
  BY <1>20 DEF StatsDropped, Return, Goto
<1>21. CASE UNCHANGED vars
  BY <1>21 DEF vars
<1> QED
  BY <1>1, <1>2, <1>3, <1>4, <1>5, <1>6, <1>7, <1>8, <1>9, <1>10, <1>11,
     <1>12, <1>13, <1>14, <1>15, <1>16, <1>17, <1>18, <1>19, <1>20, <1>21
     DEF Next, Publishing, Reading

(* Type correctness of the device and of every system call on it.          *)
THEOREM TypeCorrect == Safety => []TypeOK
<1>1. Init => TypeOK /\ EntryTaken
  <2>1. Init => ring \in [0 .. RingSize - 1 -> Entries]
    BY DEF Init, Entries
  <2>2. Init => EntryTaken
    BY DEF Init, EntryTaken
  <2>3. Init => log \in Seq(Rows) /\ lock \in Publishers \cup {NoOne}
    BY DEF Init
  <2>4. Init => dying \in BOOLEAN
    BY DEF Init
  <2>5. Init => /\ phase \in {"loading", "live", "failing", "gone"}
                /\ head \in Nat /\ published \in Nat /\ dropped \in Nat
                /\ src \in [Publishers -> Rows \cup {NoRow}]
                /\ pub \in [Publishers -> {"idle", "fill", "unlock", "wake"}]
                /\ open \subseteq Files /\ asleep \subseteq Threads
                /\ tail \in [Files -> Nat] /\ expect \in [Files -> Nat]
                /\ out \in [Files -> Copies \cup {Nothing}]
    BY DEF Init
  <2>6. Init => /\ pc \in [Threads -> {"idle", "wait", "lock", "copy",
                                       "load", "store", "stats"}]
                /\ blocking \in [Threads -> BOOLEAN]
                /\ entry \in [Threads -> Copies \cup {Nothing}]
                /\ reg \in [Threads -> Nat]
    BY DEF Init
  <2> QED
    BY <2>1, <2>2, <2>3, <2>4, <2>5, <2>6 DEF TypeOK
<1>2. TypeOK /\ EntryTaken /\ [Next]_vars => TypeOK' /\ EntryTaken'
  BY TypeStep, EntryTakenStep
<1> QED
  BY <1>1, <1>2, PTL DEF Safety

-----------------------------------------------------------------------------
(* The ring.  RingWindow speaks of the moments the lock is free; IndRing   *)
(* adds what the holder of the lock has done and still has to do.          *)

ringOnly == <<head, ring, published, dropped, lock, src, pub, log>>

(* The steps that leave the ring alone. *)
LEMMA RingUntouched ==
  ASSUME [Next]_vars,
         ~ \E p \in Publishers :
             \/ \E row \in RowsAt[Len(log)] : PublishReserve(p, row)
             \/ PublishFill(p) \/ PublishUnlock(p) \/ PublishWake(p)
  PROVE  UNCHANGED ringOnly
  BY DEF Next, Publishing, Reading, ringOnly, ringVars, vars, VpipeInitDone,
         MetaExitDying, MetaExitWake, VpipeExit, MetaOpen, MetaRelease,
         ReadBegin, ReadWait, ReadInterrupted, ReadLocked, CopyFault,
         CopyToUser, TailLoad, TailStore, StatsPublished, StatsDropped

(* Every step keeps the ring the window of the log, as IndRing has it. *)
LEMMA RingStep ==
  ASSUME TypeOK, IndRing, [Next]_vars
  PROVE  IndRing'
<1> USE DEF TypeOK, devVars, ringVars, readerVars
<1>1. CASE UNCHANGED ringOnly
  BY <1>1 DEF IndRing, Filled, ringOnly
<1>2. ASSUME NEW p \in Publishers, NEW row \in RowsAt[Len(log)],
             PublishReserve(p, row)
      PROVE  IndRing'
  <2>1. row \in Rows
    BY <1>2 DEF PublishReserve
  <2>2. /\ lock = NoOne /\ pub[p] = "idle"
        /\ lock' = p /\ pub' = [pub EXCEPT ![p] = "fill"]
        /\ head' = head + 1 /\ log' = Append(log, row)
        /\ src' = [src EXCEPT ![p] = row]
        /\ UNCHANGED <<ring, published, dropped>>
    BY <1>2 DEF PublishReserve
  <2>3. /\ head = Len(log) /\ published = head /\ dropped = Oldest(head)
        /\ Filled(head)
    BY <2>2 DEF IndRing
  <2>7. \A q \in Publishers : pub[q] \notin {"fill", "unlock"}
    BY <2>2 DEF IndRing
  <2>4. /\ head' = Len(log') /\ head' > 0 /\ src'[p] = log'[head']
        /\ \A i \in 1 .. head : log'[i] = log[i]
    BY <2>1, <2>2, <2>3
  <2>5. Filled(head - 1)'
    <3> SUFFICES ASSUME NEW i \in Oldest(head') .. (head' - 1) - 1
                 PROVE  ring'[Slot(i)] = [row |-> log'[i + 1],
                                          version |-> Version]
      BY DEF Filled
    <3>1. Oldest(head) <= Oldest(head') /\ Oldest(head) \in Nat
          /\ Oldest(head') \in Nat
      BY <2>2 DEF Oldest
    <3>2. i \in Oldest(head) .. head - 1 /\ i + 1 \in 1 .. head
      BY <2>2, <3>1
    <3> QED
      BY <2>2, <2>3, <2>4, <3>2 DEF Filled
  <2>6. \A q \in Publishers : (pub'[q] \in {"fill", "unlock"}) <=> (lock' = q)
    BY <2>2, <2>7
  <2>8. /\ published' = head' - 1 /\ dropped' = Oldest(head' - 1)
        /\ lock' \in Publishers /\ pub'[lock'] = "fill" /\ src'[lock'] = log'[head']
    BY <2>2, <2>3, <2>4
  <2> QED
    BY <2>4, <2>5, <2>6, <2>8 DEF IndRing
<1>3. ASSUME NEW p \in Publishers, PublishFill(p)
      PROVE  IndRing'
  <2>1. /\ lock = p /\ pub[p] = "fill"
        /\ pub' = [pub EXCEPT ![p] = "unlock"]
        /\ ring' = [ring EXCEPT ![Slot(head - 1)] =
                      [row |-> src[p], version |-> Version]]
        /\ published' = published + 1
        /\ UNCHANGED <<head, dropped, lock, src, log>>
    BY <1>3 DEF PublishFill, IndRing
  <2>2. /\ head = Len(log) /\ head > 0 /\ src[p] = log[head]
        /\ published = head - 1 /\ dropped = Oldest(head - 1)
        /\ Filled(head - 1)
    BY <2>1 DEF IndRing
  <2>3. Filled(head)'
    <3> SUFFICES ASSUME NEW i \in Oldest(head) .. head - 1
                 PROVE  ring'[Slot(i)] = [row |-> log[i + 1],
                                          version |-> Version]
      BY <2>1 DEF Filled
    <3>1. i \in Nat /\ head - 1 \in Nat /\ head - 1 < i + RingSize
      BY <2>2 DEF Oldest
    <3>2. CASE i = head - 1
      BY <2>1, <2>2, <3>1, <3>2, SlotInRing
    <3>3. CASE i # head - 1
      <4>1. i < head - 1 /\ i \in Oldest(head) .. (head - 1) - 1
        BY <3>1, <3>3
      <4>2. Slot(i) # Slot(head - 1)
        BY <3>1, <4>1, SlotsDiffer
      <4>3. ring'[Slot(i)] = ring[Slot(i)]
        BY <2>1, <3>1, <4>2, SlotInRing
      <4> QED
        BY <2>2, <4>1, <4>3 DEF Filled
    <3> QED
      BY <3>2, <3>3
  <2>4. \A q \in Publishers : (pub'[q] \in {"fill", "unlock"}) <=> (lock' = q)
    BY <2>1 DEF IndRing
  <2>5. /\ lock' \in Publishers /\ pub'[lock'] = "unlock"
        /\ head' > 0 /\ head' = Len(log')
        /\ published' = head' /\ dropped' = Oldest(head' - 1)
    BY <2>1, <2>2
  <2> QED
    BY <2>3, <2>4, <2>5 DEF IndRing
<1>4. ASSUME NEW p \in Publishers, PublishUnlock(p)
      PROVE  IndRing'
  <2>1. /\ lock = p /\ pub[p] = "unlock"
        /\ pub' = [pub EXCEPT ![p] = "wake"]
        /\ dropped' = IF head > RingSize THEN head - RingSize ELSE dropped
        /\ lock' = NoOne
        /\ UNCHANGED <<head, ring, published, src, log>>
    BY <1>4 DEF PublishUnlock, IndRing
  <2>2. /\ head = Len(log) /\ head > 0
        /\ published = head /\ dropped = Oldest(head - 1)
        /\ Filled(head)
    BY <2>1 DEF IndRing
  <2>3. dropped' = Oldest(head)
    BY <2>1, <2>2 DEF Oldest
  <2>4. Filled(head)'
    BY <2>1, <2>2 DEF Filled
  <2>5. \A q \in Publishers : (pub'[q] \in {"fill", "unlock"}) <=> (lock' = q)
    BY <2>1 DEF IndRing
  <2> QED
    BY <2>1, <2>2, <2>3, <2>4, <2>5 DEF IndRing
<1>5. ASSUME NEW p \in Publishers, PublishWake(p)
      PROVE  IndRing'
  <2>1. /\ pub[p] = "wake" /\ pub' = [pub EXCEPT ![p] = "idle"]
        /\ UNCHANGED <<head, ring, published, dropped, lock, src, log>>
    BY <1>5 DEF PublishWake
  <2>2. lock # p /\ \A q \in Publishers \ {p} : pub'[q] = pub[q]
    BY <2>1 DEF IndRing
  <2>3. \A q \in Publishers : (pub'[q] \in {"fill", "unlock"}) <=> (lock' = q)
    BY <2>1, <2>2 DEF IndRing
  <2>4. \A n : Filled(n) => Filled(n)'
    BY <2>1 DEF Filled
  <2>5. lock \in Publishers => pub'[lock] = pub[lock]
    BY <2>2
  <2> QED
    BY <2>1, <2>3, <2>4, <2>5 DEF IndRing
<1> QED
  BY <1>1, <1>2, <1>3, <1>4, <1>5, RingUntouched

(* vpipe_meta_publish keeps the ring the window of the newest rows, however *)
(* many publishers and readers interleave.                                 *)
THEOREM RingWindowHolds == Safety => []RingWindow
<1>1. Init => IndRing
  BY DEF Init, IndRing, Filled, Oldest
<1>2. TypeOK /\ IndRing /\ [Next]_vars => IndRing'
  BY RingStep
<1>3. IndRing => RingWindow
  BY DEF IndRing, RingWindow, Filled
<1> QED
  BY <1>1, <1>2, <1>3, TypeCorrect, PTL DEF Safety

-----------------------------------------------------------------------------
(* GET_STATS loads its counters without the lock. *)

(* The drop count lags the ring by one publish at most, and never falls. *)
LEMMA DropCountLags ==
  ASSUME TypeOK, IndRing
  PROVE  published <= dropped + RingSize + 1
<1>1. head \in Nat /\ published <= head
  BY DEF IndRing, TypeOK
<1>2. dropped = Oldest(head) \/ (head > 0 /\ dropped = Oldest(head - 1))
  BY DEF IndRing
<1> QED
  BY <1>1, <1>2 DEF Oldest, TypeOK

LEMMA DropCountGrows ==
  ASSUME TypeOK, IndRing, [Next]_vars
  PROVE  dropped \in Nat /\ dropped' \in Nat /\ dropped <= dropped'
<1>1. dropped \in Nat /\ head \in Nat
  BY DEF TypeOK
<1>2. CASE UNCHANGED dropped
  BY <1>1, <1>2
<1>3. ASSUME NEW p \in Publishers, PublishUnlock(p)
      PROVE  dropped' \in Nat /\ dropped <= dropped'
  <2>1. pub[p] = "unlock" /\ lock = p
    BY <1>3 DEF PublishUnlock, IndRing
  <2>2. head > 0 /\ dropped = Oldest(head - 1)
    BY <2>1 DEF IndRing
  <2>3. dropped' = IF head > RingSize THEN head - RingSize ELSE dropped
    BY <1>3 DEF PublishUnlock
  <2> QED
    BY <1>1, <2>2, <2>3 DEF Oldest
<1>4. ASSUME NEW p \in Publishers,
             \/ \E row \in RowsAt[Len(log)] : PublishReserve(p, row)
             \/ PublishFill(p) \/ PublishWake(p)
      PROVE  UNCHANGED dropped
  BY <1>4 DEF PublishReserve, PublishFill, PublishWake
<1> QED
  BY <1>1, <1>2, <1>3, <1>4, RingUntouched DEF ringOnly

(* A thread's register changes only with its own step, and only            *)
(* StatsPublished leaves the thread at "stats".                            *)
LEMMA StatsRegister ==
  ASSUME TypeOK, [Next]_vars, NEW t \in Threads, pc'[t] = "stats"
  PROVE  \/ reg'[t] = published
         \/ pc[t] = "stats" /\ reg'[t] = reg[t]
<1> USE DEF TypeOK, devVars, readerVars, Goto, Return
<1>1. CASE UNCHANGED <<pc, reg>>
  BY <1>1
<1>2. ASSUME NEW p \in Publishers,
             \/ \E row \in RowsAt[Len(log)] : PublishReserve(p, row)
             \/ PublishFill(p) \/ PublishUnlock(p) \/ PublishWake(p)
      PROVE  UNCHANGED <<pc, reg>>
  BY <1>2 DEF PublishReserve, PublishFill, PublishUnlock, PublishWake
<1>3. CASE VpipeInitDone \/ MetaExitDying \/ MetaExitWake \/ VpipeExit
  BY <1>1, <1>3 DEF VpipeInitDone, MetaExitDying, MetaExitWake, VpipeExit
<1>4. ASSUME NEW f \in Files, MetaOpen(f) \/ MetaRelease(f)
      PROVE  UNCHANGED <<pc, reg>>
  BY <1>4 DEF MetaOpen, MetaRelease
<1>5. ASSUME NEW u \in Threads, StatsPublished(u)
      PROVE  \/ reg'[t] = published
             \/ pc[t] = "stats" /\ reg'[t] = reg[t]
  BY <1>5 DEF StatsPublished
<1>6. ASSUME NEW u \in Threads,
             \/ ReadBegin(u) \/ ReadInterrupted(u) \/ ReadWait(u)
             \/ CopyFault(u) \/ CopyToUser(u) \/ TailLoad(u) \/ TailStore(u)
             \/ StatsDropped(u)
      PROVE  pc[t] = "stats" /\ reg'[t] = reg[t]
  BY <1>6 DEF ReadBegin, ReadInterrupted, ReadWait, CopyFault, CopyToUser,
     TailLoad, TailStore, StatsDropped
<1>7. ASSUME NEW u \in Threads, ReadLocked(u)
      PROVE  pc[t] = "stats" /\ reg'[t] = reg[t]
  BY <1>7 DEF ReadLocked
<1>8. CASE UNCHANGED vars
  BY <1>1, <1>8 DEF vars
<1> QED
  BY <1>1, <1>2, <1>3, <1>4, <1>5, <1>6, <1>7, <1>8
     DEF Next, Publishing, Reading

(* The rows that the two counters of one GET_STATS imply are in the ring   *)
(* exceed the ring by one at most, for any number of publishers.           *)
THEOREM StatsWithinRingHolds == Safety => []StatsWithinRing
<1>1. Init => IndRing /\ StatsWithinRing
  BY DEF Init, IndRing, Filled, Oldest, StatsWithinRing
<1>2. ASSUME TypeOK, TypeOK', IndRing, StatsWithinRing, [Next]_vars
      PROVE  IndRing' /\ StatsWithinRing'
  <2>1. IndRing'
    BY <1>2, RingStep
  <2>2. dropped \in Nat /\ dropped' \in Nat /\ dropped <= dropped'
    BY <1>2, DropCountGrows
  <2>3. published \in Nat /\ published <= dropped + RingSize + 1
    BY <1>2, DropCountLags DEF TypeOK
  <2>4. ASSUME NEW t \in Threads, pc'[t] = "stats"
        PROVE  reg'[t] <= dropped' + RingSize + 1
    <3>1. \/ reg'[t] = published
          \/ pc[t] = "stats" /\ reg'[t] = reg[t]
      BY <1>2, <2>4, StatsRegister
    <3>2. reg[t] \in Nat
      BY <1>2 DEF TypeOK
    <3> QED
      BY <1>2, <2>2, <2>3, <3>1, <3>2 DEF StatsWithinRing
  <2> QED
    BY <2>1, <2>4 DEF StatsWithinRing
<1> QED
  BY <1>1, <1>2, TypeCorrect, PTL DEF Safety

-----------------------------------------------------------------------------
(* The readers.  Each file is read by one thread (Exclusive): the cursor   *)
(* is then private to its reader although tail++ runs without the lock.    *)

(* What time does to a reader that is not running: rows are only added.    *)
Grows ==
  /\ head <= head'
  /\ Oldest(head) <= Oldest(head')
  /\ \A i \in 1 .. head : log'[i] = log[i]
  /\ dying => dying'

(* head, the log and the window only grow, and dying is never cleared. *)
LEMMA StepGrows ==
  ASSUME TypeOK, IndRing, [Next]_vars
  PROVE  Grows
<1> USE DEF TypeOK, devVars, ringVars, fileVars, readerVars
<1>1. head \in Nat /\ log \in Seq(Rows) /\ head = Len(log)
  BY DEF IndRing
<1>2. CASE UNCHANGED <<head, log>> /\ (dying => dying')
  BY <1>1, <1>2 DEF Grows, Oldest
<1>3. ASSUME NEW p \in Publishers, NEW row \in RowsAt[Len(log)],
             PublishReserve(p, row)
      PROVE  Grows
  <2>1. row \in Rows
    BY <1>3 DEF PublishReserve
  <2>2. head' = head + 1 /\ log' = Append(log, row) /\ dying' = dying
    BY <1>3 DEF PublishReserve
  <2>3. Oldest(head) <= Oldest(head')
    BY <1>1, <2>2 DEF Oldest
  <2> QED
    BY <1>1, <2>1, <2>2, <2>3 DEF Grows
<1>4. ASSUME NEW p \in Publishers,
             PublishFill(p) \/ PublishUnlock(p) \/ PublishWake(p)
      PROVE  Grows
  BY <1>2, <1>4 DEF PublishFill, PublishUnlock, PublishWake
<1>5. CASE VpipeInitDone \/ MetaExitDying \/ MetaExitWake \/ VpipeExit
  BY <1>2, <1>5 DEF VpipeInitDone, MetaExitDying, MetaExitWake, VpipeExit
<1>6. ASSUME NEW f \in Files, MetaOpen(f) \/ MetaRelease(f)
      PROVE  Grows
  BY <1>2, <1>6 DEF MetaOpen, MetaRelease
<1>7. ASSUME NEW t \in Threads,
             ReadBegin(t) \/ StatsPublished(t) \/ ReadInterrupted(t)
             \/ Reading(t)
      PROVE  Grows
  BY <1>2, <1>7 DEF ReadBegin, StatsPublished, ReadInterrupted, Reading,
     ReadWait, ReadLocked, CopyFault, CopyToUser, TailLoad, TailStore,
     StatsDropped
<1>8. CASE UNCHANGED vars
  BY <1>2, <1>8 DEF vars
<1> QED
  BY <1>3, <1>4, <1>5, <1>6, <1>7, <1>8 DEF Next, Publishing

(* Steps of others leave a thread's part of the invariant alone. *)
LEMMA ReaderKeeps ==
  ASSUME TypeOK, TypeOK', Grows, NEW u \in Threads, IndReader(u),
         pc'[u] = pc[u], entry'[u] = entry[u], reg'[u] = reg[u],
         blocking'[u] = blocking[u], u \in asleep' => u \in asleep,
         tail'[FileOf[u]] = tail[FileOf[u]],
         expect'[FileOf[u]] = expect[FileOf[u]],
         pc[u] # "idle" /\ FileOf[u] \in open => FileOf[u] \in open'
  PROVE  IndReader(u)'
<1> DEFINE f == FileOf[u]
<1>1. /\ f \in Files /\ tail[f] \in Nat /\ expect[f] \in Nat /\ head \in Nat
      /\ head' \in Nat /\ Oldest(head) \in Nat /\ Oldest(head') \in Nat
  BY OldestFacts DEF TypeOK
<1>2. MayStandAt(f, tail[f]) => MayStandAt(f, tail[f])'
  BY <1>1 DEF MayStandAt, Grows
<1>3. Genuine(entry[u]) => Genuine(entry[u])'
  <2>1. Genuine(entry[u]) => /\ entry[u].at \in Nat /\ entry[u].at < head
    BY DEF Genuine, Copies
  <2>2. Genuine(entry[u]) => /\ entry[u].at < head'
                             /\ log'[entry[u].at + 1] = log[entry[u].at + 1]
    BY <1>1, <2>1 DEF Grows
  <2> QED
    BY <2>2 DEF Genuine, Copies, Entries
<1>4. pc[u] = "lock" /\ blocking[u] => Readable(f)'
  BY <1>1 DEF IndReader, Readable, Grows
<1>5. (f \in SoundFiles)' <=> f \in SoundFiles
  BY DEF SoundFiles
<1>6. tail[f] <= head => tail'[f] <= head'
  BY <1>1 DEF Grows
<1>7. tail[f] < head => tail'[f] < head'
  BY <1>1 DEF Grows
<1> QED
  BY <1>2, <1>3, <1>4, <1>5, <1>6, <1>7 DEF IndReader

(* The locked section copies a row that is in the window. *)
LEMMA LockedCopyGenuine ==
  ASSUME TypeOK, IndRing, lock = NoOne, NEW f \in Files,
         tail[f] <= head, tail[f] # head
  PROVE  /\ Genuine(EntryAt(CatchUp(f), Overrun(f)))
         /\ CatchUp(f) \in Nat /\ CatchUp(f) < head
         /\ tail[f] <= CatchUp(f)
         /\ Overrun(f) <=> tail[f] < CatchUp(f)
         /\ tail[f] < CatchUp(f) => CatchUp(f) = Oldest(head)
<1>1. head \in Nat /\ tail[f] \in Nat /\ head > 0
  BY DEF TypeOK
<1>2. Oldest(head) \in Nat /\ Oldest(head) < head
  BY <1>1, OldestFacts
<1>3. /\ CatchUp(f) \in Oldest(head) .. head - 1
      /\ tail[f] <= CatchUp(f)
      /\ Overrun(f) <=> tail[f] < CatchUp(f)
      /\ tail[f] < CatchUp(f) => CatchUp(f) = Oldest(head)
  BY <1>1, <1>2 DEF CatchUp, Overrun
<1>4. ring[Slot(CatchUp(f))] = [row |-> log[CatchUp(f) + 1],
                               version |-> Version]
  <2>1. Filled(head)
    BY DEF IndRing
  <2> QED
    BY <1>3, <2>1 DEF Filled
<1>5. EntryAt(CatchUp(f), Overrun(f)) \in Copies
  BY CatchUpTyped
<1>6. Genuine(EntryAt(CatchUp(f), Overrun(f)))
  BY <1>1, <1>3, <1>4, <1>5 DEF Genuine, EntryAt
<1> QED
  BY <1>1, <1>3, <1>6

Others(t) == \A u \in Threads \ {t} : IndReader(u)'

(* A step of a thread's own call leaves the other threads alone, because   *)
(* no other thread uses its file.                                          *)
LEMMA OwnStepOthers ==
  ASSUME TypeOK, TypeOK', Grows, Exclusive, NEW t \in Threads,
         \A u \in Threads : IndReader(u),
         \A u \in Threads \ {t} :
           /\ pc'[u] = pc[u] /\ entry'[u] = entry[u] /\ reg'[u] = reg[u]
           /\ blocking'[u] = blocking[u] /\ (u \in asleep' => u \in asleep),
         \A f \in Files \ {FileOf[t]} :
           tail'[f] = tail[f] /\ expect'[f] = expect[f],
         open' = open
  PROVE  Others(t)
<1> SUFFICES ASSUME NEW u \in Threads \ {t}
             PROVE  IndReader(u)'
  BY DEF Others
<1>1. FileOf[u] \in Files \ {FileOf[t]}
  BY DEF Exclusive
<1> QED
  BY <1>1, ReaderKeeps

(* Every step keeps what each system call on the device relies on. *)
LEMMA ReadersStep ==
  ASSUME TypeOK, TypeOK', IndRing, Exclusive, [Next]_vars,
         \A u \in Threads : IndReader(u)
  PROVE  \A u \in Threads : IndReader(u)'
<1> USE DEF devVars, ringVars, fileVars, readerVars
<1>1. Grows
  BY StepGrows
<1>2. ASSUME NEW t \in Threads, IndReader(t)', Others(t)
      PROVE  \A u \in Threads : IndReader(u)'
  BY <1>2 DEF Others
<1>3. CASE /\ UNCHANGED <<pc, entry, reg, blocking, tail, expect, open>>
           /\ asleep' \subseteq asleep
  BY <1>1, <1>3, ReaderKeeps
<1>4. ASSUME NEW f \in Files, MetaOpen(f)
      PROVE  \A u \in Threads : IndReader(u)'
  <2> SUFFICES ASSUME NEW u \in Threads
               PROVE  IndReader(u)'
    OBVIOUS
  <2>1. CASE FileOf[u] = f
    <3>1. pc[u] = "idle" /\ u \notin asleep
      BY <1>4, <2>1 DEF MetaOpen, IndReader
    <3>2. /\ pc'[u] = "idle" /\ u \notin asleep'
          /\ tail'[f] = head' /\ expect'[f] = head' /\ head' \in Nat
      BY <1>4, <3>1 DEF MetaOpen, TypeOK
    <3> QED
      BY <2>1, <3>2 DEF IndReader, MayStandAt
  <2>2. CASE FileOf[u] # f
    BY <1>1, <1>4, <2>2, ReaderKeeps DEF MetaOpen, TypeOK
  <2> QED
    BY <2>1, <2>2
<1>5. ASSUME NEW f \in Files, MetaRelease(f)
      PROVE  \A u \in Threads : IndReader(u)'
  BY <1>1, <1>5, ReaderKeeps DEF MetaRelease
<1>6. ASSUME NEW t \in Threads,
             ReadBegin(t) \/ StatsPublished(t) \/ StatsDropped(t)
             \/ ReadInterrupted(t)
      PROVE  \A u \in Threads : IndReader(u)'
  <2>1. Others(t)
    BY <1>1, <1>6, OwnStepOthers
       DEF ReadBegin, StatsPublished, StatsDropped, ReadInterrupted, Return,
           Goto, TypeOK
  <2>2. IndReader(t)'
    BY <1>6 DEF ReadBegin, StatsPublished, StatsDropped, ReadInterrupted,
       Return, Goto, TypeOK, IndReader, MayStandAt
  <2> QED
    BY <2>1, <2>2, <1>2
<1>7. ASSUME NEW t \in Threads, ReadWait(t)
      PROVE  \A u \in Threads : IndReader(u)'
  <2>1. Others(t)
    BY <1>1, <1>7, OwnStepOthers DEF ReadWait, Goto, TypeOK
  <2>2. IndReader(t)'
    BY <1>7 DEF ReadWait, Goto, TypeOK, IndReader, MayStandAt, Readable
  <2> QED
    BY <2>1, <2>2, <1>2
<1>8. ASSUME NEW t \in Threads, ReadLocked(t)
      PROVE  \A u \in Threads : IndReader(u)'
  <2> DEFINE f == FileOf[t]
             at == CatchUp(f)
             e == EntryAt(at, Overrun(f))
  <2>1. CASE Return(t) /\ UNCHANGED tail
    <3>1. Others(t)
      BY <1>1, <1>8, <2>1, OwnStepOthers DEF ReadLocked, Return, Goto, TypeOK
    <3>2. IndReader(t)'
      BY <1>8, <2>1 DEF ReadLocked, Return, Goto, TypeOK, IndReader, MayStandAt
    <3> QED
      BY <3>1, <3>2, <1>2
  <2>2. CASE /\ ~dying /\ tail[f] # head
             /\ tail' = [tail EXCEPT ![f] = at]
             /\ entry' = [entry EXCEPT ![t] = e]
             /\ Goto(t, "copy")
             /\ UNCHANGED <<blocking, reg>>
    <3>1. /\ f \in Files /\ f \in open /\ tail[f] \in Nat /\ expect[f] \in Nat
          /\ tail[f] <= head /\ MayStandAt(f, tail[f])
          /\ f \in SoundFiles => tail[f] = expect[f]
      BY <1>8 DEF ReadLocked, IndReader, TypeOK
    <3>2. lock = NoOne /\ pc[t] = "lock" /\ t \notin asleep
      BY <1>8 DEF ReadLocked, IndReader
    <3>3. /\ Genuine(e) /\ at \in Nat /\ at < head /\ tail[f] <= at
          /\ Overrun(f) <=> tail[f] < at
          /\ tail[f] < at => at = Oldest(head)
      BY <2>2, <3>1, <3>2, LockedCopyGenuine
    <3>4. e.at = at /\ e.overrun = Overrun(f)
      BY DEF EntryAt
    <3> HIDE DEF at, e
    <3>5. /\ pc' = [pc EXCEPT ![t] = "copy"]
          /\ UNCHANGED <<head, log, expect, open, asleep>>
      BY <1>8, <2>2 DEF ReadLocked, Goto
    <3>6. Others(t)
      BY <1>1, <2>2, <3>5, OwnStepOthers DEF TypeOK
    <3>7. /\ pc'[t] = "copy" /\ tail'[f] = at /\ entry'[t] = e
      BY <2>2, <3>1, <3>5 DEF TypeOK
    <3>8. Genuine(entry[t])'
      BY <3>3, <3>5, <3>7 DEF Genuine, Copies, Entries
    <3>9. MayStandAt(f, tail[f])'
      <4>1. head \in Nat /\ Oldest(head) \in Nat
        BY OldestFacts DEF TypeOK
      <4> QED
        BY <4>1, <3>1, <3>3, <3>5, <3>7 DEF MayStandAt
    <3>10. f \in SoundFiles => (e.overrun <=> expect[f] < at)
      BY <3>1, <3>3, <3>4
    <3> QED
      <4>1. IndReader(t)'
        BY <3>1, <3>2, <3>4, <3>5, <3>7, <3>8, <3>9, <3>10
           DEF IndReader, SoundFiles
      <4> QED
        BY <4>1, <3>6, <1>2
  <2> QED
    BY <1>8, <2>1, <2>2 DEF ReadLocked
<1>9. ASSUME NEW t \in Threads, CopyFault(t)
      PROVE  \A u \in Threads : IndReader(u)'
  <2>1. Others(t)
    BY <1>1, <1>9, OwnStepOthers DEF CopyFault, Return, Goto, TypeOK
  <2>2. FileOf[t] \notin SoundFiles /\ tail[FileOf[t]] <= head
    BY <1>9 DEF CopyFault, SoundFiles, IndReader, Genuine, Copies, TypeOK
  <2>3. IndReader(t)'
    BY <1>9, <2>2 DEF CopyFault, Return, Goto, TypeOK, IndReader, MayStandAt,
       SoundFiles
  <2> QED
    BY <2>1, <2>3, <1>2
<1>10. ASSUME NEW t \in Threads, CopyToUser(t)
       PROVE  \A u \in Threads : IndReader(u)'
  <2>1. Others(t)
    BY <1>1, <1>10, OwnStepOthers DEF CopyToUser, Goto, TypeOK
  <2>2. /\ entry[t].at = tail[FileOf[t]] /\ tail[FileOf[t]] < head
        /\ FileOf[t] \in open /\ t \notin asleep
    BY <1>10 DEF CopyToUser, IndReader, Genuine
  <2>3. IndReader(t)'
    BY <1>10, <2>2 DEF CopyToUser, Goto, TypeOK, IndReader
  <2> QED
    BY <2>1, <2>3, <1>2
<1>11. ASSUME NEW t \in Threads, TailLoad(t)
       PROVE  \A u \in Threads : IndReader(u)'
  <2>1. Others(t)
    BY <1>1, <1>11, OwnStepOthers DEF TailLoad, Goto, TypeOK
  <2>2. IndReader(t)'
    BY <1>11 DEF TailLoad, Goto, TypeOK, IndReader
  <2> QED
    BY <2>1, <2>2, <1>2
<1>12. ASSUME NEW t \in Threads, TailStore(t)
       PROVE  \A u \in Threads : IndReader(u)'
  <2>1. Others(t)
    BY <1>1, <1>12, OwnStepOthers DEF TailStore, Return, Goto, TypeOK
  <2>2. IndReader(t)'
    BY <1>12 DEF TailStore, Return, Goto, TypeOK, IndReader, MayStandAt
  <2> QED
    BY <2>1, <2>2, <1>2
<1>13. CASE VpipeInitDone \/ MetaExitDying \/ MetaExitWake \/ VpipeExit
  BY <1>13, <1>3 DEF VpipeInitDone, MetaExitDying, MetaExitWake, VpipeExit
<1>14. ASSUME NEW p \in Publishers,
              \/ \E row \in RowsAt[Len(log)] : PublishReserve(p, row)
              \/ Publishing(p)
       PROVE  \A u \in Threads : IndReader(u)'
  BY <1>14, <1>3
     DEF PublishReserve, Publishing, PublishFill, PublishUnlock, PublishWake
<1>15. CASE UNCHANGED vars
  BY <1>15, <1>3 DEF vars
<1> QED
  BY <1>4, <1>5, <1>6, <1>7, <1>8, <1>9, <1>10, <1>11, <1>12, <1>13, <1>14,
     <1>15 DEF Next, Reading

(* What a file was given stays a row of the log. *)
LEMMA FilesStep ==
  ASSUME TypeOK, TypeOK', IndRing, [Next]_vars,
         \A t \in Threads : IndReader(t),
         \A f \in Files : IndFile(f)
  PROVE  \A f \in Files : IndFile(f)'
<1> USE DEF devVars, ringVars, fileVars, readerVars
<1>1. Grows
  BY StepGrows
<1>2. ASSUME NEW f \in Files, out'[f] = out[f]
      PROVE  IndFile(f)'
  <2>1. Genuine(out[f]) => out[f].at \in Nat /\ out[f].at < head
    BY DEF Genuine, Copies
  <2>2. Genuine(out[f]) => /\ out[f].at < head'
                           /\ log'[out[f].at + 1] = log[out[f].at + 1]
    BY <1>1, <2>1 DEF Grows, TypeOK
  <2> QED
    BY <1>2, <2>2 DEF IndFile, Genuine, Copies, Entries
<1>3. CASE UNCHANGED out
  BY <1>2, <1>3
<1>4. ASSUME NEW f \in Files, MetaOpen(f)
      PROVE  \A g \in Files : IndFile(g)'
  BY <1>2, <1>4 DEF MetaOpen, IndFile, TypeOK
<1>5. ASSUME NEW t \in Threads, CopyToUser(t)
      PROVE  \A g \in Files : IndFile(g)'
  <2>1. Genuine(entry[t])
    BY <1>5 DEF CopyToUser, IndReader
  <2>2. UNCHANGED <<head, log>> /\ out' = [out EXCEPT ![FileOf[t]] = entry[t]]
    BY <1>5 DEF CopyToUser
  <2>3. IndFile(FileOf[t])'
    BY <2>1, <2>2 DEF IndFile, Genuine, Copies, Entries, TypeOK
  <2>4. \A g \in Files \ {FileOf[t]} : out'[g] = out[g]
    BY <2>2 DEF TypeOK
  <2> QED
    BY <1>2, <2>3, <2>4
<1>6. CASE UNCHANGED vars
  BY <1>6, <1>3 DEF vars
<1>7. ASSUME NEW t \in Threads,
             \/ ReadBegin(t) \/ StatsPublished(t) \/ ReadInterrupted(t)
             \/ ReadWait(t) \/ ReadLocked(t) \/ CopyFault(t) \/ TailLoad(t)
             \/ TailStore(t) \/ StatsDropped(t)
      PROVE  UNCHANGED out
  BY <1>7 DEF ReadBegin, StatsPublished, ReadInterrupted, ReadWait,
     ReadLocked, CopyFault, TailLoad, TailStore, StatsDropped
<1>8. ASSUME NEW p \in Publishers,
             \/ \E row \in RowsAt[Len(log)] : PublishReserve(p, row)
             \/ Publishing(p)
      PROVE  UNCHANGED out
  BY <1>8
     DEF PublishReserve, Publishing, PublishFill, PublishUnlock, PublishWake
<1>9. ASSUME \/ VpipeInitDone \/ MetaExitDying \/ MetaExitWake \/ VpipeExit
             \/ \E f \in Files : MetaRelease(f)
      PROVE  UNCHANGED out
  BY <1>9 DEF VpipeInitDone, MetaExitDying, MetaExitWake, VpipeExit,
     MetaRelease
<1> QED
  BY <1>3, <1>4, <1>5, <1>6, <1>7, <1>8, <1>9 DEF Next, Reading

(* IndInv is an inductive invariant when every file has one reader.        *)
LEMMA InvariantHolds == Exclusive => (Safety => []IndInv)
<1>1. Init /\ TypeOK => IndInv
  <2>1. Init => IndRing
    BY DEF Init, IndRing, Filled, Oldest
  <2>2. Init => \A t \in Threads : IndReader(t)
    BY DEF Init, IndReader, MayStandAt, Oldest
  <2>3. Init => \A f \in Files : IndFile(f)
    BY DEF Init, IndFile
  <2> QED
    BY <2>1, <2>2, <2>3 DEF IndInv
<1>2. Exclusive /\ IndInv /\ TypeOK' /\ [Next]_vars => IndInv'
  BY RingStep, ReadersStep, FilesStep DEF IndInv
<1>3. SUFFICES ASSUME Exclusive
               PROVE  Safety => []IndInv
  OBVIOUS
<1>4. IndInv /\ TypeOK' /\ [Next]_vars => IndInv'
  BY <1>2, <1>3
<1> QED
  BY <1>1, <1>4, TypeCorrect, PTL DEF Safety

(* With one thread per file, every entry that reaches user space is a row  *)
(* that was published, at the position the cursor claims: vpipe_meta_read  *)
(* never hands out a torn, stale or unwritten slot.                        *)
THEOREM DeliveredWasPublishedHolds ==
  Exclusive => (Safety => []DeliveredWasPublished)
<1>1. IndInv => DeliveredWasPublished
  BY DEF IndInv, IndFile, IndRing, Genuine, DeliveredWasPublished
<1> QED
  BY <1>1, InvariantHolds, PTL

(* With one thread per file, the wait condition of a blocking read is      *)
(* still true under the lock, so the read does not return -EAGAIN.         *)
THEOREM WaitStaysTrueHolds == Exclusive => (Safety => []WaitStaysTrue)
<1>1. IndInv => WaitStaysTrue
  BY DEF IndInv, IndReader, WaitStaysTrue
<1> QED
  BY <1>1, InvariantHolds, PTL

(* Only copy_to_user changes what a file was given (open forgets it).      *)
LEMMA DeliveryStep ==
  ASSUME IndInv, [Next]_vars, NEW f \in Files,
         out'[f] # out[f], out'[f] # Nothing
  PROVE  \E t \in Threads : CopyToUser(t) /\ FileOf[t] = f
<1> USE DEF devVars, ringVars, fileVars, readerVars
<1>1. out \in [Files -> Copies \cup {Nothing}]
  BY DEF IndInv, TypeOK
<1>2. ASSUME NEW g \in Files, MetaOpen(g)
      PROVE  FALSE
  BY <1>1, <1>2 DEF MetaOpen
<1>3. ASSUME NEW t \in Threads, CopyToUser(t)
      PROVE  FileOf[t] = f
  BY <1>1, <1>3 DEF CopyToUser
<1>4. ASSUME NEW t \in Threads,
             \/ ReadBegin(t) \/ StatsPublished(t) \/ ReadInterrupted(t)
             \/ ReadWait(t) \/ ReadLocked(t) \/ CopyFault(t) \/ TailLoad(t)
             \/ TailStore(t) \/ StatsDropped(t)
      PROVE  FALSE
  BY <1>4 DEF ReadBegin, StatsPublished, ReadInterrupted, ReadWait,
     ReadLocked, CopyFault, TailLoad, TailStore, StatsDropped
<1>5. ASSUME NEW p \in Publishers,
             \/ \E row \in RowsAt[Len(log)] : PublishReserve(p, row)
             \/ Publishing(p)
      PROVE  FALSE
  BY <1>5
     DEF PublishReserve, Publishing, PublishFill, PublishUnlock, PublishWake
<1>6. ASSUME \/ VpipeInitDone \/ MetaExitDying \/ MetaExitWake \/ VpipeExit
             \/ \E g \in Files : MetaRelease(g)
      PROVE  FALSE
  BY <1>6 DEF VpipeInitDone, MetaExitDying, MetaExitWake, VpipeExit,
     MetaRelease
<1>7. CASE UNCHANGED vars
  BY <1>7 DEF vars
<1> QED
  BY <1>2, <1>3, <1>4, <1>5, <1>6, <1>7 DEF Next, Reading

(* What copy_to_user hands over, in terms of the log. *)
LEMMA DeliveryFacts ==
  ASSUME IndInv, NEW t \in Threads, CopyToUser(t)
  PROVE  LET f == FileOf[t]
             e == entry[t]
         IN /\ f \in Files /\ f \in open
            /\ e \in Copies /\ e.at \in Nat /\ e.at < head
            /\ e.row = log[e.at + 1] /\ e.version = Version
            /\ expect[f] <= e.at
            /\ expect[f] < e.at => e.at <= Oldest(head)
            /\ f \in SoundFiles => (e.overrun <=> expect[f] < e.at)
            /\ out' = [out EXCEPT ![f] = e]
            /\ expect' = [expect EXCEPT ![f] = e.at + 1]
            /\ UNCHANGED <<log, open, head>>
<1>1. /\ Genuine(entry[t]) /\ entry[t].at = tail[FileOf[t]]
      /\ MayStandAt(FileOf[t], tail[FileOf[t]])
      /\ FileOf[t] \in SoundFiles =>
           (entry[t].overrun <=> expect[FileOf[t]] < tail[FileOf[t]])
      /\ FileOf[t] \in open
  BY DEF CopyToUser, IndInv, IndReader
<1>2. entry[t] \in Copies /\ entry[t].at \in Nat
  BY <1>1 DEF Genuine, Copies
<1>3. /\ out' = [out EXCEPT ![FileOf[t]] = entry[t]]
      /\ expect' = [expect EXCEPT ![FileOf[t]] = entry[t].at + 1]
      /\ UNCHANGED <<log, open, head>>
  BY DEF CopyToUser, ringVars
<1> QED
  BY <1>1, <1>2, <1>3 DEF Genuine, MayStandAt

(* A reader is moved past a row only after the ring has overwritten it,    *)
(* failed copies included.                                                 *)
THEOREM SkipsOnlyOverwrittenHolds ==
  Exclusive => (Safety => SkipsOnlyOverwritten)
<1> DEFINE Skip == \A f \in Files : out'[f] # out[f] /\ out'[f] # Nothing =>
                     /\ out'[f].at >= expect[f]
                     /\ out'[f].at > expect[f] => out'[f].at <= Oldest(head)
<1>1. IndInv /\ [Next]_vars => Skip
  <2> SUFFICES ASSUME IndInv, [Next]_vars, NEW f \in Files,
                      out'[f] # out[f], out'[f] # Nothing
               PROVE  /\ out'[f].at >= expect[f]
                      /\ out'[f].at > expect[f] => out'[f].at <= Oldest(head)
    OBVIOUS
  <2>1. PICK t \in Threads : CopyToUser(t) /\ FileOf[t] = f
    BY DeliveryStep
  <2>2. out'[f] = entry[t]
    BY <2>1, DeliveryFacts DEF IndInv, TypeOK
  <2>3. expect[f] \in Nat
    BY DEF IndInv, TypeOK
  <2> QED
    BY <2>1, <2>2, <2>3, DeliveryFacts
<1>2. IndInv /\ [Next]_vars => [Skip]_vars
  BY <1>1
<1> QED
  BY <1>2, InvariantHolds, PTL DEF Safety, SkipsOnlyOverwritten

-----------------------------------------------------------------------------
(* The device implements MetaStream: publishing maps to Publish at the     *)
(* moment head is bumped, a delivery to Deliver at copy_to_user, and every *)
(* other step to a stutter.                                                *)

sExpect == [f \in SoundFiles |-> expect[f]]
sOut == [f \in SoundFiles |-> out[f]]

(* A step that changes none of the mapped variables is a stutter. *)
LEMMA StreamStutter ==
  ASSUME UNCHANGED <<log, open, expect, out>>
  PROVE  UNCHANGED Stream!vars
  BY DEF Stream!vars

(* Every step of the device is a step of the stream contract or a stutter. *)
LEMMA StreamStep ==
  ASSUME IndInv, [Next]_vars
  PROVE  [Stream!Next]_(Stream!vars)
<1> USE DEF devVars, ringVars, fileVars, readerVars
<1>0. /\ SoundFiles \subseteq Files
      /\ head = Len(log) /\ head \in Nat /\ log \in Seq(Rows)
      /\ out \in [Files -> Copies \cup {Nothing}]
      /\ expect \in [Files -> Nat]
  BY DEF IndInv, IndRing, TypeOK, SoundFiles
<1>1. ASSUME NEW p \in Publishers, NEW row \in RowsAt[Len(log)],
             PublishReserve(p, row)
      PROVE  Stream!Next
  <2>1. row \in Rows
    BY <1>0, <1>1 DEF PublishReserve
  <2>2. log' = Append(log, row) /\ UNCHANGED <<open, expect, out>>
    BY <1>1 DEF PublishReserve
  <2>3. Stream!Publish
    BY <2>1, <2>2 DEF Stream!Publish
  <2> QED
    BY <2>3 DEF Stream!Next
<1>2. ASSUME NEW f \in Files, MetaOpen(f)
      PROVE  [Stream!Next]_(Stream!vars)
  <2>1. /\ f \notin open /\ open' = open \cup {f} /\ log' = log
        /\ expect' = [expect EXCEPT ![f] = head]
        /\ out' = [out EXCEPT ![f] = Nothing]
    BY <1>2 DEF MetaOpen
  <2>2. CASE f \in SoundFiles
    <3>1. Stream!Open(f)
      BY <1>0, <2>1, <2>2 DEF Stream!Open
    <3> QED
      BY <2>2, <3>1 DEF Stream!Next
  <2>3. CASE f \notin SoundFiles
    <3>1. (open \cap SoundFiles)' = open \cap SoundFiles
      BY <2>1, <2>3 DEF SoundFiles
    <3>2. sExpect' = sExpect /\ sOut' = sOut
      BY <1>0, <2>1, <2>3 DEF sExpect, sOut, SoundFiles
    <3> QED
      BY <2>1, <3>1, <3>2 DEF Stream!vars, sExpect, sOut
  <2> QED
    BY <2>2, <2>3
<1>3. ASSUME NEW f \in Files, MetaRelease(f)
      PROVE  [Stream!Next]_(Stream!vars)
  <2>1. f \in open /\ open' = open \ {f} /\ UNCHANGED <<log, expect, out>>
    BY <1>3 DEF MetaRelease
  <2>2. CASE f \in SoundFiles
    <3>1. Stream!Close(f)
      BY <2>1, <2>2 DEF Stream!Close, SoundFiles
    <3> QED
      BY <2>2, <3>1 DEF Stream!Next
  <2>3. CASE f \notin SoundFiles
    BY <2>1, <2>3 DEF Stream!vars, SoundFiles
  <2> QED
    BY <2>2, <2>3
<1>4. ASSUME NEW t \in Threads, CopyToUser(t)
      PROVE  [Stream!Next]_(Stream!vars)
  <2> DEFINE f == FileOf[t]
             e == entry[t]
  <2>1. /\ f \in Files /\ f \in open
        /\ e \in Copies /\ e.at \in Nat /\ e.at < head
        /\ e.row = log[e.at + 1] /\ e.version = Version
        /\ expect[f] <= e.at
        /\ expect[f] < e.at => e.at <= Oldest(head)
        /\ f \in SoundFiles => (e.overrun <=> expect[f] < e.at)
        /\ out' = [out EXCEPT ![f] = e]
        /\ expect' = [expect EXCEPT ![f] = e.at + 1]
        /\ UNCHANGED <<log, open>>
    BY <1>4, DeliveryFacts
  <2> HIDE DEF f, e
  <2>2. CASE f \in SoundFiles
    <3>1. e = [at |-> e.at, row |-> log[e.at + 1], version |-> Version,
               overrun |-> e.at > expect[f]]
      BY <1>0, <2>1, <2>2 DEF Copies
    <3>2. /\ e.at \in expect[f] .. (Len(log) - 1)
          /\ e.at > expect[f] => e.at + RingSize <= Len(log)
      BY <1>0, <2>1 DEF Oldest
    <3>3. /\ sOut' = [sOut EXCEPT ![f] = e]
          /\ sExpect' = [sExpect EXCEPT ![f] = e.at + 1]
          /\ sExpect[f] = expect[f]
      BY <1>0, <2>1, <2>2 DEF sOut, sExpect, SoundFiles
    <3>4. Stream!Deliver(f)
      BY <2>1, <2>2, <3>1, <3>2, <3>3
         DEF Stream!Deliver, sOut, sExpect, SoundFiles
    <3> QED
      BY <2>2, <3>4 DEF Stream!Next
  <2>3. CASE f \notin SoundFiles
    <3>1. sExpect' = sExpect /\ sOut' = sOut
      BY <1>0, <2>1, <2>3 DEF sExpect, sOut, SoundFiles
    <3> QED
      BY <2>1, <3>1 DEF Stream!vars, sExpect, sOut, SoundFiles
  <2> QED
    BY <2>2, <2>3
<1>5. ASSUME NEW t \in Threads,
             \/ ReadBegin(t) \/ StatsPublished(t) \/ ReadInterrupted(t)
             \/ ReadWait(t) \/ ReadLocked(t) \/ CopyFault(t) \/ TailLoad(t)
             \/ TailStore(t) \/ StatsDropped(t)
      PROVE  UNCHANGED Stream!vars
  BY <1>5, StreamStutter DEF ReadBegin, StatsPublished, ReadInterrupted,
     ReadWait, ReadLocked, CopyFault, TailLoad, TailStore, StatsDropped
<1>6. ASSUME NEW p \in Publishers, Publishing(p)
      PROVE  UNCHANGED Stream!vars
  BY <1>6, StreamStutter
     DEF Publishing, PublishFill, PublishUnlock, PublishWake
<1>7. CASE VpipeInitDone \/ MetaExitDying \/ MetaExitWake \/ VpipeExit
  BY <1>7, StreamStutter
     DEF VpipeInitDone, MetaExitDying, MetaExitWake, VpipeExit
<1>8. CASE UNCHANGED vars
  BY <1>8, StreamStutter DEF vars
<1> QED
  BY <1>1, <1>2, <1>3, <1>4, <1>5, <1>6, <1>7, <1>8 DEF Next, Reading

(* With one thread per file, the ring device implements the stream         *)
(* contract for every file whose reads are given valid buffers.            *)
THEOREM RefinesStream == Exclusive => (Safety => ImplementsStream)
<1>1. Init => Stream!Init
  BY DEF Init, Stream!Init, SoundFiles
<1>2. IndInv /\ [Next]_vars => [Stream!Next]_(Stream!vars)
  BY StreamStep
<1> QED
  BY <1>1, <1>2, InvariantHolds, PTL DEF Safety, ImplementsStream, Stream!Spec
=============================================================================
