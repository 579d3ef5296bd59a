------------------------------ MODULE MetaRing ------------------------------
(***************************************************************************)
(* The metadata miscdevice, kmod/vpipe-meta.c: one global ring, publishers *)
(* that write it under a spinlock, and readers that each own an open file  *)
(* with a private cursor.                                                  *)
(*                                                                         *)
(* A publish is four steps: take the lock and bump head, fill the slot,    *)
(* set the drop count and unlock, wake the wait queue.  Splitting it       *)
(* matters because open, the wait condition and GET_STATS read head and    *)
(* the counters without the lock.  A read is the code's own sequence:      *)
(* wait, locked section, copy_to_user, and the unlocked tail++, which is a *)
(* load and a store.                                                       *)
(*                                                                         *)
(* log, expect, out and the "at" field of an entry are history variables:  *)
(* no guard reads them except the bound on the number of rows.             *)
(***************************************************************************)
EXTENDS Naturals, Sequences

CONSTANTS
  Rows,        \* what a publisher can pass in
  RowsAt,      \* RowsAt[n]: what the n-th publish (from 0) may pass in
  NoRow,       \* contents of a ring slot nobody has written (zeroed BSS)
  Nothing,     \* no entry
  RingSize,    \* VPIPE_META_RING_SIZE
  Publishers,  \* contexts that run vpipe_meta_publish
  NoOne,       \* the spinlock is free
  Threads,     \* userspace threads that read the device
  Files,       \* open file descriptions
  FileOf,      \* the file each thread reads from
  MayFault,    \* threads that may pass read() a bad buffer pointer
  MaxRows      \* bound on the number of rows published

ASSUME RingAssumption == RingSize \in Nat \ {0}
ASSUME ActorAssumption ==
  /\ FileOf \in [Threads -> Files]
  /\ MayFault \subseteq Threads
  /\ NoOne \notin Publishers
  /\ MaxRows \in Nat
  /\ \A n \in 0 .. MaxRows : RowsAt[n] \subseteq Rows

VARIABLES
  phase,      \* life of the module: loading, live, failing (init error), gone
  head,       \* g_meta.head
  ring,       \* g_meta.ring
  published,  \* g_meta.published
  dropped,    \* g_meta.dropped
  dying,      \* g_meta.dying
  lock,       \* holder of g_meta.lock
  src,        \* src[p]: the row publisher p was called with
  pub,        \* pub[p]: where publisher p is in vpipe_meta_publish
  open,       \* files that are open
  tail,       \* tail[f]: ctx->tail
  pc,         \* pc[t]: where thread t is in a system call on its file
  blocking,   \* blocking[t]: the call was made without O_NONBLOCK
  asleep,     \* threads parked on g_meta.wait
  entry,      \* entry[t]: the local copy of the ring entry
  reg,        \* reg[t]: register of an unfinished load/store pair
  log,        \* history: every row published
  expect,     \* history: position of the next row the file was not given
  out         \* history: the last entry copied to user space

devVars  == <<phase, dying>>
ringVars == <<head, ring, published, dropped, lock, src, pub, log>>
fileVars == <<open, expect, out>>
vars == <<phase, head, ring, published, dropped, dying, lock, src, pub, open,
          tail, pc, blocking, asleep, entry, reg, log, expect, out>>

Version == 2                       \* VPIPE_META_VERSION
Slot(i) == i % RingSize            \* i & VPIPE_META_RING_MASK

(* Plausible bug: the window is taken one row too large. *)
OldestLags(h) == IF h > RingSize THEN h - RingSize - 1 ELSE 0

Oldest(h) == IF h > RingSize THEN h - RingSize ELSE 0

Init ==
  /\ phase = "loading"
  /\ head = 0
  /\ ring = [i \in 0 .. RingSize - 1 |-> [row |-> NoRow, version |-> 0]]
  /\ published = 0 /\ dropped = 0
  /\ dying = FALSE
  /\ lock = NoOne
  /\ src = [p \in Publishers |-> NoRow]
  /\ pub = [p \in Publishers |-> "idle"]
  /\ open = {}
  /\ tail = [f \in Files |-> 0]
  /\ pc = [t \in Threads |-> "idle"]
  /\ blocking = [t \in Threads |-> FALSE]
  /\ asleep = {}
  /\ entry = [t \in Threads |-> Nothing]
  /\ reg = [t \in Threads |-> 0]
  /\ log = << >>
  /\ expect = [f \in Files |-> 0]
  /\ out = [f \in Files |-> Nothing]

-----------------------------------------------------------------------------
(* Module life.  The device node exists from misc_register on, while       *)
(* vpipe_init is still running; an init error after it runs                *)
(* vpipe_meta_exit with files possibly open.  A normal unload needs every  *)
(* file closed (fops.owner pins the module).                               *)

VpipeInitDone ==
  /\ phase = "loading" /\ phase' = "live"
  /\ UNCHANGED <<dying, ringVars, fileVars, tail, pc, blocking, asleep, entry,
                 reg>>

MetaExitDying ==
  /\ phase = "loading" /\ phase' = "failing"
  /\ dying' = TRUE
  /\ UNCHANGED <<ringVars, fileVars, tail, pc, blocking, asleep, entry, reg>>

MetaExitWake ==
  /\ phase = "failing" /\ phase' = "gone"
  /\ asleep' = {}
  /\ UNCHANGED <<dying, ringVars, fileVars, tail, pc, blocking, entry, reg>>

VpipeExit ==
  /\ phase = "live" /\ open = {}
  /\ \A p \in Publishers : pub[p] = "idle"
  /\ phase' = "gone" /\ dying' = TRUE
  /\ UNCHANGED <<ringVars, fileVars, tail, pc, blocking, asleep, entry, reg>>

-----------------------------------------------------------------------------
(* vpipe_meta_publish *)

readerVars == <<open, tail, pc, blocking, entry, reg, expect, out>>

PublishReserve(p, row) ==
  /\ phase = "live" /\ pub[p] = "idle" /\ lock = NoOne
  /\ Len(log) < MaxRows
  /\ lock' = p
  /\ head' = head + 1
  /\ src' = [src EXCEPT ![p] = row]
  /\ pub' = [pub EXCEPT ![p] = "fill"]
  /\ log' = Append(log, row)
  /\ UNCHANGED <<devVars, ring, published, dropped, asleep, readerVars>>

(* Plausible bug: the slot is indexed with the incremented head. *)
PublishFillNext(p) ==
  /\ pub[p] = "fill"
  /\ ring' = [ring EXCEPT ![Slot(head)] =
                [row |-> src[p], version |-> Version]]
  /\ published' = published + 1
  /\ pub' = [pub EXCEPT ![p] = "unlock"]
  /\ UNCHANGED <<devVars, head, dropped, lock, src, log, asleep, readerVars>>

PublishFill(p) ==
  /\ pub[p] = "fill"
  /\ ring' = [ring EXCEPT ![Slot(head - 1)] =
                [row |-> src[p], version |-> Version]]
  /\ published' = published + 1
  /\ pub' = [pub EXCEPT ![p] = "unlock"]
  /\ UNCHANGED <<devVars, head, dropped, lock, src, log, asleep, readerVars>>

(* Plausible bug: the drop count is set before the ring has wrapped. *)
PublishUnlockUnguarded(p) ==
  /\ pub[p] = "unlock"
  /\ dropped' = head - RingSize
  /\ lock' = NoOne
  /\ pub' = [pub EXCEPT ![p] = "wake"]
  /\ UNCHANGED <<devVars, head, ring, published, src, log, asleep, readerVars>>

(* Plausible bug: the drop count is never brought up to date. *)
PublishUnlockNoCount(p) ==
  /\ pub[p] = "unlock"
  /\ lock' = NoOne
  /\ pub' = [pub EXCEPT ![p] = "wake"]
  /\ UNCHANGED <<devVars, head, ring, published, dropped, src, log, asleep,
                 readerVars>>

PublishUnlock(p) ==
  /\ pub[p] = "unlock"
  /\ dropped' = IF head > RingSize THEN head - RingSize ELSE dropped
  /\ lock' = NoOne
  /\ pub' = [pub EXCEPT ![p] = "wake"]
  /\ UNCHANGED <<devVars, head, ring, published, src, log, asleep, readerVars>>

(* Plausible bug: publishing wakes nobody. *)
PublishNoWake(p) ==
  /\ pub[p] = "wake"
  /\ pub' = [pub EXCEPT ![p] = "idle"]
  /\ UNCHANGED <<devVars, head, ring, published, dropped, lock, src, log,
                 asleep, readerVars>>

PublishWake(p) ==
  /\ pub[p] = "wake"
  /\ asleep' = {}
  /\ pub' = [pub EXCEPT ![p] = "idle"]
  /\ UNCHANGED <<devVars, head, ring, published, dropped, lock, src, log,
                 readerVars>>

-----------------------------------------------------------------------------
(* vpipe_meta_open and vpipe_meta_release *)

MetaOpen(f) ==
  /\ phase # "gone" /\ f \notin open
  /\ open' = open \cup {f}
  /\ tail' = [tail EXCEPT ![f] = head]
  /\ expect' = [expect EXCEPT ![f] = head]
  /\ out' = [out EXCEPT ![f] = Nothing]
  /\ UNCHANGED <<devVars, ringVars, pc, blocking, asleep, entry, reg>>

MetaRelease(f) ==
  /\ f \in open
  /\ \A t \in Threads : FileOf[t] = f => pc[t] = "idle"
  /\ open' = open \ {f}
  /\ UNCHANGED <<devVars, ringVars, tail, pc, blocking, asleep, entry, reg,
                 expect, out>>

-----------------------------------------------------------------------------
(* vpipe_meta_read.  A short count returns -EINVAL before any state is     *)
(* touched and is left out.                                                *)

Goto(t, label) == pc' = [pc EXCEPT ![t] = label]

(* Leave the system call: the stack frame and its locals are gone.         *)
Return(t) ==
  /\ Goto(t, "idle")
  /\ blocking' = [blocking EXCEPT ![t] = FALSE]
  /\ entry' = [entry EXCEPT ![t] = Nothing]
  /\ reg' = [reg EXCEPT ![t] = 0]

Readable(f) == dying \/ head # tail[f]

ReadBegin(t) ==
  /\ pc[t] = "idle" /\ FileOf[t] \in open
  /\ \E b \in BOOLEAN :
       /\ blocking' = [blocking EXCEPT ![t] = b]
       /\ Goto(t, IF b THEN "wait" ELSE "lock")
  /\ UNCHANGED <<devVars, ringVars, fileVars, tail, asleep, entry, reg>>

(* Plausible bug: a wake-up is taken for a row, without testing again. *)
ReadWaitNoTest(t) ==
  /\ pc[t] = "wait" /\ t \notin asleep
  /\ Goto(t, "lock")
  /\ UNCHANGED <<devVars, ringVars, fileVars, tail, blocking, asleep, entry,
                 reg>>

(* One turn of wait_event_interruptible: queue, test, sleep. *)
ReadWait(t) ==
  /\ pc[t] = "wait" /\ t \notin asleep
  /\ \/ /\ Readable(FileOf[t])
        /\ Goto(t, "lock")
        /\ UNCHANGED asleep
     \/ /\ ~Readable(FileOf[t])
        /\ asleep' = asleep \cup {t}
        /\ UNCHANGED pc
  /\ UNCHANGED <<devVars, ringVars, fileVars, tail, blocking, entry, reg>>

(* A signal: -ERESTARTSYS. *)
ReadInterrupted(t) ==
  /\ pc[t] = "wait"
  /\ asleep' = asleep \ {t}
  /\ Return(t)
  /\ UNCHANGED <<devVars, ringVars, fileVars, tail>>

Overrun(f) == tail[f] < Oldest(head)
CatchUp(f) == IF Overrun(f) THEN Oldest(head) ELSE tail[f]

(* The local copy of slot "at".                                            *)
(* Plausible bug: the reader is caught up without being told.              *)
EntryUnflagged(at, overrun) ==
  [at |-> at, row |-> ring[Slot(at)].row, version |-> ring[Slot(at)].version,
   overrun |-> FALSE]

EntryAt(at, overrun) ==
  [at |-> at, row |-> ring[Slot(at)].row, version |-> ring[Slot(at)].version,
   overrun |-> overrun]

(* The section under g_meta.lock: 0 when the device is dying, -EAGAIN when *)
(* the cursor is at head, else catch up and copy the slot.                 *)
ReadLocked(t) ==
  LET f == FileOf[t] IN
  /\ pc[t] = "lock" /\ lock = NoOne
  /\ \/ /\ ~Readable(f) \/ dying
        /\ Return(t)
        /\ UNCHANGED tail
     \/ /\ ~dying /\ tail[f] # head
        /\ tail' = [tail EXCEPT ![f] = CatchUp(f)]
        /\ entry' = [entry EXCEPT ![t] = EntryAt(CatchUp(f), Overrun(f))]
        /\ Goto(t, "copy")
        /\ UNCHANGED <<blocking, reg>>
  /\ UNCHANGED <<devVars, ringVars, fileVars, asleep>>

(* Plausible bug: the cursor moves before the copy is known to be good. *)
CopyFaultAdvances(t) ==
  /\ pc[t] = "copy" /\ t \in MayFault
  /\ tail' = [tail EXCEPT ![FileOf[t]] = @ + 1]
  /\ Return(t)
  /\ UNCHANGED <<devVars, ringVars, fileVars, asleep>>

(* copy_to_user fails: -EFAULT. *)
CopyFault(t) ==
  /\ pc[t] = "copy" /\ t \in MayFault
  /\ Return(t)
  /\ UNCHANGED <<devVars, ringVars, fileVars, tail, asleep>>

CopyToUser(t) ==
  /\ pc[t] = "copy"
  /\ Goto(t, "load")
  /\ out' = [out EXCEPT ![FileOf[t]] = entry[t]]
  /\ expect' = [expect EXCEPT ![FileOf[t]] = entry[t].at + 1]
  /\ UNCHANGED <<devVars, ringVars, open, tail, blocking, asleep, entry, reg>>

TailLoad(t) ==
  /\ pc[t] = "load"
  /\ reg' = [reg EXCEPT ![t] = tail[FileOf[t]]]
  /\ Goto(t, "store")
  /\ UNCHANGED <<devVars, ringVars, fileVars, tail, blocking, asleep, entry>>

TailStore(t) ==
  /\ pc[t] = "store"
  /\ tail' = [tail EXCEPT ![FileOf[t]] = reg[t] + 1]
  /\ Return(t)
  /\ UNCHANGED <<devVars, ringVars, fileVars, asleep>>

(* VPIPE_META_IOC_GET_STATS: two atomic loads, no lock. *)
StatsPublished(t) ==
  /\ pc[t] = "idle" /\ FileOf[t] \in open
  /\ reg' = [reg EXCEPT ![t] = published]
  /\ Goto(t, "stats")
  /\ UNCHANGED <<devVars, ringVars, fileVars, tail, blocking, asleep, entry>>

StatsDropped(t) ==
  /\ pc[t] = "stats"
  /\ Return(t)
  /\ UNCHANGED <<devVars, ringVars, fileVars, tail, asleep>>

-----------------------------------------------------------------------------
Publishing(p) == PublishFill(p) \/ PublishUnlock(p) \/ PublishWake(p)

(* The steps a read takes by itself once it has been called. *)
Reading(t) ==
  \/ ReadWait(t) \/ ReadLocked(t) \/ CopyFault(t) \/ CopyToUser(t)
  \/ TailLoad(t) \/ TailStore(t) \/ StatsDropped(t)

Next ==
  \/ VpipeInitDone \/ MetaExitDying \/ MetaExitWake \/ VpipeExit
  \/ \E p \in Publishers :
       Publishing(p) \/ \E row \in RowsAt[Len(log)] : PublishReserve(p, row)
  \/ \E f \in Files : MetaOpen(f) \/ MetaRelease(f)
  \/ \E t \in Threads : ReadBegin(t) \/ StatsPublished(t) \/ ReadInterrupted(t)
                         \/ Reading(t)

(* A publish is straight-line kernel code, and so is a read but for its    *)
(* wait; the kernel's queued spinlocks are granted in order.               *)
Fairness ==
  /\ WF_vars(MetaExitWake)
  /\ \A p \in Publishers : WF_vars(Publishing(p))
  /\ \A t \in Threads : SF_vars(Reading(t))

Safety == Init /\ [][Next]_vars
Spec == Safety /\ Fairness

-----------------------------------------------------------------------------
(* The threads of the read side respect one file each. *)
Exclusive == \A t, u \in Threads : FileOf[t] = FileOf[u] => t = u

Entries == [row : Rows \cup {NoRow}, version : {0, Version}]
Copies == [at : Nat, row : Rows \cup {NoRow}, version : {0, Version},
           overrun : BOOLEAN]

TypeOK ==
  /\ phase \in {"loading", "live", "failing", "gone"}
  /\ head \in Nat /\ published \in Nat /\ dropped \in Nat
  /\ ring \in [0 .. RingSize - 1 -> Entries]
  /\ dying \in BOOLEAN
  /\ lock \in Publishers \cup {NoOne}
  /\ src \in [Publishers -> Rows \cup {NoRow}]
  /\ pub \in [Publishers -> {"idle", "fill", "unlock", "wake"}]
  /\ open \subseteq Files
  /\ tail \in [Files -> Nat]
  /\ pc \in [Threads -> {"idle", "wait", "lock", "copy", "load", "store",
                         "stats"}]
  /\ blocking \in [Threads -> BOOLEAN]
  /\ asleep \subseteq Threads
  /\ entry \in [Threads -> Copies \cup {Nothing}]
  /\ reg \in [Threads -> Nat]
  /\ log \in Seq(Rows)
  /\ expect \in [Files -> Nat]
  /\ out \in [Files -> Copies \cup {Nothing}]

(* Whenever the spinlock is free the ring holds exactly the newest         *)
(* RingSize rows, each at its own slot and with its version stamped, and   *)
(* the two counters agree with head (vpipe_meta_publish).                  *)
RingWindow ==
  lock = NoOne =>
    /\ head = Len(log) /\ published = head /\ dropped = Oldest(head)
    /\ \A i \in Oldest(head) .. head - 1 :
         ring[Slot(i)] = [row |-> log[i + 1], version |-> Version]

(* What a read hands to user space is a row that was published, taken from *)
(* the position the cursor stood at, with the version the publisher        *)
(* stamped, even if the row was overwritten since the copy was taken.      *)
DeliveredWasPublished ==
  \A f \in Files : out[f] # Nothing =>
    /\ out[f].at < Len(log)
    /\ out[f].row = log[out[f].at + 1]
    /\ out[f].version = Version

(* A read called without O_NONBLOCK finds a row (or a dying device) once   *)
(* it holds the lock: the wait condition, tested without the lock, is      *)
(* still true, so such a read never returns -EAGAIN.                       *)
WaitStaysTrue ==
  \A t \in Threads :
    pc[t] = "lock" /\ blocking[t] => Readable(FileOf[t])

(* GET_STATS loads its two counters one after the other and without the    *)
(* lock; the rows it implies are still in the ring never exceed the ring   *)
(* by more than the one publish in flight.                                 *)
StatsWithinRing ==
  \A t \in Threads : pc[t] = "stats" => reg[t] <= dropped + RingSize + 1

(* A file is moved past rows only when the ring has already overwritten    *)
(* them, also when an earlier read of it failed with -EFAULT: a failed     *)
(* copy loses nothing that is still there.                                 *)
SkipsOnlyOverwritten ==
  [][\A f \in Files : out'[f] # out[f] /\ out'[f] # Nothing =>
       /\ out'[f].at >= expect[f]
       /\ out'[f].at > expect[f] => out'[f].at <= Oldest(head)]_vars

(* Every gap a reader is given is marked: the row after lost rows carries  *)
(* VPIPE_META_F_OVERRUN.                                                   *)
GapsFlagged ==
  [][\A f \in Files : out'[f] # out[f] /\ out'[f] # Nothing =>
       (out'[f].at > expect[f] => out'[f].overrun)]_vars

(* "readers always see normalized entries": no slot that was never written *)
(* reaches user space.                                                     *)
NormalizedEntries ==
  \A f \in Files : out[f] # Nothing => out[f].version = Version

(* No lost wake-up: a read that has something to return does return, even  *)
(* when the row was published between its test and its sleep.              *)
ReadsReturn ==
  \A t \in Threads :
    (pc[t] # "idle" /\ Readable(FileOf[t])) ~> (pc[t] = "idle")

(* Files whose threads pass valid buffers keep the whole contract.         *)
SoundFiles == Files \ {FileOf[t] : t \in MayFault}
Stream == INSTANCE MetaStream WITH
            Files <- SoundFiles,
            open <- open \cap SoundFiles,
            expect <- [f \in SoundFiles |-> expect[f]],
            out <- [f \in SoundFiles |-> out[f]]

(* The device with its ring, lock and unlocked cursor implements the       *)
(* stream contract for every file used by one thread with valid buffers.   *)
ImplementsStream == Stream!Spec

-----------------------------------------------------------------------------
(* The inductive invariant behind the theorems of MetaRingProofs.          *)

(* copy_to_user is reached only with the local entry filled in. *)
EntryTaken == \A t \in Threads : pc[t] = "copy" => entry[t] \in Copies

Filled(n) ==
  \A i \in Oldest(head) .. n - 1 :
    ring[Slot(i)] = [row |-> log[i + 1], version |-> Version]

(* What the publisher holding the lock has done so far. *)
IndRing ==
  /\ head = Len(log)
  /\ \A p \in Publishers : (pub[p] \in {"fill", "unlock"}) <=> (lock = p)
  /\ \/ /\ lock = NoOne
        /\ published = head /\ dropped = Oldest(head) /\ Filled(head)
     \/ /\ lock \in Publishers /\ pub[lock] = "fill"
        /\ head > 0 /\ src[lock] = log[head]
        /\ published = head - 1 /\ dropped = Oldest(head - 1)
        /\ Filled(head - 1)
     \/ /\ lock \in Publishers /\ pub[lock] = "unlock"
        /\ head > 0
        /\ published = head /\ dropped = Oldest(head - 1) /\ Filled(head)

(* "c was copied from the log at position c.at." *)
Genuine(c) ==
  /\ c \in Copies
  /\ c.at < head /\ c.row = log[c.at + 1] /\ c.version = Version

(* The cursor of f may stand at "at": what was skipped is overwritten, and *)
(* nothing was skipped unless a read of f failed after catching up.        *)
MayStandAt(f, at) ==
  /\ expect[f] <= at
  /\ expect[f] < at => at <= Oldest(head)

IndReader(t) ==
  LET f == FileOf[t] IN
  /\ t \in asleep => pc[t] = "wait"
  /\ pc[t] # "idle" => f \in open
  /\ pc[t] \in {"idle", "wait", "lock", "stats"} =>
       /\ tail[f] <= head /\ MayStandAt(f, tail[f])
       /\ f \in SoundFiles => tail[f] = expect[f]
  /\ pc[t] = "lock" /\ blocking[t] => Readable(f)
  /\ pc[t] = "copy" =>
       /\ Genuine(entry[t]) /\ entry[t].at = tail[f]
       /\ MayStandAt(f, tail[f])
       /\ f \in SoundFiles => (entry[t].overrun <=> expect[f] < tail[f])
  /\ pc[t] \in {"load", "store"} =>
       tail[f] < head /\ expect[f] = tail[f] + 1
  /\ pc[t] = "store" => reg[t] = tail[f]

IndFile(f) == out[f] # Nothing => Genuine(out[f])

IndInv ==
  /\ TypeOK /\ IndRing
  /\ \A t \in Threads : IndReader(t)
  /\ \A f \in Files : IndFile(f)
=============================================================================
