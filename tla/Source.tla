------------------------------- MODULE Source -------------------------------
(***************************************************************************)
(* The source framework, kmod/vpipe-source.c, its three backends, and the  *)
(* calls the mem2mem node makes to them.                                   *)
(*                                                                         *)
(* Each context has one source.  STREAMON of OUTPUT starts it, QBUF asks   *)
(* it for a frame, STREAMOFF stops it.  The vcam-derived backend draws its *)
(* frames on a reference-counted framebuffer, its surface, which can be    *)
(* exported as a DMA-BUF: the stream and every live DMA-BUF hold one       *)
(* reference, and importers keep theirs as long as they like.              *)
(*                                                                         *)
(* The ioctls serialise on dev_lock.  Closing the file and whatever is     *)
(* done with an exported DMA-BUF do not take it and interleave with an     *)
(* export, which is two steps.                                             *)
(*                                                                         *)
(* Sizes are bytes.  Both queues have one size because S_FMT on either     *)
(* copies it to the other.  Time stamps and the source's own frame number  *)
(* (which nobody reads) are left out.                                      *)
(***************************************************************************)
EXTENDS Naturals, Sequences, FiniteSets

CONSTANTS
  Ctxs,         \* contexts: open files of the video node
  Sizes,        \* values of sizeimage
  DefaultSize,  \* sizeimage of a new context
  PageSize,
  DropRates,    \* values of the parameters vcam_ and synthetic_drop_every
  MaxStarts,    \* bound on the framebuffers allocated
  MaxExports,   \* bound on the DMA-BUFs created
  MaxMaps,      \* bound on the mappings of a DMA-BUF at a time
  MaxFrames     \* bound on the frames of a stream

ASSUME SourceAssumption ==
  /\ Ctxs # {} /\ IsFiniteSet(Ctxs)
  /\ Sizes \subseteq Nat \ {0} /\ DefaultSize \in Sizes
  /\ PageSize \in Nat \ {0} /\ DropRates \subseteq Nat
  /\ MaxStarts \in Nat /\ MaxExports \in Nat
  /\ MaxMaps \in Nat /\ MaxFrames \in Nat

Backends == {"FIXTURE", "SYNTHETIC", "VCAM"}
Queues == {"OUT", "CAP"}
Fbs == 1 .. MaxStarts
Dbufs == 1 .. MaxExports

VARIABLES
  registered,  \* vpipe_backend_ops
  file,        \* file[c]: what the context's queues have to do with sources
  src,         \* src[c]: ctx->src
  fb,          \* fb[f]: struct vcam_fb
  starts,      \* framebuffers allocated so far
  dbuf,        \* dbuf[d]: an exported DMA-BUF and its users
  exports,     \* DMA-BUFs created so far
  exp,         \* the EXPORT_SRC_DMABUF that is between its two steps
  frames       \* history: frames[c]: frames since the source was started

vars == <<registered, file, src, fb, starts, dbuf, exports, exp, frames>>
fbVars == <<fb, starts>>
dbufVars == <<dbuf, exports>>

NoPriv == [on |-> FALSE, fb |-> 0, offset |-> 0, produced |-> 0, drop |-> 0]

(* bad: used after it was freed *)
NewSource(b) == [id |-> b, priv |-> NoPriv, bad |-> FALSE]
Freed(s) == [s EXCEPT !.id = "freed", !.priv = NoPriv]

(* out, cap: plane size of the queue's buffers, 0 if it has none;          *)
(* pre: an OUTPUT buffer was queued before STREAMON;                       *)
(* prep: OUTPUT buffers not queued have been prepared by PREPARE_BUF.      *)
Closed == [state |-> "closed", size |-> DefaultSize, out |-> 0, cap |-> 0,
           on |-> {}, pre |-> FALSE, prep |-> FALSE]

(* shown: 0 while blank, else 1 plus the pattern offset drawn last *)
NoFb == [refs |-> 0, size |-> 0, shown |-> 0, bad |-> FALSE]
NoDbuf == [fb |-> 0, fd |-> FALSE, maps |-> 0]
Idle == [on |-> FALSE, ctx |-> CHOOSE c \in Ctxs : TRUE, fb |-> 0]

Init ==
  /\ registered = {}
  /\ file = [c \in Ctxs |-> Closed]
  /\ src = [c \in Ctxs |-> NewSource("freed")]
  /\ fb = [f \in Fbs |-> NoFb]
  /\ starts = 0
  /\ dbuf = [d \in Dbufs |-> NoDbuf]
  /\ exports = 0
  /\ exp = Idle
  /\ frames = [c \in Ctxs |-> << >>]

DevLock == ~exp.on
Opened(c) == file[c].state = "open"

-----------------------------------------------------------------------------
(* The framebuffer's reference count; F is a value of fb. *)

PageAlign(n) == ((n + PageSize - 1) \div PageSize) * PageSize

KrefGet(F, f) ==
  [F EXCEPT ![f].refs = @ + 1, ![f].bad = @ \/ F[f].refs = 0]

(* vcam_fb_release frees it when the count gets to 0. *)
KrefPut(F, f) ==
  CASE F[f].refs = 0 -> [F EXCEPT ![f].bad = TRUE]
    [] F[f].refs = 1 -> [F EXCEPT ![f] = [NoFb EXCEPT !.bad = F[f].bad]]
    [] OTHER -> [F EXCEPT ![f].refs = @ - 1]

Touch(F, f) == [F EXCEPT ![f].bad = @ \/ F[f].refs = 0]

-----------------------------------------------------------------------------
(* Backends *)

FreshPriv(f, n) == [NoPriv EXCEPT !.on = TRUE, !.fb = f, !.drop = n]

(* Plausible bug: a start takes up a framebuffer an importer keeps alive. *)
FbReuse(F) ==
  LET kept == {f \in Fbs : F[f].refs > 0}
  IN IF kept = {} THEN starts + 1 ELSE CHOOSE f \in kept : TRUE

(* Plausible bug: nobody notices that the allocation returned NULL. *)
FbAllocNull(F) == 0

(* vcam_fb_alloc: a new object each time *)
FbAlloc(F) == starts + 1

(* ops->stop and what it does to the framebuffers *)
StopSource(s) == [s EXCEPT !.priv = NoPriv, !.bad = @ \/ s.id = "freed"]

StopFb(s, F) ==
  IF s.id = "VCAM" /\ s.priv.on THEN KrefPut(F, s.priv.fb) ELSE F

(* Plausible bug: the size of the surface is not tested. *)
RejectsUnsized(s, F, size, mapped) ==
  s.id # "FIXTURE" /\ (~s.priv.on \/ ~mapped)

(* next_frame returns an error: not started, no kernel mapping of the      *)
(* buffer, or the frame does not fit on the surface.                       *)
Rejects(s, F, size, mapped) ==
  \/ s.id # "FIXTURE" /\ (~s.priv.on \/ ~mapped)
  \/ s.id = "VCAM" /\ s.priv.on /\ size > F[s.priv.fb].size

(* The synthetic backend counts before the test, the vcam-derived after. *)
Drops(s) ==
  /\ s.priv.drop # 0
  /\ \/ s.id = "SYNTHETIC" /\ (s.priv.produced + 1) % s.priv.drop = 0
     \/ s.id = "VCAM" /\ s.priv.produced % s.priv.drop = 0

Draws(s) == s.id # "FIXTURE" /\ ~Drops(s)

(* Plausible bug: the drop path leaves without counting the frame. *)
CountFrameDrawn(s) ==
  IF Draws(s) THEN [s EXCEPT !.priv.produced = @ + 1, !.priv.offset = @ + 1]
  ELSE s

CountFrame(s) ==
  IF s.id = "FIXTURE" THEN s
  ELSE [s EXCEPT !.priv.produced = @ + 1,
                 !.priv.offset = IF Drops(s) THEN @ ELSE @ + 1]

(* Plausible bug: the surface is drawn before the drop is decided. *)
DrawAlways(s, F) ==
  IF s.id = "VCAM"
  THEN [Touch(F, s.priv.fb) EXCEPT ![s.priv.fb].shown = s.priv.offset + 1]
  ELSE F

(* vcam_fill_gradient *)
DrawFb(s, F) ==
  IF s.id = "VCAM" /\ Draws(s)
  THEN [Touch(F, s.priv.fb) EXCEPT ![s.priv.fb].shown = s.priv.offset + 1]
  ELSE F

(* What next_frame put into the OUTPUT buffer.  The rest is history: does  *)
(* what was written fit into the buffer's plane and on the surface, and    *)
(* had the buffer been prepared earlier, for a smaller frame.              *)
FrameOf(s, F, size, plane, early) ==
  [dropped |-> Drops(s), shown |-> IF Draws(s) THEN s.priv.offset + 1 ELSE 0,
   inPlane |-> Draws(s) => size <= plane,
   onSurface |-> s.id = "VCAM" /\ Draws(s) => size <= F[s.priv.fb].size,
   early |-> early /\ plane < size]

(* vpipe_buf_queue of an OUTPUT buffer; the result of next_frame is        *)
(* ignored.                                                                *)
BufQueue(c, mapped, early) ==
  IF Rejects(src[c], fb, file[c].size, mapped)
  THEN UNCHANGED <<src, fb, frames>>
  ELSE /\ Len(frames[c]) < MaxFrames
       /\ src' = [src EXCEPT ![c] = CountFrame(@)]
       /\ fb' = DrawFb(src[c], fb)
       /\ frames' = [frames EXCEPT ![c] = Append(@,
            FrameOf(src[c], fb, file[c].size, file[c].out, early))]

-----------------------------------------------------------------------------
(* Module initialisation and the video node *)

(* A second registration returns -EBUSY; the node appears after the last. *)
Register(b) ==
  /\ b \notin registered
  /\ registered' = registered \cup {b}
  /\ UNCHANGED <<file, src, fbVars, dbufVars, exp, frames>>

Open(c) ==
  /\ registered = Backends
  /\ file[c].state = "closed"
  /\ file' = [file EXCEPT ![c] = [Closed EXCEPT !.state = "open"]]
  /\ src' = [src EXCEPT ![c] = NewSource("FIXTURE")]
  /\ UNCHANGED <<registered, fbVars, dbufVars, exp, frames>>

(* vpipe_release destroys the source, then releases the queues, whose      *)
(* stop_streaming calls the source if OUTPUT is still streaming.  What the *)
(* use of freed memory leads to is not followed any further.               *)
ReleaseSource(c) ==
  /\ Opened(c) /\ (exp.on => exp.ctx # c)
  /\ file' = [file EXCEPT ![c].state = "closing"]
  /\ src' = [src EXCEPT ![c] = Freed(StopSource(@))]
  /\ fb' = StopFb(src[c], fb)
  /\ frames' = [frames EXCEPT ![c] = << >>]
  /\ UNCHANGED <<registered, starts, dbufVars, exp>>

ReleaseQueues(c) ==
  /\ file[c].state = "closing"
  /\ file' = [file EXCEPT ![c] = Closed]
  /\ src' = [src EXCEPT ![c] = IF "OUT" \in file[c].on THEN StopSource(@) ELSE @]
  /\ UNCHANGED <<registered, fbVars, dbufVars, exp, frames>>

(* VPIPE_IOC_SET_BACKEND: the old source is destroyed. *)
SetBackend(c, b) ==
  /\ DevLock /\ Opened(c) /\ file[c].on = {}
  /\ b \in registered
  /\ src' = [src EXCEPT ![c] = NewSource(b)]
  /\ fb' = StopFb(src[c], fb)
  /\ frames' = [frames EXCEPT ![c] = << >>]
  /\ UNCHANGED <<registered, file, starts, dbufVars, exp>>

(* VIDIOC_S_FMT on queue t, which may not have buffers; the other may. *)
SFmt(c, t, s) ==
  /\ DevLock /\ Opened(c) /\ file[c].size # s
  /\ (IF t = "OUT" THEN file[c].out ELSE file[c].cap) = 0
  /\ file' = [file EXCEPT ![c].size = s]
  /\ UNCHANGED <<registered, src, fbVars, dbufVars, exp, frames>>

(* VIDIOC_REQBUFS with a count, or with 0. *)
ReqBufs(c, t, b) ==
  LET plane == IF b THEN file[c].size ELSE 0 IN
  /\ DevLock /\ Opened(c) /\ t \notin file[c].on
  /\ file' = [file EXCEPT ![c] = IF t = "OUT"
                                 THEN [@ EXCEPT !.out = plane, !.pre = FALSE,
                                                !.prep = FALSE]
                                 ELSE [@ EXCEPT !.cap = plane]]
  /\ UNCHANGED <<registered, src, fbVars, dbufVars, exp, frames>>

(* Plausible bug: the size of the buffer is not tested. *)
BufPrepareAny(c) == TRUE

(* vpipe_buf_prepare *)
BufPrepare(c) == file[c].out >= file[c].size

(* VIDIOC_PREPARE_BUF of an OUTPUT buffer *)
PrepareBuf(c) ==
  /\ DevLock /\ Opened(c) /\ file[c].out # 0 /\ BufPrepare(c)
  /\ ~file[c].prep
  /\ file' = [file EXCEPT ![c].prep = TRUE]
  /\ UNCHANGED <<registered, src, fbVars, dbufVars, exp, frames>>

(* VIDIOC_QBUF of an OUTPUT buffer: videobuf2 calls buf_prepare unless the *)
(* buffer has been prepared.  left: other prepared buffers are left.       *)
QBuf(c) ==
  \E early, left, mapped \in BOOLEAN :
    /\ DevLock /\ Opened(c) /\ file[c].out # 0
    /\ IF early THEN file[c].prep ELSE BufPrepare(c) /\ left = file[c].prep
    /\ LET on == "OUT" \in file[c].on IN
         /\ IF on THEN BufQueue(c, mapped, early) ELSE UNCHANGED <<src, fb, frames>>
         /\ file' = [file EXCEPT ![c].pre = @ \/ ~on, ![c].prep = left]
    /\ UNCHANGED <<registered, starts, dbufVars, exp>>

(* VIDIOC_STREAMON of OUTPUT: buf_queue for the waiting buffer, then       *)
(* start_streaming.  Asked is what next_frame does to the source then.     *)
Asked(c) ==
  IF file[c].pre /\ ~Rejects(src[c], fb, file[c].size, TRUE)
  THEN CountFrame(src[c]) ELSE src[c]
Drawn(c) ==
  IF file[c].pre /\ ~Rejects(src[c], fb, file[c].size, TRUE)
  THEN DrawFb(src[c], fb) ELSE fb

StreamOnOut(c, n) ==
  LET f == FbAlloc(fb)  vcam == src[c].id = "VCAM" IN
  /\ DevLock /\ Opened(c) /\ file[c].out # 0 /\ "OUT" \notin file[c].on
  /\ file' = [file EXCEPT ![c].on = @ \cup {"OUT"}, ![c].pre = FALSE]
  /\ frames' = [frames EXCEPT ![c] = << >>]
  /\ src' = [src EXCEPT ![c] =
       IF src[c].id = "FIXTURE" THEN Asked(c)
       ELSE [Asked(c) EXCEPT !.priv = FreshPriv(IF vcam THEN f ELSE 0, n)]]
  /\ IF vcam
     THEN /\ starts < MaxStarts
          /\ starts' = IF f > starts THEN f ELSE starts
          /\ fb' = [Drawn(c) EXCEPT ![f].refs = @ + 1,
                                    ![f].size = PageAlign(file[c].size)]
     ELSE fb' = Drawn(c) /\ UNCHANGED starts
  /\ UNCHANGED <<registered, dbufVars, exp>>

(* The backend runs out of memory; the buffer waits again. *)
StreamOnFails(c) ==
  /\ DevLock /\ Opened(c) /\ file[c].out # 0 /\ "OUT" \notin file[c].on
  /\ src[c].id # "FIXTURE"
  /\ src' = [src EXCEPT ![c] = Asked(c)]
  /\ fb' = Drawn(c)
  /\ UNCHANGED <<registered, file, starts, dbufVars, exp, frames>>

StreamOnCap(c) ==
  /\ DevLock /\ Opened(c) /\ file[c].cap # 0 /\ "CAP" \notin file[c].on
  /\ file' = [file EXCEPT ![c].on = @ \cup {"CAP"}]
  /\ UNCHANGED <<registered, src, fbVars, dbufVars, exp, frames>>

(* Plausible bug: the source is stopped with the other queue. *)
StopsSourceCap(c, t) == t = "CAP" /\ "CAP" \in file[c].on

(* vpipe_stop_streaming is called on a queue that was started. *)
StopsSource(c, t) == t = "OUT" /\ "OUT" \in file[c].on

(* VIDIOC_STREAMOFF *)
StreamOff(c, t) ==
  LET stop == StopsSource(c, t) IN
  /\ DevLock /\ Opened(c)
  /\ t \in file[c].on \/ (t = "OUT" /\ (file[c].pre \/ file[c].prep))
  /\ file' = [file EXCEPT ![c].on = @ \ {t},
                          ![c].pre = @ /\ t # "OUT", ![c].prep = @ /\ t # "OUT"]
  /\ src' = IF stop THEN [src EXCEPT ![c] = StopSource(@)] ELSE src
  /\ fb' = IF stop THEN StopFb(src[c], fb) ELSE fb
  /\ frames' = IF stop THEN [frames EXCEPT ![c] = << >>] ELSE frames
  /\ UNCHANGED <<registered, starts, dbufVars, exp>>

-----------------------------------------------------------------------------
(* VPIPE_IOC_EXPORT_SRC_DMABUF; only the vcam-derived backend exports, and *)
(* only while it is started.                                               *)

(* Plausible bug: the DMA-BUF borrows the stream's reference. *)
ExportBorrows(c) ==
  /\ DevLock /\ Opened(c) /\ src[c].id = "VCAM" /\ src[c].priv.on
  /\ fb' = Touch(fb, src[c].priv.fb)
  /\ exp' = [on |-> TRUE, ctx |-> c, fb |-> src[c].priv.fb]
  /\ UNCHANGED <<registered, file, src, starts, dbufVars, frames>>

ExportGet(c) ==
  /\ DevLock /\ Opened(c) /\ src[c].id = "VCAM" /\ src[c].priv.on
  /\ fb' = KrefGet(fb, src[c].priv.fb)
  /\ exp' = [on |-> TRUE, ctx |-> c, fb |-> src[c].priv.fb]
  /\ UNCHANGED <<registered, file, src, starts, dbufVars, frames>>

(* dma_buf_export, then dma_buf_fd *)
ExportFd ==
  /\ exp.on /\ exports < MaxExports
  /\ exports' = exports + 1
  /\ dbuf' = [dbuf EXCEPT ![exports + 1] = [NoDbuf EXCEPT !.fb = exp.fb,
                                                          !.fd = TRUE]]
  /\ exp' = Idle
  /\ UNCHANGED <<registered, file, src, fbVars, frames>>

(* Plausible bug: the error path of dma_buf_fd drops the reference that    *)
(* the release of the DMA-BUF has dropped already.                         *)
ExportFailsTwice ==
  /\ exp.on
  /\ fb' = KrefPut(KrefPut(fb, exp.fb), exp.fb)
  /\ exp' = Idle
  /\ UNCHANGED <<registered, file, src, starts, dbufVars, frames>>

(* dma_buf_export fails and the reference is dropped; or dma_buf_fd fails  *)
(* and dma_buf_put releases the DMA-BUF, which drops it.                   *)
ExportFails ==
  /\ exp.on
  /\ fb' = KrefPut(fb, exp.fb)
  /\ exp' = Idle
  /\ UNCHANGED <<registered, file, src, starts, dbufVars, frames>>

Live(d) == dbuf[d].fd \/ dbuf[d].maps > 0

(* map_dma_buf, mmap or vmap by an importer: the mapping keeps the DMA-BUF.*)
DmabufMap(d) ==
  /\ dbuf[d].fd /\ dbuf[d].maps < MaxMaps
  /\ fb' = Touch(fb, dbuf[d].fb)
  /\ dbuf' = [dbuf EXCEPT ![d].maps = @ + 1]
  /\ UNCHANGED <<registered, file, src, starts, exports, exp, frames>>

(* The last user gone, vcam_dmabuf_release drops the reference. *)
LeaveDmabuf(d, users) ==
  /\ dbuf' = [dbuf EXCEPT ![d] = IF users.fd \/ users.maps > 0 THEN users
                                 ELSE NoDbuf]
  /\ fb' = IF users.fd \/ users.maps > 0 THEN fb ELSE KrefPut(fb, users.fb)
  /\ UNCHANGED <<registered, file, src, starts, exports, exp, frames>>

DmabufUnmap(d) ==
  /\ dbuf[d].maps > 0
  /\ LeaveDmabuf(d, [dbuf[d] EXCEPT !.maps = @ - 1])

DmabufClose(d) ==
  /\ dbuf[d].fd
  /\ LeaveDmabuf(d, [dbuf[d] EXCEPT !.fd = FALSE])

-----------------------------------------------------------------------------
Next ==
  \/ \E b \in Backends : Register(b)
  \/ \E c \in Ctxs :
       \/ Open(c) \/ ReleaseSource(c) \/ ReleaseQueues(c)
       \/ PrepareBuf(c) \/ QBuf(c) \/ StreamOnFails(c) \/ StreamOnCap(c)
       \/ ExportGet(c)
       \/ \E b \in Backends : SetBackend(c, b)
       \/ \E n \in DropRates : StreamOnOut(c, n)
       \/ \E t \in Queues :
            \/ StreamOff(c, t)
            \/ \E s \in Sizes : SFmt(c, t, s)
            \/ \E b \in BOOLEAN : ReqBufs(c, t, b)
  \/ ExportFd \/ ExportFails
  \/ \E d \in Dbufs : DmabufMap(d) \/ DmabufUnmap(d) \/ DmabufClose(d)

Spec == Init /\ [][Next]_vars
-----------------------------------------------------------------------------
(* The records have their shapes; a started vcam-derived source has a      *)
(* framebuffer (vcam_start has no half-initialised outcome).               *)
TypeOK ==
  /\ registered \subseteq Backends
  /\ file \in [Ctxs -> [state : {"closed", "open", "closing"}, size : Sizes,
                        out : Sizes \cup {0}, cap : Sizes \cup {0},
                        on : SUBSET Queues, pre : BOOLEAN, prep : BOOLEAN]]
  /\ src \in [Ctxs -> [id : Backends \cup {"freed"}, bad : BOOLEAN,
                       priv : [on : BOOLEAN, fb : Fbs \cup {0}, offset : Nat,
                               produced : Nat, drop : DropRates \cup {0}]]]
  /\ \A c \in Ctxs : src[c].id = "VCAM" /\ src[c].priv.on =>
                       src[c].priv.fb \in 1 .. starts
  /\ fb \in [Fbs -> [refs : Nat, size : Nat, shown : Nat, bad : BOOLEAN]]
  /\ starts \in 0 .. MaxStarts
  /\ dbuf \in [Dbufs -> [fb : Fbs \cup {0}, fd : BOOLEAN, maps : 0 .. MaxMaps]]
  /\ exports \in 0 .. MaxExports
  /\ exp \in [on : BOOLEAN, ctx : Ctxs, fb : Fbs \cup {0}]
  /\ \A c \in Ctxs : Len(frames[c]) \in 0 .. MaxFrames

Streams(f) == {c \in Ctxs : src[c].priv.on /\ src[c].priv.fb = f}
Exported(f) == {d \in Dbufs : Live(d) /\ dbuf[d].fb = f}

(* A framebuffer's count is the number of those who hold it: the stream    *)
(* that draws on it, each live DMA-BUF and an export under way.  So it is  *)
(* freed with the last of them, not earlier and not never (kref_get,       *)
(* kref_put and the error paths of vcam_export_dmabuf).                    *)
RefsCounted ==
  \A f \in Fbs :
    fb[f].refs = Cardinality(Streams(f)) + Cardinality(Exported(f))
                 + (IF exp.on /\ exp.fb = f THEN 1 ELSE 0)

(* Nobody uses a freed framebuffer, whatever order the stream, the close,  *)
(* the exports and the importers come and go in (vcam_stop,                *)
(* vcam_export_dmabuf, vcam_dmabuf_release and the calls on a DMA-BUF).    *)
NoFbUseAfterFree ==
  /\ \A f \in Fbs : ~fb[f].bad
  /\ \A d \in Dbufs : Live(d) => fb[dbuf[d].fb].refs > 0

(* Nobody uses a freed source: a program may be killed at any time, and    *)
(* the close of its file leaves the module in a known state                *)
(* (vpipe_release, vpipe_stop_streaming).                                  *)
NoSourceUseAfterFree == \A c \in Ctxs : ~src[c].bad

(* A backend is started exactly while OUTPUT streams: it is not started    *)
(* twice, which would lose its state, and not left started by STREAMOFF,   *)
(* a switch of backend or close.                                           *)
StartedWhileStreaming ==
  \A c \in Ctxs : Opened(c) =>
    (src[c].priv.on <=> src[c].id # "FIXTURE" /\ "OUT" \in file[c].on)

(* A frame is drawn within the surface, and within the buffer that QBUF    *)
(* prepared, although S_FMT on CAPTURE changes the size of OUTPUT while    *)
(* that has buffers and is streaming (vpipe_s_fmt, vpipe_buf_prepare,      *)
(* vcam_next_frame).  Only a buffer that PREPARE_BUF prepared before the   *)
(* change is not measured again, and the backend writes beyond it.         *)
PreparedFramesFit ==
  \A c \in Ctxs : \A k \in DOMAIN frames[c] :
    frames[c][k].onSurface /\ (frames[c][k].early \/ frames[c][k].inPlane)

(* "drop every N-th frame": of any N consecutive frames of a stream one is *)
(* dropped (synthetic_next_frame, vcam_next_frame).                        *)
DropCadence ==
  \A c \in Ctxs :
    LET n == src[c].priv.drop IN
    n > 0 => \A k \in 1 .. Len(frames[c]) + 1 - n :
               Cardinality({j \in k .. k + n - 1 : frames[c][j].dropped}) = 1

DrawnFrames(c) == {k \in DOMAIN frames[c] : frames[c][k].shown # 0}

(* An importer sees the last frame that was put into an OUTPUT buffer; a   *)
(* dropped frame leaves the surface alone (vcam_next_frame).               *)
SurfaceShowsLast ==
  \A c \in Ctxs : src[c].id = "VCAM" /\ src[c].priv.on =>
    fb[src[c].priv.fb].shown =
      IF DrawnFrames(c) = {} THEN 0
      ELSE frames[c][CHOOSE k \in DrawnFrames(c) :
                       \A j \in DrawnFrames(c) : j <= k].shown

(* Once its stream has ended an exported surface never changes again: a    *)
(* later stream draws on its own (vcam_start, vcam_stop).                  *)
SurfaceFrozen ==
  [][\A f \in 1 .. starts :
       Streams(f) = {} =>
         /\ Streams(f)' = {}
         /\ fb'[f].refs > 0 => fb'[f].shown = fb[f].shown]_vars
=============================================================================
