------------------------------- MODULE Tools -------------------------------
(***************************************************************************)
(* The programs under user/ and the devices they drive.                    *)
(*                                                                         *)
(* Each program is a straight line of calls, a loop over frames and a      *)
(* cleanup that every failing call jumps to.  It is given here as data:    *)
(* the sequences of calls of its parts.  What a call does to the devices   *)
(* and to the program's own records is one action, the same for all        *)
(* programs.  The mem2mem node is seen from outside: two FIFO queues, a    *)
(* job that takes the oldest buffer of each, a metadata row published when *)
(* a CAPTURE buffer is dequeued or the queue is stopped (see M2M).         *)
(* vivid is a camera that fills the oldest buffer queued.                  *)
(*                                                                         *)
(* A time stamp is the identity of the QBUF it was taken at.  Pixels are   *)
(* the identity of the frame drawn.  Every memory that can back an OUTPUT  *)
(* buffer is a cell of mem, so that zero copy is visible.                  *)
(***************************************************************************)
EXTENDS Naturals, Sequences, FiniteSets

CONSTANTS
  N,           \* BUFFER_COUNT, and the runner's queue depth
  Frames,      \* frames a program is asked for
  Addrs,       \* addresses mmap can return
  DropRates,   \* values of the vcam-derived backend's drop parameter
  MaxErrors,   \* bound on the jobs that fail in a run
  MaxForeign,  \* bound on the rows published for other contexts
  MaxSkips     \* bound on the frames vivid drops for want of a buffer

ASSUME ToolsAssumption ==
  /\ N \in Nat /\ N >= 2 /\ Frames \in Nat \ {0}
  /\ IsFiniteSet(Addrs) /\ Cardinality(Addrs) > N
  /\ DropRates \subseteq Nat /\ MaxErrors \in Nat /\ MaxForeign \in Nat /\ MaxSkips \in Nat

Idx == 0 .. N - 1

-----------------------------------------------------------------------------
(* The programs. *)

(* vpipe-vcam-runner: out is how OUTPUT buffers are obtained *)
RunSetup(out) ==
  <<"open", "backend", "fmtOut", "fmtCap", out, "mapCap", "ctrl", "csv",
    "tryMeta", "qCaps", "onCap", "onOut">>
      \o IF out = "reqOne" THEN <<"export">> ELSE << >>
RunLoop == <<"dqCap", "readMeta", "row", "qCap", "dqOut", "submit">>
RunCleanup == <<"offOut", "offCap", "closeMeta", "close">>
OutDepth(dma, inflight) ==
  IF dma \/ inflight < 1 THEN 1 ELSE IF inflight > N THEN N ELSE inflight
Run(src, out, inflight) ==
  [setup |-> RunSetup(out), loop |-> RunLoop, after |-> << >>,
   cleanup |-> RunCleanup, backend |-> src, index |-> "dequeued",
   mem |-> IF out = "reqOne" THEN "surface" ELSE "own",
   depth |-> OutDepth(out = "reqOne", inflight), frames |-> Frames]

(* vpipe-capture-m2m, with a copy or with the camera's own memory *)
CaptureM2MSetup(dma) ==
  <<"openViv", "open", "fmtViv", "fmtOut", "fmtCap", "mapViv", "mapCap",
    "reqOut">> \o (IF dma THEN << >> ELSE <<"mapOut">>)
      \o <<"csv", "qVivs", "qCaps", "onViv", "onCap", "onOut">>
(* Plausible bug: the camera gets its buffer back once it has been submitted. *)
CaptureM2MLoopEarly ==
  <<"dqViv", "seqCtrl", "submit", "qViv", "dqCap", "dqOut", "row", "qCap">>
CaptureM2MLoop ==
  <<"dqViv", "seqCtrl", "submit", "dqCap", "dqOut", "row", "qCap", "qViv">>
CaptureM2MCleanup == <<"offOut", "offCap", "offViv", "close", "closeViv">>
CaptureM2M(dma) ==
  [setup |-> CaptureM2MSetup(dma), loop |-> CaptureM2MLoop,
   after |-> << >>, cleanup |-> CaptureM2MCleanup, backend |-> "FIXTURE",
   index |-> "camera", mem |-> IF dma THEN "viv" ELSE "own",
   depth |-> 0, frames |-> Frames]

(* vpipe-capture-dmabuf *)
(* Plausible bug: CAPTURE buffers of the default size, the format set last. *)
CaptureDmabufSetupLate ==
  <<"openViv", "open", "fmtViv", "mapViv", "mapCap", "fmtOut", "reqOut", "csv",
    "qVivs", "qCaps", "onViv", "onCap", "onOut">>
CaptureDmabufSetup ==
  <<"openViv", "open", "fmtViv", "fmtOut", "fmtCap", "mapViv", "mapCap",
    "reqOut", "csv", "qVivs", "qCaps", "onViv", "onCap", "onOut">>
CaptureDmabufLoop ==
  <<"dqViv", "seqCtrl", "submit", "dqCap", "dqOut", "row", "qCap", "qViv">>
CaptureDmabufCleanup == <<"offOut", "offCap", "offViv", "close", "closeViv">>
CaptureDmabuf ==
  [CaptureM2M(TRUE) EXCEPT !.setup = CaptureDmabufSetup,
     !.loop = CaptureDmabufLoop, !.cleanup = CaptureDmabufCleanup]

(* vpipe-bench-fixture *)
BenchFixtureSetup ==
  <<"open", "fmtOut", "fmtCap", "reqOut", "mapCap", "heap", "ctrl", "csv",
    "qCaps", "onCap", "onOut">>
(* Plausible bug: the CAPTURE buffer is not queued again. *)
BenchFixtureLoopKeeps == <<"submit", "dqCap", "dqOut", "row">>
BenchFixtureLoop == <<"submit", "dqCap", "dqOut", "row", "qCap">>
BenchFixtureCleanup == <<"offOut", "offCap", "close">>
BenchFixture ==
  [setup |-> BenchFixtureSetup, loop |-> BenchFixtureLoop, after |-> << >>,
   cleanup |-> BenchFixtureCleanup, backend |-> "FIXTURE",
   index |-> "modulo", mem |-> "heap", depth |-> 0, frames |-> Frames]

(* vpipe-vcam-bench *)
VcamBenchSetup ==
  <<"open", "backend", "fmtOut", "fmtCap", "mapOut", "mapCap", "ctrl", "csv",
    "qCaps", "onCap", "onOut">>
VcamBenchLoop == <<"submit", "dqCap", "dqOut", "row", "qCap">>
(* Plausible bug: only the CAPTURE queue is stopped before the close. *)
VcamBenchCleanupHalf == <<"offCap", "close">>
VcamBenchCleanup == <<"offOut", "offCap", "close">>
VcamBench ==
  [setup |-> VcamBenchSetup, loop |-> VcamBenchLoop, after |-> << >>,
   cleanup |-> VcamBenchCleanup, backend |-> "VCAM", index |-> "modulo",
   mem |-> "own", depth |-> 0, frames |-> Frames]

(* vpipe-vcam-dmabuf-bench *)
DmabufBenchSetup ==
  <<"open", "backend", "fmtOut", "fmtCap", "reqOne", "mapCap", "ctrl", "csv",
    "qCaps", "onCap", "onOut", "export">>
DmabufBenchLoop == <<"submit", "dqCap", "dqOut", "row", "qCap">>
DmabufBenchCleanup == <<"offOut", "offCap", "close">>
DmabufBench ==
  [VcamBench EXCEPT !.setup = DmabufBenchSetup, !.loop = DmabufBenchLoop,
     !.cleanup = DmabufBenchCleanup, !.index = "zero", !.mem = "surface"]

(* vpipe-vcam-dmabuf-test: looks at the exported surface at the end *)
DmabufTestSetup ==
  <<"open", "backend", "fmtOut", "fmtCap", "mapOut", "mapCap", "ctrl",
    "qCaps", "onCap", "onOut">>
DmabufTestLoop == <<"submit", "dqCap", "dqOut", "qCap">>
DmabufTestVerify == <<"export", "verify">>
DmabufTestCleanup == <<"offOut", "offCap", "close">>
DmabufTest ==
  [VcamBench EXCEPT !.setup = DmabufTestSetup, !.loop = DmabufTestLoop,
     !.after = DmabufTestVerify, !.cleanup = DmabufTestCleanup]

(* vpipe-fixture-feed: queues its one frame before STREAMON, never stops *)
FixtureFeedSetup ==
  <<"open", "fmtOut", "fmtCap", "reqOut", "mapCap", "heap", "ctrl", "qCap0",
    "submit", "onCap", "onOut">>
FixtureFeedLoop == <<"dqCap", "row">>
FixtureFeedCleanup == <<"close">>
FixtureFeed ==
  [BenchFixture EXCEPT !.setup = FixtureFeedSetup, !.loop = FixtureFeedLoop,
     !.cleanup = FixtureFeedCleanup, !.index = "zero", !.frames = 1]

(* vpipe-capture-mmap and vpipe-capture-userptr talk to the camera only *)
CaptureMmapSetup ==
  <<"openViv", "fmtViv", "mapViv", "csv", "qVivs", "onViv">>
CaptureMmapLoop == <<"dqViv", "row", "qViv">>
CaptureMmapCleanup == <<"closeViv">>
CaptureMmap ==
  [setup |-> CaptureMmapSetup, loop |-> CaptureMmapLoop, after |-> << >>,
   cleanup |-> CaptureMmapCleanup, backend |-> "FIXTURE",
   index |-> "camera", mem |-> "own", depth |-> 0, frames |-> Frames]
UserptrSetup ==
  <<"openViv", "fmtViv", "mapSlots", "reqUser", "csv", "qVivs", "onViv">>
UserptrLoop(reset) ==
  IF reset THEN <<"dqViv", "row", "remap", "qViv">> ELSE CaptureMmapLoop
UserptrCleanup == <<"offViv", "closeViv">>
Userptr(reset) ==
  [CaptureMmap EXCEPT !.setup = UserptrSetup, !.loop = UserptrLoop(reset),
     !.cleanup = UserptrCleanup]

Programs ==
  [run |-> Run("VCAM", "mapOut", N), runFixture |-> Run("FIXTURE", "mapOut", N),
   runOne |-> Run("VCAM", "mapOut", 1), runDmabuf |-> Run("VCAM", "reqOne", N),
   m2mCopy |-> CaptureM2M(FALSE), m2mDmabuf |-> CaptureM2M(TRUE),
   captureDmabuf |-> CaptureDmabuf, benchFixture |-> BenchFixture,
   vcamBench |-> VcamBench, dmabufBench |-> DmabufBench,
   dmabufTest |-> DmabufTest, fixtureFeed |-> FixtureFeed,
   captureMmap |-> CaptureMmap, userptrReset |-> Userptr(TRUE),
   userptrNoreset |-> Userptr(FALSE)]

(* The runner's main: one run, or with --compare one of each kind of       *)
(* buffer, the second whatever became of the first.  Every other program   *)
(* is one run.                                                             *)
Mains == {<<p>> : p \in DOMAIN Programs \ {"runOne"}}
           \cup {<<"runOne", "runDmabuf">>}

-----------------------------------------------------------------------------
(* The state. *)

VARIABLES
  me,     \* the program: runs left, position, frames submitted and completed,
          \* why it gave up
  cur,    \* its loop's local variables
  stamp,  \* qbuf_ring, queued_at or enqueue_ns: slot -> QBUF
  slot,   \* userptr: the slots' addresses, what vb2 has pinned, faults seen
  node,   \* the program's file of the mem2mem node
  viv,    \* its file of the camera
  mem,    \* pixels in the memories that can back an OUTPUT buffer
  log,    \* rows published on /dev/vpipe-meta
  meta,   \* the program's file of /dev/vpipe-meta
  drain,  \* vpipe-meta-drain, run beside vpipe-capture-m2m by bench_vpipe.sh
  errs,   \* jobs that failed since the run began
  rate    \* vcam_drop_every

vars == <<me, cur, stamp, slot, node, viv, mem, log, meta, drain, errs, rate>>
progVars == <<cur, stamp, slot>>
metaVars == <<log, meta, errs, rate>>

Blank == <<"blank", 0, 0>>
NoId == <<0, 0>>
NoRow == [own |-> FALSE, id |-> NoId, dropped |-> FALSE]
NoCap == [idx |-> 0, id |-> NoId, seq |-> Blank, pixels |-> Blank,
          dropped |-> FALSE, err |-> FALSE]
NoFill == [idx |-> 0, id |-> NoId, addr |-> 0, seq |-> Blank]
Fresh == [cap |-> NoCap, out |-> 0, viv |-> NoFill, row |-> NoRow,
          read |-> FALSE]

(* size and plane: 1 before S_FMT, 2 after it *)
ClosedNode == [open |-> FALSE, size |-> 1, n |-> [OUT |-> 0, CAP |-> 0],
               plane |-> [OUT |-> 0, CAP |-> 0], on |-> {}, seq |-> Blank,
               outQ |-> << >>, capQ |-> << >>, outDone |-> << >>,
               capDone |-> << >>]
ClosedViv == [open |-> FALSE, n |-> 0, on |-> FALSE, q |-> << >>,
              done |-> << >>, seq |-> 0, skips |-> 0, qbufs |-> 0]

(* vpipe-capture-m2m is started by bench_vpipe.sh *)
Scripted(p) == p \in {"m2mCopy", "m2mDmabuf"}

Init ==
  /\ me \in {[runs |-> r, pc |-> <<"setup", 1>>, sent |-> 0, i |-> 0,
              why |-> "none"] : r \in Mains}
  /\ cur = Fresh
  /\ stamp = [s \in Idx |-> NoId]
  /\ slot = [addr |-> [s \in Idx |-> 0], pin |-> [s \in Idx |-> 0],
             faults |-> [s \in Idx |-> FALSE]]
  /\ node = ClosedNode /\ viv = ClosedViv
  /\ mem = [c \in {"own", "viv", "heap", "surface"} \X Idx |-> Blank]
  /\ log = << >> /\ errs = 0
  /\ rate \in IF Programs[Head(me.runs)].backend = "VCAM" THEN DropRates ELSE {0}
  /\ meta = [open |-> FALSE, from |-> 0, pos |-> 0]
  /\ drain = [state |-> IF Scripted(Head(me.runs)) THEN "starting" ELSE "none",
              from |-> 0, got |-> 0]

-----------------------------------------------------------------------------
(* Position in the program. *)

Prog == Programs[Head(me.runs)]
Exited == me.runs = << >>
Phase == me.pc[1]
Body == CASE Phase = "setup" -> Prog.setup [] Phase = "fill" -> <<"submit">>
          [] Phase = "loop" -> Prog.loop [] Phase = "after" -> Prog.after
          [] Phase = "cleanup" -> Prog.cleanup
At(call) ==
  /\ ~Exited /\ drain.state # "starting"
  /\ Body[me.pc[2]] = call

(* the fill loop, then the main loop, then the rest *)
Enter(sent, i) ==
  IF Phase \in {"setup", "fill"} /\ sent < Prog.frames /\ sent < Prog.depth
    THEN <<"fill", 1>>
  ELSE IF i < Prog.frames THEN <<"loop", 1>>
  ELSE IF Phase # "after" /\ Prog.after # << >> THEN <<"after", 1>>
  ELSE <<"cleanup", 1>>

(* the call returned; s more frames have been submitted *)
Advance(s) ==
  LET last == me.pc[2] = Len(Body)
      i == IF last /\ Phase = "loop" THEN me.i + 1 ELSE me.i
  IN me' = [me EXCEPT !.sent = @ + s, !.i = i,
              !.pc = IF last THEN Enter(me.sent + s, i)
                     ELSE <<Phase, me.pc[2] + 1>>]

GiveUp(why) == me' = [me EXCEPT !.why = why, !.pc = <<"cleanup", 1>>]

Id(no) == <<Len(me.runs), no>>

-----------------------------------------------------------------------------
(* What the devices refuse. *)

Held(queue, done) == {queue[k].idx : k \in DOMAIN queue}
                       \cup {done[k].idx : k \in DOMAIN done}
MineOut(i) == i < node.n.OUT /\ i \notin Held(node.outQ, node.outDone)
MineCap(i) ==
  /\ i < node.n.CAP
  /\ i \notin {node.capQ[k] : k \in DOMAIN node.capQ}
  /\ \A k \in DOMAIN node.capDone : node.capDone[k].idx # i
MineViv(i) == i < viv.n /\ i \notin Held(viv.q, viv.done)

(* mmap_index, or the index rules of the other tools *)
OutIndex ==
  CASE Prog.index = "dequeued" ->
         IF Prog.mem = "surface" THEN 0
         ELSE IF Phase = "fill" THEN me.sent ELSE cur.out
    [] Prog.index = "camera" -> cur.viv.idx
    [] Prog.index = "modulo" -> me.i % N
    [] Prog.index = "zero" -> 0

(* Plausible bug: the loop submits without counting. *)
SubmitsAlways == TRUE

(* submit_output is skipped once all frames have been submitted *)
Submits == Prog.depth = 0 \/ me.sent < Prog.frames

Accepts(call) ==
  CASE call = "backend" -> node.on = {}
    [] call = "fmtOut" -> node.n.OUT = 0
    [] call = "fmtCap" -> node.n.CAP = 0
    [] call = "fmtViv" -> viv.n = 0
    [] call \in {"reqOut", "reqOne", "mapOut"} -> "OUT" \notin node.on
    [] call = "mapCap" -> "CAP" \notin node.on
    [] call = "reqUser" -> viv.n = 0
    [] call = "qCaps" -> \A i \in Idx : MineCap(i)
    [] call = "qCap0" -> MineCap(0)
    [] call = "qVivs" -> \A i \in Idx : MineViv(i)
    [] call = "export" -> Prog.backend = "VCAM" /\ "OUT" \in node.on
    [] call = "submit" -> Submits => MineOut(OutIndex)
    [] call = "dqCap" -> "CAP" \in node.on
    [] call = "dqOut" -> "OUT" \in node.on
    [] call = "dqViv" -> viv.on
    [] call = "qCap" -> MineCap(cur.cap.idx)
    [] call = "qViv" -> MineViv(cur.viv.idx)
    [] call = "row" -> cur.cap.idx < N /\ cur.viv.idx < N
                         /\ cur.viv.addr = slot.addr[cur.viv.idx]
    [] OTHER -> TRUE

(* The fixture's runner draws into the mapping of the buffer before its    *)
(* QBUF: there is none if the buffer was not granted.                      *)
Faults ==
  /\ At("submit") /\ Submits /\ OutIndex >= node.n.OUT
  /\ Prog.depth > 0 /\ Prog.backend = "FIXTURE" /\ Prog.mem = "own"

Refused ==
  /\ Phase # "cleanup" /\ ~Faults /\ \E c \in {Body[me.pc[2]]} : At(c) /\ ~Accepts(c)
  /\ GiveUp("refused")
  /\ UNCHANGED <<progVars, node, viv, mem, metaVars, drain>>

(* Any call may fail for a reason of its own.  A missing metadata device   *)
(* is only a warning to the runner.                                        *)
Fails ==
  /\ Phase # "cleanup" /\ ~Faults
  /\ \E c \in {Body[me.pc[2]]} : At(c) /\ c \notin {"tryMeta", "readMeta", "row"}
  /\ GiveUp("error")
  /\ UNCHANGED <<progVars, node, viv, mem, metaVars, drain>>

(* A signal ends the process.  No tool handles one, so nothing of its      *)
(* cleanup is run but what the kernel does for it: its files are closed.   *)
Closing == {"closeMeta", "close", "closeViv"}
Dies ==
  LET from == IF Phase = "cleanup" THEN me.pc[2] ELSE 1 IN
  /\ \E k \in from .. Len(Prog.cleanup) :
       /\ Prog.cleanup[k] \in Closing
       /\ \A j \in from .. k - 1 : Prog.cleanup[j] \notin Closing
       /\ me' = [me EXCEPT !.why = "killed", !.pc = <<"cleanup", k>>]
  /\ UNCHANGED <<progVars, node, viv, mem, metaVars, drain>>

Crashes == Faults /\ Dies

(* SIGINT from the terminal, or pkill from a script.  A signal during the   *)
(* cleanup that follows a failure is left out: that cleanup and the kernel *)
(* give back the same buffers and close the same files.                    *)
Killed == ~Exited /\ drain.state # "starting" /\ me.why = "none" /\ Dies

Call(call) == At(call) /\ Accepts(call)

-----------------------------------------------------------------------------
(* Calls that set up the node. *)

OpenNode ==
  /\ Call("open") /\ node' = [ClosedNode EXCEPT !.open = TRUE] /\ Advance(0)
  /\ UNCHANGED <<progVars, viv, mem, metaVars, drain>>

(* set_backend, S_CTRL of the algorithm, the CSV file: nothing that is     *)
(* looked at here                                                          *)
Plain ==
  /\ \E c \in {"backend", "ctrl", "csv", "fmtViv"} : Call(c)
  /\ Advance(0)
  /\ UNCHANGED <<progVars, node, viv, mem, metaVars, drain>>

(* S_FMT on either queue sets the size of both *)
SetFormat ==
  /\ Call("fmtOut") \/ Call("fmtCap")
  /\ node' = [node EXCEPT !.size = 2] /\ Advance(0)
  /\ UNCHANGED <<progVars, viv, mem, metaVars, drain>>

(* REQBUFS: at least two buffers; fewer than asked for when memory runs out *)
RequestBuffers ==
  /\ \/ /\ Call("mapOut")
        /\ \E g \in 2 .. N : node' = [node EXCEPT !.n.OUT = g,
                                        !.plane.OUT = node.size]
     \/ /\ Call("reqOut")
        /\ node' = [node EXCEPT !.n.OUT = N, !.plane.OUT = node.size]
     \/ /\ Call("reqOne")
        /\ node' = [node EXCEPT !.n.OUT = 2, !.plane.OUT = node.size]
     \/ /\ Call("mapCap")
        /\ \E g \in 2 .. N : node' = [node EXCEPT !.n.CAP = g,
                                        !.plane.CAP = node.size]
  /\ Advance(0)
  /\ UNCHANGED <<progVars, viv, mem, metaVars, drain>>

(* heap buffers, filled with the fixture once *)
FillHeap ==
  /\ Call("heap") /\ Advance(0)
  /\ mem' = [c \in DOMAIN mem |->
               IF c[1] = "heap" THEN <<"fixture", 0, 0>> ELSE mem[c]]
  /\ UNCHANGED <<progVars, node, viv, metaVars, drain>>

(* Plausible bug: the reader starts at the oldest row still in the ring. *)
OpenMetaOldest ==
  /\ Call("tryMeta") /\ Advance(0)
  /\ \E ok \in BOOLEAN : meta' = [open |-> ok, from |-> 0, pos |-> 0]
  /\ UNCHANGED <<progVars, node, viv, mem, log, errs, rate, drain>>

(* the runner goes on without metadata if it cannot open the device *)
OpenMeta ==
  /\ Call("tryMeta") /\ Advance(0)
  /\ \E ok \in BOOLEAN : meta' = [open |-> ok, from |-> Len(log), pos |-> Len(log)]
  /\ UNCHANGED <<progVars, node, viv, mem, log, errs, rate, drain>>

QueueCaptures ==
  /\ \/ Call("qCaps") /\ node' = [node EXCEPT !.capQ = @ \o [k \in 1 .. N |-> k - 1]]
     \/ Call("qCap0") /\ node' = [node EXCEPT !.capQ = Append(@, 0)]
  /\ Advance(0)
  /\ UNCHANGED <<progVars, viv, mem, metaVars, drain>>

(* STREAMON of OUTPUT starts the source: a new surface *)
StreamOn ==
  /\ \/ /\ Call("onCap") /\ node' = [node EXCEPT !.on = @ \cup {"CAP"}]
        /\ UNCHANGED mem
     \/ /\ Call("onOut") /\ node' = [node EXCEPT !.on = @ \cup {"OUT"}]
        /\ mem' = [mem EXCEPT ![<<"surface", 0>>] = Blank]
  /\ Advance(0)
  /\ UNCHANGED <<progVars, viv, metaVars, drain>>

Export ==
  /\ Call("export") /\ Advance(0)
  /\ UNCHANGED <<progVars, node, viv, mem, metaVars, drain>>

-----------------------------------------------------------------------------
(* The frame loop. *)

(* Plausible bug: the ring is one slot shorter than the queue. *)
RingSlotShort(no) == no % (N - 1)

(* where the time of a QBUF is kept *)
RingSlot(no) == no % N
StampSlot(no) == IF Prog.depth > 0 THEN RingSlot(no) ELSE 0

(* A tool with both devices keeps the times of its DQBUFs only. *)
CameraOnly == ~node.open
BothDevices == node.open /\ viv.open

(* pixels the frame should show *)
Wanted(no) ==
  CASE Prog.index = "camera" -> cur.viv.seq
    [] Prog.mem = "heap" -> <<"fixture", 0, 0>>
    [] OTHER -> <<"frame", Len(me.runs), no>>

(* what has been written when the QBUF is done: vcam-derived draws its     *)
(* surface and copies it, unless it drops the frame; the fixture's runner  *)
(* and the copying capture tool write the buffer themselves                *)
Drawn(cell, no, dropped) ==
  CASE Prog.backend = "VCAM" /\ ~dropped ->
         [mem EXCEPT ![cell] = Wanted(no), ![<<"surface", 0>>] = Wanted(no)]
    [] Prog.backend = "FIXTURE" /\ Prog.mem = "own" ->
         [mem EXCEPT ![cell] =
            IF Prog.index = "camera" THEN mem[<<"viv", cur.viv.idx>>]
            ELSE Wanted(no)]
    [] OTHER -> mem

Drops(no) == Prog.backend = "VCAM" /\ rate # 0 /\ no % rate = 0

(* submit_output and its kin *)
Submit ==
  LET no == IF Prog.depth > 0 THEN me.sent ELSE me.i
      cell == <<Prog.mem, OutIndex>>
  IN /\ Call("submit") /\ Submits
     /\ mem' = Drawn(cell, no, Drops(no))
     /\ node' = [node EXCEPT !.outQ = Append(@,
          [idx |-> OutIndex, id |-> Id(no), seq |-> node.seq,
           cell |-> cell, dropped |-> Drops(no)])]
     /\ stamp' = IF BothDevices THEN stamp
                 ELSE [stamp EXCEPT ![StampSlot(no)] = Id(no)]
     /\ Advance(1)
     /\ UNCHANGED <<cur, slot, viv, metaVars, drain>>

SubmitNone ==
  /\ Call("submit") /\ ~Submits /\ Advance(0)
  /\ UNCHANGED <<progVars, node, viv, mem, metaVars, drain>>

(* S_CTRL of SRC_SEQUENCE: the snapshot of the next QBUF *)
SetSequence ==
  /\ Call("seqCtrl") /\ Advance(0)
  /\ node' = [node EXCEPT !.seq = cur.viv.seq]
  /\ UNCHANGED <<progVars, viv, mem, metaVars, drain>>

(* Plausible bug: a buffer whose job failed publishes a row too. *)
WithRowAll(S) == S

(* those of the CAPTURE buffers at places S of capDone that carry a row *)
WithRow(S) == {k \in S : ~node.capDone[k].err}

(* the buffers at places S are finished, in the order of their index *)
ByIndex(S) ==
  {s \in [1 .. Cardinality(S) -> S] :
     \A a, b \in DOMAIN s :
       a < b => node.capDone[s[a]].idx < node.capDone[s[b]].idx}
Finish(S) ==
  \E s \in ByIndex(WithRow(S)) :
    log' = log \o [a \in DOMAIN s |->
                     [own |-> TRUE, id |-> node.capDone[s[a]].id,
                      dropped |-> node.capDone[s[a]].dropped]]

(* DQBUF; the row is published on the way.  No tool looks at the error     *)
(* flag of the buffer.                                                     *)
DequeueCapture ==
  /\ Call("dqCap") /\ node.capDone # << >>
  /\ cur' = [cur EXCEPT !.cap = Head(node.capDone)]
  /\ node' = [node EXCEPT !.capDone = Tail(@)]
  /\ Finish({1})
  /\ Advance(0)
  /\ UNCHANGED <<stamp, slot, viv, mem, meta, errs, rate, drain>>

DequeueOutput ==
  /\ Call("dqOut") /\ node.outDone # << >>
  /\ cur' = [cur EXCEPT !.out = Head(node.outDone).idx]
  /\ node' = [node EXCEPT !.outDone = Tail(@)]
  /\ Advance(0)
  /\ UNCHANGED <<stamp, slot, viv, mem, metaVars, drain>>

(* read_meta: a blocking read of one row *)
ReadMeta ==
  /\ Call("readMeta") /\ Advance(0)
  /\ meta.open => meta.pos < Len(log)
  /\ cur' = [cur EXCEPT !.read = meta.open,
               !.row = IF meta.open THEN log[meta.pos + 1] ELSE NoRow]
  /\ meta' = [meta EXCEPT !.pos = IF meta.open THEN @ + 1 ELSE @]
  /\ UNCHANGED <<stamp, slot, node, viv, mem, log, errs, rate, drain>>

(* One line of the CSV file.  The camera's tools keep a record per index,  *)
(* the others describe the CAPTURE buffer.  The loop's variables end here, *)
(* but for the indices to queue again.                                     *)
LineStamp == IF CameraOnly THEN stamp[cur.viv.idx] ELSE stamp[StampSlot(me.i)]

(* --verify-pattern looks at the frames not known to be dropped *)
Verifies == Prog.depth > 0 /\ Prog.backend = "VCAM" /\ ~cur.row.dropped

WriteRow ==
  /\ Call("row") /\ Advance(0)
  /\ cur' = [Fresh EXCEPT !.cap.idx = cur.cap.idx, !.out = cur.out,
               !.viv.idx = cur.viv.idx]
  /\ UNCHANGED <<stamp, slot, node, viv, mem, metaVars, drain>>

RequeueCapture ==
  /\ Call("qCap") /\ Advance(0)
  /\ node' = [node EXCEPT !.capQ = Append(@, cur.cap.idx)]
  /\ UNCHANGED <<progVars, viv, mem, metaVars, drain>>

(* the test passes if the surface shows a gradient *)
Verify ==
  /\ Call("verify")
  /\ IF mem[<<"surface", 0>>] = Blank THEN GiveUp("mismatch") ELSE Advance(0)
  /\ UNCHANGED <<progVars, node, viv, mem, metaVars, drain>>

-----------------------------------------------------------------------------
(* The camera's side. *)

OpenViv ==
  /\ Call("openViv") /\ viv' = [ClosedViv EXCEPT !.open = TRUE] /\ Advance(0)
  /\ UNCHANGED <<progVars, node, mem, metaVars, drain>>

(* vpipe-capture-userptr insists on all its buffers *)
RequestViv ==
  /\ \/ Call("mapViv") /\ \E g \in 2 .. N : viv' = [viv EXCEPT !.n = g]
     \/ Call("reqUser") /\ viv' = [viv EXCEPT !.n = N]
  /\ Advance(0)
  /\ UNCHANGED <<progVars, node, mem, metaVars, drain>>

Injective(f) == \A a, b \in DOMAIN f : f[a] = f[b] => a = b

(* one region each, no matter which *)
MapSlots ==
  /\ Call("mapSlots") /\ Advance(0)
  /\ slot' = [slot EXCEPT !.addr =
                 CHOOSE f \in [Idx -> Addrs] : Injective(f)]
  /\ UNCHANGED <<cur, stamp, node, viv, mem, metaVars, drain>>

(* QBUF of the slots in is, in order.  vb2 pins the pages unless the       *)
(* address is the one it has pinned for that slot.                         *)
QueueViv(is, warm) ==
  /\ viv' = [viv EXCEPT !.qbufs = @ + Len(is),
       !.q = @ \o [k \in DOMAIN is |->
                     [idx |-> is[k], id |-> <<0, viv.qbufs + k - 1>>,
                      addr |-> slot.addr[is[k]], seq |-> Blank]]]
  /\ stamp' = [s \in Idx |->
       IF CameraOnly /\ \E k \in DOMAIN is : is[k] = s
       THEN <<0, viv.qbufs + (CHOOSE k \in DOMAIN is : is[k] = s) - 1>>
       ELSE stamp[s]]
  /\ slot' = [slot EXCEPT
       !.pin = [s \in Idx |-> IF \E k \in DOMAIN is : is[k] = s
                              THEN slot.addr[s] ELSE @[s]],
       !.faults = [s \in Idx |-> IF \E k \in DOMAIN is : is[k] = s
                     THEN ~warm /\ slot.pin[s] # slot.addr[s] ELSE @[s]]]
  /\ UNCHANGED <<cur, node, mem, metaVars, drain>>

QueueSlots == Call("qVivs") /\ Advance(0) /\ QueueViv([k \in 1 .. N |-> k - 1], TRUE)
RequeueViv == Call("qViv") /\ Advance(0) /\ QueueViv(<<cur.viv.idx>>, FALSE)

StreamOnViv ==
  /\ Call("onViv") /\ viv' = [viv EXCEPT !.on = TRUE] /\ Advance(0)
  /\ UNCHANGED <<progVars, node, mem, metaVars, drain>>

DequeueViv ==
  /\ Call("dqViv") /\ viv.done # << >>
  /\ cur' = [cur EXCEPT !.viv = Head(viv.done)]
  /\ viv' = [viv EXCEPT !.done = Tail(@)]
  /\ Advance(0)
  /\ UNCHANGED <<stamp, slot, node, mem, metaVars, drain>>

(* Plausible bug: the old region is unmapped before the new one is mapped. *)
FreeAddrsEarly(s) == Addrs \ {slot.addr[t] : t \in Idx \ {s}}

(* where mmap may put the new region: the old one is still mapped *)
FreeAddrs(s) == Addrs \ {slot.addr[t] : t \in Idx}

(* reset mode: a new region for the slot, then the old one is unmapped *)
Remap ==
  /\ Call("remap")
  /\ \E a \in FreeAddrs(cur.viv.idx) :
       IF a = slot.addr[cur.viv.idx]
       THEN GiveUp("refused") /\ UNCHANGED slot
       ELSE Advance(0) /\ slot' = [slot EXCEPT !.addr[cur.viv.idx] = a]
  /\ UNCHANGED <<cur, stamp, node, viv, mem, metaVars, drain>>

-----------------------------------------------------------------------------
(* Cleanup; process exit closes what is left open. *)

StopOutput ==
  /\ At("offOut") /\ Advance(0)
  /\ node' = [node EXCEPT !.on = @ \ {"OUT"}, !.outQ = << >>, !.outDone = << >>]
  /\ UNCHANGED <<progVars, viv, mem, metaVars, drain>>

StopCapture ==
  /\ At("offCap") /\ Advance(0)
  /\ Finish(DOMAIN node.capDone)
  /\ node' = [node EXCEPT !.on = @ \ {"CAP"}, !.capQ = << >>, !.capDone = << >>]
  /\ UNCHANGED <<progVars, viv, mem, meta, errs, rate, drain>>

StopViv ==
  /\ At("offViv") /\ Advance(0)
  /\ viv' = [viv EXCEPT !.on = FALSE, !.q = << >>, !.done = << >>]
  /\ UNCHANGED <<progVars, node, mem, metaVars, drain>>

CloseMeta ==
  /\ At("closeMeta") /\ meta' = [meta EXCEPT !.open = FALSE] /\ Advance(0)
  /\ UNCHANGED <<progVars, node, viv, mem, log, errs, rate, drain>>

(* The end of a run; a process that was killed begins no second.           *)
(* bench_vpipe.sh kills vpipe-meta-drain if the capture tool failed, and   *)
(* waits for it otherwise.                                                 *)
NextRun ==
  /\ me' = IF Len(me.runs) > 1 /\ me.why # "killed"
           THEN [me EXCEPT !.runs = Tail(@), !.pc = <<"setup", 1>>,
                   !.sent = 0, !.i = 0, !.why = "none"]
           ELSE [me EXCEPT !.runs = << >>]
  /\ errs' = IF Len(me.runs) > 1 /\ me.why # "killed" THEN 0 ELSE errs
  /\ cur' = Fresh
  /\ stamp' = [s \in Idx |-> NoId]
  /\ drain' = [drain EXCEPT !.state =
       IF me.why # "none" /\ @ = "reading" THEN "killed" ELSE @]

Close ==
  /\ At("close")
  /\ node' = ClosedNode /\ Finish(DOMAIN node.capDone)
  /\ IF me.pc[2] = Len(Body) THEN NextRun
     ELSE Advance(0) /\ UNCHANGED <<cur, stamp, drain, errs>>
  /\ UNCHANGED <<slot, viv, mem, meta, rate>>

CloseViv ==
  /\ At("closeViv")
  /\ viv' = ClosedViv /\ NextRun
  /\ UNCHANGED <<slot, node, mem, log, meta, rate>>

-----------------------------------------------------------------------------
(* The devices' own steps, and vpipe-meta-drain. *)

(* One job.  A buffer that cannot be mapped fails it: only imported memory. *)
RunJob ==
  /\ node.on = {"OUT", "CAP"} /\ node.outQ # << >> /\ node.capQ # << >>
  /\ LET in == Head(node.outQ) IN
       \E err \in BOOLEAN :
         /\ err => in.cell[1] # "own" /\ errs < MaxErrors
         /\ node' = [node EXCEPT !.outQ = Tail(@), !.capQ = Tail(@),
              !.outDone = Append(@, [idx |-> in.idx]),
              !.capDone = Append(@, [idx |-> Head(node.capQ), id |-> in.id,
                            seq |-> in.seq, dropped |-> in.dropped, err |-> err,
                            pixels |-> IF err THEN Blank ELSE mem[in.cell]])]
         /\ errs' = errs + (IF err THEN 1 ELSE 0)
  /\ UNCHANGED <<me, progVars, viv, mem, log, meta, rate, drain>>

VividFill ==
  /\ viv.on /\ viv.q # << >>
  /\ LET s == <<"camera", 0, viv.seq>> IN
       /\ mem' = [mem EXCEPT ![<<"viv", Head(viv.q).idx>>] = s]
       /\ viv' = [viv EXCEPT !.seq = @ + 1, !.q = Tail(@),
                    !.done = Append(@, [Head(viv.q) EXCEPT !.seq = s])]
  /\ UNCHANGED <<me, progVars, node, metaVars, drain>>

(* A frame nobody gets.  Only the number of the next frame filled tells,   *)
(* so it may as well be skipped when that one has its buffer.              *)
VividSkip ==
  /\ viv.on /\ viv.q # << >> /\ viv.skips < MaxSkips
  /\ viv' = [viv EXCEPT !.seq = @ + 1, !.skips = @ + 1]
  /\ UNCHANGED <<me, progVars, node, mem, metaVars, drain>>

Foreign(rows) == {k \in DOMAIN rows : ~rows[k].own}

(* another context's frame, while somebody reads rows *)
PublishForeign ==
  /\ meta.open \/ drain.state = "reading"
  /\ Cardinality(Foreign(log)) < MaxForeign
  /\ log' = Append(log, NoRow)
  /\ UNCHANGED <<me, progVars, node, viv, mem, meta, errs, rate, drain>>

(* bench_vpipe.sh starts the capture tool once the CSV file is there *)
DrainOpen ==
  /\ drain.state = "starting"
  /\ drain' = [drain EXCEPT !.state = "reading", !.from = Len(log)]
  /\ UNCHANGED <<me, progVars, node, viv, mem, metaVars>>

DrainFails ==
  /\ drain.state = "starting"
  /\ drain' = [drain EXCEPT !.state = "killed"]
  /\ me' = [me EXCEPT !.runs = << >>, !.pc = <<"cleanup", 1>>]
  /\ UNCHANGED <<progVars, node, viv, mem, metaVars>>

DrainRead ==
  /\ drain.state = "reading" /\ drain.from + drain.got < Len(log)
  /\ drain' = [drain EXCEPT !.got = @ + 1,
                 !.state = IF drain.got + 1 = Frames THEN "done" ELSE @]
  /\ UNCHANGED <<me, progVars, node, viv, mem, metaVars>>

-----------------------------------------------------------------------------

Program ==
  \/ OpenNode \/ Plain \/ SetFormat \/ RequestBuffers \/ FillHeap \/ OpenMeta
  \/ QueueCaptures \/ StreamOn \/ Export \/ Submit \/ SubmitNone \/ SetSequence
  \/ DequeueCapture \/ DequeueOutput \/ ReadMeta \/ WriteRow \/ RequeueCapture
  \/ Verify \/ OpenViv \/ RequestViv \/ MapSlots \/ QueueSlots \/ RequeueViv
  \/ StreamOnViv \/ DequeueViv \/ Remap \/ StopOutput \/ StopCapture \/ StopViv
  \/ CloseMeta \/ Close \/ CloseViv \/ Refused
  \/ Crashes

Next ==
  \/ Program \/ Fails \/ Killed \/ RunJob \/ VividFill \/ VividSkip \/ PublishForeign
  \/ DrainOpen \/ DrainFails \/ DrainRead

(* A call that can return does, but no call is assumed to fail; the node   *)
(* runs its jobs (JobsComplete of M2M), the camera fills buffers, the      *)
(* drain reads.                                                            *)
Fairness ==
  /\ WF_vars(Program) /\ WF_vars(RunJob) /\ WF_vars(VividFill)
  /\ WF_vars(DrainOpen \/ DrainFails) /\ WF_vars(DrainRead)

Spec == Init /\ [][Next]_vars /\ Fairness

-----------------------------------------------------------------------------
(* Properties. *)

Ids == (0 .. 2) \X Nat
Pixels == {"blank", "fixture", "frame", "camera"} \X Nat \X Nat
Rows == [own : BOOLEAN, id : Ids, dropped : BOOLEAN]

(* Type correctness: queues hold indices of the arrays the tools keep,     *)
(* counters stay within the frames asked for, cursors within the rows.     *)
TypeOK ==
  /\ me.sent \in 0 .. Frames /\ me.i \in 0 .. Frames
  /\ me.why \in {"none", "error", "refused", "mismatch", "killed"}
  /\ stamp \in [Idx -> Ids]
  /\ slot \in [addr : [Idx -> Addrs \cup {0}], pin : [Idx -> Addrs \cup {0}],
               faults : [Idx -> BOOLEAN]]
  /\ mem \in [{"own", "viv", "heap", "surface"} \X Idx -> Pixels]
  /\ node.on \subseteq {"OUT", "CAP"} /\ node.size \in {1, 2}
  /\ \A q \in {"OUT", "CAP"} : node.n[q] \in 0 .. N
  /\ Held(node.outQ, node.outDone) \subseteq Idx
  /\ \A k \in DOMAIN node.capQ : node.capQ[k] \in Idx
  /\ Held(<< >>, node.capDone) \subseteq Idx
  /\ Held(viv.q, viv.done) \subseteq Idx
  /\ log \in Seq(Rows) /\ meta.pos \in 0 .. Len(log)
  /\ drain.from + drain.got \in 0 .. Len(log) /\ errs \in 0 .. MaxErrors

(* REQBUFS gave the program fewer buffers than it asked for. *)
Short ==
  \/ node.n.CAP \in 1 .. N - 1 \/ viv.n \in 1 .. N - 1
  \/ (Prog.mem = "own" /\ node.n.OUT \in 1 .. N - 1)

(* The order in which the tools call the devices is one the devices        *)
(* accept: formats before buffers, the export after the source has been    *)
(* started, no index queued that is still in a queue, no collision of a    *)
(* new USERPTR region with the old one.  Only a REQBUFS that granted less  *)
(* than asked makes a later QBUF fail.                                     *)
NeverRefused == [][me.why = "none" /\ me'.why = "refused" => Short]_vars

(* vpipe_device_run takes width and height from the context, which S_FMT   *)
(* on either queue changes under buffers of the other: in the order the    *)
(* tools use, a job's buffers are as large as the frame it processes.      *)
JobFits ==
  node.on = {"OUT", "CAP"} /\ node.outQ # << >> /\ node.capQ # << >>
    => node.plane.OUT >= node.size /\ node.plane.CAP >= node.size

(* A line of the CSV file takes its latency from the QBUF that submitted   *)
(* the buffer it describes, with qbuf_ring reused modulo the queue depth   *)
(* and with records per index; and in vpipe-capture-userptr its fault      *)
(* count is that of the same QBUF: a full pin in reset mode, none else.    *)
RecordsOfTransit ==
  At("row") =>
    /\ BothDevices \/ LineStamp = IF CameraOnly THEN cur.viv.id ELSE cur.cap.id
    /\ CameraOnly /\ cur.viv.id[2] >= N
         => slot.faults[cur.viv.idx] = (Head(me.runs) = "userptrReset")

(* The pixels in the CAPTURE buffer that a line describes are those of its *)
(* frame, although zero-copy memory is written again by the camera or by   *)
(* the next frame; and a published row names by src_v4l2_sequence the      *)
(* camera's frame its pixels come from.  Frames that were dropped or whose *)
(* job failed show no new pixels.                                          *)
PixelsOfFrame ==
  /\ At("row") /\ ~CameraOnly
       => cur.cap.err \/ cur.cap.dropped \/ cur.cap.pixels = Wanted(me.i)
  /\ \A k \in DOMAIN node.capDone : LET b == node.capDone[k] IN
       b.seq # Blank => b.err \/ b.pixels = b.seq

(* What the node shows of its queues and of its rows. *)
OutShown == [k \in DOMAIN node.outQ |->
               [idx |-> node.outQ[k].idx, frame |-> node.outQ[k].id]]
OutDoneShown == [k \in DOMAIN node.outDone |-> node.outDone[k].idx]
CapShown == [k \in DOMAIN node.capDone |->
               [idx |-> node.capDone[k].idx,
                frame |-> IF node.capDone[k].err THEN NoId ELSE node.capDone[k].id]]
OwnRows == {k \in DOMAIN log : log[k].own}
RowsShown == [k \in OwnRows |-> log[k].id]
Device == INSTANCE Node WITH
  Index <- Idx, Frame <- (1 .. 2) \X (0 .. Frames - 1), NoFrame <- NoId,
  on <- node.on, outQ <- OutShown, capQ <- node.capQ, outDone <- OutDoneShown,
  capDone <- CapShown, rows <- RowsShown

(* The node these programs are run against is the node that M2M was shown  *)
(* to be: every call of a tool, every failure of one and every job has     *)
(* exactly the effect Node allows it, across both runs of --compare.       *)
UsesNode == Device!Spec

Undisturbed(from) ==
  errs = 0 /\ \A k \in from + 1 .. Len(log) : log[k].own

(* The runner counts: the k-th row it reads is taken for the k-th frame.   *)
(* That is right, and no frame it has read the row of is verified although *)
(* dropped, as long as no other context publishes and no job fails; and    *)
(* whatever happens it is never given a row of its earlier run.  (Without  *)
(* the metadata device it cannot tell which frames were dropped and        *)
(* verifies them all.)  Likewise vpipe-meta-drain records exactly the rows *)
(* of the capture it runs beside.                                          *)
RowOfFrame ==
  /\ At("row") /\ cur.read =>
       /\ cur.row.own => cur.row.id[1] = Len(me.runs)
       /\ Undisturbed(meta.from)
            => cur.row.id = cur.cap.id /\ ~(Verifies /\ cur.cap.dropped)
  /\ drain.state = "done" /\ Undisturbed(drain.from)
       => \A k \in 1 .. Frames : log[drain.from + k].id = <<1, k - 1>>

(* The runner opens the metadata device before frames flow, to capture     *)
(* exactly the entries of its run: every row it reads is of its own        *)
(* context.                                                                *)
OwnEntries == cur.read => cur.row.own

(* A tool that comes to its end, through its loop or through the cleanup   *)
(* after any failing call, has stopped OUTPUT when it closes the node:     *)
(* vpipe_release would use the source it has just destroyed.  Only         *)
(* vpipe-fixture-feed never stops it, and a tool that a signal ends has no *)
(* chance to.                                                              *)
StopsBeforeClose ==
  [][node.open /\ ~node'.open /\ "OUT" \in node.on
       => Head(me.runs) = "fixtureFeed" \/ me.why = "killed"]_vars

Ended == Exited /\ drain.state \in {"none", "done", "killed"}

(* A failed job publishes no row, and who waits for rows waits forever. *)
Starved ==
  /\ errs > 0
  /\ \/ ~Exited /\ At("readMeta") /\ meta.open /\ meta.pos = Len(log)
     \/ Exited /\ drain.state = "reading"

(* Every tool ends, after any failure too, and so does bench_vpipe.sh with *)
(* its drain: no loop waits for a buffer that nobody will return.  The one *)
(* exception is a reader of rows after a job has failed.                   *)
ToolEnds == <>[](Ended \/ Starved)
=============================================================================
