# Formal models of vpipe

vpipe is a Linux V4L2 mem2mem module (`kmod/`) that thresholds grey frames and
publishes a metadata row per frame on `/dev/vpipe-meta`, with userspace tools
(`user/`) that feed it, correlate frames with rows and compare its output with
a reference. This directory holds TLA+ models of it, the TLC runs that check
them and TLAPS proofs. `PROJECT.json` lists components, runs, mutants, the map
from definitions to source lines, findings, hazards and theorems.

To check: `tlc -workers 2 -config MetaRing.cfg MCMetaRing` (and likewise for the
other runs), and `tlapm` on `MetaRingProofs.tla`, `M2MProofs.tla`,
`NodeProofs.tla`, `SourceProofs.tla`, `ToolsProofs.tla`, `ToolsNodeProofs.tla`,
`ToolsFrameProofs.tla` and `TinyCVProofs.tla`.

## Inventory

| component | state | operations | hard part | what makes it correct |
|---|---|---|---|---|
| metadata device, `kmod/vpipe-meta.c` | global ring, head, two counters, dying flag; a cursor per open file | publish, open, release, read, poll, ioctl, init, exit | head is bumped before the slot is filled; wait condition, open and statistics read without the lock; `tail++` without the lock; reader slower than the ring; failing `copy_to_user`; unload and failed init | the ring is the window of the newest rows; a reader gets published rows in order, is told about gaps, is never left sleeping |
| mem2mem node, `kmod/vpipe-m2m.c` | per context: controls, formats, source, two vb2 queues; per device: frame number, current job | open, release, S_FMT, REQBUFS, QBUF, DQBUF, STREAMON/OFF, S_CTRL, SET_BACKEND, EXPORT, device_run, job_abort | device_run runs in an ioctl or in the work item, in parallel with ioctls; buffers queued before STREAMON; STREAMOFF and close at any time; job errors | a frame is processed once, with its own controls and pair of buffers; one row per frame; no job lost |
| Tiny CV, `kmod/vpipe-cv.c` | none | process: clamp, copy, threshold | region arithmetic at the edges | stays inside the frame, equals the userspace mirror |
| source framework and backends, `kmod/vpipe-source.c`, `-fixture.c`, `-synthetic.c`, `-vcam.c` | backend table; per source: sequence, private state; vcam: a reference-counted framebuffer | register, create, destroy, start, stop, reset, next_frame, export_dmabuf | framebuffer shared with exported DMA-BUFs that outlive the stream; calls on a source not started | no use after the last reference, drop cadence, sequence without gaps |
| runner, capture, feed and benchmark tools, `user/vpipe-*.c` | position, frames submitted and completed, time stamps by slot, indices in flight | set-up, fill loop, frame loop, verification, cleanup | any call fails and jumps to one cleanup; a signal ends a program without it; records reused modulo the queue depth; memory shared with the camera; failed jobs and other contexts' rows shift the row count; fewer buffers granted than asked for | a line of the CSV file describes one frame; no call is refused; the program ends, and unless it is killed stops the queues first |
| `user/vpipe-meta-drain.c` under `scripts/bench_vpipe.sh` | rows read | open, read, exit | started beside a capture, killed when it fails | it records the rows of that capture |
| reference and file helpers, `user/vpipe-common.c` | none | threshold reference, CRC, PGM, CSV | agreement with the kernel | see Tiny CV |
| scripts, CI, unit test | none | offline | - | - |

Interaction: userspace calls the node's ioctls; `buf_queue` calls the source;
`device_run` calls Tiny CV and leaves the row in the CAPTURE buffer;
`buf_finish` (DQBUF, STREAMOFF, close) calls `vpipe_meta_publish`; tools read
the rows through their own descriptor of the metadata device; the capture tools
pass a camera's (vivid's) buffers on to the node. Everything that
ioctls do serialises on `dev_lock`; the framework's work item, publishers and
readers of the metadata device do not take it.

## Modules

`MetaStream` is the contract of a metadata reader: rows are appended; a file
receives rows in order from the position it was opened at; a row may be
skipped only if the delivered row is flagged.

`MetaRing` is `vpipe-meta.c`. A publish is four steps (lock and bump head, fill
the slot, update the drop count and unlock, wake), a read is the code's
sequence of wait, locked section, copy and the load and store of `tail++`.
`log`, `expect`, `out` and the `at` field of an entry are history. `phase` is
the module's life: the node exists while `vpipe_init` is still running, and its
error path runs `vpipe_meta_exit` with files possibly open, whereas a normal
unload needs them closed. Short reads (-EINVAL) and the QUERY ioctl touch no
state. `FileOf` says which thread reads which file; `MayFault` which threads
pass bad pointers.

`M2M` is `vpipe-m2m.c` with the parts of videobuf2 and of the mem2mem framework
it relies on; those are marked external in the map and are modelled from how
the driver uses them (`try_queue`, `try_run`, `job_finish`, `queue_cancel`,
the DONE list, buf_done being ignored for a buffer vb2 has taken back). The
action of an ioctl is the whole ioctl up to the point where `try_run` enters
`device_run`, which then is four steps of the executor "ioctl" (dev_lock held)
or "worker". Two places are coarser than the code: the two buf_done calls at the
end of `device_run` are one step, as no property tells them apart; and a close,
which does not take dev_lock, is one step, so the rows it publishes are next to
each other, whereas a DQBUF of another file could publish in between. `q[c][t].queued` are buffers waiting for STREAMON, `ready` the
mem2mem ready list, `owned` the ACTIVE buffers, `done` the done list. The
controls of a frame are one value and so is the backend stamped on it. An empty
ready list at the removal step yields NULL in the code; the model's run then is
at "oops". `Allow` lists what the environment may do (see `Liberties`).
A buffer that is back with the program loses its stamp in the model, because
`buf_queue` overwrites it before anyone reads it again, except while a job
still looks at it.

`Node` is the contract of one open file of the node, whoever else uses the
device: two FIFO queues; a job takes the oldest buffer of each while both
stream; the frame's row is published when its CAPTURE buffer leaves the queue,
in the order of DQBUF, or of the index when the queue is stopped; a failed job
has no row. `M2M` implements it for each of its files (`ImplementsNode`), and
the model the tools are run against conforms to it (`UsesNode`). A file's rows
are a function from places in the metadata stream, which other files share.
Apart from its inputs, from whether a job fails and from how many places other
files took meanwhile, each of its actions has one outcome; so `UsesNode` says
that each call of a tool has the effect that `M2M` is proved to have. In the
mapping (`File`) a job happens when it gives its buffers back: a buffer that
device_run has removed from the ready list is still the first one waiting.

`TinyCV` is one call of `vpipe_cv_process`, row by row and pixel by pixel, and
the mirror `vpipe_threshold_reference` as an operator. Strides are layout and
are left out. Integers are mathematical: the kernel widens the additions in the
clamp to s64 and all later values are bounded by the frame. So the runs and the
proofs cover regions that begin or end beyond the frame, but would not show an
overflow of 32 bits.

`Source` is `vpipe-source.c`, the three backends and the node's calls to them:
STREAMON starts a source (after `buf_queue` has asked it for the waiting
buffer's frame), QBUF asks it for a frame, STREAMOFF, SET_BACKEND and close stop
it. `fb[f].refs` is the framebuffer's kref; the stream, each live DMA-BUF and an
export under way hold one. Framebuffers and DMA-BUFs get a new identity each
time so that a use of a freed one shows (`bad`). An export is two steps
(`kref_get`; then descriptor or failure) between which importers, who do not
take `dev_lock`, may map, unmap and close. Close is two steps as well: the
source is destroyed first, the queues are released afterwards. S_FMT copies its
size to the other queue, so one `size` stands for both; `out` and `cap` are the
plane sizes the buffers were allocated with. A frame is its drop flag, the
pattern drawn and the number of bytes; `frames` is history. `prep` says that
PREPARE_BUF has prepared OUTPUT buffers: videobuf2 does not call `buf_prepare`
for such a buffer again at QBUF. No tool uses PREPARE_BUF, but the node offers
it. The buffers of a queue have one size; CREATE_BUFS, which could add larger
ones, is left out, as the check it would have to pass is made buffer by buffer.
A file may be closed at any moment, streaming or not. `vpipe_source_reset` has no caller.

`Tools` is the programs of `user/` with the devices they drive. A program is
data: the sequences of calls of its set-up, its frame loop, what follows the
loop, and its cleanup (`RunSetup`, `CaptureM2MLoop`, ...). `me.pc` is the
position; the runner's fill loop is a phase of its own. What a call does is one
action, the same for all programs; a loop that queues all buffers at the start
is one action because nothing streams yet. `Refused` is a call the device
rejects in its present state (`Accepts`), `Fails` one that fails for any other
reason; both go to the cleanup. `Killed` is a signal from outside (SIGINT, or the
pkill of `scripts/check.sh`) at any moment until a call has failed, its own cleanup included
(in the cleanup after a failure it would change nothing but who closes the files), and
`Crashes` is the fixture mode of the runner, which draws into the mapping of a
buffer before its QBUF and has none for a buffer that REQBUFS did not grant. No
tool handles a signal, so all that follows is what the kernel does: its files
are closed (`Dies`), STREAMOFF is not called. The order in which it closes the
node, the camera and the metadata device makes no difference to the model,
where they share nothing. The node is seen from outside, as in `Node`,
with what the tools depend on besides: the size set by S_FMT against the size
the buffers were allocated with, the sequence control, and for each frame the
memory that backs it. A time stamp is the identity of the QBUF it was taken at
and pixels are the identity of the frame drawn, so that a record or a pixel of
another frame shows. `mem` has a cell for each buffer of the node, of the
camera and of the heap, and one for the exported surface. vivid fills the
oldest buffer queued and may skip a frame number. Only jobs on imported memory
can fail (the others have a mapping by construction). `PublishForeign` is a row of another context.
`Mains` are the command lines: every program, the runner with each source and
kind of buffer, and `--compare`, which makes two runs in one process.

`MCMetaRing`, `MCM2M`, `MCSource`, `MCTools` and `MCTinyCV` hold the instances;
`MetaRingProofs`, `M2MProofs`, `NodeProofs`, `SourceProofs`, `ToolsProofs`,
`ToolsNodeProofs`, `ToolsFrameProofs` and `TinyCVProofs` the theorems.

## Runs

| run | bounds | shows |
|---|---|---|
| `meta` | ring of 2, 4 rows, 1 publisher, 2 readers with own files, one may fault | all properties of the metadata device, the wake-up liveness and the refinement of `MetaStream` |
| `meta_shared` (violation) | ring of 3, 2 rows, 2 threads on one file | `tail++` is lost-update and double-step prone: an unwritten slot is delivered |
| `meta_fault` (violation) | ring of 2, 3 rows, one faulting reader | the overrun mark is lost when the copy fails |
| `m2m` | 1 context, 2 buffers a queue, 2 frames, 1 control change, both backends, failing jobs and starts | controls, producers, pairs, buffers, progress, and the refinement of `Node` (order, one row per frame) |
| `m2m_shared` | 2 contexts, 1 buffer a queue, 2 frames, failing jobs | row numbers, progress and the refinement of `Node` for contexts that run each other's jobs |
| `m2m_stop_race` (violation) | 1 context, STREAMOFF and close allowed while the worker runs its job | job_abort ends a job that is still computed |
| `m2m_prequeue` (violation) | 1 context, 1 control change | the snapshot of a frame queued before STREAMON is taken at STREAMON |
| `source` | 1 context, 2 framebuffers, 2 exports with a mapping each, 3 frames a stream, 2 sizes around a page, drop every 2nd frame or none | references, no use of a freed framebuffer, started exactly while streaming, frames inside their surface and the buffer that QBUF measured, cadence, what importers see |
| `source_close` (violation) | 1 context, 1 frame, no exports | the source of a file closed while streaming is freed before it is stopped |
| `tools` | every program; 3 buffers a queue, 4 frames, drop every frame or every 3rd, 1 failing job, 1 row of another context, 1 skipped camera frame, any call failing, a signal at any moment before that | records and pixels belong to the frame a line names, rows to the frames counted, no refused call, job inside its buffers, OUTPUT stopped before close unless killed, every program ends, the node is `Node` |
| `tools_shared` (violation) | 2 buffers, 2 frames, 1 row of another context | the runner takes that row for one of its own |
| `cv` | 3 x 2 frame, 300 regions, 2 images, 2 thresholds, 3 algorithms | inside the frame, equal to the mirror, counts right |

Why the bounds are enough: a ring of 2 wraps twice in 4 rows, so a reader can be
overrun, caught up and overrun again, and the two readers can be at any
distance. Two frames with two buffers suffice for a frame to wait behind
another, for a buffer to be queued again, and for a failed job to be followed
by a good one; the queues may be stopped and restarted any number of times. Two
contexts are enough for one's ioctl to run the other's job. Sources of different contexts share
nothing but `dev_lock`, so one context is enough for `source`; two framebuffers
let an importer hold the surface of an earlier stream, three frames contain two
windows of the drop rate, and of the two sizes one needs a larger surface. In
`tools` four frames with three buffers reuse every kind of index once (the ring
of time stamps, `i % BUFFER_COUNT`, the camera's buffers); three buffers leave
REQBUFS a grant of two, which is short and still works. A drop rate of 1 leaves
the exported surface blank, so that the DMA-BUF test fails its verification and
its failure path is taken; a rate of 3 has frames drawn one after the other
between two that are dropped. One address more than there are slots is the least
that lets the reset mode of `vpipe-capture-userptr` map before it unmaps. The
regions of `cv` start before, inside, at and beyond each edge, and are empty, inside or larger.

Deadlock is checked in the mem2mem and source runs (the program can always go on). The
metadata runs switch it off because the module may be unloaded, the runs of
`Tools` because programs exit (that they do is `ToolEnds`), `cv` because the call returns.

In the passing mem2mem runs the program stops a queue or closes its file only
while no job of that context is running (no "StopWhileRunning"), and answers a
failed STREAMON with STREAMOFF or close, not with a second STREAMON or REQBUFS
(no "RetryStreamOn"). The first is what `m2m_stop_race` drops. Without the
second the ready list, which start_streaming leaves filled, would get the same
buffers twice. That is a defect, but not one a run can show: adding a list entry
twice is undefined, and no line of the repository claims that a failed STREAMON
may be repeated. In `source` the program may do anything at any moment. If it
closes while OUTPUT streams, `vpipe_release` has freed the source when
`v4l2_m2m_ctx_release` calls `stop_streaming`: that is `source_close`. The tools
reach it when they are killed or crash, and `vpipe-fixture-feed` whenever it
ends; the others never do (`StopsBeforeClose`). The model records that use of
freed memory and goes on as if it had no effect; `source` then shows what the
rest of the code gets right even so, the framebuffer's references above all. The
two backends drop different frames for the same
parameter (synthetic the N-th, 2N-th, ...; vcam-derived the first, (N+1)-th,
...), which the cadence property allows.

Four exceptions are written into the properties of `Tools`. `Short`: where
REQBUFS grants fewer buffers than asked for, the tools that queue BUFFER_COUNT
of them are refused later and clean up, but for the runner in its fixture mode,
which takes a SIGSEGV if it is OUTPUT that is short (`Crashes`). A tool that a
signal ended closes the node as it is, and so does `vpipe-fixture-feed`
(`StopsBeforeClose`). `Starved`: a failed job publishes no
row, and the runner, or the drain, that counts on one row a frame then waits in
`read` until somebody publishes. `RowOfFrame` holds while no job has
failed and no other context has published; that a row is never taken from an
earlier run holds always. Without the metadata device the runner cannot know
which frames were dropped and verifies them all; the property speaks of the
frames it has read a row for.

Fairness. `MetaRing`: a publish and the end of `vpipe_meta_exit` are
straight-line kernel code (weak fairness); a read's own steps get strong
fairness because the spinlock it needs is taken and released by publishers
forever, and the kernel's queued spinlocks are granted in order. Opening,
calling read, publishing and signals are not assumed. `M2M`: the work queue
runs scheduled work and a device_run that was entered goes on (weak fairness);
nothing is assumed of the program. `Tools`: a program goes on when its call can
return, but no call is assumed to fail and no signal to come; the node runs its jobs, which is
`JobsComplete` of `M2M`; the camera fills queued buffers; the drain is
scheduled. A row of another context is not assumed.

## What is proved

Every invariant of the passing runs and both refinements of `Node` are theorems,
for all values of the constants that the named assumptions of their modules
allow. Each proof module has the same plan: an inductive invariant in named
parts, one lemma per action (or per group of actions that leave the same state
alone), lemmas about the operators on queues, references or loops that those
need, and the theorems.

`MetaRingProofs` holds for every ring size greater than 0 and any sets of rows,
publishers, threads and files. `TypeCorrect` needs the side invariant that
copy_to_user is reached only with an entry taken. `RingWindowHolds` strengthens
RingWindow, which speaks of the moments the lock is free, to `IndRing`, which
adds what the holder of the lock has already done; its core is that two
positions less than a ring apart never share a slot. `StatsWithinRingHolds`
follows from it: the drop count never falls and lags by one publish at most.
The reader theorems (`DeliveredWasPublishedHolds`, `WaitStaysTrueHolds`,
`SkipsOnlyOverwrittenHolds`, `RefinesStream`) assume `Exclusive`, one thread per
file: `meta_shared` shows it is needed. They rest on `IndInv`, which says for
each step of a read where the cursor may stand relative to what the file was
given, and on the fact that head and the window only grow. `RefinesStream`
covers the files whose reads get valid buffers: `meta_fault` shows why.

`M2MProofs` holds for any number of files, any finite set of buffer indices, any
controls, frames and control changes, under `Orderly`: no program stops or
closes a context while the worker runs a job of it, and none repeats a failed
STREAMON without STREAMOFF. These are the two liberties the passing runs leave
out, and `m2m_stop_race` shows that the first is needed. The invariant has five
parts, each built on the ones before:

- `Shape`: types; a queued or current job is that of a context whose queues both
  stream (`Jobs`); one device_run at a time, that of the current job, and what
  it picked is still at the head of both ready lists (`Runs`); each buffer of a
  queue in one place (`Owners`). `BufferOwnership` and half of `PairStable` are
  consequences. Without `Jobs` the pair of a run could be taken by STREAMOFF.
- `Stamps`: the stamp of a buffer queued while streaming is that of its QBUF, and
  the run's history agrees with the buffer it picked: `QueuedControlsUsed`,
  `ProducerPaired`, `PairStable`.
- `Once`: the frames of rows and of waiting buffers are pairwise different.
- `Kept`: a pending row is in a buffer on the done list.
- `Numbered`: the numbers 1 .. sequence are those of the rows, one each.
  `OneRowPerFrame` follows from the last two, and `TypeOK` from all of them: that
  sequence stays within the frames queued is a pigeonhole argument over `Once`
  and `Numbered`.

`NodeProofs` proves the refinement, `RefinesNode`: under `Orderly` each step of
`M2M` is, for each file, a step of `Node` or changes nothing the file shows. It
has one lemma per action (`QBufFollows`, `RunGiveFollows`, ...) that says what
happens to the acting file and that the others stutter. It needs all the parts
above: by `Runs` the removed pair is the head of both lists, so the mapped
queues do not change when device_run takes it; by `Stamps` and `Kept` the frame
given back is that of the OUTPUT buffer at the head, and a CAPTURE buffer shows
a frame exactly while it has a row to publish; by `Once` the frames that
STREAMOFF, REQBUFS or close publish are those of the done list, each in one
place, so the order of the index in which vb2 finishes the buffers is the
contract's. One more invariant is used, `OwnRows`: a pending row is of the
context whose buffer keeps it, so what one file publishes never is a row of
another.

`SourceProofs` holds for any finite, nonempty set of contexts, any number of
framebuffers, DMA-BUFs and mappings, any sizes and drop rates, and streams of any
length. `Shape` says how files, sources, framebuffers and DMA-BUFs fit together;
`StartedWhileStreaming` and `TypeOK` are part of it. `Counts` adds that no two
streams share a framebuffer and that each count is the number of holders, which
gives `RefsCounted` and `NoFbUseAfterFree`, for programs that close when they
like: whichever of the stream, its file and the DMA-BUFs ends last frees the
framebuffer. Nothing of the kind is claimed of the source itself (`source_close`).
`PreparedFramesFit`, `DropCadence` and `SurfaceShowsLast` are proved over the frames of
one stream, whose history only grows until the stream ends; `SurfaceFrozen` is
an action property: the framebuffer of an ended stream is written by no step.

`TinyCVProofs` holds for every frame size, image, region and threshold.
`ClampsAgree` shows that the signed clamp of the kernel and the unsigned one of
the mirror yield the same region; the loop invariant says which pixels have
been visited and that the counters have counted them.
`OutputIsReferenceHolds`, `RoiInsideHolds` and `CountsCoverRoiHolds` follow.
`WhiteCountedHolds` adds that the white counter is the number of white pixels
visited, one more with each turn of the inner loop.

`ToolsProofs` holds for every number of buffers from 2 on, every number of frames
and all the bounds on what fails. What it needs of the fifteen programs is
stated once, as a plan of each call sequence (`SetupPlan`, `LoopPlan`,
`AfterPlan`, `CleanupPlan`): formats are set before buffers are requested, a
queue is started after its buffers were requested, the node is opened first but
for the camera, files are closed last, and a program without a fill loop
submits once in a turn of its loop or once before it. `ProgramPlans` shows that
every program of `Programs` has such a plan; the rest of the proof never looks
at a call sequence again. The invariant has four parts. `Types` is `TypeOK` with
the types of all fields. `Place` says where a program may stand, with how many
frames completed and submitted (`Budget`); that `me.sent` stays within the
frames asked for rests on it, and so does that a submitted frame has an identity
of this run. `Sized`: the plane size of a requested queue is the present frame
size, and nothing streams that was not requested, which gives `JobFitsHolds`.
`Stopped`: once the cleanup has called STREAMOFF of OUTPUT nothing starts it
again, and only a signal lets the program pass over that call. `StopsBeforeCloseHolds` follows with `OpenKept`, that only a close closes
the node, because every cleanup but that of `vpipe-fixture-feed` has the
STREAMOFF before the close (`StopsFirst`).

`ToolsNodeProofs` proves the second refinement, `UsesNodeHolds`. The queues that
`Node` shows are the queues of `Tools` seen through functions of their entries
(`Mapped`), which commute with appending and with taking the head. A row is
published by `Finish`, which puts the rows of all buffers given back in the
order of their index; that its order contains each of them (an increasing list
of as many places as there are is onto them) is what `PublishAll` of the
contract asks. One more invariant is needed, `Untouched`: until a program has
opened the node nothing is queued on it, so the open, which sets all of the
file's state, changes nothing the contract speaks of, in the second run of
`--compare` as in the first. With `RefinesNode` this closes the chain, `M2M` keeps the
contract and the tools are checked over nothing but the contract, as far as
`Orderly` goes: a tool that comes to the end of its loop has no job left when it
stops the queues, but one that fails, or is killed, with frames in flight may
stop or close while the worker runs one of its jobs, after a job of another
context for instance. What the node then does is `m2m_stop_race`.

`ToolsFrameProofs` follows a frame from its submission to the line of the CSV
file that describes it, for every number of buffers and frames. It does not go
through the fifteen programs: `Kind` says that each is a runner, a tool that
feeds the node from the camera, a benchmark, the feeder or a tool of the camera
alone, and what the proofs need of a kind is the order of the calls in a turn of
its loop (`Rank`) and in its set-up (`Stage`). `Ways` says that every step is a
call made (`Makes`), the end of a run by cleanup or by a signal, the start of the second run of
`--compare`, or a step of a device or of another process. The invariant has five
parts:

- `Frame1`: how many frames have been submitted and completed at each call
  (`Counters`), and with it where each frame is: the completed buffers, then the
  queued ones, hold consecutive frames, from the one the loop is at to the last
  one submitted (`Flight`). The buffers in flight, and the rows of its own
  context that the runner's reader sees, are of the present run (`Ours`,
  `MetaOk`); only a failed job leaves a failed buffer (`NoErr`).
- `Frame2`: if nothing disturbs it, the runner's reader is one row behind
  between DQBUF and read, the row of the frame dequeued, and has read all rows
  otherwise (`Pace`); the rows since vpipe-meta-drain was opened
  are those of the frames that the capture tool beside it dequeued, in order
  (`DrainState`, `DrainFlow`). `RowOfFrameHolds` follows.
- `Frame3`: which files are open (`Opened`); the times in `qbuf_ring` are those
  of the frames still in flight, which are never more than its slots (`Stamps`);
  the records per index of the camera's tools are those of the QBUF that the
  camera or the tool still holds (`VivRecords`). `RecordsOfTransitHolds`
  follows.
- `Frame4`: no buffer of the camera is queued to it while the tool or the node
  still reads it (`Apart`); a filled buffer shows the frame whose number came
  with it (`Filled`); the same of the numbers that SRC_SEQUENCE attached
  (`Numbered`); the memory of a frame in flight shows that frame, and so does
  the buffer in hand (`Shows`). What makes `Shows` inductive is `Handover`:
  wherever a program is about to draw into memory it shares (the surface, the
  heap, the camera's buffers), nothing is in flight. `PixelsOfFrameHolds`
  follows.
- `Frame5`: what the devices would refuse. Which buffers are granted and which
  queues are started follows from the calls of the set-up made so far
  (`Granted`); every job gave back one buffer of each queue, so as many OUTPUT as
  CAPTURE buffers have come back (`Balance`); no index is in a queue twice, nor
  both waiting and done (`Soles`); the index the program is about to queue is in
  neither (`Mine`), also while the runner fills its queue, when only indices
  below the next one have been used; the addresses the camera was given are
  those of the slots (`Addresses`). `Welcome` goes through the calls by the part
  of the program they stand in and shows that each is accepted, unless a REQBUFS
  granted less; `GivesReason` that nothing but a refused call ends a run as
  refused, the remapping of a USERPTR slot included. `NeverRefusedHolds` follows.

Every invariant, every action property and every refinement that the passing
runs check are thus theorems. Only model-checked is liveness (`ReadsReturn`,
`JobsComplete`, `ToolEnds`), which is out of the prover's reach.

## Findings

Each violation run is a disagreement between the code and something the
repository says of it; `PROJECT.json` quotes the lines. Three more things came
up that no run is spent on. A frame queued before STREAMON is stamped before its
backend is started, so with vcam-derived its row names none (the same order of
calls as in `m2m_prequeue`). A buffer that PREPARE_BUF prepared is not measured
again at QBUF: after a larger S_FMT on CAPTURE the backend writes beyond it,
which is the exception in `PreparedFramesFit`. And S_FMT on OUTPUT mirrors
its size onto CAPTURE even when that queue has buffers, and device_run uses it;
`JobFits` shows that no tool calls them in an order where that matters.

## Not modelled

Capability and format enumeration return constants. `vpipe-capture-read` is a
loop of `read(2)` on the camera with no state of its own. Of the tools, argument
parsing, pacing, percentiles, CRCs, and the contents of PGM and CSV files are
left out, as are the file utilities, the unit test and the offline scripts: data
conversion without state over time. A ring overrun of the runner's reader is
not part of `Tools`: it reads one row a frame, and what a slower reader sees is
the subject of `MetaRing`. 64-bit counters do not wrap in practice and are
unbounded. Memory exhaustion in open is an early return without effect.
